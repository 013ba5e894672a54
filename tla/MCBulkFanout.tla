---------------------------- MODULE MCBulkFanout ----------------------------
(* TLC instances of BulkFanout: one bulk job, one worker process. *)
EXTENDS BulkFanout

CONSTANTS w1, c1, c2, p1
=============================================================================
