--------------------------- MODULE MCResearchJobs ---------------------------
(* TLC instances of ResearchJobs: one job, one embedded worker process. *)
EXTENDS ResearchJobs

CONSTANTS w1, c1, c2, p1, p2
=============================================================================
