--------------------------- MODULE MCApiRequests ---------------------------
(* TLC instances of ApiRequests. *)
EXTENDS ApiRequests

CONSTANTS k1
=============================================================================
