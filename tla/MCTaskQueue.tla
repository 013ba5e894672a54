---------------------------- MODULE MCTaskQueue ----------------------------
(* TLC instances of TaskQueue. *)
EXTENDS TaskQueue, TLC

CONSTANTS w1, w2, c1, c2, c3

CoroutineSymmetry == Permutations({c1, c2})
=============================================================================
