-------------------------- MODULE MCCreditAccount --------------------------
(* TLC instances of CreditAccount. *)
EXTENDS CreditAccount

CONSTANTS a, b, s1
=============================================================================
