------------------------------ MODULE Picking -------------------------------
(***************************************************************************)
(* What the modules of a document's grounds take from sequences, in their  *)
(* order: the members at some of the places, and the places where a member *)
(* stands for the first time.                                              *)
(***************************************************************************)
EXTENDS Integers, Sequences, FiniteSets

Least(a, b) == IF a < b THEN a ELSE b

\* The k-th of a finite set of places, and the members of s at such places.
Nth(places, k) == CHOOSE i \in places : Cardinality({j \in places : j <= i}) = k
Picked(s, places) == [k \in 1..Cardinality(places) |-> s[Nth(places, k)]]

FirstPlaces(s) == {i \in DOMAIN s : \A k \in 1..(i - 1) : s[k] # s[i]}
=============================================================================
