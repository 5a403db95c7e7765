----------------------------- MODULE Increasing -----------------------------
(***************************************************************************)
(* A finite set of numbers as the sequence that counts it upwards.  What   *)
(* is registered one after the other is kept as a sequence; those of some  *)
(* kind, in order of registration, are its elements at InOrder(S), where S *)
(* is the set of their places.                                             *)
(***************************************************************************)
EXTENDS Naturals, FiniteSets

InOrder(S) ==
    CHOOSE s \in [1..Cardinality(S) -> S] :
        \A i, j \in DOMAIN s : i < j => s[i] < s[j]
=============================================================================
