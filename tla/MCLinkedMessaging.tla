-------------------------- MODULE MCLinkedMessaging --------------------------
(* LinkedMessaging on a small instance: who adds whom. *)
EXTENDS LinkedMessaging

CONSTANTS a, b

OneSide == {<<a, b>>}
=============================================================================
