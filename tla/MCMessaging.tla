----------------------------- MODULE MCMessaging -----------------------------
(* Messaging on small instances: symmetry, and who adds whom. *)
EXTENDS MessagingProps, TLC

CONSTANTS a, b

OneSide == {<<a, b>>}

Symmetry == Permutations(MsgId)
=============================================================================
