------------------------------ MODULE WriteLink ------------------------------
(***************************************************************************)
(* What the Firebase client promises of the writes handed to it: they are  *)
(* kept in order until they are acknowledged, and whenever the link is up  *)
(* exactly those are under way on it, in that order.  How a link comes up, *)
(* and why it goes, is of no concern here.  Every client has such a link.  *)
(***************************************************************************)
EXTENDS Naturals, Sequences

CONSTANTS Client, Write

VARIABLES queue,  \* of each client: the writes handed over, not acknowledged
          up,     \* may they be sent?
          wire    \* those sent on the present link and not acknowledged

vars == <<queue, up, wire>>

Init == /\ queue = [c \in Client |-> <<>>]
        /\ up = [c \in Client |-> FALSE]
        /\ wire = [c \in Client |-> <<>>]

(* Some writes are handed over; they follow those already there. *)
Submit(c, writes) ==
    /\ queue' = [queue EXCEPT ![c] = @ \o writes]
    /\ wire' = [wire EXCEPT ![c] = IF up[c] THEN @ \o writes ELSE @]
    /\ UNCHANGED up

(* A new link starts with all that is outstanding. *)
EstablishWithoutResend(c) ==                                      \* mutant
    /\ ~up[c]
    /\ up' = [up EXCEPT ![c] = TRUE]
    /\ UNCHANGED <<queue, wire>>
EstablishUnsorted(c) ==                                           \* mutant
    /\ ~up[c]
    /\ up' = [up EXCEPT ![c] = TRUE]
    /\ queue' = [queue EXCEPT ![c] = [i \in 1..Len(@) |-> @[Len(@) + 1 - i]]]
    /\ wire' = [wire EXCEPT ![c] = queue'[c]]
Establish(c) ==
    /\ ~up[c]
    /\ up' = [up EXCEPT ![c] = TRUE]
    /\ wire' = [wire EXCEPT ![c] = queue[c]]
    /\ UNCHANGED queue

Lose(c) ==
    /\ up[c]
    /\ up' = [up EXCEPT ![c] = FALSE]
    /\ wire' = [wire EXCEPT ![c] = <<>>]
    /\ UNCHANGED queue

Acknowledge(c) ==
    /\ up[c] /\ wire[c] # <<>>
    /\ wire' = [wire EXCEPT ![c] = Tail(@)]
    /\ queue' = [queue EXCEPT ![c] = Tail(@)]
    /\ UNCHANGED up

(* The writes a step adds to those of c *)
Added(c) == SubSeq(queue'[c], Len(queue[c]) + 1, Len(queue'[c]))

(* A link forgets no write of its own accord. *)
Next == \E c \in Client :
           \/ queue'[c] \in Seq(Write) /\ Submit(c, Added(c))
           \/ Establish(c)
           \/ Lose(c)
           \/ Acknowledge(c)

Spec == Init /\ [][Next]_vars

(* The process that kept the writes ends, which is for others to decide:   *)
(* the only way for writes to be dropped.                                  *)
Forget(c) ==
    /\ queue' = [queue EXCEPT ![c] = <<>>]
    /\ up' = [up EXCEPT ![c] = FALSE]
    /\ wire' = [wire EXCEPT ![c] = <<>>]
=============================================================================
