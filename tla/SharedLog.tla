------------------------------ MODULE SharedLog ------------------------------
(***************************************************************************)
(* What the stored conversations look like to somebody who only reads the  *)
(* database: two copies of a conversation, of which the sender's leads,    *)
(* and list entries that announce nothing the owner's copy lacks.  How     *)
(* writes get there, and how often, is of no concern here.                 *)
(***************************************************************************)
CONSTANTS User, Message, Greeting, NoBox

Pair == User \X User

VARIABLES log,    \* log[<<x, y>>]: the messages x's copy holds
          entry   \* entry[<<x, y>>]: what x's list announces about y

vars == <<log, entry>>

Own(m) == <<m.from, m.to>>
Friends(m) == <<m.to, m.from>>

Init == /\ log = [p \in Pair |-> {}]
        /\ entry = [p \in Pair |-> NoBox]

(* The sender's copy takes a message. *)
Post(m) == /\ log' = [log EXCEPT ![Own(m)] = @ \cup {m}]
           /\ UNCHANGED entry

(* The friend's copy takes a message the sender's copy has. *)
Deliver(m) == /\ m \in log[Own(m)]
              /\ log' = [log EXCEPT ![Friends(m)] = @ \cup {m}]
              /\ UNCHANGED entry

(* A list announces a message its owner can read. *)
Announce(p, m) == /\ m \in log[p]
                  /\ entry' = [entry EXCEPT ![p] = m]
                  /\ UNCHANGED log

Greet(p) == /\ entry' = [entry EXCEPT ![p] = Greeting]
            /\ UNCHANGED log

Next == \/ \E m \in Message : Post(m) \/ Deliver(m)
        \/ \E p \in Pair : Greet(p) \/ \E m \in Message : Announce(p, m)

Spec == Init /\ [][Next]_vars
=============================================================================
