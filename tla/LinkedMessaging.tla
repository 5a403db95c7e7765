--------------------------- MODULE LinkedMessaging ---------------------------
(***************************************************************************)
(* Messaging with the clients' connections taken from WriteLink, which is  *)
(* what Connection is shown to implement.  Here the server applies what is *)
(* on a user's link, in that order, and knows nothing of what the client   *)
(* keeps; whether a lost link's writes are sent again, and in what order,  *)
(* is up to WriteLink.  Messaging itself lets the server read the queue    *)
(* of outstanding writes: that it may is what ImplementsMessaging says.    *)
(***************************************************************************)
EXTENDS MessagingProps

VARIABLE wire  \* network: what is under way on each user's link

L == INSTANCE WriteLink
       WITH Client <- User, Write <- Put, queue <- outstanding, up <- connected

linkedVars == <<vars, wire>>

LinkedInit == Init /\ wire = [u \in User |-> <<>>]

(* The application hands its writes over to the link. *)
LinkedCreate(u, friend) == CreateNewChatBox(u, friend) /\ L!Submit(u, L!Added(u))
LinkedSend(u) == Send(u) /\ L!Submit(u, L!Added(u))

(* The screen, the news of others and writes of closed connections have    *)
(* nothing to do with the link.                                            *)
OffTheLink(u) ==
    /\ OpenScreen(u) \/ CloseScreen(u) \/ EntryArrives(u) \/ ServerProcessLate(u)
    /\ UNCHANGED wire

(* The server applies the next write of the link. *)
LinkedProcess(u) ==
    LET put == wire[u][processed[u] + 1]
    IN  /\ processed[u] < Len(wire[u])
        /\ Apply(put)
        /\ processed' = [processed EXCEPT ![u] = @ + 1]
        /\ cached' = IF put.kind = "chatbox" /\ put.at[1] = u
                     THEN Told(u, put.at[2], put.value) ELSE cached
        /\ UNCHANGED <<wire, outstanding, connected, screen, late, history, drops,
                       kills>>

LinkedAck(u) ==
    /\ processed[u] > 0
    /\ L!Acknowledge(u)
    /\ processed' = [processed EXCEPT ![u] = @ - 1]
    /\ UNCHANGED <<server, cached, screen, late, history, drops, kills>>

(* A link that goes may leave in the network what was sent on it. *)
LeftOfLink(u) ==
    IF LateDelivery THEN late[u] \o SubSeq(wire[u], processed[u] + 1, Len(wire[u]))
    ELSE late[u]

LinkedDisconnect(u) ==
    /\ drops < MaxDrops
    /\ L!Lose(u)
    /\ processed' = [processed EXCEPT ![u] = 0]
    /\ late' = [late EXCEPT ![u] = LeftOfLink(u)]
    /\ drops' = drops + 1
    /\ UNCHANGED <<server, cached, screen, history, kills>>

LinkedConnect(u) ==
    /\ L!Establish(u)
    /\ cached' = Listed(u)
    /\ UNCHANGED <<server, processed, screen, late, history, drops, kills>>

(* The process ends, and with it the link and all it kept. *)
LinkedKill(u) ==
    /\ kills < MaxKills
    /\ L!Forget(u)
    /\ lost' = lost \cup UnderWay(u)
    /\ processed' = [processed EXCEPT ![u] = 0]
    /\ cached' = [cached EXCEPT ![u] = [friend \in User |-> NoBox]]
    /\ screen' = [screen EXCEPT ![u] = NoScreen]
    /\ late' = [late EXCEPT ![u] = LeftOfLink(u)]
    /\ kills' = kills + 1
    /\ UNCHANGED <<server, sent, drops>>

LinkedNext ==
    \E u \in User :
       \/ \E friend \in User : LinkedCreate(u, friend)
       \/ LinkedSend(u)
       \/ OffTheLink(u)
       \/ LinkedProcess(u)
       \/ LinkedAck(u)
       \/ LinkedDisconnect(u)
       \/ LinkedConnect(u)
       \/ LinkedKill(u)

LinkedSpec == LinkedInit /\ [][LinkedNext]_linkedVars

(* The server keeps reading a live link and acknowledging, and the         *)
(* client's retry helper keeps trying to connect.  With MaxDrops finite    *)
(* the network is eventually up for good.  Nobody is obliged to type.      *)
Fairness ==
    \A u \in User : /\ WF_linkedVars(LinkedProcess(u))
                    /\ WF_linkedVars(LinkedAck(u))
                    /\ WF_linkedVars(LinkedConnect(u))

LinkedFairSpec == LinkedSpec /\ Fairness

(* Messaging takes no more for granted than WriteLink gives: with links    *)
(* that keep to it, whatever the server applies, acknowledges or leaves    *)
(* behind (sendPut, onDisconnect, restoreState) is a step of Messaging,    *)
(* though the server sees the link only.  All that Messaging promises      *)
(* holds with such links then.                                             *)
ImplementsMessaging == Spec

(* Why: the server finds on a link just what the client keeps. *)
WireCarriesQueue ==
    wire = [u \in User |-> IF connected[u] THEN outstanding[u] ELSE <<>>]
=============================================================================
