--------------------------- MODULE MessagingProps ---------------------------
(***************************************************************************)
(* What Messaging promises, and what it only promises at rest.             *)
(***************************************************************************)
EXTENDS Messaging, FiniteSets

(* The variables have their types; in particular the server never counts   *)
(* more writes of a connection than the client still keeps                 *)
(* (FPersistentConnection outstandingPuts).                                *)
TypeOK ==
    /\ messages \in [Pair -> SUBSET Message]
    /\ chatbox \in [Pair -> Chat \cup {NoBox}]
    /\ outstanding \in [User -> Seq(Put)]
    /\ processed \in [User -> Nat]
    /\ \A u \in User : processed[u] <= Len(outstanding[u])
    /\ connected \in [User -> BOOLEAN]
    /\ cached \in [User -> [User -> Chat \cup {NoBox}]]
    /\ late \in [User -> Seq(Put)]
    /\ screen \in [User -> Screen \cup {NoScreen}]
    /\ sent \in Seq(Message)
    /\ lost \in SUBSET Message
    /\ drops \in Nat /\ kills \in Nat

(* The sender's own copy of a conversation leads: through every lost       *)
(* connection, resend, late write and kill between the four setValue calls *)
(* of sendButtonTapped, a message in the friend's log is in the sender's.  *)
SenderCopyLeads ==
    \A p \in Pair : \A m \in messages[p] : m \in messages[<<m.from, m.to>>]

(* A list entry never announces a message that opening it would not show:  *)
(* the last message of chatbox/x/x_y is already stored in messages/x_y,    *)
(* although the two are written by separate calls, possibly more than once.*)
EntryIsLogged ==
    \A p \in Pair :
        chatbox[p] # NoBox /\ chatbox[p].last # Greeting
            => chatbox[p].last \in messages[p]

(* Whose words an entry shows: "SENT_BY_YOU" on the owner's own message    *)
(* and "SENT_BY_FRIEND" on a message of the friend the row stands for, in  *)
(* spite of the one Chat object that sendButtonTapped edits for both.      *)
(* An entry received from the friend also names the friend and carries the *)
(* row's own chatId, whatever the sender's object held before.             *)
EntryTellsWhoSpoke ==
    \A p \in Pair :
        chatbox[p] # NoBox /\ p[1] # p[2] =>
            LET c == chatbox[p] IN
            /\ c.messState = "SENT_BY_YOU" => c.last # Greeting /\ c.last.from = p[1]
            /\ c.messState = "SENT_BY_FRIEND" =>
                  /\ c.last # Greeting /\ c.last.from = p[2]
                  /\ c.name = p[2] /\ c.chatId = p

AtRest == \A u \in User : outstanding[u] = <<>> /\ late[u] = <<>>

(* Once a client's writes are all acknowledged, whatever the network still *)
(* holds of earlier connections, both copies of a conversation have every  *)
(* message that it sent and that no kill caught half-sent.                 *)
CopiesAgreeAtRest ==
    \A k \in DOMAIN sent :
        outstanding[sent[k].from] = <<>> /\ sent[k] \notin lost =>
            /\ sent[k] \in messages[<<sent[k].from, sent[k].to>>]
            /\ sent[k] \in messages[<<sent[k].to, sent[k].from>>]

(* The last message of the conversation p that its first user sent *)
LastSent(p) ==
    LET mine == {k \in DOMAIN sent : sent[k].from = p[1] /\ sent[k].to = p[2]}
    IN  {sent[k] : k \in {j \in mine : \A i \in mine : i <= j}}

(* Two users writing at once, and a resend that repeats an old entry, can  *)
(* leave an entry behind the log for good, but never on a message its own  *)
(* author has already followed by another: at rest an entry shows one of   *)
(* the two users' latest messages, or the placeholder.  (With no kill and  *)
(* no write applied after its connection is gone.)                         *)
EntryIsSomeonesLatest ==
    AtRest /\ kills = 0 =>
        \A p \in Pair :
            chatbox[p] # NoBox =>
                chatbox[p].last \in LastSent(p) \cup LastSent(Reverse(p)) \cup {Greeting}

(***************************************************************************)
(* The strengthening that makes SenderCopyLeads and EntryIsLogged          *)
(* inductive.  A write rests on another when applying it first would break *)
(* one of them: the friend's copy of a message on the sender's, and a list *)
(* entry on the owner's copy of the message it announces.                  *)
(***************************************************************************)
RestsOn(put) ==
    IF put.kind = "message"
    THEN {MessagePut(<<put.value.from, put.value.to>>, put.value)} \ {put}
    ELSE {MessagePut(put.at, m) : m \in {put.value.last} \ {Greeting}}

Stored(put, log) == put.value \in log[put.at]

(* Whatever a queued write rests on is stored or queued before it. *)
QueueOK(q, log) ==
    \A i \in 1..Len(q) : \A d \in RestsOn(q[i]) :
        Stored(d, log) \/ \E j \in 1..(i - 1) : q[j] = d

(* The first n writes of a queue have been applied. *)
AppliedOK(q, n, log) ==
    \A i \in 1..n : q[i].kind = "message" => Stored(q[i], log)

(* The inductive invariant: the two properties, and the reason they hold   *)
(* is kept by every queue of outstandingPuts, resent from the start or     *)
(* left in the network.                                                    *)
IInv ==
    /\ TypeOK
    /\ SenderCopyLeads
    /\ EntryIsLogged
    /\ \A u \in User : /\ QueueOK(outstanding[u], messages)
                       /\ QueueOK(late[u], messages)
                       /\ AppliedOK(outstanding[u], processed[u], messages)

(* The stored conversations behave as SharedLog: an entry announces the    *)
(* last message of its Chat record.                                        *)
SL == INSTANCE SharedLog
        WITH log <- messages,
             entry <- [p \in Pair |-> IF chatbox[p] = NoBox THEN NoBox
                                      ELSE chatbox[p].last]

(* Every change sendButtonTapped and createNewChatBox make to the database,*)
(* in whatever order and however often the writes arrive, is a step of     *)
(* SharedLog.                                                              *)
ImplementsSharedLog == SL!Spec

(* Every message sent is stored in both copies in the end, however often   *)
(* the connection drops, unless the app is killed first.                   *)
Delivered ==
    \A i \in MsgId : \A p \in Pair :
        LET m == [id |-> i, from |-> p[1], to |-> p[2]]
        IN  (\E k \in DOMAIN sent : sent[k] = m)
              ~> (m \in lost \/ (m \in messages[p] /\ m \in messages[Reverse(p)]))

(* "Update avatar for Friend in chat box" (ChatBoxViewController.swift:43): *)
(* the header of a screen shows the friend whose row was tapped.            *)
HeaderIsFriend ==
    \A u \in User : screen[u] # NoScreen => screen[u].friendId = screen[u].row[2]
=============================================================================
