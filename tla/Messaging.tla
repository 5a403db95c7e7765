------------------------------ MODULE Messaging ------------------------------
(***************************************************************************)
(* How a chat message reaches the shared database.                         *)
(*                                                                         *)
(* Every conversation is stored twice: the log messages/x_y and the list   *)
(* entry chatbox/x/x_y belong to x, the log messages/y_x and the entry     *)
(* chatbox/y/y_x to y.  sendButtonTapped brings the four of them up to     *)
(* date with four independent setValue calls; no transaction binds them.   *)
(* The Firebase client numbers the calls, keeps each until its             *)
(* acknowledgement arrives, and sends all it still keeps again, in order,  *)
(* on every new connection.  Killing the app discards what it kept.        *)
(*                                                                         *)
(* The database server is outside the repository: it is taken to apply     *)
(* the writes of one connection in the order they were sent and to         *)
(* acknowledge them in that order, as FPersistentConnection relies on.     *)
(***************************************************************************)
EXTENDS Naturals, Sequences

CONSTANTS
    User,          \* account ids
    MsgId,         \* the ids genRandomString can return, taken to be unique
    NoBox,         \* "nothing stored at this path" (a nil snapshot value)
    NoScreen,      \* no ChatBoxViewController is presented
    Greeting,      \* the placeholder text of a new list entry
    LateDelivery,  \* may the server still apply writes of a closed connection?
    Typed,         \* bound: the pairs <<u, id>> with id typed by u to add a friend
    MaxDrops,      \* bound: connections lost, over all users
    MaxKills       \* bound: apps killed, over all users

Pair == User \X User
Message == [id : MsgId, from : User, to : User]
MessState == {"SEEN", "SENT_BY_YOU", "SENT_BY_FRIEND"}
Chat == [chatId : Pair, name : User, last : Message \cup {Greeting},
         messState : MessState]
Screen == [row : Pair, friendId : User, currentChatBox : Chat]

ASSUME SentinelAssumption == /\ NoBox \notin Chat
                             /\ NoScreen \notin Screen
                             /\ Greeting \notin Message
ASSUME BoundAssumption == /\ MaxDrops \in Nat
                          /\ MaxKills \in Nat
                          /\ LateDelivery \in BOOLEAN
                          /\ Typed \subseteq Pair

VARIABLES
    messages,     \* server: messages/x_y, the set of messages stored there
    chatbox,      \* server: chatbox/x/x_y
    outstanding,  \* client: outstandingPuts in index order
    processed,    \* server: how many of them it applied on this connection
    connected,    \* client: connectionState is Connected
    cached,       \* client: the entries of chatbox/x as the server last told them
    late,         \* network: unapplied writes of connections already closed
    screen,       \* client: the presented ChatBoxViewController
    sent,         \* history: the messages sent, in order
    lost,         \* history: messages that had a write outstanding at a kill
    drops, kills  \* counters for the bounds

server == <<messages, chatbox>>
client == <<outstanding, processed, connected, cached, screen>>
history == <<sent, lost>>
vars == <<server, client, late, history, drops, kills>>

Reverse(p) == <<p[2], p[1]>>

(* setValue calls, by the node they write *)
MessagePut(p, m) == [kind |-> "message", at |-> p, value |-> m]
ChatBoxPut(p, c) == [kind |-> "chatbox", at |-> p, value |-> c]
Put == {put \in [kind : {"message"}, at : Pair, value : Message] :
           put.at \in {<<put.value.from, put.value.to>>,
                       <<put.value.to, put.value.from>>}}
         \cup [kind : {"chatbox"}, at : Pair, value : Chat]

(* What u's client shows of its entry for a friend: its own last           *)
(* outstanding write there, or what the server last told it.  A singleton. *)
Seen(u, friend) ==
    LET own == {i \in DOMAIN outstanding[u] :
                   /\ outstanding[u][i].kind = "chatbox"
                   /\ outstanding[u][i].at = <<u, friend>>}
        newest == {i \in own : \A j \in own : j <= i}
    IN  IF own = {} THEN {cached[u][friend]}
        ELSE {outstanding[u][i].value : i \in newest}

Init ==
    /\ messages = [p \in Pair |-> {}]
    /\ chatbox = [p \in Pair |-> NoBox]
    /\ outstanding = [u \in User |-> <<>>]
    /\ processed = [u \in User |-> 0]
    /\ connected = [u \in User |-> FALSE]
    /\ cached = [u \in User |-> [friend \in User |-> NoBox]]
    /\ late = [u \in User |-> <<>>]
    /\ screen = [u \in User |-> NoScreen]
    /\ sent = <<>>
    /\ lost = {}
    /\ drops = 0
    /\ kills = 0

-----------------------------------------------------------------------------
(* The user's actions *)

(* createNewChatBox finds no entry for the pair and writes a placeholder.  *)
(* Its read and its write are two messages: the write is only queued here. *)
(* When it does find one it only shows a dialog.                           *)
CreateNewChatBox(u, friend) ==
    LET placeholder == [chatId |-> <<u, friend>>, name |-> friend,
                        last |-> Greeting, messState |-> "SEEN"]
    IN  /\ <<u, friend>> \in Typed
        /\ connected[u]
        /\ NoBox \in Seen(u, friend)
        /\ outstanding' = [outstanding EXCEPT
                             ![u] = @ \o <<ChatBoxPut(<<u, friend>>, placeholder)>>]
        /\ UNCHANGED <<server, processed, connected, cached, screen, late, history,
                       drops, kills>>

(* Tapping a row of the list presents a screen that shares the row's Chat  *)
(* object; the friend is read off the object's chatId, not off the row.    *)
OpenScreen(u) ==
    /\ screen[u] = NoScreen
    /\ \E friend \in User : \E c \in Seen(u, friend) \ {NoBox} :
          screen' = [screen EXCEPT ![u] = [row |-> <<u, friend>>,
                                           friendId |-> c.chatId[2],
                                           currentChatBox |-> c]]
    /\ UNCHANGED <<server, outstanding, processed, connected, cached, late, history,
                   drops, kills>>

CloseScreen(u) ==
    /\ screen[u] # NoScreen
    /\ screen' = [screen EXCEPT ![u] = NoScreen]
    /\ UNCHANGED <<server, outstanding, processed, connected, cached, late, history,
                   drops, kills>>

(* currentChatBox after the first, and after the second, part of a send:   *)
(* one object, edited for the sender and then, in place, for the friend.   *)
EditedForMe(c, m) == [c EXCEPT !.last = m, !.messState = "SENT_BY_YOU"]
EditedKeepingName(c, m) ==                                        \* mutant
    [EditedForMe(c, m) EXCEPT !.messState = "SENT_BY_FRIEND",
                              !.chatId = <<m.to, m.from>>]
EditedForFriend(c, m) ==
    [EditedForMe(c, m) EXCEPT !.messState = "SENT_BY_FRIEND",
                              !.name = m.from,
                              !.chatId = <<m.to, m.from>>]

SendPutsFriendFirst(c, m) ==                                      \* mutant
    <<MessagePut(<<m.to, m.from>>, m),
      MessagePut(<<m.from, m.to>>, m),
      ChatBoxPut(<<m.from, m.to>>, EditedForMe(c, m)),
      ChatBoxPut(<<m.to, m.from>>, EditedForFriend(c, m))>>
SendPutsListFirst(c, m) ==                                        \* mutant
    <<ChatBoxPut(<<m.from, m.to>>, EditedForMe(c, m)),
      ChatBoxPut(<<m.to, m.from>>, EditedForFriend(c, m)),
      MessagePut(<<m.from, m.to>>, m),
      MessagePut(<<m.to, m.from>>, m)>>
SendPuts(c, m) ==
    <<MessagePut(<<m.from, m.to>>, m),
      MessagePut(<<m.to, m.from>>, m),
      ChatBoxPut(<<m.from, m.to>>, EditedForMe(c, m)),
      ChatBoxPut(<<m.to, m.from>>, EditedForFriend(c, m))>>

SendMessage(u, m) ==
    LET c == screen[u].currentChatBox
    IN  /\ outstanding' = [outstanding EXCEPT ![u] = @ \o SendPuts(c, m)]
        /\ screen' = [screen EXCEPT ![u].currentChatBox = EditedForFriend(c, m)]
        /\ sent' = Append(sent, m)
        /\ UNCHANGED <<server, processed, connected, cached, late, lost, drops,
                       kills>>

Send(u) ==
    /\ screen[u] # NoScreen
    /\ \E i \in MsgId :
          /\ \A k \in DOMAIN sent : sent[k].id # i
          /\ SendMessage(u, [id |-> i, from |-> u, to |-> screen[u].friendId])

-----------------------------------------------------------------------------
(* The server and the connection *)

Apply(put) ==
    \/ /\ put.kind = "message"
       /\ messages' = [messages EXCEPT ![put.at] = @ \cup {put.value}]
       /\ UNCHANGED chatbox
    \/ /\ put.kind = "chatbox"
       /\ chatbox' = [chatbox EXCEPT ![put.at] = put.value]
       /\ UNCHANGED messages

(* u's client, which observes chatbox/u, is told of an entry. *)
Told(u, friend, entry) == [cached EXCEPT ![u][friend] = entry]

(* A client is told what its own write changed before the write is         *)
(* acknowledged; until then the write itself hides the news.               *)
ServerProcess(u) ==
    LET put == outstanding[u][processed[u] + 1]
    IN  /\ connected[u]
        /\ processed[u] < Len(outstanding[u])
        /\ Apply(put)
        /\ processed' = [processed EXCEPT ![u] = @ + 1]
        /\ cached' = IF put.kind = "chatbox" /\ put.at[1] = u
                     THEN Told(u, put.at[2], put.value) ELSE cached
        /\ UNCHANGED <<outstanding, connected, screen, late, history, drops,
                       kills>>

(* The news of anybody else's write arrives some time after it. *)
EntryArrives(u) ==
    /\ connected[u]
    /\ \E friend \in User :
          /\ cached[u][friend] # chatbox[<<u, friend>>]
          /\ cached' = Told(u, friend, chatbox[<<u, friend>>])
    /\ UNCHANGED <<server, outstanding, processed, connected, screen, late,
                   history, drops, kills>>

ServerProcessLate(u) ==
    /\ late[u] # <<>>
    /\ Apply(Head(late[u]))
    /\ late' = [late EXCEPT ![u] = Tail(@)]
    /\ UNCHANGED <<client, history, drops, kills>>

(* An acknowledgement removes the oldest outstanding write. *)
AckPut(u) ==
    /\ connected[u]
    /\ processed[u] > 0
    /\ outstanding' = [outstanding EXCEPT ![u] = Tail(@)]
    /\ processed' = [processed EXCEPT ![u] = @ - 1]
    /\ UNCHANGED <<server, connected, cached, screen, late, history, drops, kills>>

(* What the network may still hold of user u's writes when the connection  *)
(* goes: everything sent on it and not yet applied.                        *)
LeftInNetwork(u) ==
    IF LateDelivery /\ connected[u]
    THEN late[u] \o SubSeq(outstanding[u], processed[u] + 1, Len(outstanding[u]))
    ELSE late[u]

OnDisconnectCancelling(u) ==                                      \* mutant
    /\ connected[u]
    /\ drops < MaxDrops
    /\ connected' = [connected EXCEPT ![u] = FALSE]
    /\ outstanding' = [outstanding EXCEPT ![u] = SubSeq(@, 1, processed[u])]
    /\ processed' = [processed EXCEPT ![u] = 0]
    /\ late' = [late EXCEPT ![u] = LeftInNetwork(u)]
    /\ drops' = drops + 1
    /\ UNCHANGED <<server, cached, screen, history, kills>>
OnDisconnect(u) ==
    /\ connected[u]
    /\ drops < MaxDrops
    /\ connected' = [connected EXCEPT ![u] = FALSE]
    /\ processed' = [processed EXCEPT ![u] = 0]
    /\ late' = [late EXCEPT ![u] = LeftInNetwork(u)]
    /\ drops' = drops + 1
    /\ UNCHANGED <<server, outstanding, cached, screen, history, kills>>

(* A new connection: restoreState listens again, which tells the client    *)
(* its entries, and sends every outstanding write again, in the order of   *)
(* their numbers.                                                          *)
Listed(u) == [cached EXCEPT ![u] = [friend \in User |-> chatbox[<<u, friend>>]]]
Connect(u) ==
    /\ ~connected[u]
    /\ connected' = [connected EXCEPT ![u] = TRUE]
    /\ cached' = Listed(u)
    /\ UNCHANGED <<server, outstanding, processed, screen, late, history,
                   drops, kills>>

(* The messages with a write still to be acknowledged *)
UnderWay(u) ==
    {m \in {sent[k] : k \in DOMAIN sent} :
        \E i \in DOMAIN outstanding[u] :
           /\ outstanding[u][i].kind = "message"
           /\ outstanding[u][i].value = m}

(* The process ends: outstandingPuts and the cache are memory only. *)
Kill(u) ==
    /\ kills < MaxKills
    /\ lost' = lost \cup UnderWay(u)
    /\ outstanding' = [outstanding EXCEPT ![u] = <<>>]
    /\ processed' = [processed EXCEPT ![u] = 0]
    /\ connected' = [connected EXCEPT ![u] = FALSE]
    /\ cached' = [cached EXCEPT ![u] = [friend \in User |-> NoBox]]
    /\ screen' = [screen EXCEPT ![u] = NoScreen]
    /\ late' = [late EXCEPT ![u] = LeftInNetwork(u)]
    /\ kills' = kills + 1
    /\ UNCHANGED <<server, sent, drops>>

Next ==
    \E u \in User :
       \/ \E friend \in User : CreateNewChatBox(u, friend)
       \/ OpenScreen(u)
       \/ CloseScreen(u)
       \/ Send(u)
       \/ ServerProcess(u)
       \/ ServerProcessLate(u)
       \/ EntryArrives(u)
       \/ AckPut(u)
       \/ OnDisconnect(u)
       \/ Connect(u)
       \/ Kill(u)

Spec == Init /\ [][Next]_vars
=============================================================================
