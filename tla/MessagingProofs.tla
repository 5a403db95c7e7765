--------------------------- MODULE MessagingProofs ---------------------------
(***************************************************************************)
(* Theorems about Messaging, for any users, any supply of message ids, any *)
(* number of lost connections and kills: the inductive invariant, that     *)
(* copies rest on what they follow, the shared log that it implements, and *)
(* that links keeping to WriteLink are all it needs; then, from the        *)
(* inductive invariant, what becomes of every message, what every entry    *)
(* tells and whose words it ends with.                                     *)
(***************************************************************************)
EXTENDS LinkedMessaging, SequenceTheorems, TLAPS

-----------------------------------------------------------------------------
(* Queues of writes *)

(* A queue stays in order when the logs only gain messages. *)
LEMMA QueueMonotone ==
    ASSUME NEW q, NEW log, NEW log2, QueueOK(q, log),
           \A i \in 1..Len(q) : \A d \in RestsOn(q[i]) :
               Stored(d, log) => Stored(d, log2)
    PROVE  QueueOK(q, log2)
  BY DEF QueueOK

(* Two queues that are each in order are in order one after the other. *)
LEMMA QueueConcat ==
    ASSUME NEW q \in Seq(Put), NEW r \in Seq(Put), NEW log,
           QueueOK(q, log), QueueOK(r, log)
    PROVE  QueueOK(q \o r, log)
<1> DEFINE s == q \o r
<1>1. /\ Len(s) = Len(q) + Len(r)
      /\ Len(q) \in Nat /\ Len(r) \in Nat
      /\ \A i \in 1..Len(q) : s[i] = q[i]
      /\ \A i \in 1..Len(r) : s[Len(q) + i] = r[i]
  BY ConcatProperties, LenProperties
<1>2. SUFFICES ASSUME NEW i \in 1..Len(s), NEW d \in RestsOn(s[i]), ~Stored(d, log)
               PROVE  \E j \in 1..(i - 1) : s[j] = d
  BY DEF QueueOK
<1>3. CASE i <= Len(q)
  <2>1. i \in 1..Len(q) /\ s[i] = q[i]
    BY <1>1, <1>3
  <2>2. PICK j \in 1..(i - 1) : q[j] = d
    BY <2>1, <1>2 DEF QueueOK
  <2> QED
    BY <2>1, <2>2, <1>1
<1>4. CASE i > Len(q)
  <2> DEFINE k == i - Len(q)
  <2>1. k \in 1..Len(r) /\ s[i] = r[k]
    BY <1>1, <1>4
  <2>2. PICK j \in 1..(k - 1) : r[j] = d
    BY <2>1, <1>2 DEF QueueOK
  <2>3. Len(q) + j \in 1..(i - 1) /\ s[Len(q) + j] = d
    BY <2>1, <2>2, <1>1
  <2> QED
    BY <2>3
<1> QED
  BY <1>1, <1>3, <1>4

(* What remains of a queue once its first n writes are applied is in order:*)
(* nothing that remains rests on a write that is neither stored nor there. *)
LEMMA QueueSuffix ==
    ASSUME NEW q \in Seq(Put), NEW n \in Nat, n <= Len(q), NEW log,
           QueueOK(q, log), AppliedOK(q, n, log)
    PROVE  QueueOK(SubSeq(q, n + 1, Len(q)), log)
<1> DEFINE s == SubSeq(q, n + 1, Len(q))
<1>1. /\ Len(q) \in Nat
      /\ Len(s) = Len(q) - n
      /\ \A i \in 1..Len(s) : s[i] = q[n + i]
  BY LenProperties, SubSeqProperties
<1>2. SUFFICES ASSUME NEW i \in 1..Len(s), NEW d \in RestsOn(s[i]), ~Stored(d, log)
               PROVE  \E j \in 1..(i - 1) : s[j] = d
  BY DEF QueueOK
<1>3. n + i \in 1..Len(q) /\ s[i] = q[n + i]
  BY <1>1
<1>4. PICK j \in 1..(n + i - 1) : q[j] = d
  BY <1>2, <1>3 DEF QueueOK
<1>5. d.kind = "message"
  BY DEF RestsOn, MessagePut
<1>6. j > n
  BY <1>2, <1>4, <1>5 DEF AppliedOK
<1>7. j - n \in 1..(i - 1) /\ s[j - n] = d
  BY <1>1, <1>4, <1>6
<1> QED
  BY <1>7

(* Acknowledging the oldest write, already applied, keeps the queue in     *)
(* order and the rest of the applied writes applied.                       *)
LEMMA QueueTail ==
    ASSUME NEW q \in Seq(Put), NEW n \in Nat, n <= Len(q), n > 0, NEW log,
           QueueOK(q, log), AppliedOK(q, n, log)
    PROVE  /\ Tail(q) \in Seq(Put)
           /\ Len(Tail(q)) = Len(q) - 1
           /\ QueueOK(Tail(q), log)
           /\ AppliedOK(Tail(q), n - 1, log)
<1>1. q # <<>> /\ Len(q) \in Nat
  BY LenProperties, EmptySeq
<1>2. /\ Tail(q) \in Seq(Put)
      /\ Len(Tail(q)) = Len(q) - 1
      /\ \A i \in 1..Len(Tail(q)) : Tail(q)[i] = q[i + 1]
      /\ Tail(q) = SubSeq(q, 2, Len(q))
  BY <1>1, HeadTailProperties, TailIsSubSeq
<1>3. AppliedOK(q, 1, log)
  BY DEF AppliedOK
<1>4. QueueOK(Tail(q), log)
  <2>1. 1 \in Nat /\ 1 <= Len(q) /\ 1 + 1 = 2
    OBVIOUS
  <2>2. QueueOK(SubSeq(q, 1 + 1, Len(q)), log)
    BY <1>3, <2>1, QueueSuffix
  <2> QED
    BY <1>2, <2>1, <2>2
<1>5. AppliedOK(Tail(q), n - 1, log)
  BY <1>1, <1>2 DEF AppliedOK
<1> QED
  BY <1>2, <1>4, <1>5

(* The writes of one send are in order, whatever the screen's Chat object  *)
(* holds.                                                                  *)
LEMMA SendPutsOK ==
    ASSUME NEW c \in Chat, NEW m \in Message, NEW log
    PROVE  /\ SendPuts(c, m) \in Seq(Put)
           /\ QueueOK(SendPuts(c, m), log)
           /\ EditedForFriend(c, m) \in Chat
<1> DEFINE mine == <<m.from, m.to>>
           yours == <<m.to, m.from>>
           q == SendPuts(c, m)
<1>1. /\ m.from \in User /\ m.to \in User
      /\ mine \in Pair /\ yours \in Pair
  BY DEF Message, Pair
<1>2. /\ EditedForMe(c, m) \in Chat /\ EditedForMe(c, m).last = m
      /\ EditedForFriend(c, m) \in Chat /\ EditedForFriend(c, m).last = m
  BY <1>1 DEF EditedForMe, EditedForFriend, Chat, MessState
<1>3. /\ Len(q) = 4
      /\ q[1] = MessagePut(mine, m)
      /\ q[2] = MessagePut(yours, m)
      /\ q[3] = ChatBoxPut(mine, EditedForMe(c, m))
      /\ q[4] = ChatBoxPut(yours, EditedForFriend(c, m))
  BY DEF SendPuts
<1>4. q \in Seq(Put)
  <2>1. /\ MessagePut(mine, m) \in Put /\ MessagePut(yours, m) \in Put
        /\ ChatBoxPut(mine, EditedForMe(c, m)) \in Put
        /\ ChatBoxPut(yours, EditedForFriend(c, m)) \in Put
    BY <1>1, <1>2 DEF Put, MessagePut, ChatBoxPut
  <2> QED
    BY <2>1 DEF SendPuts
<1>5. /\ RestsOn(q[1]) = {}
      /\ RestsOn(q[2]) \subseteq {q[1]}
      /\ RestsOn(q[3]) \subseteq {q[1]}
      /\ RestsOn(q[4]) \subseteq {q[2]}
  BY <1>2, <1>3 DEF RestsOn, MessagePut, ChatBoxPut
<1>6. QueueOK(q, log)
  BY <1>3, <1>5 DEF QueueOK
<1> QED
  BY <1>2, <1>4, <1>6

(* A placeholder rests on nothing. *)
LEMMA PlaceholderOK ==
    ASSUME NEW p \in Pair, NEW c \in Chat, c.last = Greeting, NEW log
    PROVE  /\ <<ChatBoxPut(p, c)>> \in Seq(Put)
           /\ QueueOK(<<ChatBoxPut(p, c)>>, log)
<1>1. ChatBoxPut(p, c) \in Put
  BY DEF Put, ChatBoxPut
<1>2. RestsOn(ChatBoxPut(p, c)) = {}
  BY DEF RestsOn, ChatBoxPut
<1> QED
  BY <1>1, <1>2 DEF QueueOK

-----------------------------------------------------------------------------
(* One write applied *)

(* Applying a write that rests only on what is stored keeps the copies and *)
(* the entries right, takes nothing out of a log, and is a step of         *)
(* SharedLog.                                                              *)
LEMMA ApplyStep ==
    ASSUME TypeOK, SenderCopyLeads, EntryIsLogged, NEW put \in Put,
           \A d \in RestsOn(put) : Stored(d, messages),
           Apply(put)
    PROVE  /\ messages' \in [Pair -> SUBSET Message]
           /\ chatbox' \in [Pair -> Chat \cup {NoBox}]
           /\ SenderCopyLeads'
           /\ EntryIsLogged'
           /\ \A p \in Pair : messages[p] \subseteq messages'[p]
           /\ put.kind = "message" => Stored(put, messages')
           /\ SL!Next
<1>1. /\ messages \in [Pair -> SUBSET Message]
      /\ chatbox \in [Pair -> Chat \cup {NoBox}]
  BY DEF TypeOK
<1>2. CASE put.kind = "message"
  <2> DEFINE m == put.value
             own == <<m.from, m.to>>
  <2>1. /\ put.at \in Pair /\ m \in Message /\ own \in Pair
        /\ put = MessagePut(put.at, m)
    BY <1>2 DEF Put, Message, Pair, MessagePut
  <2>2. /\ messages' = [messages EXCEPT ![put.at] = @ \cup {m}]
        /\ UNCHANGED chatbox
    BY <1>2 DEF Apply
  <2>3. put.at # own => m \in messages[own]
    <3>1. put.at # own => MessagePut(own, m) \in RestsOn(put)
      BY <1>2, <2>1 DEF RestsOn, MessagePut
    <3> QED
      BY <3>1 DEF Stored, MessagePut
  <2>4. /\ messages' \in [Pair -> SUBSET Message]
        /\ \A p \in Pair : messages[p] \subseteq messages'[p]
        /\ \A p \in Pair : \A x \in messages'[p] : x \in messages[p] \/ (p = put.at /\ x = m)
        /\ Stored(put, messages')
    BY <1>1, <2>1, <2>2 DEF Stored
  <2>5. SenderCopyLeads'
    <3> SUFFICES ASSUME NEW p \in Pair, NEW x \in messages'[p]
                 PROVE  x \in messages'[<<x.from, x.to>>]
      BY DEF SenderCopyLeads
    <3>1. x \in Message /\ <<x.from, x.to>> \in Pair
      BY <2>4 DEF Message, Pair
    <3>2. CASE x \in messages[p]
      BY <3>1, <3>2, <2>4 DEF SenderCopyLeads
    <3>3. CASE p = put.at /\ x = m
      BY <3>3, <2>1, <2>3, <2>4
    <3> QED
      BY <2>4, <3>2, <3>3
  <2>6. EntryIsLogged'
    BY <2>2, <2>4 DEF EntryIsLogged
  <2>7. SL!Next
    <3>1. CASE put.at = own
      <4>1. SL!Post(m)
        BY <2>2, <3>1 DEF SL!Post, SL!Own
      <4> QED
        BY <4>1, <2>1 DEF SL!Next
    <3>2. CASE put.at # own
      <4>1. put.at = <<m.to, m.from>>
        BY <1>2, <3>2 DEF Put
      <4>2. SL!Deliver(m)
        BY <2>2, <2>3, <3>2, <4>1 DEF SL!Deliver, SL!Own, SL!Friends
      <4> QED
        BY <4>2, <2>1 DEF SL!Next
    <3> QED
      BY <3>1, <3>2
  <2> QED
    BY <1>1, <2>2, <2>4, <2>5, <2>6, <2>7
<1>3. CASE put.kind = "chatbox"
  <2> DEFINE p == put.at
             c == put.value
  <2>1. p \in Pair /\ c \in Chat /\ put.kind # "message"
    BY <1>3 DEF Put
  <2>2. /\ chatbox' = [chatbox EXCEPT ![p] = c]
        /\ UNCHANGED messages
    BY <1>3 DEF Apply
  <2>3. c.last # Greeting => c.last \in messages[p] /\ c.last \in Message
    <3>1. c.last # Greeting => MessagePut(p, c.last) \in RestsOn(put)
      BY <2>1 DEF RestsOn
    <3> QED
      BY <2>1, <3>1 DEF Stored, MessagePut, Chat
  <2>4. /\ chatbox' \in [Pair -> Chat \cup {NoBox}]
        /\ chatbox'[p] = c
        /\ \A r \in Pair : r # p => chatbox'[r] = chatbox[r]
    BY <1>1, <2>1, <2>2
  <2>5. EntryIsLogged'
    BY <2>2, <2>3, <2>4 DEF EntryIsLogged
  <2>6. SenderCopyLeads'
    BY <2>2 DEF SenderCopyLeads
  <2>7. SL!Next
    <3> DEFINE shown(r) == IF chatbox[r] = NoBox THEN NoBox ELSE chatbox[r].last
               entry == [r \in Pair |-> shown(r)]
    <3>1. entry' = [entry EXCEPT ![p] = c.last]
      BY <1>1, <2>1, <2>4, SentinelAssumption
    <3>2. CASE c.last = Greeting
      <4>1. SL!Greet(p)
        BY <2>2, <3>1, <3>2 DEF SL!Greet
      <4> QED
        BY <2>1, <4>1 DEF SL!Next, SL!Pair, Pair
    <3>3. CASE c.last # Greeting
      <4>1. SL!Announce(p, c.last)
        BY <2>2, <2>3, <3>1, <3>3 DEF SL!Announce
      <4> QED
        BY <2>1, <2>3, <3>3, <4>1 DEF SL!Next, SL!Pair, Pair
    <3> QED
      BY <3>2, <3>3
  <2> QED
    BY <1>1, <2>1, <2>2, <2>4, <2>5, <2>6, <2>7
<1> QED
  BY <1>2, <1>3 DEF Put

-----------------------------------------------------------------------------
(* The inductive invariant *)

(* The invariant holds of an empty database and freshly launched apps.     *)
LEMMA InitIInv == Init => IInv
<1> SUFFICES ASSUME Init PROVE IInv
  OBVIOUS
<1>1. TypeOK
  BY EmptySeq DEF Init, TypeOK
<1>2. SenderCopyLeads /\ EntryIsLogged
  BY DEF Init, SenderCopyLeads, EntryIsLogged
<1>3. ASSUME NEW u \in User
      PROVE  /\ QueueOK(outstanding[u], messages)
             /\ QueueOK(late[u], messages)
             /\ AppliedOK(outstanding[u], processed[u], messages)
  BY DEF Init, QueueOK, AppliedOK
<1> QED
  BY <1>1, <1>2, <1>3 DEF IInv

(* A step that leaves the server alone keeps the invariant when it keeps   *)
(* the types and every queue in order.                                     *)
LEMMA ClientStep ==
    ASSUME IInv, UNCHANGED server, TypeOK',
           \A u \in User : /\ QueueOK(outstanding'[u], messages)
                          /\ QueueOK(late'[u], messages)
                          /\ AppliedOK(outstanding'[u], processed'[u], messages)
    PROVE  IInv'
<1>1. messages' = messages /\ chatbox' = chatbox
  BY DEF server
<1>2. SenderCopyLeads' /\ EntryIsLogged'
  BY <1>1 DEF IInv, SenderCopyLeads, EntryIsLogged
<1> QED
  BY <1>1, <1>2 DEF IInv

(* Queueing more writes behind those a client keeps. *)
LEMMA Enqueue ==
    ASSUME IInv, NEW u \in User, NEW r \in Seq(Put), QueueOK(r, messages)
    PROVE  LET q == outstanding[u] \o r
           IN  /\ q \in Seq(Put)
               /\ processed[u] <= Len(q)
               /\ QueueOK(q, messages)
               /\ AppliedOK(q, processed[u], messages)
<1> DEFINE q == outstanding[u] \o r
<1>1. /\ outstanding[u] \in Seq(Put)
      /\ processed[u] \in Nat /\ processed[u] <= Len(outstanding[u])
  BY DEF IInv, TypeOK
<1>2. /\ q \in Seq(Put)
      /\ Len(outstanding[u]) \in Nat /\ Len(r) \in Nat
      /\ Len(q) = Len(outstanding[u]) + Len(r)
      /\ \A i \in 1..Len(outstanding[u]) : q[i] = outstanding[u][i]
  BY <1>1, ConcatProperties, LenProperties
<1>3. QueueOK(q, messages)
  BY <1>1, QueueConcat DEF IInv
<1>4. AppliedOK(q, processed[u], messages)
  BY <1>1, <1>2 DEF IInv, AppliedOK
<1> QED
  BY <1>1, <1>2, <1>3, <1>4

(* createNewChatBox queues a placeholder entry, which rests on no message. *)
LEMMA CreateStep ==
    ASSUME IInv, NEW u \in User, NEW friend \in User, CreateNewChatBox(u, friend)
    PROVE  IInv'
<1> DEFINE c == [chatId |-> <<u, friend>>, name |-> friend,
                 last |-> Greeting, messState |-> "SEEN"]
           r == <<ChatBoxPut(<<u, friend>>, c)>>
           q == outstanding[u] \o r
<1>1. r \in Seq(Put) /\ QueueOK(r, messages)
  <2>1. <<u, friend>> \in Pair /\ c \in Chat /\ c.last = Greeting
    BY DEF Pair, Chat, MessState
  <2> QED
    BY <2>1, PlaceholderOK
<1>2. /\ outstanding' = [outstanding EXCEPT ![u] = q]
      /\ UNCHANGED <<server, processed, connected, cached, screen, late, history, drops, kills>>
  BY DEF CreateNewChatBox
<1>3. /\ q \in Seq(Put)
      /\ processed[u] <= Len(q)
      /\ QueueOK(q, messages)
      /\ AppliedOK(q, processed[u], messages)
  BY <1>1, Enqueue
<1>4. TypeOK'
  BY <1>2, <1>3 DEF IInv, TypeOK, server, history
<1>5. ASSUME NEW v \in User
      PROVE  /\ QueueOK(outstanding'[v], messages)
             /\ QueueOK(late'[v], messages)
             /\ AppliedOK(outstanding'[v], processed'[v], messages)
  BY <1>2, <1>3 DEF IInv, TypeOK
<1> QED
  BY <1>2, <1>4, <1>5, ClientStep

(* Presenting a ChatBoxViewController only reads the list entry it is given.*)
LEMMA OpenStep ==
    ASSUME IInv, NEW u \in User, OpenScreen(u)
    PROVE  IInv'
<1>1. UNCHANGED <<server, outstanding, processed, connected, cached, late, history, drops, kills>>
  BY DEF OpenScreen
<1>2. PICK friend \in User : \E c \in Seen(u, friend) \ {NoBox} :
         screen' = [screen EXCEPT ![u] = [row |-> <<u, friend>>,
                                          friendId |-> c.chatId[2],
                                          currentChatBox |-> c]]
  BY DEF OpenScreen
<1>3. PICK c \in Seen(u, friend) \ {NoBox} :
         screen' = [screen EXCEPT ![u] = [row |-> <<u, friend>>,
                                          friendId |-> c.chatId[2],
                                          currentChatBox |-> c]]
  BY <1>2
<1>4. c \in Chat
  <2>1. cached[u][friend] \in Chat \cup {NoBox}
    BY DEF IInv, TypeOK
  <2>2. ASSUME NEW i \in DOMAIN outstanding[u], outstanding[u][i].kind = "chatbox"
        PROVE  outstanding[u][i].value \in Chat
    <3>1. outstanding[u] \in Seq(Put)
      BY DEF IInv, TypeOK
    <3>2. outstanding[u][i] \in Put
      BY <2>2, <3>1, LenProperties, ElementOfSeq
    <3> QED
      BY <2>2, <3>2 DEF Put
  <2> QED
    BY <1>3, <2>1, <2>2 DEF Seen
<1>5. screen' \in [User -> Screen \cup {NoScreen}]
  <2>1. [row |-> <<u, friend>>, friendId |-> c.chatId[2], currentChatBox |-> c] \in Screen
    BY <1>4 DEF Screen, Chat, Pair
  <2> QED
    BY <1>3, <2>1 DEF IInv, TypeOK
<1>6. TypeOK'
  BY <1>1, <1>5 DEF IInv, TypeOK, server, history
<1> QED
  BY <1>1, <1>6, ClientStep DEF IInv

(* backButtonTapped leaves the database and the queues alone.              *)
LEMMA CloseStep ==
    ASSUME IInv, NEW u \in User, CloseScreen(u)
    PROVE  IInv'
<1>1. UNCHANGED <<server, outstanding, processed, connected, cached, late, history, drops, kills>>
  BY DEF CloseScreen
<1>2. TypeOK'
  BY <1>1 DEF CloseScreen, IInv, TypeOK, server, history
<1> QED
  BY <1>1, <1>2, ClientStep DEF IInv

(* sendButtonTapped queues its four writes in an order in which each rests *)
(* on the ones before it.                                                  *)
LEMMA SendStep ==
    ASSUME IInv, NEW u \in User, Send(u)
    PROVE  IInv'
<1> DEFINE c == screen[u].currentChatBox
<1>1. screen[u] \in Screen
  BY DEF Send, IInv, TypeOK
<1>2. PICK m \in Message : SendMessage(u, m)
  <2>1. PICK i \in MsgId : SendMessage(u, [id |-> i, from |-> u, to |-> screen[u].friendId])
    BY DEF Send
  <2>2. [id |-> i, from |-> u, to |-> screen[u].friendId] \in Message
    BY <1>1 DEF Message, Screen
  <2> QED
    BY <2>1, <2>2
<1>3. c \in Chat
  BY <1>1 DEF Screen
<1> DEFINE r == SendPuts(c, m)
           q == outstanding[u] \o r
<1>4. /\ r \in Seq(Put) /\ QueueOK(r, messages)
      /\ EditedForFriend(c, m) \in Chat
  BY <1>3, SendPutsOK
<1>5. /\ outstanding' = [outstanding EXCEPT ![u] = q]
      /\ screen' = [screen EXCEPT ![u].currentChatBox = EditedForFriend(c, m)]
      /\ sent' = Append(sent, m)
      /\ UNCHANGED <<server, processed, connected, cached, late, lost, drops, kills>>
  BY <1>2 DEF SendMessage
<1>6. /\ q \in Seq(Put)
      /\ processed[u] <= Len(q)
      /\ QueueOK(q, messages)
      /\ AppliedOK(q, processed[u], messages)
  BY <1>4, Enqueue
<1>7. screen' \in [User -> Screen \cup {NoScreen}]
  <2>1. [screen[u] EXCEPT !.currentChatBox = EditedForFriend(c, m)] \in Screen
    BY <1>1, <1>4 DEF Screen
  <2> QED
    BY <1>5, <2>1 DEF IInv, TypeOK
<1>8. sent' \in Seq(Message)
  BY <1>5, AppendProperties DEF IInv, TypeOK
<1>9. TypeOK'
  BY <1>5, <1>6, <1>7, <1>8 DEF IInv, TypeOK, server
<1>10. ASSUME NEW v \in User
       PROVE  /\ QueueOK(outstanding'[v], messages)
              /\ QueueOK(late'[v], messages)
              /\ AppliedOK(outstanding'[v], processed'[v], messages)
  BY <1>5, <1>6 DEF IInv, TypeOK
<1> QED
  BY <1>5, <1>9, <1>10, ClientStep

(* ackPuts takes the oldest applied write off the queue.                   *)
LEMMA AckStep ==
    ASSUME IInv, NEW u \in User, AckPut(u)
    PROVE  IInv'
<1> DEFINE q == outstanding[u]
<1>1. /\ outstanding' = [outstanding EXCEPT ![u] = Tail(q)]
      /\ processed' = [processed EXCEPT ![u] = processed[u] - 1]
      /\ processed[u] > 0
      /\ UNCHANGED <<server, connected, cached, screen, late, history, drops, kills>>
  BY DEF AckPut
<1>2. /\ q \in Seq(Put) /\ Len(q) \in Nat
      /\ processed[u] \in Nat /\ processed[u] <= Len(q)
  BY LenProperties DEF IInv, TypeOK
<1>3. /\ Tail(q) \in Seq(Put)
      /\ Len(Tail(q)) = Len(q) - 1
      /\ QueueOK(Tail(q), messages)
      /\ AppliedOK(Tail(q), processed[u] - 1, messages)
  BY <1>1, <1>2, QueueTail DEF IInv
<1>4. TypeOK'
  BY <1>1, <1>2, <1>3 DEF IInv, TypeOK, server, history
<1>5. ASSUME NEW v \in User
      PROVE  /\ QueueOK(outstanding'[v], messages)
             /\ QueueOK(late'[v], messages)
             /\ AppliedOK(outstanding'[v], processed'[v], messages)
  BY <1>1, <1>3 DEF IInv, TypeOK
<1> QED
  BY <1>1, <1>4, <1>5, ClientStep

(* What a closed connection leaves in the network is in order.             *)
LEMMA NetworkOK ==
    ASSUME IInv, NEW u \in User
    PROVE  /\ LeftInNetwork(u) \in Seq(Put)
           /\ QueueOK(LeftInNetwork(u), messages)
<1> DEFINE q == outstanding[u]
           n == processed[u]
           s == SubSeq(q, n + 1, Len(q))
<1>1. /\ q \in Seq(Put) /\ Len(q) \in Nat
      /\ n \in Nat /\ n <= Len(q)
      /\ late[u] \in Seq(Put)
  BY LenProperties DEF IInv, TypeOK
<1>2. s \in Seq(Put)
  <2>1. \A i \in (n + 1)..Len(q) : q[i] \in Put
    BY <1>1, ElementOfSeq
  <2> QED
    BY <1>1, <2>1, SubSeqProperties
<1>3. QueueOK(s, messages)
  BY <1>1, QueueSuffix DEF IInv
<1>4. /\ late[u] \o s \in Seq(Put)
      /\ QueueOK(late[u] \o s, messages)
  BY <1>1, <1>2, <1>3, QueueConcat, ConcatProperties DEF IInv
<1> QED
  BY <1>1, <1>4 DEF LeftInNetwork, IInv

(* Losing the connection keeps outstandingPuts and restarts the count of   *)
(* applied writes.                                                         *)
LEMMA DisconnectStep ==
    ASSUME IInv, NEW u \in User, OnDisconnect(u)
    PROVE  IInv'
<1>1. /\ connected' = [connected EXCEPT ![u] = FALSE]
      /\ processed' = [processed EXCEPT ![u] = 0]
      /\ late' = [late EXCEPT ![u] = LeftInNetwork(u)]
      /\ drops' = drops + 1
      /\ UNCHANGED <<server, outstanding, cached, screen, history, kills>>
  BY DEF OnDisconnect
<1>2. TypeOK'
  BY <1>1, NetworkOK, LenProperties DEF IInv, TypeOK, server, history
<1>3. ASSUME NEW v \in User
      PROVE  /\ QueueOK(outstanding'[v], messages)
             /\ QueueOK(late'[v], messages)
             /\ AppliedOK(outstanding'[v], processed'[v], messages)
  <2>1. AppliedOK(outstanding[v], 0, messages)
    BY DEF AppliedOK
  <2> QED
    BY <1>1, <2>1, NetworkOK DEF IInv, TypeOK
<1> QED
  BY <1>1, <1>2, <1>3, ClientStep

(* A new connection starts the queue again from its beginning.             *)
LEMMA ConnectStep ==
    ASSUME IInv, NEW u \in User, Connect(u)
    PROVE  IInv'
<1>1. /\ connected' = [connected EXCEPT ![u] = TRUE]
      /\ cached' = Listed(u)
      /\ UNCHANGED <<server, outstanding, processed, screen, late, history, drops, kills>>
  BY DEF Connect
<1>2. [friend \in User |-> chatbox[<<u, friend>>]] \in [User -> Chat \cup {NoBox}]
  BY DEF IInv, TypeOK, Pair
<1>3. cached' \in [User -> [User -> Chat \cup {NoBox}]]
  BY <1>1, <1>2 DEF Listed, IInv, TypeOK
<1>4. TypeOK'
  BY <1>1, <1>3 DEF IInv, TypeOK, server, history
<1> QED
  BY <1>1, <1>4, ClientStep DEF IInv

(* The end of the process drops the queue; what it left in the network is  *)
(* still in order.                                                         *)
LEMMA KillStep ==
    ASSUME IInv, NEW u \in User, Kill(u)
    PROVE  IInv'
<1>1. /\ outstanding' = [outstanding EXCEPT ![u] = <<>>]
      /\ processed' = [processed EXCEPT ![u] = 0]
      /\ connected' = [connected EXCEPT ![u] = FALSE]
      /\ cached' = [cached EXCEPT ![u] = [friend \in User |-> NoBox]]
      /\ screen' = [screen EXCEPT ![u] = NoScreen]
      /\ late' = [late EXCEPT ![u] = LeftInNetwork(u)]
      /\ kills' = kills + 1
      /\ UNCHANGED <<server, sent, drops>>
  BY DEF Kill
<1>2. lost' \in SUBSET Message
  <2>1. \A k \in DOMAIN sent : sent[k] \in Message
    BY LenProperties, ElementOfSeq DEF IInv, TypeOK
  <2> QED
    BY <2>1 DEF Kill, UnderWay, IInv, TypeOK
<1>3. <<>> \in Seq(Put) /\ Len(<<>>) = 0
  BY EmptySeq
<1>4. TypeOK'
  BY <1>1, <1>2, <1>3, NetworkOK DEF IInv, TypeOK, server
<1>5. ASSUME NEW v \in User
      PROVE  /\ QueueOK(outstanding'[v], messages)
             /\ QueueOK(late'[v], messages)
             /\ AppliedOK(outstanding'[v], processed'[v], messages)
  <2>1. QueueOK(<<>>, messages) /\ AppliedOK(<<>>, 0, messages)
    BY <1>3 DEF QueueOK, AppliedOK
  <2> QED
    BY <1>1, <2>1, NetworkOK DEF IInv, TypeOK
<1> QED
  BY <1>1, <1>4, <1>5, ClientStep

(* Queues keep in order while logs only gain messages. *)
LEMMA QueuesSurvive ==
    ASSUME IInv, \A p \in Pair : messages[p] \subseteq messages'[p], NEW u \in User
    PROVE  /\ QueueOK(outstanding[u], messages')
           /\ QueueOK(late[u], messages')
           /\ AppliedOK(outstanding[u], processed[u], messages')
<1>1. ASSUME NEW put \in Put, Stored(put, messages)
      PROVE  Stored(put, messages')
  BY <1>1 DEF Stored, Put
<1>2. ASSUME NEW put \in Put, NEW d \in RestsOn(put), Stored(d, messages)
      PROVE  Stored(d, messages')
  <2>1. d.at \in Pair
    BY DEF RestsOn, MessagePut, Put, Message, Pair
  <2> QED
    BY <1>2, <2>1 DEF Stored
<1>3. /\ outstanding[u] \in Seq(Put) /\ late[u] \in Seq(Put)
      /\ processed[u] \in Nat /\ processed[u] <= Len(outstanding[u])
      /\ Len(outstanding[u]) \in Nat
      /\ QueueOK(outstanding[u], messages)
      /\ QueueOK(late[u], messages)
      /\ AppliedOK(outstanding[u], processed[u], messages)
  BY LenProperties DEF IInv, TypeOK
<1>4. ASSUME NEW q \in Seq(Put), QueueOK(q, messages)
      PROVE  QueueOK(q, messages')
  <2>1. \A i \in 1..Len(q) : q[i] \in Put
    BY ElementOfSeq
  <2>2. \A i \in 1..Len(q) : \A d \in RestsOn(q[i]) :
            Stored(d, messages) => Stored(d, messages')
    BY <1>2, <2>1
  <2> QED
    BY <1>4, <2>2, QueueMonotone
<1>5. AppliedOK(outstanding[u], processed[u], messages')
  <2>1. \A i \in 1..processed[u] : outstanding[u][i] \in Put
    BY <1>3, ElementOfSeq
  <2> QED
    BY <1>1, <1>3, <2>1 DEF AppliedOK
<1> QED
  BY <1>3, <1>4, <1>5

(* The next write of a live connection rests only on what is stored: what  *)
(* came before it in the queue has been applied.                           *)
LEMMA NextPutOK ==
    ASSUME IInv, NEW u \in User, processed[u] < Len(outstanding[u])
    PROVE  LET put == outstanding[u][processed[u] + 1]
           IN  put \in Put /\ \A d \in RestsOn(put) : Stored(d, messages)
<1> DEFINE q == outstanding[u]
           n == processed[u]
<1>1. /\ q \in Seq(Put) /\ Len(q) \in Nat /\ n \in Nat
      /\ QueueOK(q, messages) /\ AppliedOK(q, n, messages)
  BY LenProperties DEF IInv, TypeOK
<1>2. n + 1 \in 1..Len(q)
  BY <1>1
<1>3. ASSUME NEW d \in RestsOn(q[n + 1]), ~Stored(d, messages)
      PROVE  FALSE
  <2>1. PICK j \in 1..((n + 1) - 1) : q[j] = d
    BY <1>1, <1>2, <1>3 DEF QueueOK
  <2>2. j \in 1..n
    BY <1>1, <2>1
  <2>3. d.kind = "message"
    BY DEF RestsOn, MessagePut
  <2> QED
    BY <1>1, <1>3, <2>1, <2>2, <2>3 DEF AppliedOK
<1> QED
  BY <1>1, <1>2, <1>3, ElementOfSeq

(* The server applies the next write of a live connection.                 *)
LEMMA ServerStep ==
    ASSUME IInv, NEW u \in User, ServerProcess(u)
    PROVE  IInv' /\ SL!Next
<1> DEFINE q == outstanding[u]
           n == processed[u]
           put == q[n + 1]
<1>1. /\ n < Len(q)
      /\ Apply(put)
      /\ processed' = [processed EXCEPT ![u] = n + 1]
      /\ cached' = IF put.kind = "chatbox" /\ put.at[1] = u
                   THEN Told(u, put.at[2], put.value) ELSE cached
      /\ UNCHANGED <<outstanding, connected, screen, late, history, drops, kills>>
  BY DEF ServerProcess
<1>2. put \in Put /\ \A d \in RestsOn(put) : Stored(d, messages)
  BY <1>1, NextPutOK
<1>3. /\ messages' \in [Pair -> SUBSET Message]
      /\ chatbox' \in [Pair -> Chat \cup {NoBox}]
      /\ SenderCopyLeads' /\ EntryIsLogged'
      /\ \A p \in Pair : messages[p] \subseteq messages'[p]
      /\ put.kind = "message" => Stored(put, messages')
      /\ SL!Next
  BY <1>1, <1>2, ApplyStep DEF IInv
<1>4. n \in Nat /\ Len(q) \in Nat
  BY LenProperties DEF IInv, TypeOK
<1>5. TypeOK'
  <2>1. cached' \in [User -> [User -> Chat \cup {NoBox}]]
    <3>1. ASSUME put.kind = "chatbox"
          PROVE  put.at[2] \in User /\ put.value \in Chat
      BY <1>2, <3>1 DEF Put, Pair
    <3> QED
      BY <1>1, <3>1 DEF Told, IInv, TypeOK
  <2>2. TypeOK
    BY DEF IInv
  <2>3. /\ processed' \in [User -> Nat]
        /\ \A x \in User : processed'[x] <= Len(outstanding'[x])
    <3>1. n + 1 \in Nat /\ n + 1 <= Len(q)
      BY <1>1, <1>4
    <3>2. outstanding' = outstanding /\ processed' = [processed EXCEPT ![u] = n + 1]
      BY <1>1
    <3> QED
      BY <2>2, <3>1, <3>2 DEF TypeOK
  <2>4. UNCHANGED <<outstanding, connected, screen, late, sent, lost, drops, kills>>
    BY <1>1 DEF history
  <2> QED
    BY <1>3, <2>1, <2>2, <2>3, <2>4 DEF TypeOK
<1>6. AppliedOK(q, n + 1, messages')
  <2>1. AppliedOK(q, n, messages')
    BY <1>3, QueuesSurvive
  <2> QED
    BY <1>3, <1>4, <2>1 DEF AppliedOK
<1>7. ASSUME NEW v \in User
      PROVE  /\ QueueOK(outstanding'[v], messages')
             /\ QueueOK(late'[v], messages')
             /\ AppliedOK(outstanding'[v], processed'[v], messages')
  BY <1>1, <1>3, <1>6, QueuesSurvive DEF IInv, TypeOK
<1> QED
  BY <1>3, <1>5, <1>7 DEF IInv

(* News of an entry changes what the client shows, and no more. *)
LEMMA ArriveStep ==
    ASSUME IInv, NEW u \in User, EntryArrives(u)
    PROVE  IInv'
<1>1. UNCHANGED <<server, outstanding, processed, connected, screen, late, history,
                  drops, kills>>
  BY DEF EntryArrives
<1>2. PICK friend \in User : cached' = Told(u, friend, chatbox[<<u, friend>>])
  BY DEF EntryArrives
<1>3. cached' \in [User -> [User -> Chat \cup {NoBox}]]
  BY <1>2 DEF Told, IInv, TypeOK, Pair
<1>4. TypeOK'
  BY <1>1, <1>3 DEF IInv, TypeOK, server, history
<1> QED
  BY <1>1, <1>4, ClientStep DEF IInv

(* The server applies a write of a connection already closed.              *)
LEMMA LateStep ==
    ASSUME IInv, NEW u \in User, ServerProcessLate(u)
    PROVE  IInv' /\ SL!Next
<1> DEFINE q == late[u]
<1>1. /\ q # <<>>
      /\ Apply(Head(q))
      /\ late' = [late EXCEPT ![u] = Tail(q)]
      /\ UNCHANGED <<client, history, drops, kills>>
  BY DEF ServerProcessLate
<1>2. /\ q \in Seq(Put) /\ Len(q) \in Nat \ {0} /\ Head(q) = q[1] /\ Head(q) \in Put
      /\ QueueOK(q, messages)
  BY <1>1, EmptySeq, HeadTailProperties DEF IInv, TypeOK
<1>3. \A d \in RestsOn(Head(q)) : Stored(d, messages)
  BY <1>2 DEF QueueOK
<1>4. /\ messages' \in [Pair -> SUBSET Message]
      /\ chatbox' \in [Pair -> Chat \cup {NoBox}]
      /\ SenderCopyLeads' /\ EntryIsLogged'
      /\ \A p \in Pair : messages[p] \subseteq messages'[p]
      /\ Head(q).kind = "message" => Stored(Head(q), messages')
      /\ SL!Next
  BY <1>1, <1>2, <1>3, ApplyStep DEF IInv
<1>5. QueueOK(q, messages')
  BY <1>4, QueuesSurvive
<1>6. AppliedOK(q, 1, messages')
  BY <1>2, <1>4 DEF AppliedOK
<1>7. Tail(q) \in Seq(Put) /\ QueueOK(Tail(q), messages')
  <2>1. 1 \in Nat /\ 1 <= Len(q) /\ 1 > 0
    BY <1>2
  <2> QED
    BY <1>2, <1>5, <1>6, <2>1, QueueTail
<1>8. TypeOK'
  BY <1>1, <1>4, <1>7 DEF IInv, TypeOK, client, history
<1>9. ASSUME NEW v \in User
      PROVE  /\ QueueOK(outstanding'[v], messages')
             /\ QueueOK(late'[v], messages')
             /\ AppliedOK(outstanding'[v], processed'[v], messages')
  BY <1>1, <1>4, <1>7, QueuesSurvive DEF IInv, TypeOK, client
<1> QED
  BY <1>4, <1>8, <1>9 DEF IInv

(* The invariant is inductive: one action per step of the proof.           *)
LEMMA NextIInv == IInv /\ [Next]_vars => IInv'
<1> SUFFICES ASSUME IInv, [Next]_vars PROVE IInv'
  OBVIOUS
<1>1. CASE UNCHANGED vars
  <2>1. UNCHANGED <<server, client, late, history, drops, kills>>
    BY <1>1 DEF vars
  <2>2. TypeOK'
    BY <2>1 DEF server, client, history, IInv, TypeOK
  <2> QED
    BY <2>1, <2>2, ClientStep DEF client, IInv
<1>2. CASE Next
  <2>1. PICK u \in User :
           \/ \E friend \in User : CreateNewChatBox(u, friend)
           \/ OpenScreen(u) \/ CloseScreen(u) \/ Send(u)
           \/ ServerProcess(u) \/ ServerProcessLate(u) \/ EntryArrives(u)
           \/ AckPut(u)
           \/ OnDisconnect(u) \/ Connect(u) \/ Kill(u)
    BY <1>2 DEF Next
  <2> QED
    BY <2>1, CreateStep, OpenStep, CloseStep, SendStep, ServerStep, LateStep,
       ArriveStep, AckStep, DisconnectStep, ConnectStep, KillStep
<1> QED
  BY <1>1, <1>2

-----------------------------------------------------------------------------
(* The theorems *)

(* In every behaviour the queues of setValue calls stay in order, and with *)
(* them the sender's copies and the list entries stay right.               *)
THEOREM Invariance == Spec => []IInv
  BY InitIInv, NextIInv, PTL DEF Spec

(* In every behaviour the variables have their types; the server never     *)
(* counts more applied writes than the client still keeps.                 *)
THEOREM TypeCorrect == Spec => []TypeOK
<1>1. IInv => TypeOK
  BY DEF IInv
<1> QED
  BY <1>1, Invariance, PTL

(* Through any number of lost connections, resends, late writes and kills, *)
(* a message in anybody's copy of a conversation is in its sender's copy.  *)
THEOREM SenderCopyAlwaysLeads == Spec => []SenderCopyLeads
<1>1. IInv => SenderCopyLeads
  BY DEF IInv
<1> QED
  BY <1>1, Invariance, PTL

(* A list entry never announces a message its owner's copy does not hold.  *)
THEOREM EntriesAlwaysLogged == Spec => []EntryIsLogged
<1>1. IInv => EntryIsLogged
  BY DEF IInv
<1> QED
  BY <1>1, Invariance, PTL

(* An empty database is an empty SharedLog.                                *)
LEMMA InitSharedLog == Init => SL!Init
  BY DEF Init, SL!Init, SL!Pair, Pair

(* Only the server's steps show in the database, and each is a step of     *)
(* SharedLog; every other step stutters there.                             *)
LEMMA NextSharedLog == IInv /\ [Next]_vars => [SL!Next]_SL!vars
<1> SUFFICES ASSUME IInv, [Next]_vars PROVE [SL!Next]_SL!vars
  OBVIOUS
<1>1. ASSUME UNCHANGED server PROVE UNCHANGED SL!vars
  BY <1>1 DEF server, SL!vars
<1>2. CASE UNCHANGED vars
  BY <1>1, <1>2 DEF vars
<1>3. CASE Next
  <2>1. PICK u \in User :
           \/ \E friend \in User : CreateNewChatBox(u, friend)
           \/ OpenScreen(u) \/ CloseScreen(u) \/ Send(u)
           \/ ServerProcess(u) \/ ServerProcessLate(u) \/ EntryArrives(u)
           \/ AckPut(u)
           \/ OnDisconnect(u) \/ Connect(u) \/ Kill(u)
    BY <1>3 DEF Next
  <2>2. CASE ServerProcess(u) \/ ServerProcessLate(u)
    BY <2>2, ServerStep, LateStep
  <2>3. CASE ~(ServerProcess(u) \/ ServerProcessLate(u))
    <3>1. UNCHANGED server
      BY <2>1, <2>3 DEF CreateNewChatBox, OpenScreen, CloseScreen, Send, SendMessage,
                        EntryArrives, AckPut, OnDisconnect, Connect, Kill
    <3> QED
      BY <1>1, <3>1
  <2> QED
    BY <2>2, <2>3
<1> QED
  BY <1>2, <1>3

(* The database the four setValue calls build is a SharedLog, whatever     *)
(* order, repetition and loss the connection imposes on them.              *)
THEOREM Refinement == Spec => ImplementsSharedLog
<1>1. Init /\ [][Next]_vars => SL!Init /\ [][SL!Next]_SL!vars
  BY InitSharedLog, NextSharedLog, Invariance, PTL DEF Spec
<1> QED
  BY <1>1 DEF Spec, SL!Spec, ImplementsSharedLog

-----------------------------------------------------------------------------
(* The clients' links *)

LinkedInv == IInv /\ WireCarriesQueue

(* The writes handed over go onto the link if it is up. *)
LEMMA SubmitCarries ==
    ASSUME LinkedInv, NEW u \in User, NEW writes, L!Submit(u, writes)
    PROVE  WireCarriesQueue'
<1>1. /\ outstanding \in [User -> Seq(Put)] /\ connected \in [User -> BOOLEAN]
      /\ \A v \in User : wire[v] = IF connected[v] THEN outstanding[v] ELSE <<>>
      /\ wire \in [User -> Seq(Put)]
  BY DEF LinkedInv, IInv, TypeOK, WireCarriesQueue
<1>2. /\ outstanding' = [outstanding EXCEPT ![u] = @ \o writes]
      /\ wire' = [wire EXCEPT ![u] = IF connected[u] THEN @ \o writes ELSE @]
      /\ connected' = connected
  BY DEF L!Submit
<1> QED
  BY <1>1, <1>2 DEF WireCarriesQueue

(* A step that leaves queues, links and the wire alone *)
LEMMA WireStays ==
    ASSUME WireCarriesQueue, UNCHANGED <<wire, outstanding, connected>>
    PROVE  WireCarriesQueue'
BY DEF WireCarriesQueue

(* What a step of a user with such a link does is what Messaging has the   *)
(* user's client do.                                                       *)
LEMMA LinkedStep ==
    ASSUME LinkedInv, NEW u \in User,
           \/ \E friend \in User : LinkedCreate(u, friend)
           \/ LinkedSend(u) \/ OffTheLink(u) \/ LinkedProcess(u) \/ LinkedAck(u)
           \/ LinkedDisconnect(u) \/ LinkedConnect(u) \/ LinkedKill(u)
    PROVE  /\ \/ \E friend \in User : CreateNewChatBox(u, friend)
              \/ OpenScreen(u) \/ CloseScreen(u) \/ Send(u)
              \/ ServerProcess(u) \/ ServerProcessLate(u) \/ EntryArrives(u)
              \/ AckPut(u) \/ OnDisconnect(u) \/ Connect(u) \/ Kill(u)
           /\ WireCarriesQueue'
<1>1. /\ outstanding \in [User -> Seq(Put)] /\ connected \in [User -> BOOLEAN]
      /\ processed \in [User -> Nat] /\ late \in [User -> Seq(Put)]
      /\ wire = [v \in User |-> IF connected[v] THEN outstanding[v] ELSE <<>>]
      /\ wire[u] = IF connected[u] THEN outstanding[u] ELSE <<>>
      /\ processed[u] \in Nat /\ late[u] \in Seq(Put) /\ wire[u] \in Seq(Put)
  BY DEF LinkedInv, IInv, TypeOK, WireCarriesQueue
<1>2. WireCarriesQueue
  BY DEF LinkedInv
<1>3. CASE \E friend \in User : LinkedCreate(u, friend)
  <2>1. PICK friend \in User : LinkedCreate(u, friend)
    BY <1>3
  <2> QED
    BY <2>1, SubmitCarries DEF LinkedCreate
<1>4. CASE LinkedSend(u)
  BY <1>4, SubmitCarries DEF LinkedSend
<1>5. CASE OffTheLink(u)
  <2>1. UNCHANGED <<wire, outstanding, connected>>
    BY <1>5 DEF OffTheLink, OpenScreen, CloseScreen, EntryArrives, ServerProcessLate,
       client
  <2> QED
    BY <1>2, <1>5, <2>1, WireStays DEF OffTheLink
<1>6. CASE LinkedProcess(u)
  <2>1. connected[u] /\ wire[u] = outstanding[u]
    BY <1>1, <1>6 DEF LinkedProcess
  <2>2. ServerProcess(u)
    BY <1>6, <2>1 DEF LinkedProcess, ServerProcess
  <2>3. UNCHANGED <<wire, outstanding, connected>>
    BY <1>6 DEF LinkedProcess
  <2> QED
    BY <1>2, <2>2, <2>3, WireStays
<1>7. CASE LinkedAck(u)
  <2>1. /\ connected[u] /\ processed[u] > 0
        /\ outstanding' = [outstanding EXCEPT ![u] = Tail(@)]
        /\ wire' = [wire EXCEPT ![u] = Tail(@)]
        /\ connected' = connected
    BY <1>7 DEF LinkedAck, L!Acknowledge
  <2>2. AckPut(u)
    BY <1>7, <2>1 DEF LinkedAck, AckPut
  <2>3. WireCarriesQueue'
    BY <1>1, <2>1 DEF WireCarriesQueue
  <2> QED
    BY <2>2, <2>3
<1>8. CASE LinkedDisconnect(u)
  <2>1. /\ connected[u] /\ connected' = [connected EXCEPT ![u] = FALSE]
        /\ wire' = [wire EXCEPT ![u] = <<>>] /\ outstanding' = outstanding
    BY <1>8 DEF LinkedDisconnect, L!Lose
  <2>2. LeftOfLink(u) = LeftInNetwork(u)
    BY <1>1, <2>1 DEF LeftOfLink, LeftInNetwork
  <2>3. OnDisconnect(u)
    BY <1>8, <2>1, <2>2 DEF LinkedDisconnect, OnDisconnect
  <2>4. WireCarriesQueue'
    BY <1>1, <2>1 DEF WireCarriesQueue
  <2> QED
    BY <2>3, <2>4
<1>9. CASE LinkedConnect(u)
  <2>1. /\ ~connected[u] /\ connected' = [connected EXCEPT ![u] = TRUE]
        /\ wire' = [wire EXCEPT ![u] = outstanding[u]] /\ outstanding' = outstanding
    BY <1>9 DEF LinkedConnect, L!Establish
  <2>2. Connect(u)
    BY <1>9, <2>1 DEF LinkedConnect, Connect
  <2>3. WireCarriesQueue'
    BY <1>1, <2>1 DEF WireCarriesQueue
  <2> QED
    BY <2>2, <2>3
<1>10. CASE LinkedKill(u)
  <2>1. /\ connected' = [connected EXCEPT ![u] = FALSE]
        /\ wire' = [wire EXCEPT ![u] = <<>>]
        /\ outstanding' = [outstanding EXCEPT ![u] = <<>>]
    BY <1>10 DEF LinkedKill, L!Forget
  <2>2. LeftOfLink(u) = LeftInNetwork(u)
    <3>1. CASE connected[u]
      BY <1>1, <3>1 DEF LeftOfLink, LeftInNetwork
    <3>2. CASE ~connected[u]
      <4>1. wire[u] = <<>> /\ processed[u] + 1 \in Int /\ Len(wire[u]) = 0
            /\ processed[u] + 1 > 0
        BY <1>1, <3>2
      <4>2. SubSeq(wire[u], processed[u] + 1, Len(wire[u])) = <<>>
        BY <4>1, SubSeqEmpty
      <4>3. late[u] \o <<>> = late[u]
        BY <1>1, ConcatEmptySeq
      <4> QED
        BY <3>2, <4>2, <4>3 DEF LeftOfLink, LeftInNetwork
    <3> QED
      BY <3>1, <3>2
  <2>3. Kill(u)
    BY <1>10, <2>1, <2>2 DEF LinkedKill, Kill
  <2>4. WireCarriesQueue'
    BY <1>1, <2>1 DEF WireCarriesQueue
  <2> QED
    BY <2>3, <2>4
<1> QED
  BY <1>3, <1>4, <1>5, <1>6, <1>7, <1>8, <1>9, <1>10

LEMMA LinkedNextStep == LinkedInv /\ [LinkedNext]_linkedVars => [Next]_vars /\ LinkedInv'
<1> SUFFICES ASSUME LinkedInv, [LinkedNext]_linkedVars
             PROVE  [Next]_vars /\ LinkedInv'
  OBVIOUS
<1>1. [Next]_vars /\ WireCarriesQueue'
  <2>1. CASE LinkedNext
    <3>1. PICK u \in User :
             \/ \E friend \in User : LinkedCreate(u, friend)
             \/ LinkedSend(u) \/ OffTheLink(u) \/ LinkedProcess(u) \/ LinkedAck(u)
             \/ LinkedDisconnect(u) \/ LinkedConnect(u) \/ LinkedKill(u)
      BY <2>1 DEF LinkedNext
    <3> QED
      BY <3>1, LinkedStep DEF Next
  <2>2. CASE UNCHANGED linkedVars
    BY <2>2, WireStays DEF linkedVars, vars, client, LinkedInv
  <2> QED
    BY <2>1, <2>2
<1> QED
  BY <1>1, NextIInv DEF LinkedInv

(* With links that keep to WriteLink, which Connection is proved to do,    *)
(* the clients and the server do what Messaging says: it takes no more for *)
(* granted of connections (sendPut, onDisconnect, restoreState).           *)
THEOREM LinksSuffice == LinkedSpec => ImplementsMessaging
<1>1. LinkedInit => Init /\ LinkedInv
  BY InitIInv DEF LinkedInit, LinkedInv, WireCarriesQueue, Init
<1>2. LinkedInv /\ [LinkedNext]_linkedVars => [Next]_vars /\ LinkedInv'
  BY LinkedNextStep
<1> QED
  BY <1>1, <1>2, PTL DEF LinkedSpec, Spec, ImplementsMessaging

-----------------------------------------------------------------------------
(* Nothing sent is dropped *)

(* The two copies of a message *)
Copies(m) == {MessagePut(<<m.from, m.to>>, m), MessagePut(<<m.to, m.from>>, m)}
InQueue(put, q) == \E i \in 1..Len(q) : q[i] = put

(* Each copy of a message no kill caught is stored or is still with the    *)
(* client that sent it.                                                    *)
KeptInv ==
    \A k \in 1..Len(sent) : sent[k] \notin lost =>
        \A put \in Copies(sent[k]) :
            Stored(put, messages) \/ InQueue(put, outstanding[sent[k].from])

LEMMA CopiesAreMessages ==
    ASSUME NEW m \in Message, NEW put \in Copies(m)
    PROVE  put.kind = "message" /\ put.value = m /\ put.at \in Pair
BY DEF Copies, MessagePut, Message, Pair

(* A step that keeps the messages sent and lost, takes nothing out of a    *)
(* log and drops from a queue only what is stored keeps the invariant.     *)
LEMMA KeptStep ==
    ASSUME KeptInv, IInv, UNCHANGED history,
           \A p \in Pair : messages[p] \subseteq messages'[p],
           \A u \in User : \A i \in 1..Len(outstanding[u]) :
               \/ InQueue(outstanding[u][i], outstanding'[u])
               \/ outstanding[u][i].kind = "message"
                    => Stored(outstanding[u][i], messages')
    PROVE  KeptInv'
<1> SUFFICES ASSUME NEW k \in 1..Len(sent), sent[k] \notin lost,
                    NEW put \in Copies(sent[k])
             PROVE  \/ Stored(put, messages')
                    \/ InQueue(put, outstanding'[sent[k].from])
  BY DEF KeptInv, history
<1>1. sent[k] \in Message /\ sent[k].from \in User
  <2>1. sent \in Seq(Message)
    BY DEF IInv, TypeOK
  <2>2. sent[k] \in Message
    BY <2>1, ElementOfSeq
  <2> QED
    BY <2>2 DEF Message
<1>2. put.kind = "message" /\ put.at \in Pair
  BY <1>1, CopiesAreMessages
<1>3. CASE Stored(put, messages)
  BY <1>2, <1>3 DEF Stored
<1>4. CASE InQueue(put, outstanding[sent[k].from])
  BY <1>1, <1>2, <1>4 DEF InQueue
<1> QED
  BY <1>3, <1>4 DEF KeptInv

(* What is put stays where it was, and what a send puts is there. *)
LEMMA InConcat ==
    ASSUME NEW q \in Seq(Put), NEW r \in Seq(Put)
    PROVE  /\ \A i \in 1..Len(q) : InQueue(q[i], q \o r)
           /\ \A i \in 1..Len(r) : InQueue(r[i], q \o r)
<1>1. /\ Len(q) \in Nat /\ Len(r) \in Nat /\ Len(q \o r) = Len(q) + Len(r)
      /\ \A i \in 1..Len(q) : (q \o r)[i] = q[i]
      /\ \A i \in 1..Len(r) : (q \o r)[Len(q) + i] = r[i]
  BY ConcatProperties, LenProperties
<1>2. ASSUME NEW i \in 1..Len(q) PROVE InQueue(q[i], q \o r)
  <2>1. i \in 1..Len(q \o r) /\ (q \o r)[i] = q[i]
    BY <1>1
  <2> QED
    BY <2>1 DEF InQueue
<1>3. ASSUME NEW i \in 1..Len(r) PROVE InQueue(r[i], q \o r)
  <2>1. Len(q) + i \in 1..Len(q \o r) /\ (q \o r)[Len(q) + i] = r[i]
    BY <1>1
  <2> QED
    BY <2>1 DEF InQueue
<1> QED
  BY <1>2, <1>3

(* Nor does any other queue lose a write. *)
LEMMA QueuesGrow ==
    ASSUME IInv, NEW u \in User, NEW r \in Seq(Put),
           outstanding' = [outstanding EXCEPT ![u] = @ \o r],
           NEW v \in User, NEW i \in 1..Len(outstanding[v])
    PROVE  InQueue(outstanding[v][i], outstanding'[v])
<1>1. outstanding \in [User -> Seq(Put)]
  BY DEF IInv, TypeOK
<1>2. CASE v = u
  <2>1. outstanding'[v] = outstanding[v] \o r /\ outstanding[v] \in Seq(Put)
    BY <1>1, <1>2
  <2> QED
    BY <2>1, InConcat
<1>3. CASE v # u
  BY <1>1, <1>3 DEF InQueue
<1> QED
  BY <1>2, <1>3

LEMMA KeptCreate ==
    ASSUME KeptInv, IInv, NEW u \in User, NEW friend \in User, CreateNewChatBox(u, friend)
    PROVE  KeptInv'
<1> DEFINE c == [chatId |-> <<u, friend>>, name |-> friend,
                 last |-> Greeting, messState |-> "SEEN"]
           r == <<ChatBoxPut(<<u, friend>>, c)>>
<1>1. c \in Chat /\ <<u, friend>> \in Pair /\ c.last = Greeting
  BY DEF Chat, Pair, MessState
<1>2. r \in Seq(Put)
  BY <1>1, PlaceholderOK
<1>3. /\ outstanding' = [outstanding EXCEPT ![u] = @ \o r]
      /\ UNCHANGED history /\ messages' = messages
  BY DEF CreateNewChatBox, server
<1> HIDE DEF c, r
<1>4. ASSUME NEW v \in User, NEW i \in 1..Len(outstanding[v])
      PROVE  InQueue(outstanding[v][i], outstanding'[v])
  BY <1>2, <1>3, QueuesGrow
<1> QED
  BY <1>3, <1>4, KeptStep

LEMMA KeptSend ==
    ASSUME KeptInv, IInv, NEW u \in User, Send(u)
    PROVE  KeptInv'
<1>1. screen[u].currentChatBox \in Chat /\ screen[u].friendId \in User
  <2>1. screen[u] \in Screen
    BY DEF Send, IInv, TypeOK
  <2> QED
    BY <2>1 DEF Screen
<1>2. PICK i \in MsgId :
         SendMessage(u, [id |-> i, from |-> u, to |-> screen[u].friendId])
  BY DEF Send
<1> DEFINE m == [id |-> i, from |-> u, to |-> screen[u].friendId]
           r == SendPuts(screen[u].currentChatBox, m)
<1>3. m \in Message /\ m.from = u
  BY <1>1 DEF Message
<1>4. r \in Seq(Put) /\ Len(r) = 4 /\ Copies(m) = {r[1], r[2]}
  BY <1>1, <1>3, SendPutsOK DEF SendPuts, Copies
<1>5. /\ outstanding' = [outstanding EXCEPT ![u] = @ \o r]
      /\ sent' = Append(sent, m) /\ lost' = lost /\ messages' = messages
  BY <1>2 DEF SendMessage, server
<1> HIDE DEF m, r
<1>6. ASSUME NEW v \in User, NEW j \in 1..Len(outstanding[v])
      PROVE  InQueue(outstanding[v][j], outstanding'[v])
  BY <1>4, <1>5, QueuesGrow
<1>7. \A put \in Copies(m) : InQueue(put, outstanding'[u])
  <2>1. 1 \in 1..Len(r) /\ 2 \in 1..Len(r)
    BY <1>4
  <2>2. outstanding'[u] = outstanding[u] \o r /\ outstanding[u] \in Seq(Put)
    BY <1>5 DEF IInv, TypeOK
  <2> QED
    BY <1>4, <2>1, <2>2, InConcat
<1> SUFFICES ASSUME NEW k \in 1..Len(sent'), sent'[k] \notin lost,
                    NEW put \in Copies(sent'[k])
             PROVE  \/ Stored(put, messages)
                    \/ InQueue(put, outstanding'[sent'[k].from])
  BY <1>5 DEF KeptInv
<1>8. sent \in Seq(Message) /\ Len(sent) \in Nat
  BY LenProperties DEF IInv, TypeOK
<1>9. CASE k = Len(sent) + 1
  <2>1. sent'[k] = m
    BY <1>3, <1>5, <1>8, <1>9
  <2> QED
    BY <1>3, <1>7, <2>1
<1>10. CASE k \in 1..Len(sent)
  <2>1. sent'[k] = sent[k] /\ sent[k] \in Message
    BY <1>3, <1>5, <1>8, <1>10, ElementOfSeq
  <2>2. CASE Stored(put, messages)
    BY <2>2
  <2>3. CASE InQueue(put, outstanding[sent[k].from])
    <3>1. sent[k].from \in User
      BY <2>1 DEF Message
    <3> QED
      BY <1>6, <2>1, <2>3, <3>1 DEF InQueue
  <2> QED
    BY <1>10, <2>1, <2>2, <2>3 DEF KeptInv
<1> QED
  BY <1>3, <1>5, <1>8, <1>9, <1>10

(* An acknowledgement takes away the oldest write, which is stored. *)
LEMMA KeptAck ==
    ASSUME KeptInv, IInv, NEW u \in User, AckPut(u)
    PROVE  KeptInv'
<1> DEFINE q == outstanding[u]
<1>1. /\ q \in Seq(Put) /\ Len(q) \in Nat /\ processed[u] \in Nat
      /\ processed[u] > 0 /\ processed[u] <= Len(q)
  BY LenProperties DEF AckPut, IInv, TypeOK
<1>2. /\ outstanding' = [outstanding EXCEPT ![u] = Tail(q)]
      /\ UNCHANGED history /\ messages' = messages
  BY DEF AckPut, server
<1>3. q # <<>>
  BY <1>1, EmptySeq
<1>4. /\ Tail(q) \in Seq(Put) /\ Len(Tail(q)) = Len(q) - 1
      /\ \A i \in 1..Len(Tail(q)) : Tail(q)[i] = q[i + 1]
  BY <1>1, <1>3, HeadTailProperties
<1>5. q[1].kind = "message" => Stored(q[1], messages)
  BY <1>1 DEF IInv, AppliedOK
<1>6. ASSUME NEW i \in 2..Len(q) PROVE InQueue(q[i], Tail(q))
  <2>1. i - 1 \in 1..Len(Tail(q)) /\ Tail(q)[i - 1] = q[(i - 1) + 1] /\ (i - 1) + 1 = i
    BY <1>1, <1>4
  <2> QED
    BY <2>1 DEF InQueue
<1>7. ASSUME NEW v \in User, NEW i \in 1..Len(outstanding[v])
      PROVE  \/ InQueue(outstanding[v][i], outstanding'[v])
             \/ outstanding[v][i].kind = "message" => Stored(outstanding[v][i], messages')
  <2>1. CASE v # u
    BY <1>2, <2>1 DEF IInv, TypeOK, InQueue
  <2>2. CASE v = u /\ i = 1
    BY <1>2, <1>5, <2>2
  <2>3. CASE v = u /\ i \in 2..Len(q)
    BY <1>2, <1>6, <2>3 DEF IInv, TypeOK
  <2> QED
    BY <1>1, <2>1, <2>2, <2>3
<1> QED
  BY <1>2, <1>7, KeptStep

(* A kill loses what it catches, and the history says which messages. *)
LEMMA KeptKill ==
    ASSUME KeptInv, IInv, NEW u \in User, Kill(u)
    PROVE  KeptInv'
<1>1. /\ outstanding' = [outstanding EXCEPT ![u] = <<>>]
      /\ sent' = sent /\ messages' = messages
      /\ lost' = lost \cup {m \in {sent[k] : k \in DOMAIN sent} :
                              \E i \in DOMAIN outstanding[u] :
                                 /\ outstanding[u][i].kind = "message"
                                 /\ outstanding[u][i].value = m}
  BY DEF Kill, UnderWay, server
<1> SUFFICES ASSUME NEW k \in 1..Len(sent), sent[k] \notin lost',
                    NEW put \in Copies(sent[k])
             PROVE  \/ Stored(put, messages)
                    \/ InQueue(put, outstanding'[sent[k].from])
  BY <1>1 DEF KeptInv
<1>2. sent[k] \in Message /\ sent[k].from \in User /\ k \in DOMAIN sent
  BY ElementOfSeq, LenProperties DEF IInv, TypeOK, Message
<1>3. put.kind = "message" /\ put.value = sent[k]
  BY <1>2, CopiesAreMessages
<1>4. sent[k] \notin lost
  BY <1>1
<1>5. CASE Stored(put, messages)
  BY <1>5
<1>6. CASE InQueue(put, outstanding[sent[k].from]) /\ sent[k].from # u
  BY <1>1, <1>2, <1>6 DEF IInv, TypeOK
<1>7. CASE InQueue(put, outstanding[u]) /\ sent[k].from = u
  <2>1. PICK i \in 1..Len(outstanding[u]) : outstanding[u][i] = put
    BY <1>7 DEF InQueue
  <2>2. i \in DOMAIN outstanding[u]
    BY LenProperties DEF IInv, TypeOK
  <2> QED
    BY <1>1, <1>2, <1>3, <2>1, <2>2
<1> QED
  BY <1>4, <1>5, <1>6, <1>7 DEF KeptInv

(* Applying a write takes nothing out of a log. *)
LEMMA AppliedGains ==
    ASSUME IInv, NEW u \in User, ServerProcess(u) \/ ServerProcessLate(u)
    PROVE  \A p \in Pair : messages[p] \subseteq messages'[p]
<1>1. PICK put : Apply(put)
  BY DEF ServerProcess, ServerProcessLate
<1> QED
  BY <1>1 DEF Apply, IInv, TypeOK

LEMMA KeptNext == KeptInv /\ IInv /\ [Next]_vars => KeptInv'
<1> SUFFICES ASSUME KeptInv, IInv, [Next]_vars PROVE KeptInv'
  OBVIOUS
<1>1. ASSUME UNCHANGED <<outstanding, history>>,
             \A p \in Pair : messages[p] \subseteq messages'[p]
      PROVE  KeptInv'
  BY <1>1, KeptStep DEF InQueue
<1>2. CASE UNCHANGED vars
  BY <1>1, <1>2 DEF vars, client, server
<1>3. CASE Next
  <2>1. PICK u \in User :
           \/ \E friend \in User : CreateNewChatBox(u, friend)
           \/ OpenScreen(u) \/ CloseScreen(u) \/ Send(u)
           \/ ServerProcess(u) \/ ServerProcessLate(u) \/ EntryArrives(u)
           \/ AckPut(u)
           \/ OnDisconnect(u) \/ Connect(u) \/ Kill(u)
    BY <1>3 DEF Next
  <2>2. CASE OpenScreen(u) \/ CloseScreen(u) \/ EntryArrives(u) \/ OnDisconnect(u)
                \/ Connect(u)
    BY <1>1, <2>2 DEF OpenScreen, CloseScreen, EntryArrives, OnDisconnect, Connect, server
  <2>3. CASE ServerProcess(u) \/ ServerProcessLate(u)
    <3>1. UNCHANGED <<outstanding, history>>
      BY <2>3 DEF ServerProcess, ServerProcessLate, client
    <3>2. \A p \in Pair : messages[p] \subseteq messages'[p]
      BY <2>3, AppliedGains
    <3> QED
      BY <1>1, <3>1, <3>2
  <2> QED
    BY <2>1, <2>2, <2>3, KeptCreate, KeptSend, KeptAck, KeptKill
<1> QED
  BY <1>2, <1>3

(* A message that no kill caught is never dropped: when its sender's       *)
(* writes are all acknowledged both copies hold it, however late others of *)
(* the network may be (sendButtonTapped, restoreState).                    *)
THEOREM CopiesAgree == Spec => []CopiesAgreeAtRest
<1>1. Init => KeptInv
  BY DEF Init, KeptInv
<1>2. KeptInv /\ IInv => CopiesAgreeAtRest
  <2> SUFFICES ASSUME KeptInv, IInv, NEW k \in DOMAIN sent, sent[k] \notin lost,
                      outstanding[sent[k].from] = <<>>
               PROVE  /\ sent[k] \in messages[<<sent[k].from, sent[k].to>>]
                      /\ sent[k] \in messages[<<sent[k].to, sent[k].from>>]
    BY DEF CopiesAgreeAtRest
  <2>1. k \in 1..Len(sent) /\ sent[k] \in Message /\ sent[k].from \in User
    <3>1. sent \in Seq(Message)
      BY DEF IInv, TypeOK
    <3>2. k \in 1..Len(sent)
      BY <3>1, LenProperties
    <3>3. sent[k] \in Message
      BY <3>1, <3>2, ElementOfSeq
    <3> QED
      BY <3>2, <3>3 DEF Message
  <2>2. \A put \in Copies(sent[k]) : ~InQueue(put, outstanding[sent[k].from])
    BY DEF InQueue
  <2> QED
    BY <2>1, <2>2 DEF KeptInv, Copies, Stored, MessagePut
<1> QED
  BY <1>1, <1>2, KeptNext, Invariance, PTL DEF Spec

-----------------------------------------------------------------------------
(* Every entry tells whose words it shows *)

(* What EntryTellsWhoSpoke asks of the entry c at p *)
Honest(p, c) ==
    p[1] # p[2] =>
        /\ c.messState = "SENT_BY_YOU" => c.last # Greeting /\ c.last.from = p[1]
        /\ c.messState = "SENT_BY_FRIEND" =>
              /\ c.last # Greeting /\ c.last.from = p[2]
              /\ c.name = p[2] /\ c.chatId = p

(* An entry is written as a whole: the property holds of what is stored    *)
(* because it holds of every write, wherever the write is.                 *)
HonestPut(put) == put.kind = "chatbox" => Honest(put.at, put.value)
HonestQueue(q) == \A i \in 1..Len(q) : HonestPut(q[i])
HonestInv ==
    /\ \A p \in Pair : chatbox[p] # NoBox => Honest(p, chatbox[p])
    /\ \A u \in User : HonestQueue(outstanding[u]) /\ HonestQueue(late[u])

LEMMA HonestConcat ==
    ASSUME NEW q \in Seq(Put), NEW r \in Seq(Put), HonestQueue(q), HonestQueue(r)
    PROVE  HonestQueue(q \o r)
<1>1. /\ Len(q) \in Nat /\ Len(r) \in Nat /\ Len(q \o r) = Len(q) + Len(r)
      /\ \A i \in 1..Len(q) : (q \o r)[i] = q[i]
      /\ \A i \in 1..Len(r) : (q \o r)[Len(q) + i] = r[i]
  BY ConcatProperties, LenProperties
<1> SUFFICES ASSUME NEW i \in 1..Len(q \o r) PROVE HonestPut((q \o r)[i])
  BY DEF HonestQueue
<1>2. CASE i \in 1..Len(q)
  BY <1>1, <1>2 DEF HonestQueue
<1>3. CASE i \notin 1..Len(q)
  <2>1. i - Len(q) \in 1..Len(r) /\ Len(q) + (i - Len(q)) = i
    BY <1>1, <1>3
  <2>2. (q \o r)[i] = r[i - Len(q)]
    BY <1>1, <2>1
  <2> QED
    BY <2>1, <2>2 DEF HonestQueue
<1> QED
  BY <1>2, <1>3

(* What follows the first n writes of an honest queue is honest. *)
LEMMA HonestSuffix ==
    ASSUME NEW q \in Seq(Put), NEW n \in Nat, n <= Len(q), HonestQueue(q)
    PROVE  HonestQueue(SubSeq(q, n + 1, Len(q)))
<1> DEFINE s == SubSeq(q, n + 1, Len(q))
<1>1. Len(q) \in Nat
  BY LenProperties
<1>2. Len(s) = Len(q) - n /\ \A i \in 1..Len(s) : s[i] = q[n + i]
  <2>1. \A i \in (n + 1)..Len(q) : q[i] \in Put
    BY <1>1, ElementOfSeq
  <2> QED
    BY <1>1, <2>1, SubSeqProperties
<1>3. ASSUME NEW i \in 1..Len(s) PROVE HonestPut(s[i])
  <2>1. n + i \in 1..Len(q)
    BY <1>1, <1>2
  <2> QED
    BY <1>2, <2>1 DEF HonestQueue
<1> QED
  BY <1>3 DEF HonestQueue

(* What a closed connection leaves in the network is honest. *)
LEMMA HonestNetwork ==
    ASSUME IInv, HonestInv, NEW u \in User
    PROVE  HonestQueue(LeftInNetwork(u))
<1> DEFINE q == outstanding[u]
           n == processed[u]
           s == SubSeq(q, n + 1, Len(q))
<1>1. /\ q \in Seq(Put) /\ Len(q) \in Nat /\ n \in Nat /\ n <= Len(q)
      /\ late[u] \in Seq(Put)
  BY LenProperties DEF IInv, TypeOK
<1>2. s \in Seq(Put)
  <2>1. \A i \in (n + 1)..Len(q) : q[i] \in Put
    BY <1>1, ElementOfSeq
  <2> QED
    BY <1>1, <2>1, SubSeqProperties
<1>3. HonestQueue(s)
  BY <1>1, HonestSuffix DEF HonestInv
<1>4. HonestQueue(late[u] \o s)
  BY <1>1, <1>2, <1>3, HonestConcat DEF HonestInv
<1> QED
  BY <1>4 DEF LeftInNetwork, HonestInv

(* The four writes of a send, and the placeholder, are honest. *)
LEMMA HonestSendPuts ==
    ASSUME NEW c \in Chat, NEW m \in Message
    PROVE  HonestQueue(SendPuts(c, m))
<1> DEFINE mine == EditedForMe(c, m)
           yours == EditedForFriend(c, m)
<1>1. m # Greeting
  BY SentinelAssumption
<1>2. /\ mine.last = m /\ mine.messState = "SENT_BY_YOU"
      /\ yours.last = m /\ yours.messState = "SENT_BY_FRIEND"
      /\ yours.name = m.from /\ yours.chatId = <<m.to, m.from>>
  BY DEF EditedForMe, EditedForFriend, Chat
<1>3. Honest(<<m.from, m.to>>, mine) /\ Honest(<<m.to, m.from>>, yours)
  BY <1>1, <1>2 DEF Honest
<1> HIDE DEF mine, yours
<1>4. /\ HonestPut(MessagePut(<<m.from, m.to>>, m))
      /\ HonestPut(MessagePut(<<m.to, m.from>>, m))
      /\ HonestPut(ChatBoxPut(<<m.from, m.to>>, mine))
      /\ HonestPut(ChatBoxPut(<<m.to, m.from>>, yours))
  BY <1>3 DEF HonestPut, MessagePut, ChatBoxPut
<1>5. SendPuts(c, m) = <<MessagePut(<<m.from, m.to>>, m),
                         MessagePut(<<m.to, m.from>>, m),
                         ChatBoxPut(<<m.from, m.to>>, mine),
                         ChatBoxPut(<<m.to, m.from>>, yours)>>
  BY DEF SendPuts, mine, yours
<1> QED
  BY <1>4, <1>5 DEF HonestQueue

(* A queue that only gains honest writes stays honest. *)
LEMMA HonestEnqueue ==
    ASSUME IInv, HonestInv, NEW u \in User, NEW r \in Seq(Put), HonestQueue(r),
           outstanding' = [outstanding EXCEPT ![u] = @ \o r],
           late' = late, chatbox' = chatbox
    PROVE  HonestInv'
<1>1. outstanding \in [User -> Seq(Put)]
  BY DEF IInv, TypeOK
<1>2. HonestQueue(outstanding[u] \o r)
  BY <1>1, HonestConcat DEF HonestInv
<1>3. ASSUME NEW v \in User PROVE HonestQueue(outstanding'[v])
  BY <1>1, <1>2, <1>3 DEF HonestInv
<1> QED
  BY <1>3 DEF HonestInv, HonestQueue

LEMMA HonestCreate ==
    ASSUME IInv, HonestInv, NEW u \in User, NEW friend \in User, CreateNewChatBox(u, friend)
    PROVE  HonestInv'
<1> DEFINE c == [chatId |-> <<u, friend>>, name |-> friend,
                 last |-> Greeting, messState |-> "SEEN"]
           r == <<ChatBoxPut(<<u, friend>>, c)>>
<1>1. c \in Chat /\ <<u, friend>> \in Pair /\ c.last = Greeting /\ c.messState = "SEEN"
  BY DEF Chat, Pair, MessState
<1>2. outstanding' = [outstanding EXCEPT ![u] = @ \o r] /\ late' = late /\ chatbox' = chatbox
  BY DEF CreateNewChatBox, server
<1> HIDE DEF c
<1>3. r \in Seq(Put)
  BY <1>1, PlaceholderOK
<1>4. HonestQueue(r)
  <2>1. HonestPut(ChatBoxPut(<<u, friend>>, c))
    BY <1>1 DEF HonestPut, Honest, ChatBoxPut
  <2> QED
    BY <2>1 DEF HonestQueue
<1> HIDE DEF r
<1> QED
  BY <1>2, <1>3, <1>4, HonestEnqueue

LEMMA HonestSend ==
    ASSUME IInv, HonestInv, NEW u \in User, Send(u)
    PROVE  HonestInv'
<1>1. screen[u].currentChatBox \in Chat /\ screen[u].friendId \in User
  <2>1. screen[u] \in Screen
    BY DEF Send, IInv, TypeOK
  <2> QED
    BY <2>1 DEF Screen
<1>2. PICK i \in MsgId :
         SendMessage(u, [id |-> i, from |-> u, to |-> screen[u].friendId])
  BY DEF Send
<1> DEFINE m == [id |-> i, from |-> u, to |-> screen[u].friendId]
           r == SendPuts(screen[u].currentChatBox, m)
<1>3. m \in Message
  BY <1>1 DEF Message
<1>4. outstanding' = [outstanding EXCEPT ![u] = @ \o r] /\ late' = late /\ chatbox' = chatbox
  BY <1>2 DEF SendMessage, server
<1> HIDE DEF m
<1>5. r \in Seq(Put) /\ HonestQueue(r)
  BY <1>1, <1>3, SendPutsOK, HonestSendPuts
<1> HIDE DEF r
<1> QED
  BY <1>4, <1>5, HonestEnqueue

(* An honest write leaves honest entries. *)
LEMMA HonestApply ==
    ASSUME IInv, HonestInv, NEW put \in Put, HonestPut(put), Apply(put),
           NEW p \in Pair, chatbox'[p] # NoBox
    PROVE  Honest(p, chatbox'[p])
<1>1. CASE put.kind = "message" /\ chatbox' = chatbox
  BY <1>1 DEF HonestInv
<1>2. CASE put.kind = "chatbox" /\ chatbox' = [chatbox EXCEPT ![put.at] = put.value]
  BY <1>2 DEF HonestInv, HonestPut, IInv, TypeOK
<1> QED
  BY <1>1, <1>2 DEF Apply

LEMMA HonestServer ==
    ASSUME IInv, HonestInv, NEW u \in User, ServerProcess(u)
    PROVE  HonestInv'
<1> DEFINE put == outstanding[u][processed[u] + 1]
<1>1. Apply(put) /\ outstanding' = outstanding /\ late' = late
      /\ processed[u] < Len(outstanding[u])
  BY DEF ServerProcess
<1>2. processed[u] + 1 \in 1..Len(outstanding[u])
  BY <1>1, LenProperties DEF IInv, TypeOK
<1>3. put \in Put /\ HonestPut(put)
  BY <1>2, ElementOfSeq DEF IInv, TypeOK, HonestInv, HonestQueue
<1> HIDE DEF put
<1>4. \A p \in Pair : chatbox'[p] # NoBox => Honest(p, chatbox'[p])
  BY <1>1, <1>3, HonestApply
<1> QED
  BY <1>1, <1>4 DEF HonestInv

LEMMA HonestLate ==
    ASSUME IInv, HonestInv, NEW u \in User, ServerProcessLate(u)
    PROVE  HonestInv'
<1> DEFINE q == late[u]
<1>1. q # <<>> /\ Apply(Head(q)) /\ late' = [late EXCEPT ![u] = Tail(q)]
      /\ outstanding' = outstanding
  BY DEF ServerProcessLate, client
<1>2. /\ q \in Seq(Put) /\ Len(q) \in Nat \ {0} /\ Head(q) = q[1]
      /\ Head(q) \in Put /\ Tail(q) = SubSeq(q, 1 + 1, Len(q))
  BY <1>1, EmptySeq, HeadTailProperties, TailIsSubSeq DEF IInv, TypeOK
<1>3. HonestPut(Head(q)) /\ HonestQueue(Tail(q))
  <2>1. 1 \in 1..Len(q) /\ 1 \in Nat /\ 1 <= Len(q)
    BY <1>2
  <2> QED
    BY <1>2, <2>1, HonestSuffix DEF HonestInv, HonestQueue
<1>4. \A p \in Pair : chatbox'[p] # NoBox => Honest(p, chatbox'[p])
  BY <1>1, <1>2, <1>3, HonestApply
<1>5. ASSUME NEW v \in User PROVE HonestQueue(late'[v])
  BY <1>1, <1>3 DEF HonestInv, IInv, TypeOK
<1> QED
  BY <1>1, <1>4, <1>5 DEF HonestInv

LEMMA HonestAck ==
    ASSUME IInv, HonestInv, NEW u \in User, AckPut(u)
    PROVE  HonestInv'
<1> DEFINE q == outstanding[u]
<1>1. /\ outstanding' = [outstanding EXCEPT ![u] = Tail(q)]
      /\ late' = late /\ chatbox' = chatbox
      /\ q \in Seq(Put) /\ Len(q) \in Nat /\ 1 <= Len(q)
  BY LenProperties DEF AckPut, server, IInv, TypeOK
<1>2. q # <<>> /\ Tail(q) = SubSeq(q, 1 + 1, Len(q))
  BY <1>1, EmptySeq, TailIsSubSeq
<1>3. HonestQueue(Tail(q))
  <2>1. 1 \in Nat /\ 1 <= Len(q)
    BY <1>1
  <2> QED
    BY <1>1, <1>2, <2>1, HonestSuffix DEF HonestInv
<1>4. ASSUME NEW v \in User PROVE HonestQueue(outstanding'[v])
  BY <1>1, <1>3 DEF HonestInv, IInv, TypeOK
<1> QED
  BY <1>1, <1>4 DEF HonestInv

(* Losing the connection, or the process, moves writes into the network. *)
LEMMA HonestLeave ==
    ASSUME IInv, HonestInv, NEW u \in User, OnDisconnect(u) \/ Kill(u)
    PROVE  HonestInv'
<1>1. late' = [late EXCEPT ![u] = LeftInNetwork(u)] /\ chatbox' = chatbox
  BY DEF OnDisconnect, Kill, server
<1>2. \/ outstanding' = outstanding
      \/ outstanding' = [outstanding EXCEPT ![u] = <<>>]
  BY DEF OnDisconnect, Kill
<1>3. HonestQueue(<<>>)
  BY EmptySeq DEF HonestQueue
<1>4. ASSUME NEW v \in User
      PROVE  HonestQueue(outstanding'[v]) /\ HonestQueue(late'[v])
  BY <1>1, <1>2, <1>3, HonestNetwork DEF HonestInv, IInv, TypeOK
<1> QED
  BY <1>1, <1>4 DEF HonestInv

LEMMA HonestNext == HonestInv /\ IInv /\ [Next]_vars => HonestInv'
<1> SUFFICES ASSUME HonestInv, IInv, [Next]_vars PROVE HonestInv'
  OBVIOUS
<1>1. ASSUME UNCHANGED <<outstanding, late, chatbox>> PROVE HonestInv'
  BY <1>1 DEF HonestInv
<1>2. CASE UNCHANGED vars
  BY <1>1, <1>2 DEF vars, client, server
<1>3. CASE Next
  <2>1. PICK u \in User :
           \/ \E friend \in User : CreateNewChatBox(u, friend)
           \/ OpenScreen(u) \/ CloseScreen(u) \/ Send(u)
           \/ ServerProcess(u) \/ ServerProcessLate(u) \/ EntryArrives(u)
           \/ AckPut(u)
           \/ OnDisconnect(u) \/ Connect(u) \/ Kill(u)
    BY <1>3 DEF Next
  <2>2. CASE OpenScreen(u) \/ CloseScreen(u) \/ EntryArrives(u) \/ Connect(u)
    BY <1>1, <2>2 DEF OpenScreen, CloseScreen, EntryArrives, Connect, server
  <2> QED
    BY <2>1, <2>2, HonestCreate, HonestSend, HonestServer, HonestLate, HonestAck,
       HonestLeave
<1> QED
  BY <1>2, <1>3

(* An entry never shows one user's words as the other's, although both     *)
(* entries of a send are made from one Chat object (sendButtonTapped).     *)
THEOREM EntriesTellWhoSpoke == Spec => []EntryTellsWhoSpoke
<1>1. Init => HonestInv
  BY EmptySeq DEF Init, HonestInv, HonestQueue
<1>2. HonestInv => EntryTellsWhoSpoke
  BY DEF HonestInv, Honest, EntryTellsWhoSpoke
<1> QED
  BY <1>1, <1>2, HonestNext, Invariance, PTL DEF Spec

-----------------------------------------------------------------------------
(* Every entry shows somebody's latest message, without late delivery and  *)
(* as long as no app is killed                                             *)

IsEntry(put, p) == put.kind = "chatbox" /\ put.at = p

(* The i-th write is the newest of the entry p among the first n. *)
Newest(q, n, p, i) ==
    i \in 1..n /\ IsEntry(q[i], p) /\ \A j \in 1..n : IsEntry(q[j], p) => j <= i

(* No message of m's conversation was sent by m's author after m. *)
IsLatest(m, all) ==
    \E k \in 1..Len(all) :
        /\ all[k] = m
        /\ \A i \in 1..Len(all) : all[i].from = m.from /\ all[i].to = m.to => i <= k

(* A user's queue has the placeholder, or that user's own words, for the   *)
(* entries of one of the two people; the newest of them are the latest.    *)
Between(p, m) == p \in {<<m.from, m.to>>, <<m.to, m.from>>}
Own(put, u) ==
    put.kind = "chatbox" /\ put.value.last # Greeting =>
        put.value.last.from = u /\ Between(put.at, put.value.last)
OwnQueue(q, u) == \A i \in 1..Len(q) : Own(q[i], u)
LatestQueued(q, all) ==
    \A p \in Pair, i \in 1..Len(q) :
        Newest(q, Len(q), p, i) => q[i].value.last = Greeting \/ IsLatest(q[i].value.last, all)

(* Of the writes applied on this connection the newest is what is stored,  *)
(* but for what another user or a placeholder put there.                   *)
Shown(c, put, u) ==
    c # NoBox /\ (c.last \in {Greeting, put.value.last} \/ c.last.from # u)
AppliedShown(q, n, u, box) ==
    \A p \in Pair, i \in 1..n : Newest(q, n, p, i) => Shown(box[p], q[i], u)

(* What is stored is its author's latest message, unless its author has    *)
(* another write of this entry in the queue.                               *)
EntryQueued(q, p) == \E i \in 1..Len(q) : IsEntry(q[i], p)
EntryLatest(p, m, out, all) ==
    Between(p, m) /\ (IsLatest(m, all) \/ EntryQueued(out[m.from], p))

LatestInv ==
    /\ \A u \in User : /\ OwnQueue(outstanding[u], u)
                       /\ LatestQueued(outstanding[u], sent)
                       /\ AppliedShown(outstanding[u], processed[u], u, chatbox)
    /\ \A p \in Pair : chatbox[p] # NoBox /\ chatbox[p].last # Greeting
                           => EntryLatest(p, chatbox[p].last, outstanding, sent)

SpokenInv ==
    /\ \A u \in User : late[u] = <<>>
    /\ kills = 0 => LatestInv

LEMMA LatestAppend ==
    ASSUME NEW all \in Seq(Message), NEW m \in Message
    PROVE  /\ IsLatest(m, Append(all, m))
           /\ \A k : IsLatest(k, all) /\ ~(k.from = m.from /\ k.to = m.to)
                        => IsLatest(k, Append(all, m))
<1> DEFINE more == Append(all, m)
<1>1. /\ Len(all) \in Nat /\ Len(more) = Len(all) + 1 /\ more[Len(all) + 1] = m
      /\ \A i \in 1..Len(all) : more[i] = all[i]
  BY AppendProperties, LenProperties
<1> HIDE DEF more
<1>2. \A i \in 1..Len(more) : i \in 1..Len(all) \/ i = Len(all) + 1
  BY <1>1
<1>3. 1..Len(all) \subseteq 1..Len(more) /\ Len(all) + 1 \in 1..Len(more)
  BY <1>1
<1>4. IsLatest(m, more)
  <2>1. \A i \in 1..Len(more) : i <= Len(all) + 1
    BY <1>1
  <2> QED
    BY <1>1, <1>3, <2>1 DEF IsLatest
<1>5. ASSUME NEW k, IsLatest(k, all), ~(k.from = m.from /\ k.to = m.to)
      PROVE  IsLatest(k, more)
  <2>1. PICK j \in 1..Len(all) :
          /\ all[j] = k
          /\ \A i \in 1..Len(all) : all[i].from = k.from /\ all[i].to = k.to => i <= j
    BY <1>5 DEF IsLatest
  <2>2. j \in 1..Len(more) /\ more[j] = k
    BY <1>1, <1>3, <2>1
  <2>3. \A i \in 1..Len(more) : more[i].from = k.from /\ more[i].to = k.to => i <= j
    BY <1>1, <1>2, <1>5, <2>1
  <2> QED
    BY <2>2, <2>3 DEF IsLatest
<1> QED
  BY <1>4, <1>5 DEF more

(* The newest write of an entry, in a queue that gains some *)
LEMMA NewestConcat ==
    ASSUME NEW q \in Seq(Put), NEW r \in Seq(Put), NEW p, NEW i,
           Newest(q \o r, Len(q \o r), p, i)
    PROVE  \/ /\ Newest(q, Len(q), p, i) /\ (q \o r)[i] = q[i]
              /\ \A j \in 1..Len(r) : ~IsEntry(r[j], p)
           \/ /\ Newest(r, Len(r), p, i - Len(q)) /\ i - Len(q) \in 1..Len(r)
              /\ (q \o r)[i] = r[i - Len(q)]
<1> DEFINE s == q \o r
           n == Len(q)
<1>1. /\ n \in Nat /\ Len(r) \in Nat /\ Len(s) = n + Len(r)
      /\ \A k \in 1..n : s[k] = q[k]
      /\ \A k \in 1..Len(r) : s[n + k] = r[k]
  BY ConcatProperties, LenProperties
<1>2. /\ i \in 1..Len(s) /\ IsEntry(s[i], p)
      /\ \A j \in 1..Len(s) : IsEntry(s[j], p) => j <= i
  BY DEF Newest
<1> HIDE DEF s
<1>3. \A k \in 1..n : k \in 1..Len(s)
  BY <1>1
<1>4. \A k \in 1..Len(r) : n + k \in 1..Len(s) /\ n + k > n
  BY <1>1
<1> HIDE DEF n
<1>5. CASE i \in 1..n
  <2>1. Newest(q, n, p, i) /\ s[i] = q[i]
    BY <1>1, <1>2, <1>3, <1>5 DEF Newest
  <2>2. ASSUME NEW j \in 1..Len(r) PROVE ~IsEntry(r[j], p)
    <3>1. ~(n + j <= i)
      BY <1>1, <1>4, <1>5
    <3> QED
      BY <3>1, <1>1, <1>2, <1>4
  <2> QED
    BY <2>1, <2>2 DEF s, n
<1>6. CASE i \notin 1..n
  <2>1. i - n \in 1..Len(r) /\ n + (i - n) = i
    BY <1>1, <1>2, <1>6
  <2>2. s[i] = r[i - n]
    BY <1>1, <2>1
  <2>3. ASSUME NEW j \in 1..Len(r), IsEntry(r[j], p)
        PROVE  j <= i - n
    <3>1. n + j <= i
      BY <1>1, <1>2, <1>4, <2>3
    <3> QED
      BY <3>1, <1>1, <2>1
  <2>4. Newest(r, Len(r), p, i - n)
    BY <1>2, <2>1, <2>2, <2>3 DEF Newest
  <2> QED
    BY <2>1, <2>2, <2>4 DEF s, n
<1> QED
  BY <1>5, <1>6

(* What is at the front of a queue, and what is anywhere in it, stays. *)
LEMMA EntriesConcat ==
    ASSUME NEW q \in Seq(Put), NEW r \in Seq(Put)
    PROVE  /\ \A i \in 1..Len(q) : (q \o r)[i] = q[i]
           /\ \A p : EntryQueued(q, p) \/ EntryQueued(r, p) => EntryQueued(q \o r, p)
           /\ \A u : OwnQueue(q, u) /\ OwnQueue(r, u) => OwnQueue(q \o r, u)
<1> DEFINE s == q \o r
           n == Len(q)
<1>1. /\ n \in Nat /\ Len(r) \in Nat /\ Len(s) = n + Len(r)
      /\ \A k \in 1..n : s[k] = q[k]
      /\ \A k \in 1..Len(r) : s[n + k] = r[k]
  BY ConcatProperties, LenProperties
<1> HIDE DEF s
<1>2. /\ \A k \in 1..n : k \in 1..Len(s)
      /\ \A k \in 1..Len(r) : n + k \in 1..Len(s)
  BY <1>1
<1>3. \A k \in 1..Len(s) : \/ k \in 1..n
                           \/ k - n \in 1..Len(r) /\ n + (k - n) = k
  BY <1>1
<1> HIDE DEF n
<1>4. \A p : EntryQueued(q, p) => EntryQueued(s, p)
  BY <1>1, <1>2 DEF EntryQueued, n
<1>5. \A p : EntryQueued(r, p) => EntryQueued(s, p)
  BY <1>1, <1>2 DEF EntryQueued
<1>6. ASSUME NEW u, OwnQueue(q, u), OwnQueue(r, u), NEW k \in 1..Len(s)
      PROVE  Own(s[k], u)
  <2>1. CASE k \in 1..n
    BY <1>1, <1>6, <2>1 DEF OwnQueue, n
  <2>2. CASE k \notin 1..n
    <3>1. k - n \in 1..Len(r) /\ n + (k - n) = k
      BY <1>3, <2>2
    <3>2. s[k] = r[k - n]
      BY <1>1, <3>1
    <3> QED
      BY <1>6, <3>1, <3>2 DEF OwnQueue
  <2> QED
    BY <2>1, <2>2
<1>7. \A u : OwnQueue(q, u) /\ OwnQueue(r, u) => OwnQueue(s, u)
  BY <1>6 DEF OwnQueue
<1> QED
  BY <1>1, <1>4, <1>5, <1>7 DEF s, n

(* A user's queue gains writes of that user, which are the latest.  If a   *)
(* message of the user is the latest no longer, they go to its entries.    *)
LEMMA SpokenEnqueue ==
    ASSUME IInv, LatestInv, NEW u \in User, NEW r \in Seq(Put),
           outstanding' = [outstanding EXCEPT ![u] = @ \o r],
           UNCHANGED <<processed, chatbox>>,
           OwnQueue(r, u), LatestQueued(r, sent'),
           \A m : IsLatest(m, sent) =>
               \/ IsLatest(m, sent')
               \/ m.from = u /\ \A p \in Pair : Between(p, m) => EntryQueued(r, p)
    PROVE  LatestInv'
<1>1. /\ outstanding \in [User -> Seq(Put)] /\ processed \in [User -> Nat]
      /\ \A v \in User : processed[v] <= Len(outstanding[v])
      /\ chatbox \in [Pair -> Chat \cup {NoBox}]
  BY DEF IInv, TypeOK
<1>2. /\ outstanding'[u] = outstanding[u] \o r
      /\ \A v \in User : v # u => outstanding'[v] = outstanding[v]
  BY <1>1
<1> DEFINE q == outstanding[u]
<1>3. q \in Seq(Put) /\ Len(q) \in Nat
  BY <1>1, LenProperties
<1>4. /\ \A i \in 1..Len(q) : (q \o r)[i] = q[i]
      /\ \A p : EntryQueued(q, p) \/ EntryQueued(r, p) => EntryQueued(q \o r, p)
      /\ OwnQueue(q \o r, u)
  BY <1>3, EntriesConcat DEF LatestInv
<1>5. ASSUME NEW v \in User, NEW p \in Pair, NEW i \in 1..Len(outstanding[v]),
             Newest(outstanding[v], Len(outstanding[v]), p, i),
             v # u \/ ~EntryQueued(r, p)
      PROVE  outstanding[v][i].value.last = Greeting \/ IsLatest(outstanding[v][i].value.last, sent')
  <2> DEFINE m == outstanding[v][i].value.last
  <2>1. m = Greeting \/ IsLatest(m, sent)
    BY <1>5 DEF LatestInv, LatestQueued
  <2>2. m # Greeting => m.from = v /\ Between(p, m)
    BY <1>5 DEF LatestInv, OwnQueue, Own, Newest, IsEntry
  <2> HIDE DEF m
  <2>3. m = Greeting \/ IsLatest(m, sent')
    BY <1>5, <2>1, <2>2
  <2> QED
    BY <2>3 DEF m
<1>6. LatestQueued(q \o r, sent')
  <2> SUFFICES ASSUME NEW p \in Pair, NEW i \in 1..Len(q \o r),
                      Newest(q \o r, Len(q \o r), p, i)
               PROVE  \/ (q \o r)[i].value.last = Greeting
                      \/ IsLatest((q \o r)[i].value.last, sent')
    BY DEF LatestQueued
  <2> HIDE DEF q
  <2>1. CASE /\ Newest(q, Len(q), p, i) /\ (q \o r)[i] = q[i]
             /\ \A j \in 1..Len(r) : ~IsEntry(r[j], p)
    <3>1. ~EntryQueued(r, p) /\ i \in 1..Len(q)
      BY <2>1 DEF EntryQueued, Newest
    <3> QED
      BY <1>5, <2>1, <3>1 DEF q
  <2>2. CASE /\ Newest(r, Len(r), p, i - Len(q)) /\ i - Len(q) \in 1..Len(r)
             /\ (q \o r)[i] = r[i - Len(q)]
    <3>1. PICK k \in 1..Len(r) : k = i - Len(q)
      BY <2>2
    <3>2. Newest(r, Len(r), p, k) /\ (q \o r)[i] = r[k]
      BY <2>2, <3>1
    <3>3. r[k].value.last = Greeting \/ IsLatest(r[k].value.last, sent')
      BY <3>1, <3>2 DEF LatestQueued
    <3> QED
      BY <3>2, <3>3
  <2>3. \/ /\ Newest(q, Len(q), p, i) /\ (q \o r)[i] = q[i]
           /\ \A j \in 1..Len(r) : ~IsEntry(r[j], p)
        \/ /\ Newest(r, Len(r), p, i - Len(q)) /\ i - Len(q) \in 1..Len(r)
           /\ (q \o r)[i] = r[i - Len(q)]
    BY <1>3, NewestConcat
  <2> QED
    BY <2>1, <2>2, <2>3
<1>7. AppliedShown(q \o r, processed[u], u, chatbox)
  <2>1. \A i \in 1..processed[u] : i \in 1..Len(q)
    BY <1>1, <1>3
  <2>2. \A i \in 1..processed[u] : (q \o r)[i] = q[i]
    BY <1>4, <2>1
  <2>3. \A p, i : Newest(q \o r, processed[u], p, i) => Newest(q, processed[u], p, i)
    BY <2>2 DEF Newest
  <2> QED
    BY <2>2, <2>3 DEF LatestInv, AppliedShown
<1> HIDE DEF q
<1>8. ASSUME NEW v \in User
      PROVE  /\ OwnQueue(outstanding'[v], v)
             /\ LatestQueued(outstanding'[v], sent')
             /\ AppliedShown(outstanding'[v], processed'[v], v, chatbox')
  <2>1. CASE v = u
    BY <1>2, <1>4, <1>6, <1>7, <2>1 DEF q
  <2>2. CASE v # u
    <3>1. LatestQueued(outstanding[v], sent')
      BY <1>5, <2>2 DEF LatestQueued
    <3> QED
      BY <1>2, <2>2, <3>1 DEF LatestInv
  <2> QED
    BY <2>1, <2>2
<1>9. ASSUME NEW p \in Pair, chatbox[p] # NoBox, chatbox[p].last # Greeting
      PROVE  EntryLatest(p, chatbox[p].last, outstanding', sent')
  <2> DEFINE m == chatbox[p].last
  <2>1. m.from \in User /\ Between(p, m)
    BY <1>1, <1>9 DEF Chat, Message, LatestInv, EntryLatest
  <2>2. IsLatest(m, sent) \/ EntryQueued(outstanding[m.from], p)
    BY <1>9 DEF LatestInv, EntryLatest
  <2> HIDE DEF m
  <2>3. EntryQueued(outstanding[m.from], p) => EntryQueued(outstanding'[m.from], p)
    BY <1>2, <1>4, <2>1 DEF q
  <2>4. m.from = u /\ EntryQueued(r, p) => EntryQueued(outstanding'[m.from], p)
    BY <1>2, <1>4 DEF q
  <2>5. IsLatest(m, sent') \/ EntryQueued(outstanding'[m.from], p)
    BY <2>1, <2>2, <2>3, <2>4
  <2> QED
    BY <2>1, <2>5 DEF EntryLatest, m
<1> QED
  BY <1>8, <1>9 DEF LatestInv

LEMMA SpokenCreate ==
    ASSUME IInv, LatestInv, NEW u \in User, NEW friend \in User, CreateNewChatBox(u, friend)
    PROVE  LatestInv'
<1> DEFINE c == [chatId |-> <<u, friend>>, name |-> friend,
                 last |-> Greeting, messState |-> "SEEN"]
           put == ChatBoxPut(<<u, friend>>, c)
           r == <<put>>
<1>1. c \in Chat /\ <<u, friend>> \in Pair /\ c.last = Greeting
  BY DEF Chat, Pair, MessState
<1>2. r \in Seq(Put)
  BY <1>1, PlaceholderOK
<1>3. /\ outstanding' = [outstanding EXCEPT ![u] = @ \o r]
      /\ UNCHANGED <<processed, chatbox, sent>>
  BY DEF CreateNewChatBox, server, history
<1>4. put.value.last = Greeting
  BY <1>1 DEF ChatBoxPut
<1> HIDE DEF c, put
<1>5. Len(r) = 1 /\ r[1] = put
  OBVIOUS
<1> HIDE DEF r
<1>6. OwnQueue(r, u) /\ LatestQueued(r, sent')
  BY <1>4, <1>5 DEF OwnQueue, Own, LatestQueued
<1> QED
  BY <1>2, <1>3, <1>6, SpokenEnqueue

LEMMA SpokenSend ==
    ASSUME IInv, LatestInv, NEW u \in User, Send(u)
    PROVE  LatestInv'
<1>1. screen[u].currentChatBox \in Chat /\ screen[u].friendId \in User
  <2>1. screen[u] \in Screen
    BY DEF Send, IInv, TypeOK
  <2> QED
    BY <2>1 DEF Screen
<1>2. PICK i \in MsgId :
         SendMessage(u, [id |-> i, from |-> u, to |-> screen[u].friendId])
  BY DEF Send
<1> DEFINE m == [id |-> i, from |-> u, to |-> screen[u].friendId]
           r == SendPuts(screen[u].currentChatBox, m)
<1>3. m \in Message /\ m.from = u
  BY <1>1 DEF Message
<1>4. r \in Seq(Put)
  BY <1>1, <1>3, SendPutsOK
<1>5. /\ outstanding' = [outstanding EXCEPT ![u] = @ \o r]
      /\ sent' = Append(sent, m) /\ UNCHANGED <<processed, chatbox>>
  BY <1>2 DEF SendMessage, server
<1> HIDE DEF m
<1>6. /\ Len(r) = 4
      /\ r[1].kind = "message" /\ r[2].kind = "message"
      /\ r[3].kind = "chatbox" /\ r[3].at = <<m.from, m.to>> /\ r[3].value.last = m
      /\ r[4].kind = "chatbox" /\ r[4].at = <<m.to, m.from>> /\ r[4].value.last = m
  BY <1>1 DEF SendPuts, MessagePut, ChatBoxPut, EditedForMe, EditedForFriend, Chat
<1> HIDE DEF r
<1>7. \A j \in 1..Len(r) : r[j].kind = "message" \/ j \in {3, 4}
  BY <1>6
<1>8. OwnQueue(r, u)
  <2> SUFFICES ASSUME NEW j \in 1..Len(r), r[j].kind = "chatbox"
               PROVE  r[j].value.last.from = u /\ Between(r[j].at, r[j].value.last)
    BY DEF OwnQueue, Own
  <2>1. j \in {3, 4}
    BY <1>7
  <2> QED
    BY <1>3, <1>6, <2>1 DEF Between
<1>9. sent \in Seq(Message)
  BY DEF IInv, TypeOK
<1>10. /\ IsLatest(m, sent')
       /\ \A k : IsLatest(k, sent) /\ ~(k.from = m.from /\ k.to = m.to) => IsLatest(k, sent')
  BY <1>3, <1>5, <1>9, LatestAppend
<1>11. LatestQueued(r, sent')
  <2> SUFFICES ASSUME NEW p \in Pair, NEW j \in 1..Len(r), Newest(r, Len(r), p, j)
               PROVE  IsLatest(r[j].value.last, sent')
    BY DEF LatestQueued
  <2>1. j \in {3, 4}
    BY <1>7 DEF Newest, IsEntry
  <2>2. r[j].value.last = m
    BY <1>6, <2>1
  <2> QED
    BY <1>10, <2>2
<1>12. \A p : Between(p, m) => EntryQueued(r, p)
  <2>1. 3 \in 1..Len(r) /\ 4 \in 1..Len(r)
    BY <1>6
  <2> QED
    BY <1>6, <2>1 DEF Between, EntryQueued, IsEntry
<1>13. ASSUME NEW k, IsLatest(k, sent)
       PROVE  \/ IsLatest(k, sent')
              \/ k.from = u /\ \A p \in Pair : Between(p, k) => EntryQueued(r, p)
  <2>1. CASE k.from = m.from /\ k.to = m.to
    <3>1. \A p : Between(p, k) => Between(p, m)
      BY <2>1 DEF Between
    <3> QED
      BY <1>3, <1>12, <2>1, <3>1
  <2>2. CASE ~(k.from = m.from /\ k.to = m.to)
    BY <1>10, <1>13, <2>2
  <2> QED
    BY <2>1, <2>2
<1> QED
  BY <1>4, <1>5, <1>8, <1>11, <1>13, SpokenEnqueue

(* The acknowledged write was the newest of those applied, or there is a   *)
(* newer one in the queue.                                                 *)
LEMMA SpokenAck ==
    ASSUME IInv, LatestInv, NEW u \in User, AckPut(u)
    PROVE  LatestInv'
<1> DEFINE q == outstanding[u]
           n == processed[u]
           t == Tail(q)
<1>1. /\ outstanding \in [User -> Seq(Put)] /\ processed \in [User -> Nat]
      /\ chatbox \in [Pair -> Chat \cup {NoBox}]
      /\ q \in Seq(Put) /\ Len(q) \in Nat /\ n \in Nat /\ n > 0 /\ n <= Len(q)
  BY LenProperties DEF AckPut, IInv, TypeOK
<1>2. /\ outstanding' = [outstanding EXCEPT ![u] = t]
      /\ processed' = [processed EXCEPT ![u] = n - 1]
      /\ UNCHANGED <<chatbox, sent>>
  BY DEF AckPut, server, history
<1>3. q # <<>>
  BY <1>1, EmptySeq
<1>4. Len(t) = Len(q) - 1 /\ \A i \in 1..Len(t) : t[i] = q[i + 1]
  BY <1>1, <1>3, HeadTailProperties
<1>5. /\ OwnQueue(q, u) /\ LatestQueued(q, sent) /\ AppliedShown(q, n, u, chatbox)
      /\ outstanding'[u] = t /\ processed'[u] = n - 1
      /\ \A v \in User : v # u => outstanding'[v] = outstanding[v] /\ processed'[v] = processed[v]
  BY <1>1, <1>2 DEF LatestInv
<1> HIDE DEF t
<1>6. ASSUME NEW k \in Nat, k <= Len(t), NEW p, NEW i, Newest(t, k, p, i)
      PROVE  i + 1 \in 1..Len(q) /\ t[i] = q[i + 1] /\ Newest(q, k + 1, p, i + 1)
  <2>1. /\ i \in 1..k /\ IsEntry(t[i], p)
        /\ \A j \in 1..k : IsEntry(t[j], p) => j <= i
    BY <1>6 DEF Newest
  <2>2. i \in 1..Len(t) /\ i + 1 \in 1..Len(q) /\ i + 1 \in 1..(k + 1)
    BY <1>1, <1>4, <1>6, <2>1
  <2>3. t[i] = q[i + 1]
    BY <1>4, <2>2
  <2>4. ASSUME NEW j \in 1..(k + 1), IsEntry(q[j], p)
        PROVE  j <= i + 1
    <3>1. CASE j = 1
      BY <2>1, <3>1
    <3>2. CASE j # 1
      <4>1. j - 1 \in 1..k /\ j - 1 \in 1..Len(t) /\ (j - 1) + 1 = j
        BY <1>1, <1>6, <3>2
      <4>2. t[j - 1] = q[j]
        BY <1>4, <4>1
      <4>3. j - 1 <= i
        BY <2>1, <2>4, <4>1, <4>2
      <4> QED
        BY <2>1, <4>1, <4>3
    <3> QED
      BY <3>1, <3>2
  <2> QED
    BY <2>1, <2>2, <2>3, <2>4 DEF Newest
<1> HIDE DEF q, n
<1>7. OwnQueue(t, u)
  <2> SUFFICES ASSUME NEW i \in 1..Len(t) PROVE Own(t[i], u)
    BY DEF OwnQueue
  <2>1. i + 1 \in 1..Len(q)
    BY <1>1, <1>4
  <2> QED
    BY <1>4, <1>5, <2>1 DEF OwnQueue
<1>8. LatestQueued(t, sent)
  <2> SUFFICES ASSUME NEW p \in Pair, NEW i \in 1..Len(t), Newest(t, Len(t), p, i)
               PROVE  t[i].value.last = Greeting \/ IsLatest(t[i].value.last, sent)
    BY DEF LatestQueued
  <2>1. Len(t) \in Nat /\ Len(t) <= Len(t) /\ Len(t) + 1 = Len(q)
    BY <1>1, <1>4
  <2>2. i + 1 \in 1..Len(q) /\ t[i] = q[i + 1] /\ Newest(q, Len(q), p, i + 1)
    BY <1>6, <2>1
  <2> QED
    BY <1>5, <2>2 DEF LatestQueued
<1>9. AppliedShown(t, n - 1, u, chatbox)
  <2> SUFFICES ASSUME NEW p \in Pair, NEW i \in 1..(n - 1), Newest(t, n - 1, p, i)
               PROVE  Shown(chatbox[p], t[i], u)
    BY DEF AppliedShown
  <2>1. n - 1 \in Nat /\ n - 1 <= Len(t) /\ (n - 1) + 1 = n
    BY <1>1, <1>4
  <2>2. t[i] = q[i + 1] /\ Newest(q, n, p, i + 1)
    BY <1>6, <2>1
  <2>3. i + 1 \in 1..n
    BY <1>1
  <2> QED
    BY <1>5, <2>2, <2>3 DEF AppliedShown
<1>10. ASSUME NEW p \in Pair, chatbox[p] # NoBox, chatbox[p].last # Greeting
       PROVE  EntryLatest(p, chatbox[p].last, outstanding', sent)
  <2> DEFINE m == chatbox[p].last
  <2>1. m.from \in User /\ Between(p, m)
    BY <1>1, <1>10 DEF Chat, Message, LatestInv, EntryLatest
  <2>2. IsLatest(m, sent) \/ EntryQueued(outstanding[m.from], p)
    BY <1>10 DEF LatestInv, EntryLatest
  <2>3. ASSUME m.from = u, EntryQueued(q, p)
        PROVE  IsLatest(m, sent) \/ EntryQueued(t, p)
    <3>1. CASE \E i \in 2..Len(q) : IsEntry(q[i], p)
      <4>1. PICK i \in 2..Len(q) : IsEntry(q[i], p)
        BY <3>1
      <4>2. i - 1 \in 1..Len(t) /\ (i - 1) + 1 = i
        BY <1>1, <1>4
      <4>3. t[i - 1] = q[i]
        BY <1>4, <4>2
      <4> QED
        BY <4>1, <4>2, <4>3 DEF EntryQueued
    <3>2. CASE ~\E i \in 2..Len(q) : IsEntry(q[i], p)
      <4>1. \A i \in 1..Len(q) : i = 1 \/ i \in 2..Len(q)
        BY <1>1
      <4>2. IsEntry(q[1], p) /\ \A i \in 1..Len(q) : IsEntry(q[i], p) => i <= 1
        BY <2>3, <3>2, <4>1, <1>1 DEF EntryQueued
      <4>3. 1 \in 1..n /\ 1 \in 1..Len(q) /\ \A i \in 1..n : i \in 1..Len(q)
        BY <1>1
      <4>4. Newest(q, Len(q), p, 1) /\ Newest(q, n, p, 1)
        BY <4>2, <4>3 DEF Newest
      <4>5. Shown(chatbox[p], q[1], u)
        BY <1>5, <4>3, <4>4 DEF AppliedShown
      <4>6. q[1].value.last = Greeting \/ IsLatest(q[1].value.last, sent)
        BY <1>5, <4>3, <4>4 DEF LatestQueued
      <4> QED
        BY <1>10, <2>3, <4>5, <4>6 DEF Shown
    <3> QED
      BY <3>1, <3>2
  <2> HIDE DEF m
  <2>4. IsLatest(m, sent) \/ EntryQueued(outstanding'[m.from], p)
    <3>1. CASE m.from = u
      BY <1>5, <2>2, <2>3, <3>1 DEF q
    <3>2. CASE m.from # u
      BY <1>5, <2>1, <2>2, <3>2
    <3> QED
      BY <3>1, <3>2
  <2> QED
    BY <2>1, <2>4 DEF EntryLatest, m
<1>11. ASSUME NEW v \in User
       PROVE  /\ OwnQueue(outstanding'[v], v)
              /\ LatestQueued(outstanding'[v], sent)
              /\ AppliedShown(outstanding'[v], processed'[v], v, chatbox)
  <2>1. CASE v = u
    BY <1>5, <1>7, <1>8, <1>9, <2>1
  <2>2. CASE v # u
    BY <1>5, <2>2 DEF LatestInv
  <2> QED
    BY <2>1, <2>2
<1> QED
  BY <1>2, <1>10, <1>11 DEF LatestInv

(* Applying the next write of a live connection shows it, and hides what   *)
(* its author has in the queue no longer.                                  *)
LEMMA SpokenServer ==
    ASSUME IInv, LatestInv, NEW u \in User, ServerProcess(u)
    PROVE  LatestInv'
<1> DEFINE q == outstanding[u]
           n == processed[u]
           put == q[n + 1]
<1>1. /\ outstanding \in [User -> Seq(Put)] /\ processed \in [User -> Nat]
      /\ chatbox \in [Pair -> Chat \cup {NoBox}]
      /\ q \in Seq(Put) /\ Len(q) \in Nat /\ n \in Nat /\ n < Len(q)
  BY LenProperties DEF ServerProcess, IInv, TypeOK
<1>2. /\ Apply(put)
      /\ processed' = [processed EXCEPT ![u] = n + 1]
      /\ UNCHANGED <<outstanding, sent>>
  BY DEF ServerProcess, history
<1>3. put \in Put /\ n + 1 \in 1..Len(q)
  BY <1>1, NextPutOK
<1>4. /\ OwnQueue(q, u) /\ LatestQueued(q, sent) /\ AppliedShown(q, n, u, chatbox)
      /\ processed'[u] = n + 1
      /\ \A v \in User : v # u => processed'[v] = processed[v]
      /\ Own(put, u)
  BY <1>1, <1>2, <1>3 DEF LatestInv, OwnQueue
<1>5. \A i \in 1..(n + 1) : i \in 1..n \/ i = n + 1
  BY <1>1
<1>6. \A i \in 1..n : i \in 1..(n + 1) /\ i # n + 1
  BY <1>1
<1>7. n + 1 \in 1..(n + 1) /\ \A i \in 1..n : ~(n + 1 <= i)
  BY <1>1
<1> HIDE DEF q, n
<1>8. ASSUME NEW p, NEW i, Newest(q, n + 1, p, i)
      PROVE  \/ i = n + 1 /\ IsEntry(put, p)
             \/ i \in 1..n /\ Newest(q, n, p, i) /\ ~IsEntry(put, p)
  BY <1>5, <1>6, <1>7, <1>8 DEF Newest
<1>9. put.kind \in {"message", "chatbox"}
      /\ (put.kind = "chatbox" => put.at \in Pair /\ put.value \in Chat)
  BY <1>3 DEF Put
<1>10. ASSUME NEW p \in Pair
       PROVE  chatbox'[p] = IF IsEntry(put, p) THEN put.value ELSE chatbox[p]
  BY <1>1, <1>2, <1>9 DEF Apply, IsEntry
<1>11. ASSUME NEW p \in Pair, IsEntry(put, p)
       PROVE  /\ put.value # NoBox
              /\ \/ put.value.last = Greeting
                 \/ put.value.last.from = u /\ Between(p, put.value.last)
  <2>1. put.value \in Chat
    BY <1>9, <1>11 DEF IsEntry
  <2>2. put.value # NoBox
    BY <2>1, SentinelAssumption
  <2> QED
    BY <1>4, <1>11, <2>2 DEF Own, IsEntry
<1> HIDE DEF put
<1>12. AppliedShown(q, n + 1, u, chatbox')
  <2> SUFFICES ASSUME NEW p \in Pair, NEW i \in 1..(n + 1), Newest(q, n + 1, p, i)
               PROVE  Shown(chatbox'[p], q[i], u)
    BY DEF AppliedShown
  <2>1. CASE i = n + 1 /\ IsEntry(put, p)
    BY <1>10, <1>11, <2>1 DEF Shown, put
  <2>2. CASE i \in 1..n /\ Newest(q, n, p, i) /\ ~IsEntry(put, p)
    BY <1>4, <1>10, <2>2 DEF AppliedShown
  <2> QED
    BY <1>8, <2>1, <2>2
<1>13. ASSUME NEW v \in User, v # u
       PROVE  AppliedShown(outstanding[v], processed[v], v, chatbox')
  <2> SUFFICES ASSUME NEW p \in Pair, NEW i \in 1..processed[v],
                      Newest(outstanding[v], processed[v], p, i)
               PROVE  Shown(chatbox'[p], outstanding[v][i], v)
    BY DEF AppliedShown
  <2>1. CASE IsEntry(put, p)
    BY <1>10, <1>11, <1>13, <2>1 DEF Shown
  <2>2. CASE ~IsEntry(put, p)
    <3>1. Shown(chatbox[p], outstanding[v][i], v)
      BY DEF LatestInv, AppliedShown
    <3> QED
      BY <1>10, <2>2, <3>1
  <2> QED
    BY <2>1, <2>2
<1>14. ASSUME NEW p \in Pair, chatbox'[p] # NoBox, chatbox'[p].last # Greeting
       PROVE  EntryLatest(p, chatbox'[p].last, outstanding, sent)
  <2>1. CASE IsEntry(put, p)
    <3>1. chatbox'[p].last.from = u /\ Between(p, chatbox'[p].last)
      BY <1>10, <1>11, <1>14, <2>1
    <3>2. EntryQueued(outstanding[u], p)
      BY <1>3, <2>1 DEF EntryQueued, put, q
    <3> QED
      BY <3>1, <3>2 DEF EntryLatest
  <2>2. CASE ~IsEntry(put, p)
    BY <1>10, <1>14, <2>2 DEF LatestInv
  <2> QED
    BY <2>1, <2>2
<1>15. ASSUME NEW v \in User
       PROVE  /\ OwnQueue(outstanding[v], v)
              /\ LatestQueued(outstanding[v], sent)
              /\ AppliedShown(outstanding[v], processed'[v], v, chatbox')
  <2>1. CASE v = u
    BY <1>4, <1>12, <2>1 DEF q
  <2>2. CASE v # u
    BY <1>4, <1>13, <2>2 DEF LatestInv
  <2> QED
    BY <2>1, <2>2
<1> QED
  BY <1>2, <1>14, <1>15 DEF LatestInv

(* A connection that is lost leaves nothing behind it in the network. *)
LEMMA SpokenDisconnect ==
    ASSUME IInv, LatestInv, NEW u \in User, OnDisconnect(u)
    PROVE  LatestInv'
<1>1. /\ processed' = [processed EXCEPT ![u] = 0] /\ processed \in [User -> Nat]
      /\ UNCHANGED <<outstanding, chatbox, sent>>
  BY DEF OnDisconnect, server, history, IInv, TypeOK
<1>2. \A q, v, box : AppliedShown(q, 0, v, box)
  BY DEF AppliedShown
<1>3. ASSUME NEW v \in User
      PROVE  AppliedShown(outstanding[v], processed'[v], v, chatbox)
  <2>1. CASE v = u
    BY <1>1, <1>2, <2>1
  <2>2. CASE v # u
    BY <1>1, <2>2 DEF LatestInv
  <2> QED
    BY <2>1, <2>2
<1> QED
  BY <1>1, <1>3 DEF LatestInv

LEMMA SpokenNext ==
    ASSUME ~LateDelivery
    PROVE  SpokenInv /\ IInv /\ [Next]_vars => SpokenInv'
<1> SUFFICES ASSUME SpokenInv, IInv, [Next]_vars PROVE SpokenInv'
  OBVIOUS
<1>1. ASSUME UNCHANGED <<outstanding, processed, chatbox, sent>>, LatestInv
      PROVE  LatestInv'
  BY <1>1 DEF LatestInv
<1>2. CASE UNCHANGED vars
  BY <1>1, <1>2 DEF SpokenInv, vars, client, server, history
<1>3. CASE Next
  <2>1. PICK u \in User :
           \/ \E friend \in User : CreateNewChatBox(u, friend)
           \/ OpenScreen(u) \/ CloseScreen(u) \/ Send(u)
           \/ ServerProcess(u) \/ ServerProcessLate(u) \/ EntryArrives(u)
           \/ AckPut(u)
           \/ OnDisconnect(u) \/ Connect(u) \/ Kill(u)
    BY <1>3 DEF Next
  <2>2. /\ late \in [User -> Seq(Put)] /\ kills \in Nat
        /\ \A v \in User : late[v] = <<>> /\ LeftInNetwork(v) = <<>>
    BY DEF SpokenInv, IInv, TypeOK, LeftInNetwork
  <2>3. ~ServerProcessLate(u)
    BY <2>2 DEF ServerProcessLate
  <2>4. \A v \in User : late'[v] = <<>>
    <3>1. CASE OnDisconnect(u) \/ Kill(u)
      BY <2>2, <3>1 DEF OnDisconnect, Kill
    <3>2. CASE ~(OnDisconnect(u) \/ Kill(u))
      <4>1. late' = late
        BY <2>1, <2>3, <3>2 DEF CreateNewChatBox, OpenScreen, CloseScreen, Send,
           SendMessage, ServerProcess, EntryArrives, AckPut, Connect
      <4> QED
        BY <2>2, <4>1
    <3> QED
      BY <3>1, <3>2
  <2>5. CASE Kill(u)
    <3>1. kills' # 0
      BY <2>2, <2>5 DEF Kill
    <3> QED
      BY <2>4, <3>1 DEF SpokenInv
  <2>6. CASE ~Kill(u)
    <3>1. kills' = kills
      BY <2>1, <2>3, <2>6 DEF CreateNewChatBox, OpenScreen, CloseScreen, Send,
         SendMessage, ServerProcess, EntryArrives, AckPut, OnDisconnect, Connect
    <3>2. ASSUME LatestInv PROVE LatestInv'
      <4>1. CASE OpenScreen(u) \/ CloseScreen(u) \/ EntryArrives(u) \/ Connect(u)
        BY <1>1, <3>2, <4>1 DEF OpenScreen, CloseScreen, EntryArrives, Connect,
           server, history
      <4> QED
        BY <2>1, <2>3, <2>6, <3>2, <4>1, SpokenCreate, SpokenSend, SpokenServer,
           SpokenAck, SpokenDisconnect
    <3> QED
      BY <2>4, <3>1, <3>2 DEF SpokenInv
  <2> QED
    BY <2>5, <2>6
<1> QED
  BY <1>2, <1>3

(* However sends of the two users cross and resends repeat old entries, an *)
(* entry at rest shows one user's latest message (sendButtonTapped,        *)
(* restoreState).  The hypothesis is what the property itself asks: that   *)
(* the server applies nothing of a connection that is gone.                *)
THEOREM EntriesAreSomeonesLatest ==
    ~LateDelivery => (Spec => []EntryIsSomeonesLatest)
<1> SUFFICES ASSUME ~LateDelivery PROVE Spec => []EntryIsSomeonesLatest
  OBVIOUS
<1>1. Init => SpokenInv
  <2> SUFFICES ASSUME Init PROVE SpokenInv
    OBVIOUS
  <2>1. \A p \in Pair : chatbox[p] = NoBox
    BY DEF Init
  <2>2. ASSUME NEW v \in User
        PROVE  /\ OwnQueue(outstanding[v], v) /\ LatestQueued(outstanding[v], sent)
               /\ AppliedShown(outstanding[v], processed[v], v, chatbox)
    <3>1. outstanding[v] = <<>> /\ processed[v] = 0 /\ Len(<<>>) = 0
      BY EmptySeq DEF Init
    <3> QED
      BY <3>1 DEF OwnQueue, LatestQueued, AppliedShown
  <2> QED
    BY <2>1, <2>2 DEF Init, SpokenInv, LatestInv
<1>2. SpokenInv /\ IInv => EntryIsSomeonesLatest
  <2> SUFFICES ASSUME SpokenInv, IInv, AtRest, kills = 0,
                      NEW p \in Pair, chatbox[p] # NoBox, chatbox[p].last # Greeting
               PROVE  chatbox[p].last \in LastSent(p) \cup LastSent(Reverse(p))
    BY DEF EntryIsSomeonesLatest
  <2> DEFINE m == chatbox[p].last
  <2>1. m.from \in User /\ EntryLatest(p, m, outstanding, sent)
    <3>1. chatbox[p] \in Chat
      BY DEF IInv, TypeOK
    <3> QED
      BY <3>1 DEF Chat, Message, SpokenInv, LatestInv
  <2>2. ~EntryQueued(outstanding[m.from], p)
    BY <2>1, EmptySeq DEF AtRest, EntryQueued
  <2>3. IsLatest(m, sent) /\ Between(p, m)
    BY <2>1, <2>2 DEF EntryLatest
  <2>4. DOMAIN sent = 1..Len(sent)
    BY LenProperties DEF IInv, TypeOK
  <2>5. p = <<p[1], p[2]>>
    BY DEF Pair
  <2> HIDE DEF m
  <2>6. ASSUME NEW r, r[1] = m.from, r[2] = m.to
        PROVE  m \in LastSent(r)
    BY <2>3, <2>4, <2>6 DEF IsLatest, LastSent
  <2>7. CASE p = <<m.from, m.to>>
    BY <2>6, <2>7 DEF m
  <2>8. CASE p = <<m.to, m.from>>
    BY <2>6, <2>8 DEF m, Reverse
  <2> QED
    BY <2>3, <2>7, <2>8 DEF Between
<1> QED
  BY <1>1, <1>2, SpokenNext, Invariance, PTL DEF Spec
=============================================================================
