------------------------------ MODULE ChatScreen ------------------------------
(***************************************************************************)
(* What the chat screens of one device show of one conversation.           *)
(*                                                                         *)
(* viewDidLoad observes .childAdded on messages/<me>_<friend> and appends  *)
(* a bubble for every event, without looking whether it is there already.  *)
(* Nothing ever removes the observer, so a dismissed screen keeps          *)
(* receiving.  That each message is one bubble therefore rests entirely on *)
(* the Firebase client: on how FSyncTree merges pending writes with what   *)
(* the server sends, and on when FPersistentConnection lets an             *)
(* acknowledgement through.                                                *)
(*                                                                         *)
(* The server is outside the repository.  It reads the frames of a         *)
(* connection in order, may take its time to answer a listen, and tells a  *)
(* listening client of a change before it acknowledges the write that      *)
(* caused it (FViewProcessor.ackUserWriteOn counts on the latter).         *)
(* FEventRaiser hands events to the main queue in order; the closures only *)
(* append, so delivering them at once is no different.                     *)
(***************************************************************************)
EXTENDS Naturals, Sequences, SequencesExt, FiniteSets

CONSTANTS
    Mine, Theirs,  \* keys of the messages I send and the friend sends: numbers
                   \* in key order, in which the client enumerates children
    MaxScreens,    \* bound: screens presented
    MaxListens,    \* bound: listens at other nodes (lists, users)
    MaxDrops       \* bound: connections lost

Msg == Mine \cup Theirs

ASSUME KeyAssumption ==
    Msg \subseteq Nat /\ IsFiniteSet(Msg) /\ Mine \cap Theirs = {}
ASSUME ScreenBoundAssumption ==
    MaxScreens \in Nat /\ MaxListens \in Nat /\ MaxDrops \in Nat

VARIABLES
    log,             \* server: the messages at the node
    waiting,         \* server: listens read and not answered yet
    subscribed,      \* server: it sends this connection changes of the node
    up, down,        \* frames under way
    connected,       \* FPersistentConnection: connectionState is Connected
    outstanding,     \*   outstandingPuts, in index order
    toAck,           \*   putsToAck
    unackedListens,  \*   unackedListensCount
    otherListens,    \*   number of listens at other nodes
    writes,          \* FSyncTree: pendingWriteTree
    serverCache,     \* FView: cachedServerSnap
    complete,        \*        and its isFullyInitialized
    eventCache,      \*        cachedEventSnap
    screens,         \* messages of every ChatBoxViewController ever presented
    presented,       \* the last of them is on the display
    drops            \* counter for the bound

serverVars == <<log, waiting, subscribed>>
connVars == <<up, down, connected, outstanding, toAck, unackedListens,
              otherListens>>
viewVars == <<writes, serverCache, complete, eventCache, screens>>
vars == <<serverVars, connVars, viewVars, presented, drops>>

(* Frames *)
ListenLog(hash) == [op |-> "listenLog", hash |-> hash]
ListenOther(n) == [op |-> "listenOther", no |-> n]
PutMessage(m) == [op |-> "put", key |-> m]
DataUpdate(snap) == [op |-> "data", snap |-> snap]
ChildUpdate(m) == [op |-> "child", key |-> m]
ListenOk(op) == [op |-> "listenOk", to |-> op]
PutOk(m) == [op |-> "putOk", key |-> m]

Listening == Len(screens) > 0

(* The app is launched; the node may hold messages of earlier sessions. *)
Init ==
    /\ log \in SUBSET Msg /\ waiting = {} /\ subscribed = FALSE
    /\ up = <<>> /\ down = <<>>
    /\ connected = FALSE
    /\ outstanding = <<>> /\ toAck = <<>>
    /\ unackedListens = 0 /\ otherListens = 0
    /\ writes = {} /\ serverCache = {} /\ complete = FALSE /\ eventCache = {}
    /\ screens = <<>>
    /\ presented = FALSE
    /\ drops = 0

(* Some of the node's children in the order the client enumerates them: a  *)
(* set of one sequence                                                     *)
InKeyOrder(S) ==
    {s \in [1..Cardinality(S) -> S] :
        ToSet(s) = S /\ \A i, j \in DOMAIN s : i < j => s[i] < s[j]}

(* The view's event cache becomes new: every observer gets .childAdded for *)
(* the children it did not have.  Nobody observes .childRemoved.           *)
RaiseEvents(new) ==
    /\ eventCache' = new
    /\ \E added \in InKeyOrder(new \ eventCache) :
           screens' = [s \in DOMAIN screens |-> screens[s] \o added]

-----------------------------------------------------------------------------
(* The application *)

OpenScreenEmpty ==                                                \* mutant
    /\ ~presented
    /\ Len(screens) < MaxScreens
    /\ presented' = TRUE
    /\ screens' = Append(screens, <<>>)
    /\ IF ~Listening /\ connected
       THEN /\ up' = Append(up, ListenLog(serverCache))
            /\ unackedListens' = unackedListens + 1
       ELSE UNCHANGED <<up, unackedListens>>
    /\ UNCHANGED <<serverVars, down, connected, outstanding, toAck, otherListens,
                   writes, serverCache, complete, eventCache, drops>>
(* A tap on the list presents a new screen: viewDidLoad starts with an     *)
(* empty array and its observer is first given what the view holds.  The   *)
(* first observer makes the client listen.                                 *)
OpenScreen ==
    /\ ~presented
    /\ Len(screens) < MaxScreens
    /\ presented' = TRUE
    /\ \E held \in InKeyOrder(eventCache) : screens' = Append(screens, held)
    /\ IF ~Listening /\ connected
       THEN /\ up' = Append(up, ListenLog(serverCache))
            /\ unackedListens' = unackedListens + 1
       ELSE UNCHANGED <<up, unackedListens>>
    /\ UNCHANGED <<serverVars, down, connected, outstanding, toAck, otherListens,
                   writes, serverCache, complete, eventCache, drops>>

(* backButtonTapped dismisses the screen and leaves its observers behind. *)
CloseScreen ==
    /\ presented
    /\ presented' = FALSE
    /\ UNCHANGED <<serverVars, connVars, viewVars, drops>>

(* sendButtonTapped, its setValue below this node: the write is applied to *)
(* the view, then kept by the connection and sent when there is one.       *)
SendButtonTapped(m) ==
    /\ presented
    /\ m \notin log \cup writes
    /\ writes' = writes \cup {m}
    /\ RaiseEvents(eventCache \cup {m})
    /\ outstanding' = Append(outstanding, m)
    /\ up' = IF connected THEN Append(up, PutMessage(m)) ELSE up
    /\ UNCHANGED <<serverVars, down, connected, toAck, unackedListens, otherListens,
                   serverCache, complete, presented, drops>>

(* Some other observe call of the application: it only matters here for    *)
(* the listen it leaves unanswered for a while.                            *)
ListenElsewhere ==
    /\ otherListens < MaxListens
    /\ otherListens' = otherListens + 1
    /\ IF connected
       THEN /\ up' = Append(up, ListenOther(otherListens'))
            /\ unackedListens' = unackedListens + 1
       ELSE UNCHANGED <<up, unackedListens>>
    /\ UNCHANGED <<serverVars, down, connected, outstanding, toAck, viewVars,
                   presented, drops>>

-----------------------------------------------------------------------------
(* The server and the friend's device *)

(* The news of a new child, for a client that listens *)
News(m) == IF subscribed /\ m \notin log THEN <<ChildUpdate(m)>> ELSE <<>>

FriendSends(m) ==
    /\ m \notin log
    /\ log' = log \cup {m}
    /\ down' = down \o News(m)
    /\ UNCHANGED <<waiting, subscribed, up, connected, outstanding, toAck,
                   unackedListens, otherListens, viewVars, presented, drops>>

ServerReads ==
    /\ up # <<>>
    /\ up' = Tail(up)
    /\ LET frame == Head(up) IN
       \/ /\ frame.op = "put"
          /\ log' = log \cup {frame.key}
          /\ down' = down \o News(frame.key) \o <<PutOk(frame.key)>>
          /\ UNCHANGED waiting
       \/ /\ frame.op # "put"
          /\ waiting' = waiting \cup {frame}
          /\ UNCHANGED <<log, down>>
    /\ UNCHANGED <<subscribed, connected, outstanding, toAck, unackedListens,
                   otherListens, viewVars, presented, drops>>

(* A listen is answered, in any order among those read: with the data, if  *)
(* the client's hash differs, and then with the response.                  *)
ServerAnswers ==
    \E frame \in waiting :
       /\ waiting' = waiting \ {frame}
       /\ subscribed' = (subscribed \/ frame.op = "listenLog")
       /\ down' = down \o (IF frame.op = "listenLog" /\ frame.hash # log
                           THEN <<DataUpdate(log)>> ELSE <<>>)
                       \o <<ListenOk(frame.op)>>
       /\ UNCHANGED <<log, up, connected, outstanding, toAck, unackedListens,
                      otherListens, viewVars, presented, drops>>

-----------------------------------------------------------------------------
(* The Firebase client *)

(* The event cache after the pending writes of acked are forgotten: each   *)
(* child is looked up again in the server cache, if that knows the child.  *)
AfterAck(cache, acked, events, isComplete) ==
    events \ {m \in acked : isComplete /\ m \notin cache}

(* The pending writes acked are removed from the write tree. *)
AckWrites(acked, events, isComplete) ==
    /\ writes' = writes \ acked
    /\ RaiseEvents(AfterAck(serverCache, acked, events, isComplete))

(* The event cache for a new server cache: pending writes on top *)
WithWrites(cache) == cache \cup writes

ReadDataUpdate(snap) ==
    /\ serverCache' = snap
    /\ complete' = TRUE
    /\ RaiseEvents(WithWrites(snap))
    /\ UNCHANGED <<writes, outstanding, toAck, unackedListens>>

(* The event cache after news of one child, which a pending write shadows *)
AfterServerOverwrite(m) == IF m \in writes THEN eventCache ELSE eventCache \cup {m}

ReadChildUpdate(m) ==
    /\ serverCache' = serverCache \cup {m}
    /\ RaiseEvents(AfterServerOverwrite(m))
    /\ UNCHANGED <<writes, complete, outstanding, toAck, unackedListens>>

(* The response to a listen marks the view complete; with the last one     *)
(* outstanding, ackPuts lets the waiting acknowledgements through.         *)
ReadListenOk(op) ==
    LET mine == op = "listenLog"
        last == unackedListens = 1
    IN  /\ complete' = (complete \/ mine)
        /\ unackedListens' = unackedListens - 1
        /\ toAck' = IF last THEN <<>> ELSE toAck
        /\ AckWrites(IF last THEN ToSet(toAck) ELSE {},
                     IF mine THEN WithWrites(serverCache) ELSE eventCache, complete')
        /\ UNCHANGED <<serverCache, outstanding>>

ReadPutOkAtOnce(m) ==                                             \* mutant
    /\ outstanding' = RemoveFirst(outstanding, m)
    /\ AckWrites({m}, eventCache, complete)
    /\ UNCHANGED <<toAck, serverCache, complete, unackedListens>>
(* An acknowledgement frees the put; the write itself stays pending while  *)
(* any listen is unanswered.                                               *)
ReadPutOk(m) ==
    /\ outstanding' = RemoveFirst(outstanding, m)
    /\ \/ /\ unackedListens = 0
          /\ AckWrites({m}, eventCache, complete)
          /\ UNCHANGED toAck
       \/ /\ unackedListens # 0
          /\ toAck' = Append(toAck, m)
          /\ UNCHANGED <<writes, eventCache, screens>>
    /\ UNCHANGED <<serverCache, complete, unackedListens>>

ClientReads ==
    /\ down # <<>>
    /\ down' = Tail(down)
    /\ LET frame == Head(down) IN
       \/ frame.op = "data" /\ ReadDataUpdate(frame.snap)
       \/ frame.op = "child" /\ ReadChildUpdate(frame.key)
       \/ frame.op = "listenOk" /\ ReadListenOk(frame.to)
       \/ frame.op = "putOk" /\ ReadPutOk(frame.key)
    /\ UNCHANGED <<serverVars, up, connected, otherListens, presented, drops>>

OnDisconnectKeepingCount ==                                       \* mutant
    /\ connected
    /\ drops < MaxDrops
    /\ drops' = drops + 1
    /\ connected' = FALSE
    /\ up' = <<>> /\ down' = <<>>
    /\ waiting' = {} /\ subscribed' = FALSE
    /\ UNCHANGED <<log, outstanding, toAck, unackedListens, otherListens, viewVars,
                   presented>>
OnDisconnect ==
    /\ connected
    /\ drops < MaxDrops
    /\ drops' = drops + 1
    /\ connected' = FALSE
    /\ unackedListens' = 0
    /\ up' = <<>> /\ down' = <<>>
    /\ waiting' = {} /\ subscribed' = FALSE
    /\ UNCHANGED <<log, outstanding, toAck, otherListens, viewVars, presented>>

RestorePutsOnly ==                                                \* mutant
    /\ ~connected
    /\ connected' = TRUE
    /\ up' = [i \in 1..Len(outstanding) |-> PutMessage(outstanding[i])]
    /\ UNCHANGED <<serverVars, down, outstanding, toAck, unackedListens,
                   otherListens, viewVars, presented, drops>>
(* restoreState: all listens, in the order of a dictionary, then all puts. *)
RestoreState ==
    LET mine == IF Listening THEN <<ListenLog(serverCache)>> ELSE <<>>
        others == [i \in 1..otherListens |-> ListenOther(i)]
        puts == [i \in 1..Len(outstanding) |-> PutMessage(outstanding[i])]
    IN  /\ ~connected
        /\ connected' = TRUE
        /\ up' \in {mine \o others \o puts, others \o mine \o puts}
        /\ unackedListens' = unackedListens + Len(mine) + otherListens
        /\ UNCHANGED <<serverVars, down, outstanding, toAck, otherListens, viewVars,
                       presented, drops>>

Next ==
    \/ OpenScreen
    \/ CloseScreen
    \/ \E m \in Mine : SendButtonTapped(m)
    \/ ListenElsewhere
    \/ \E m \in Theirs : FriendSends(m)
    \/ ServerReads
    \/ ServerAnswers
    \/ ClientReads
    \/ OnDisconnect
    \/ RestoreState

Spec == Init /\ [][Next]_vars

(* The server and both ends of the connection keep working, and the retry  *)
(* helper keeps reconnecting; the users owe nothing.                       *)
Fairness ==
    /\ WF_vars(ServerReads) /\ WF_vars(ServerAnswers)
    /\ WF_vars(ClientReads) /\ WF_vars(RestoreState)

FairSpec == Spec /\ Fairness

-----------------------------------------------------------------------------
(* Properties *)

(* The client's bookkeeping fits together: a write is pending exactly while*)
(* FPersistentConnection keeps its put or holds back its acknowledgement,  *)
(* and unackedListensCount counts the listens without a response.          *)
TypeOK ==
    /\ log \subseteq Msg /\ serverCache \subseteq Msg /\ eventCache \subseteq Msg
    /\ screens \in Seq(Seq(Msg)) /\ presented \in BOOLEAN
    /\ outstanding \in Seq(Mine) /\ toAck \in Seq(Mine)
    /\ writes = ToSet(outstanding) \cup ToSet(toAck)
    /\ unackedListens = Cardinality({i \in DOMAIN up : up[i].op # "put"})
                          + Cardinality(waiting)
                          + Cardinality({i \in DOMAIN down : down[i].op = "listenOk"})

(* One bubble for a message: no screen, presented or dismissed, shows one  *)
(* twice, although the childAdded closure (ChatBoxViewController.swift:59) *)
(* appends blindly and puts are sent again after a lost connection.        *)
NoDuplicateBubbles ==
    \A s \in DOMAIN screens : IsInjective(screens[s])

(* What has been given to the observers is never taken back: they would    *)
(* not hear of it, and would hear of the message again later.              *)
NeverRetracted == [][eventCache \subseteq eventCache']_vars

(* My own message is on every screen before the server has heard of it,    *)
(* and stays there while it is pending.                                    *)
OwnMessagesShown ==
    \A s \in DOMAIN screens : writes \subseteq ToSet(screens[s])

(* With nothing under way every screen of the conversation, whenever it    *)
(* was opened, shows exactly the messages the server stores.               *)
AtRest == connected /\ up = <<>> /\ down = <<>> /\ waiting = {}
ScreensShowLogAtRest ==
    AtRest => \A s \in DOMAIN screens : ToSet(screens[s]) = log

-----------------------------------------------------------------------------
(* The inductive invariant, in parts *)

UpFrame ==
    [op : {"listenLog"}, hash : SUBSET Msg] \cup [op : {"listenOther"}, no : Nat]
        \cup [op : {"put"}, key : Mine]
DownFrame ==
    [op : {"data"}, snap : SUBSET Msg] \cup [op : {"child"}, key : Msg]
        \cup [op : {"listenOk"}, to : {"listenLog", "listenOther"}]
        \cup [op : {"putOk"}, key : Mine]

(* Nothing is under way without a connection, and no write is kept without *)
(* an observer.                                                            *)
FramesTyped ==
    /\ up \in Seq(UpFrame) /\ down \in Seq(DownFrame)
    /\ waiting \subseteq UpFrame /\ \A f \in waiting : f.op # "put"
    /\ IsFiniteSet(waiting)
    /\ unackedListens \in Nat /\ otherListens \in Nat
    /\ {connected, subscribed, complete} \subseteq BOOLEAN
    /\ ~connected => up = <<>> /\ down = <<>> /\ waiting = {} /\ ~subscribed
    /\ presented => Listening
    /\ ~Listening => outstanding = <<>> /\ toAck = <<>>

(* What the view holds, and what every screen shows *)
EventsMerged ==
    /\ eventCache = serverCache \cup writes
    /\ \A s \in DOMAIN screens :
          IsInjective(screens[s]) /\ ToSet(screens[s]) = eventCache

(* The server has everything the client has from it or is being told. *)
ServerLeads ==
    /\ serverCache \subseteq log /\ ToSet(toAck) \subseteq log
    /\ \A f \in ToSet(down) :
          /\ f.op = "data" => f.snap \subseteq log
          /\ f.op \in {"child", "putOk"} => f.key \in log

(* Is the listen at the node without an answer? *)
Pending == \E f \in ToSet(up) \cup waiting : f.op = "listenLog"

(* The node is listened to once, with the hash of what the view has. *)
ListensOnce ==
    /\ IsInjective(up) /\ ToSet(up) \cap waiting = {}
    /\ subscribed => ~Pending
    /\ ~Listening => ~Pending /\ ~subscribed
    /\ connected /\ Listening => Pending \/ subscribed
    /\ \A f \in ToSet(up) \cup waiting :
          /\ f.op = "listenLog" => f.hash = serverCache
          /\ f.op = "listenOther" => f.no \in 1..otherListens

InSnap(frames, m) == \E f \in ToSet(frames) : f.op = "data" /\ m \in f.snap

(* The data come before the news and before the response to the listen,    *)
(* and all that the server has is in the view or on its way.               *)
NewsInOrder ==
    /\ ~subscribed => \A f \in ToSet(down) : f.op \notin {"data", "child"}
    /\ \A j \in DOMAIN down : down[j].op = "data" =>
          /\ serverCache \subseteq down[j].snap
          /\ \A i \in DOMAIN down : i < j => down[i].op \notin {"data", "child"}
          /\ \E k \in DOMAIN down : j < k /\ down[k].op = "listenOk"
    /\ subscribed => \A m \in log :
          m \in serverCache \/ ChildUpdate(m) \in ToSet(down) \/ InSnap(down, m)

(* A write that is acknowledged is in the server cache by the time it is   *)
(* taken off the pending ones: its child comes before the acknowledgement, *)
(* or that is held back until the data have come.                          *)
AcksSafe ==
    /\ \A k \in DOMAIN down : down[k].op = "putOk" =>
          \/ down[k].key \in serverCache
          \/ \E j \in DOMAIN down : j < k /\ down[j] = ChildUpdate(down[k].key)
          \/ InSnap(down, down[k].key)
          \/ Pending
    /\ connected => \A m \in ToSet(toAck) : m \in serverCache \/ InSnap(down, m) \/ Pending

(* An outstanding put is on its way, or its acknowledgement is, once. *)
PutsOnce ==
    /\ IsInjective(outstanding) /\ ToSet(outstanding) \cap ToSet(toAck) = {}
    /\ \A f \in ToSet(up) : f.op = "put" =>
          f.key \in ToSet(outstanding) /\ PutOk(f.key) \notin ToSet(down)
    /\ \A f \in ToSet(down) : f.op = "putOk" => f.key \in ToSet(outstanding)
    /\ \A j, k \in DOMAIN down : down[j].op = "putOk" /\ down[j] = down[k] => j = k
    /\ connected => \A m \in ToSet(outstanding) :
          PutMessage(m) \in ToSet(up) \/ PutOk(m) \in ToSet(down)

ScreenInv ==
    /\ TypeOK /\ FramesTyped
    /\ EventsMerged
    /\ ServerLeads
    /\ ListensOnce
    /\ NewsInOrder
    /\ AcksSafe
    /\ PutsOnce

-----------------------------------------------------------------------------
(* A message that reaches the server gets onto every screen in the end. *)
EventuallyShown ==
    \A m \in Msg :
        (m \in log /\ Listening) ~> (\A s \in DOMAIN screens : m \in ToSet(screens[s]))

(* No write stays pending for ever: acknowledgements held back for the     *)
(* sake of an unanswered listen are let through in the end, also when the  *)
(* connection is lost between the listen and its response                  *)
(* (FPersistentConnection.m:809-816).                                      *)
EventuallyAcked == \A m \in Mine : (m \in writes) ~> (m \notin writes)
=============================================================================
