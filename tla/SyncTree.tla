------------------------------ MODULE SyncTree ------------------------------
(***************************************************************************)
(* The repo and sync tree of the Firebase client (FRepo, FSyncTree,        *)
(* FSyncPoint, FView) and the listens of FPersistentConnection.            *)
(*                                                                         *)
(* My Chat nests its observers: every home screen observes chatbox/<user>, *)
(* here Root, and every new conversation observes one entry of it, here a  *)
(* Child.  The client keeps a view for each observed place, tells its      *)
(* observers the view's data once the view is complete, and listens at the *)
(* server to as few places as cover the views: observing Root replaces the *)
(* listens of the children, and removing Root's last observer puts them    *)
(* back.  A listen carries the hash of the data its view has, and the      *)
(* server sends no data when the hash is that of its own.                  *)
(*                                                                         *)
(* Places hold default queries and entries are set as wholes, as the app   *)
(* does.  The views hold server data only: the client's own writes on top  *)
(* of it are the subject of ChatScreen and Messaging.  No data is kept on  *)
(* disk.                                                                   *)
(***************************************************************************)
EXTENDS Naturals, Sequences, FiniteSets

CONSTANTS
    Root,         \* chatbox/<user>
    Child,        \* its entries
    Version,      \* what an entry can be set to
    None,         \* the data of an entry that does not exist
    MaxObserves,  \* bound: observers added
    MaxRemovals,  \* bound: observers removed (the app removes none)
    MaxChanges,   \* bound: entries set at the server
    MaxDrops,     \* bound: connections lost
    MaxDenials    \* bound: listens the server's rules refuse

ASSUME SyncTreeAssumption ==
    /\ IsFiniteSet(Child)
    /\ Root \notin Child /\ None \notin Version
    /\ MaxObserves \in Nat /\ MaxRemovals \in Nat /\ MaxChanges \in Nat
    /\ MaxDrops \in Nat /\ MaxDenials \in Nat

Place == Child \cup {Root}
Value == Version \cup {None}
Data == [Child -> Value]  \* the data at a place is None outside it

VARIABLES
    observers,  \* the number of event registrations of each place's view
    cache,      \* the server cache of each view
    complete,   \* isFullyInitialized: the views whose cache is all there is
    connected,
    listens,    \* the places of FPersistentConnection's listens
    started,    \* the number of listens started: the identity of the last
    toServer,   \* requests on their way
    toClient,   \* answers and data on their way
    server,     \* what the server holds
    active,     \* the places the server sends changes of
    held,       \* history: what the server has held
    count       \* history: what is bounded

views == <<observers, cache, complete>>
remote == <<server, active, held>>
vars == <<views, connected, listens, started, toServer, toClient, remote, count>>

Under(p) == IF p = Root THEN Child ELSE {p}
Below(p) == IF p = Root THEN Child ELSE {}
Covered(p) == p # Root /\ observers[Root] > 0
Observed == {p \in Place : observers[p] > 0}
Nothing == [c \in Child |-> None]
Part(p, data) == [c \in Child |-> IF c \in Under(p) THEN data[c] ELSE None]

Listen(p, turn, data) == [op |-> "listen", at |-> p, turn |-> turn, hash |-> data]
Unlisten(p) == [op |-> "unlisten", at |-> p]
DataAt(p, data) == [op |-> "data", at |-> p, data |-> data]
Answer(status, p, turn) == [op |-> status, at |-> p, turn |-> turn]

Counted == {"observe", "remove", "change", "drop", "deny"}
Count(what, bound) ==
    /\ count[what] < bound
    /\ count' = [count EXCEPT ![what] = @ + 1]

Init ==
    /\ observers = [p \in Place |-> 0]
    /\ cache = [p \in Place |-> Nothing]
    /\ complete = {}
    /\ connected = FALSE
    /\ listens = {}
    /\ started = [p \in Place |-> 0]
    /\ toServer = <<>>
    /\ toClient = <<>>
    /\ server \in Data
    /\ active = {}
    /\ held = [c \in Child |-> {server[c]}]
    /\ count = [w \in Counted |-> 0]

-----------------------------------------------------------------------------
(* The client *)

(* The orders in which a dictionary of places may be enumerated *)
Orders(S) ==
    {s \in [1..Cardinality(S) -> S] : \A i, j \in DOMAIN s : s[i] = s[j] => i = j}

Send(frames) == toServer' = IF connected THEN toServer \o frames ELSE toServer

(* The listens of these places, in this order, each with its view's data *)
Listens(order, data) ==
    [i \in DOMAIN order |-> Listen(order[i], started[order[i]] + 1, data[order[i]])]
Unlistens(order) == [i \in DOMAIN order |-> Unlisten(order[i])]

Starting(S) == started' = [p \in Place |-> started[p] + IF p \in S THEN 1 ELSE 0]

(* What a new view is given: its part of a complete parent, or else what   *)
(* its complete children have, which leaves it incomplete.                 *)
SeedsComplete(p) == p # Root /\ Root \in complete
ServerCacheForQuery(p) ==
    IF SeedsComplete(p)
        THEN Part(p, cache[Root])
        ELSE [c \in Child |->
                 IF p = Root /\ c \in complete THEN cache[c][c] ELSE None]

(* A new view that no ancestor covers is listened to; then the listens     *)
(* below it stop.                                                          *)
SetupListener(p, data) ==
    \E stops \in Orders(Below(p) \cap listens) :
        /\ listens' = (listens \ Below(p)) \cup {p}
        /\ Starting({p})
        /\ Send(Listens(<<p>>, [q \in {p} |-> data]) \o Unlistens(stops))

AddEventRegistration(p) ==
    LET data == ServerCacheForQuery(p)
    IN  /\ Count("observe", MaxObserves)
        /\ observers' = [observers EXCEPT ![p] = @ + 1]
        /\ \/ /\ observers[p] > 0
              /\ UNCHANGED <<cache, complete, listens, started, toServer>>
           \/ /\ observers[p] = 0
              /\ cache' = [cache EXCEPT ![p] = data]
              /\ complete' = complete \cup {q \in {p} : SeedsComplete(q)}
              /\ \/ Covered(p) /\ UNCHANGED <<listens, started, toServer>>
                 \/ ~Covered(p) /\ SetupListener(p, data)
        /\ UNCHANGED <<connected, toClient, remote>>

(* The views below a view that goes are listened to before the listen of   *)
(* the view itself stops.                                                  *)
StopOnly(p, stops) ==                                             \* mutant
    /\ listens' = listens \ {p}
    /\ Starting({})
    /\ Send(stops)
HandOverStoppingFirst(p, stops) ==                                \* mutant
    \E order \in Orders(Below(p) \cap Observed) :
        /\ listens' = (listens \ {p}) \cup (Below(p) \cap Observed)
        /\ Starting(Below(p) \cap Observed)
        /\ Send(stops \o Listens(order, cache))
HandOver(p, stops) ==
    \E order \in Orders(Below(p) \cap Observed) :
        /\ listens' = (listens \ {p}) \cup (Below(p) \cap Observed)
        /\ Starting(Below(p) \cap Observed)
        /\ Send(Listens(order, cache) \o stops)

RemoveView(p) ==
    /\ observers' = [observers EXCEPT ![p] = 0]
    /\ cache' = [cache EXCEPT ![p] = Nothing]
    /\ complete' = complete \ {p}

RemoveEventRegistration(p) ==
    /\ observers[p] > 0
    /\ Count("remove", MaxRemovals)
    /\ \/ /\ observers[p] > 1
          /\ observers' = [observers EXCEPT ![p] = @ - 1]
          /\ UNCHANGED <<cache, complete, listens, started, toServer>>
       \/ /\ observers[p] = 1
          /\ RemoveView(p)
          /\ \/ Covered(p) /\ UNCHANGED <<listens, started, toServer>>
             \/ ~Covered(p) /\ HandOver(p, <<Unlisten(p)>>)
    /\ UNCHANGED <<connected, toClient, remote>>

(* Data for a place goes to every view it overlaps and completes those it  *)
(* holds all the data of.                                                  *)
OverwriteAtPlaceOnly(p, data) ==                                  \* mutant
    /\ cache' = [q \in Place |-> IF q = p /\ q \in Observed THEN data ELSE cache[q]]
    /\ complete' = complete \cup ({p} \cap Observed)
ApplyServerOverwrite(p, data) ==
    /\ cache' = [q \in Place |->
           IF q \in Observed
               THEN [c \in Child |->
                        IF c \in Under(p) \cap Under(q) THEN data[c] ELSE cache[q][c]]
               ELSE cache[q]]
    /\ complete' = complete \cup {q \in Observed : Under(q) \subseteq Under(p)}

OnDataUpdate ==
    /\ toClient # <<>> /\ Head(toClient).op = "data"
    /\ ApplyServerOverwrite(Head(toClient).at, Head(toClient).data)
    /\ toClient' = Tail(toClient)
    /\ UNCHANGED <<observers, connected, listens, started, toServer, remote, count>>

(* The answer acts only when the listen it answers is still there *)
AnyListen(frame) == frame.at \in listens                          \* mutant
CurrentListen(frame) == frame.at \in listens /\ frame.turn = started[frame.at]

ListenCompleteNowhere(p) == {}                                    \* mutant
ListenComplete(p) == {q \in Observed : Under(q) \subseteq Under(p)}

OnListenResponse ==
    /\ toClient # <<>> /\ Head(toClient).op \in {"ok", "denied"}
    /\ LET p == Head(toClient).at
       IN  \/ /\ ~CurrentListen(Head(toClient))
              /\ UNCHANGED <<views, listens, started, toServer>>
           \/ /\ CurrentListen(Head(toClient)) /\ Head(toClient).op = "ok"
              /\ complete' = complete \cup ListenComplete(p)
              /\ UNCHANGED <<observers, cache, listens, started, toServer>>
           \/ /\ CurrentListen(Head(toClient)) /\ Head(toClient).op = "denied"
              /\ RemoveView(p)
              /\ HandOver(p, <<>>)
    /\ toClient' = Tail(toClient)
    /\ UNCHANGED <<connected, remote, count>>

(* The connection: all that is on its way is lost with it, and a new one   *)
(* is sent every listen again.                                             *)
OnDisconnect ==
    /\ connected
    /\ Count("drop", MaxDrops)
    /\ connected' = FALSE
    /\ toServer' = <<>>
    /\ toClient' = <<>>
    /\ active' = {}
    /\ UNCHANGED <<views, listens, started, server, held>>

RestoreNothing ==                                                 \* mutant
    /\ ~connected
    /\ connected' = TRUE
    /\ UNCHANGED <<views, listens, started, toServer, toClient, remote, count>>
RestoreState ==
    /\ ~connected
    /\ connected' = TRUE
    /\ \E order \in Orders(listens) :
           toServer' = [i \in DOMAIN order |->
               Listen(order[i], started[order[i]], cache[order[i]])]
    /\ UNCHANGED <<views, listens, started, toClient, remote, count>>

-----------------------------------------------------------------------------
(* The server *)

ServerListens ==
    /\ toServer # <<>> /\ Head(toServer).op = "listen"
    /\ LET p == Head(toServer).at
           turn == Head(toServer).turn
           data == Part(p, server)
           known == Head(toServer).hash = data /\ data # Nothing
       IN  \/ /\ active' = active \cup {p}
              /\ toClient' = toClient \o (IF known THEN <<>> ELSE <<DataAt(p, data)>>)
                                      \o <<Answer("ok", p, turn)>>
              /\ UNCHANGED count
           \/ /\ Count("deny", MaxDenials)
              /\ toClient' = Append(toClient, Answer("denied", p, turn))
              /\ UNCHANGED active
    /\ toServer' = Tail(toServer)
    /\ UNCHANGED <<views, connected, listens, started, server, held>>

ServerUnlistens ==
    /\ toServer # <<>> /\ Head(toServer).op = "unlisten"
    /\ active' = active \ {Head(toServer).at}
    /\ toServer' = Tail(toServer)
    /\ UNCHANGED <<views, connected, listens, started, toClient, server, held, count>>

(* Some client sets an entry, and whoever listens to it is sent it *)
ServerChange(c, v) ==
    /\ v # server[c]
    /\ Count("change", MaxChanges)
    /\ server' = [server EXCEPT ![c] = v]
    /\ held' = [held EXCEPT ![c] = @ \cup {v}]
    /\ toClient' = IF active \cap {c, Root} = {} THEN toClient
                   ELSE Append(toClient, DataAt(c, Part(c, server')))
    /\ UNCHANGED <<views, connected, listens, started, toServer, active>>

-----------------------------------------------------------------------------
Client ==
    \/ \E p \in Place : AddEventRegistration(p) \/ RemoveEventRegistration(p)
    \/ OnDataUpdate
    \/ OnListenResponse
    \/ OnDisconnect
    \/ RestoreState

Server ==
    \/ ServerListens
    \/ ServerUnlistens
    \/ \E c \in Child, v \in Version : ServerChange(c, v)

Next == Client \/ Server

Spec == Init /\ [][Next]_vars

(* The connection is retried until it is up, and carries what it is given  *)
(* while it lasts; nobody need observe, change or remove anything.         *)
FairSpec ==
    /\ Spec
    /\ WF_vars(RestoreState)
    /\ WF_vars(OnDataUpdate \/ OnListenResponse)
    /\ WF_vars(ServerListens \/ ServerUnlistens)

-----------------------------------------------------------------------------
Request ==
    [op : {"listen"}, at : Place, turn : Nat, hash : Data]
        \cup [op : {"unlisten"}, at : Place]
Reply ==
    [op : {"data"}, at : Place, data : Data]
        \cup [op : {"ok", "denied"}, at : Place, turn : Nat]

(* Types.  A place without observers has no view, so no data, and what a   *)
(* view holds lies under its place (FSyncPoint.m:198).                     *)
TypeOK ==
    /\ observers \in [Place -> Nat]
    /\ cache \in [Place -> Data]
    /\ \A p \in Place : cache[p] = Part(p, cache[p])
    /\ \A p \in Place \ Observed : cache[p] = Nothing
    /\ complete \subseteq Observed
    /\ connected \in BOOLEAN
    /\ listens \subseteq Place
    /\ started \in [Place -> Nat]
    /\ toServer \in Seq(Request)
    /\ toClient \in Seq(Reply)
    /\ server \in Data
    /\ active \subseteq Place
    /\ held \in [Child -> SUBSET Value]
    /\ count \in [Counted -> Nat]

(* The client listens to exactly the observed places no other observed     *)
(* place covers: no view is left without the data it needs, and nothing is *)
(* listened to twice or for nobody (FSyncTree.m:817, 589).                 *)
ListensCover == listens = {p \in Observed : ~Covered(p)}

(* Nothing is on its way. *)
Silent == connected /\ toServer = <<>> /\ toClient = <<>>

(* When nothing is on its way, every view that is listened to has all the  *)
(* data of its place, and as the server holds it, whatever views came and  *)
(* went: although listens were handed over from the list to its entries    *)
(* and back, restored on a new connection, and answered without data when  *)
(* a hash taken at that moment matched (FSyncTree.m:589-696).  Current it  *)
(* is unless a listen was refused: the views below are then listened to    *)
(* while the request to stop their earlier listens may still be on its     *)
(* way, and an entry that is changed and changed back between the two      *)
(* matches a hash older than the view.                                     *)
ListenedCurrentAtRest ==
    Silent =>
        \A p \in listens :
            /\ p \in complete
            /\ count["deny"] = 0 => cache[p] = Part(p, server)

(* The first value that the observers of a listened place are told is made *)
(* of what the server has held, never of an answer that was meant for an   *)
(* earlier listen of the place (FPersistentConnection.m:795).              *)
FirstValueIsHeld ==
    [][\A p \in listens' : p \in complete' \ complete =>
           \A c \in Under(p) : cache'[p][c] \in held'[c]]_vars

(* All that observers are told the server has held: FIRDatabaseQuery.h:85  *)
(* says of an observer's block "Your block will be triggered for the       *)
(* initial data and again whenever the data changes."                      *)
ToldIsHeld == \A p \in complete : \A c \in Under(p) : cache[p][c] \in held[c]

(* As long as no observer is removed, as in the app: observers of the list *)
(* and of one of its entries are never told different things about the     *)
(* entry (FSyncTree.m:948).                                                *)
ViewsAgree ==
    count["remove"] = 0 =>
        \A c \in Child : {c, Root} \subseteq complete => cache[c][c] = cache[Root][c]

(* Again if no observer is removed: when nothing is on its way, every      *)
(* observer has been told what the server holds, those of covered places   *)
(* too, for which nothing was ever asked of the server (FSyncTree.m:459).  *)
CurrentAtRest ==
    Silent /\ count["deny"] = 0 /\ count["remove"] = 0 =>
        \A p \in Observed : p \in complete /\ cache[p] = Part(p, server)

(* An observer's first value comes, unless its observers are removed or    *)
(* the server refuses the place (FSyncTree.m:455, FPersistentConnection.m: *)
(* 993).                                                                   *)
FirstValueComes ==
    \A p \in Place : p \in Observed ~> (p \in complete \/ p \notin Observed)
=============================================================================
