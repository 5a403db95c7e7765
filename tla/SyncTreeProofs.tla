--------------------------- MODULE SyncTreeProofs ---------------------------
(***************************************************************************)
(* Theorems about SyncTree, for any finite set of entries and any bounds.  *)
(*                                                                         *)
(* The listens cover the observed places: an induction in which the only   *)
(* real cases are those that change the set of views.  Adding the list's   *)
(* first observer takes the entries' listens, removing its last or being   *)
(* refused gives them back, and an answer removes views only when the      *)
(* listen it answers is still there, hence one that nothing covers.        *)
(*                                                                         *)
(* The first values are held: a view has the data that the listen on its   *)
(* way tells of, or later data; and ahead of the answer to that listen     *)
(* comes the server's data, unless the view has data that was held.        *)
(* Answers to earlier listens are told apart by their turns (HeldInv).     *)
(*                                                                         *)
(* The views agree, as long as no observer is removed: between two listens *)
(* of a place the first is stopped, what is not observed is not asked for, *)
(* and data of an entry without a view comes behind what completes the     *)
(* list (Sending, Answers); so the views are given the same data (Same).   *)
(*                                                                         *)
(* They are up to date at rest, as long as no listen is refused either:    *)
(* of each entry the last frame on its way, or else every view, has what   *)
(* the server holds, from the moment that the server sends its changes     *)
(* (UpToDate).                                                             *)
(*                                                                         *)
(* What is listened to is up to date at rest also when observers are       *)
(* removed and listens handed over: each is complete or its answer is      *)
(* still to come (Coming); and each entry is sent without a gap from now   *)
(* on or from a listen on its way, which tells of no data of the entry or, *)
(* as the first on a silent connection, of just what the view has (Fed).   *)
(***************************************************************************)
EXTENDS SyncTree, SequenceFacts

USE DEF Place, Value, Data, views, remote

(* What the induction needs to know of the observers *)
CoverInv ==
    /\ observers \in [Place -> Nat]
    /\ ListensCover

(* Nothing is observed at first, and nothing listened to *)
LEMMA CoverInit == Init => CoverInv
BY DEF Init, CoverInv, ListensCover, Observed, Covered

LEMMA CoverAdd ==
    ASSUME CoverInv, NEW p \in Place, AddEventRegistration(p)
    PROVE  CoverInv'
<1> USE SyncTreeAssumption
<1>1. observers' = [observers EXCEPT ![p] = @ + 1] /\ observers \in [Place -> Nat]
  BY DEF AddEventRegistration, CoverInv
<1>2. observers' \in [Place -> Nat]
  BY <1>1
<1>3. CASE observers[p] > 0
  <2>1. listens' = listens
    BY <1>3, <1>1 DEF AddEventRegistration
  <2>2. QED
    BY <2>1, <1>1, <1>2, <1>3 DEF CoverInv, ListensCover, Observed, Covered
<1>4. CASE observers[p] = 0 /\ Covered(p)
  <2>1. listens' = listens
    BY <1>4, <1>1 DEF AddEventRegistration
  <2>2. QED
    BY <2>1, <1>1, <1>2, <1>4 DEF CoverInv, ListensCover, Observed, Covered
<1>5. CASE observers[p] = 0 /\ ~Covered(p)
  <2>1. listens' = (listens \ Below(p)) \cup {p}
    BY <1>5, <1>1 DEF AddEventRegistration, SetupListener
  <2>2. CASE p = Root
    BY <2>1, <2>2, <1>1, <1>2, <1>5
       DEF CoverInv, ListensCover, Observed, Covered, Below
  <2>3. CASE p # Root
    BY <2>1, <2>3, <1>1, <1>2, <1>5
       DEF CoverInv, ListensCover, Observed, Covered, Below
  <2>4. QED
    BY <2>2, <2>3
<1>6. QED
  BY <1>1, <1>3, <1>4, <1>5

(* A view that nothing covers goes, and hands its listen over *)
LEMMA CoverHandOver ==
    ASSUME CoverInv, NEW p \in Place, NEW stops,
           ~Covered(p), RemoveView(p), HandOver(p, stops)
    PROVE  CoverInv'
<1> USE SyncTreeAssumption
<1>1. observers' = [observers EXCEPT ![p] = 0] /\ observers \in [Place -> Nat]
  BY DEF RemoveView, CoverInv
<1>2. listens' = (listens \ {p}) \cup (Below(p) \cap Observed)
  BY DEF HandOver
<1>3. observers' \in [Place -> Nat]
  BY <1>1
<1>4. CASE p = Root
  BY <1>1, <1>2, <1>3, <1>4 DEF CoverInv, ListensCover, Observed, Covered, Below
<1>5. CASE p # Root
  BY <1>1, <1>2, <1>3, <1>5 DEF CoverInv, ListensCover, Observed, Covered, Below
<1>6. QED
  BY <1>4, <1>5

LEMMA CoverRemove ==
    ASSUME CoverInv, NEW p \in Place, RemoveEventRegistration(p)
    PROVE  CoverInv'
<1> USE SyncTreeAssumption
<1>1. observers \in [Place -> Nat] /\ observers[p] > 0
  BY DEF CoverInv, RemoveEventRegistration
<1>2. CASE observers[p] > 1
  <2>1. observers' = [observers EXCEPT ![p] = @ - 1] /\ listens' = listens
    BY <1>2 DEF RemoveEventRegistration
  <2>2. observers' \in [Place -> Nat]
    BY <2>1, <1>1, <1>2
  <2>3. \A q \in Place : observers'[q] > 0 <=> observers[q] > 0
    BY <2>1, <1>1, <1>2
  <2>4. Root \in Place
    OBVIOUS
  <2>5. Observed' = Observed /\ \A q \in Place : Covered(q)' <=> Covered(q)
    BY <2>3, <2>4 DEF Observed, Covered
  <2>6. QED
    BY <2>1, <2>2, <2>5 DEF CoverInv, ListensCover, Observed
<1>3. CASE observers[p] = 1 /\ Covered(p)
  <2>1. observers' = [observers EXCEPT ![p] = 0] /\ listens' = listens
    BY <1>3 DEF RemoveEventRegistration, RemoveView
  <2>2. QED
    BY <2>1, <1>1, <1>3 DEF CoverInv, ListensCover, Observed, Covered
<1>4. CASE observers[p] = 1 /\ ~Covered(p)
  <2>1. RemoveView(p) /\ HandOver(p, <<Unlisten(p)>>)
    BY <1>4 DEF RemoveEventRegistration
  <2>2. QED
    BY <2>1, <1>4, CoverHandOver
<1>5. QED
  BY <1>1, <1>2, <1>3, <1>4 DEF RemoveEventRegistration

LEMMA CoverResponse ==
    ASSUME CoverInv, OnListenResponse
    PROVE  CoverInv'
<1> DEFINE p == Head(toClient).at
<1>1. CASE observers' = observers /\ listens' = listens
  BY <1>1 DEF CoverInv, ListensCover, Observed, Covered
<1>2. CASE CurrentListen(Head(toClient)) /\ RemoveView(p) /\ HandOver(p, <<>>)
  <2>1. p \in Place /\ ~Covered(p)
    BY <1>2 DEF CurrentListen, CoverInv, ListensCover, Observed
  <2>2. QED
    BY <2>1, <1>2, CoverHandOver
<1>3. QED
  BY <1>1, <1>2 DEF OnListenResponse

LEMMA CoverStep == CoverInv /\ [Next]_vars => CoverInv'
<1> SUFFICES ASSUME CoverInv, [Next]_vars PROVE CoverInv'
  OBVIOUS
<1>1. CASE \E p \in Place : AddEventRegistration(p)
  BY <1>1, CoverAdd
<1>2. CASE \E p \in Place : RemoveEventRegistration(p)
  BY <1>2, CoverRemove
<1>3. CASE OnListenResponse
  BY <1>3, CoverResponse
<1>4. CASE UNCHANGED <<observers, listens>>
  BY <1>4 DEF CoverInv, ListensCover, Observed, Covered
<1>5. QED
  BY <1>1, <1>2, <1>3, <1>4
     DEF Next, Client, Server, OnDataUpdate, OnDisconnect, RestoreState,
         ServerListens, ServerUnlistens, ServerChange, vars

(* Whatever is observed, removed, refused, lost and restored, the client   *)
(* listens to exactly the observed places that no observed place covers    *)
(* (FSyncTree.m:817, 589): no view lacks its data's source, and no place   *)
(* is listened to for nobody.                                              *)
THEOREM ListensAlwaysCover == Spec => []ListensCover
<1>1. CoverInv => ListensCover
  BY DEF CoverInv
<1>2. QED
  BY CoverInit, CoverStep, <1>1, PTL DEF Spec

-----------------------------------------------------------------------------
(* Types *)

(* A frame for each place of an order is a sequence of frames *)
LEMMA OrdersAreSequences ==
    ASSUME NEW S \in SUBSET Place, NEW order \in Orders(S)
    PROVE  \E n \in Nat : DOMAIN order = 1..n /\ \A i \in 1..n : order[i] \in S
<1> USE SyncTreeAssumption
<1>1. IsFiniteSet(Child \cup {Root})
  BY FS_AddElement
<1>2. IsFiniteSet(S)
  BY <1>1, FS_Subset
<1>3. Cardinality(S) \in Nat
  BY <1>2, FS_CardinalityType
<1>4. QED
  BY <1>3 DEF Orders

LEMMA ListensAreRequests ==
    ASSUME TypeOK, NEW S \in SUBSET Place, NEW order \in Orders(S), NEW data,
           \A p \in S : data[p] \in Data
    PROVE  Listens(order, data) \in Seq(Request)
<1>1. PICK n \in Nat : DOMAIN order = 1..n /\ \A i \in 1..n : order[i] \in S
  BY OrdersAreSequences
<1>2. \A i \in 1..n : Listen(order[i], started[order[i]] + 1, data[order[i]]) \in Request
  BY <1>1 DEF TypeOK, Listen, Request
<1>3. QED
  BY <1>1, <1>2 DEF Listens

LEMMA UnlistensAreRequests ==
    ASSUME NEW S \in SUBSET Place, NEW order \in Orders(S)
    PROVE  Unlistens(order) \in Seq(Request)
<1>1. PICK n \in Nat : DOMAIN order = 1..n /\ \A i \in 1..n : order[i] \in S
  BY OrdersAreSequences
<1>2. \A i \in 1..n : Unlisten(order[i]) \in Request
  BY <1>1 DEF Unlisten, Request
<1>3. QED
  BY <1>1, <1>2 DEF Unlistens

(* What the types say of the views, and of the rest *)
ViewsTyped ==
    /\ observers \in [Place -> Nat]
    /\ cache \in [Place -> Data]
    /\ \A p \in Place : cache[p] = Part(p, cache[p])
    /\ \A p \in Place \ Observed : cache[p] = Nothing
    /\ complete \subseteq Observed

ListensTyped ==
    /\ listens \subseteq Place
    /\ started \in [Place -> Nat]
    /\ toServer \in Seq(Request)

RestTyped ==
    /\ connected \in BOOLEAN
    /\ toClient \in Seq(Reply)
    /\ server \in Data
    /\ active \subseteq Place
    /\ held \in [Child -> SUBSET Value]
    /\ count \in [Counted -> Nat]

LEMMA TypeParts == TypeOK <=> ViewsTyped /\ ListensTyped /\ RestTyped
BY DEF TypeOK, ViewsTyped, ListensTyped, RestTyped

LEMMA CountTyped ==
    ASSUME RestTyped, NEW what \in Counted, NEW bound, Count(what, bound)
    PROVE  count' \in [Counted -> Nat]
BY DEF RestTyped, Count

LEMMA StartingTyped ==
    ASSUME ListensTyped, NEW S, Starting(S)
    PROVE  started' \in [Place -> Nat]
BY DEF ListensTyped, Starting

LEMMA PartIsData ==
    ASSUME NEW p \in Place, NEW data \in Data
    PROVE  Part(p, data) \in Data /\ Part(p, Part(p, data)) = Part(p, data)
BY DEF Part

LEMMA SendTyped ==
    ASSUME ListensTyped, NEW frames \in Seq(Request), Send(frames)
    PROVE  toServer' \in Seq(Request)
BY DEF ListensTyped, Send

LEMMA TypeInit == Init => TypeOK
<1> SUFFICES ASSUME Init PROVE TypeOK
  OBVIOUS
<1>1. Nothing \in Data /\ \A p \in Place : Nothing = Part(p, Nothing)
  BY DEF Nothing, Part
<1>2. ViewsTyped
  BY <1>1 DEF Init, ViewsTyped, Observed
<1>3. ListensTyped
  BY DEF Init, ListensTyped
<1>4. server \in Data /\ held = [c \in Child |-> {server[c]}]
  BY DEF Init
<1>5. held \in [Child -> SUBSET Value]
  BY <1>4
<1>6. connected \in BOOLEAN
  BY Zenon DEF Init
<1>7. toClient \in Seq(Reply)
  BY DEF Init
<1>8. active \subseteq Place
  BY DEF Init
<1>9. count \in [Counted -> Nat]
  BY DEF Init
<1>10. RestTyped
  BY <1>4, <1>5, <1>6, <1>9, <1>7, <1>8, Zenon DEF RestTyped
<1>11. QED
  BY <1>2, <1>3, <1>10, TypeParts

LEMMA TypeAdd ==
    ASSUME TypeOK, NEW p \in Place, AddEventRegistration(p)
    PROVE  TypeOK'
<1> USE SyncTreeAssumption
<1> DEFINE data == ServerCacheForQuery(p)
<1>1. ViewsTyped /\ ListensTyped /\ RestTyped
  BY TypeParts
<1>2. data \in Data /\ data = Part(p, data)
  <2>1. CASE SeedsComplete(p)
    <3>1. cache[Root] \in Data
      BY <1>1 DEF ViewsTyped
    <3>2. QED
      BY <2>1, <3>1, PartIsData DEF ServerCacheForQuery
  <2>2. CASE ~SeedsComplete(p)
    <3>1. data = [c \in Child |-> IF p = Root /\ c \in complete THEN cache[c][c] ELSE None]
      BY <2>2 DEF ServerCacheForQuery
    <3>2. \A c \in Child : cache[c][c] \in Value
      BY <1>1 DEF ViewsTyped
    <3> HIDE DEF data
    <3>3. data \in Data
      BY <3>1, <3>2
    <3>4. data = Part(p, data)
      BY <3>1, <3>3 DEF Part, Under
    <3>5. QED
      BY <3>3, <3>4
  <2>3. QED
    BY <2>1, <2>2
<1>3. RestTyped'
  <2>1. count' \in [Counted -> Nat]
    BY <1>1, CountTyped DEF AddEventRegistration, Counted
  <2>2. QED
    BY <1>1, <2>1 DEF AddEventRegistration, RestTyped
<1>4. observers' = [observers EXCEPT ![p] = @ + 1] /\ observers' \in [Place -> Nat]
  BY <1>1 DEF AddEventRegistration, ViewsTyped
<1>5. Observed \subseteq Observed' /\ p \in Observed'
  BY <1>1, <1>4 DEF Observed, ViewsTyped
<1>6. CASE observers[p] > 0
  <2>1. UNCHANGED <<cache, complete, listens, started, toServer>>
    BY <1>6, <1>1 DEF AddEventRegistration, ViewsTyped
  <2>2. ViewsTyped'
    BY <2>1, <1>1, <1>4, <1>5 DEF ViewsTyped, Part
  <2>3. ListensTyped'
    BY <2>1, <1>1 DEF ListensTyped
  <2>4. QED
    BY <2>2, <2>3, <1>3, TypeParts DEF TypeOK, ViewsTyped, ListensTyped, RestTyped
<1>7. CASE observers[p] = 0
  <2>1. /\ cache' = [cache EXCEPT ![p] = data]
        /\ complete' = complete \cup {q \in {p} : SeedsComplete(q)}
        /\ \/ Covered(p) /\ UNCHANGED <<listens, started, toServer>>
           \/ SetupListener(p, data)
    BY <1>7, <1>1 DEF AddEventRegistration, ViewsTyped
  <2> HIDE DEF data
  <2>2. cache' \in [Place -> Data]
    BY <2>1, <1>1, <1>2 DEF ViewsTyped
  <2>3. \A q \in Place : cache'[q] = Part(q, cache'[q])
    <3> SUFFICES ASSUME NEW q \in Place PROVE cache'[q] = Part(q, cache'[q])
      OBVIOUS
    <3>1. cache'[q] = IF q = p THEN data ELSE cache[q]
      BY <2>1, <1>1 DEF ViewsTyped
    <3>2. QED
      BY <3>1, <1>1, <1>2 DEF ViewsTyped
  <2>4. \A q \in Place \ Observed' : cache'[q] = Nothing
    BY <2>1, <1>1, <1>5 DEF ViewsTyped
  <2>5. complete' \subseteq Observed'
    BY <2>1, <1>1, <1>5 DEF ViewsTyped
  <2>6. ViewsTyped'
    BY <2>2, <2>3, <2>4, <2>5, <1>4 DEF ViewsTyped
  <2>7. ListensTyped'
    <3>1. CASE UNCHANGED <<listens, started, toServer>>
      BY <3>1, <1>1 DEF ListensTyped
    <3>2. CASE SetupListener(p, data)
      <4> DEFINE one == [q \in {p} |-> data]
      <4>1. PICK stops \in Orders(Below(p) \cap listens) :
              /\ listens' = (listens \ Below(p)) \cup {p}
              /\ Starting({p})
              /\ Send(Listens(<<p>>, one) \o Unlistens(stops))
        BY <3>2 DEF SetupListener
      <4>2. Listen(p, started[p] + 1, data) \in Request
        BY <1>1, <1>2 DEF ListensTyped, Listen, Request
      <4>3. Listens(<<p>>, one) \in Seq(Request)
        <5>1. Listens(<<p>>, one) = [i \in 1..1 |-> Listen(p, started[p] + 1, data)]
          <6>1. /\ DOMAIN <<p>> = 1..1
                /\ \A i \in 1..1 : <<p>>[i] = p /\ one[<<p>>[i]] = data
            OBVIOUS
          <6>2. Listens(<<p>>, one) =
                  [i \in 1..1 |-> Listen(<<p>>[i], started[<<p>>[i]] + 1, one[<<p>>[i]])]
            BY <6>1 DEF Listens
          <6> HIDE DEF one
          <6>3. QED
            BY <6>1, <6>2
        <5> DEFINE frame == Listen(p, started[p] + 1, data)
        <5> HIDE DEF frame
        <5>2. [i \in 1..1 |-> frame] \in Seq(Request)
          BY <4>2 DEF frame
        <5>3. QED
          BY <5>1, <5>2 DEF frame
      <4>4. Unlistens(stops) \in Seq(Request)
        BY <1>1, UnlistensAreRequests DEF ListensTyped
      <4>5. Listens(<<p>>, one) \o Unlistens(stops) \in Seq(Request)
        BY <4>3, <4>4
      <4>6. toServer' \in Seq(Request)
        BY <4>1, <4>5, <1>1, SendTyped
      <4>7. started' \in [Place -> Nat]
        BY <4>1, <1>1, StartingTyped
      <4>8. QED
        BY <4>1, <4>6, <4>7, <1>1 DEF ListensTyped
    <3>3. QED
      BY <2>1, <3>1, <3>2
  <2>8. QED
    BY <2>6, <2>7, <1>3, TypeParts DEF TypeOK, ViewsTyped, ListensTyped, RestTyped
<1>8. QED
  BY <1>1, <1>6, <1>7 DEF AddEventRegistration, ViewsTyped

LEMMA TypeRemoveView ==
    ASSUME ViewsTyped, NEW p \in Place, RemoveView(p)
    PROVE  ViewsTyped'
<1>1. /\ observers' = [observers EXCEPT ![p] = 0]
      /\ cache' = [cache EXCEPT ![p] = Nothing]
      /\ complete' = complete \ {p}
  BY DEF RemoveView
<1>2. Nothing \in Data /\ Nothing = Part(p, Nothing)
  BY DEF Nothing, Part
<1>3. Observed' = Observed \ {p}
  BY <1>1 DEF ViewsTyped, Observed
<1>4. \A q \in Place : cache'[q] = IF q = p THEN Nothing ELSE cache[q]
  BY <1>1 DEF ViewsTyped
<1>5. \A q \in Place : cache'[q] = Part(q, cache'[q])
  BY <1>2, <1>4 DEF ViewsTyped
<1>6. QED
  BY <1>1, <1>2, <1>3, <1>4, <1>5 DEF ViewsTyped

LEMMA TypeHandOver ==
    ASSUME TypeOK, NEW p \in Place, NEW stops \in Seq(Request), HandOver(p, stops)
    PROVE  ListensTyped'
<1>1. ViewsTyped /\ ListensTyped
  BY TypeParts
<1>2. PICK order \in Orders(Below(p) \cap Observed) :
        /\ listens' = (listens \ {p}) \cup (Below(p) \cap Observed)
        /\ Starting(Below(p) \cap Observed)
        /\ Send(Listens(order, cache) \o stops)
  BY DEF HandOver
<1>3. Below(p) \cap Observed \in SUBSET Place
  BY DEF Observed
<1>4. Listens(order, cache) \in Seq(Request)
  BY <1>1, <1>3, ListensAreRequests DEF ViewsTyped
<1>5. Listens(order, cache) \o stops \in Seq(Request)
  BY <1>4
<1>6. toServer' \in Seq(Request)
  BY <1>1, <1>2, <1>5, SendTyped
<1>7. started' \in [Place -> Nat]
  BY <1>1, <1>2, StartingTyped
<1>8. QED
  BY <1>1, <1>2, <1>3, <1>6, <1>7 DEF ListensTyped

LEMMA TypeRemove ==
    ASSUME TypeOK, NEW p \in Place, RemoveEventRegistration(p)
    PROVE  TypeOK'
<1>1. ViewsTyped /\ ListensTyped /\ RestTyped
  BY TypeParts
<1>2. RestTyped'
  <2>1. count' \in [Counted -> Nat]
    BY <1>1, CountTyped DEF RemoveEventRegistration, Counted
  <2>2. QED
    BY <1>1, <2>1 DEF RemoveEventRegistration, RestTyped
<1>3. CASE observers[p] > 1
  <2>1. /\ observers' = [observers EXCEPT ![p] = @ - 1]
        /\ UNCHANGED <<cache, complete, listens, started, toServer>>
    BY <1>3 DEF RemoveEventRegistration
  <2>2. observers' \in [Place -> Nat] /\ Observed' = Observed
    BY <2>1, <1>1, <1>3 DEF ViewsTyped, Observed
  <2>3. ViewsTyped' /\ ListensTyped'
    BY <2>1, <2>2, <1>1 DEF ViewsTyped, ListensTyped, Part
  <2>4. QED
    BY <2>3, <1>2 DEF TypeOK, ViewsTyped, ListensTyped, RestTyped
<1>4. CASE observers[p] = 1
  <2>1. /\ RemoveView(p)
        /\ UNCHANGED <<listens, started, toServer>> \/ HandOver(p, <<Unlisten(p)>>)
    BY <1>4 DEF RemoveEventRegistration
  <2>2. ViewsTyped'
    BY <2>1, <1>1, TypeRemoveView
  <2>3. <<Unlisten(p)>> \in Seq(Request)
    BY DEF Unlisten, Request
  <2>4. ListensTyped'
    <3>1. CASE UNCHANGED <<listens, started, toServer>>
      BY <3>1, <1>1 DEF ListensTyped
    <3>2. CASE HandOver(p, <<Unlisten(p)>>)
      BY <3>2, <2>3, TypeHandOver
    <3>3. QED
      BY <2>1, <3>1, <3>2
  <2>5. QED
    BY <2>2, <2>4, <1>2 DEF TypeOK, ViewsTyped, ListensTyped, RestTyped
<1>5. QED
  BY <1>3, <1>4 DEF RemoveEventRegistration

LEMMA TypeDataUpdate ==
    ASSUME TypeOK, OnDataUpdate
    PROVE  TypeOK'
<1>1. ViewsTyped /\ ListensTyped /\ RestTyped
  BY TypeParts
<1> DEFINE p == Head(toClient).at
           data == Head(toClient).data
<1>2. Head(toClient) \in Reply /\ Tail(toClient) \in Seq(Reply)
  BY <1>1 DEF OnDataUpdate, RestTyped
<1>3. p \in Place /\ data \in Data
  BY <1>2 DEF OnDataUpdate, Reply
<1>4. /\ cache' = [q \in Place |->
            IF q \in Observed
                THEN [c \in Child |->
                        IF c \in Under(p) \cap Under(q) THEN data[c] ELSE cache[q][c]]
                ELSE cache[q]]
      /\ complete' = complete \cup {q \in Observed : Under(q) \subseteq Under(p)}
      /\ observers' = observers
  BY DEF OnDataUpdate, ApplyServerOverwrite
<1> HIDE DEF p, data
<1>5. \A q \in Place : cache'[q] \in Data /\ cache'[q] = Part(q, cache'[q])
  <2> SUFFICES ASSUME NEW q \in Place
               PROVE  cache'[q] \in Data /\ cache'[q] = Part(q, cache'[q])
    OBVIOUS
  <2>1. cache[q] \in Data /\ cache[q] = Part(q, cache[q])
    BY <1>1 DEF ViewsTyped
  <2>2. CASE q \notin Observed
    BY <2>1, <2>2, <1>4
  <2>3. CASE q \in Observed
    <3>1. cache'[q] = [c \in Child |->
                        IF c \in Under(p) \cap Under(q) THEN data[c] ELSE cache[q][c]]
      BY <2>3, <1>4
    <3>2. cache'[q] \in Data
      BY <3>1, <2>1, <1>3
    <3>3. \A c \in Child : c \notin Under(q) => cache[q][c] = None
      BY <2>1 DEF Part
    <3>4. cache'[q] = Part(q, cache'[q])
      BY <3>1, <3>2, <3>3 DEF Part
    <3>5. QED
      BY <3>2, <3>4
  <2>4. QED
    BY <2>2, <2>3
<1>6. Observed' = Observed
  BY <1>4 DEF Observed
<1>7. ViewsTyped'
  BY <1>1, <1>4, <1>5, <1>6 DEF ViewsTyped
<1>8. ListensTyped' /\ RestTyped'
  BY <1>1, <1>2 DEF OnDataUpdate, ListensTyped, RestTyped
<1>9. QED
  BY <1>7, <1>8 DEF TypeOK, ViewsTyped, ListensTyped, RestTyped

LEMMA TypeResponse ==
    ASSUME TypeOK, OnListenResponse
    PROVE  TypeOK'
<1>1. ViewsTyped /\ ListensTyped /\ RestTyped
  BY TypeParts
<1> DEFINE p == Head(toClient).at
<1>2. Tail(toClient) \in Seq(Reply)
  BY <1>1 DEF OnListenResponse, RestTyped
<1>3. RestTyped'
  BY <1>1, <1>2 DEF OnListenResponse, RestTyped
<1>4. CASE UNCHANGED <<views, listens, started, toServer>>
  <2>1. ViewsTyped' /\ ListensTyped'
    BY <1>4, <1>1 DEF ViewsTyped, ListensTyped, Observed, Part
  <2>2. QED
    BY <2>1, <1>3 DEF TypeOK, ViewsTyped, ListensTyped, RestTyped
<1>5. CASE /\ complete' = complete \cup ListenComplete(p)
           /\ UNCHANGED <<observers, cache, listens, started, toServer>>
  <2>1. ListenComplete(p) \subseteq Observed
    BY DEF ListenComplete
  <2>2. Observed' = Observed
    BY <1>5 DEF Observed
  <2>3. ViewsTyped'
    BY <1>5, <2>1, <2>2, <1>1 DEF ViewsTyped, Part
  <2>4. ListensTyped'
    BY <1>5, <1>1 DEF ListensTyped
  <2>5. QED
    BY <2>3, <2>4, <1>3 DEF TypeOK, ViewsTyped, ListensTyped, RestTyped
<1>6. CASE CurrentListen(Head(toClient)) /\ RemoveView(p) /\ HandOver(p, <<>>)
  <2>1. p \in Place
    BY <1>6, <1>1 DEF CurrentListen, ListensTyped
  <2>2. ViewsTyped'
    BY <1>6, <2>1, <1>1, TypeRemoveView
  <2>3. ListensTyped'
    <3>1. <<>> \in Seq(Request)
      OBVIOUS
    <3>2. QED
      BY <1>6, <2>1, <3>1, TypeHandOver
  <2>4. QED
    BY <2>2, <2>3, <1>3 DEF TypeOK, ViewsTyped, ListensTyped, RestTyped
<1>7. QED
  BY <1>4, <1>5, <1>6 DEF OnListenResponse

(* The connection and the server leave the views alone *)
LEMMA TypeConnection ==
    ASSUME TypeOK, OnDisconnect \/ RestoreState
    PROVE  TypeOK'
<1>1. ViewsTyped /\ ListensTyped /\ RestTyped
  BY TypeParts
<1>2. ViewsTyped'
  BY <1>1 DEF OnDisconnect, RestoreState, ViewsTyped, Observed, Part
<1>3. CASE OnDisconnect
  <2>1. count' \in [Counted -> Nat]
    BY <1>3, <1>1, CountTyped DEF OnDisconnect, Counted
  <2>2. /\ toServer' = <<>> /\ toClient' = <<>> /\ active' = {}
        /\ connected' = FALSE
        /\ UNCHANGED <<listens, started, server, held>>
    BY <1>3 DEF OnDisconnect
  <2>3. ListensTyped'
    BY <2>2, <1>1 DEF ListensTyped
  <2>4. RestTyped'
    <3>1. connected' \in BOOLEAN
      BY <2>2, Zenon
    <3>2. toClient' \in Seq(Reply)
      BY <2>2
    <3>3. QED
      BY <2>1, <2>2, <3>1, <3>2, <1>1, Zenon DEF RestTyped
  <2>5. QED
    BY <1>2, <2>3, <2>4 DEF TypeOK, ViewsTyped, ListensTyped, RestTyped
<1>4. CASE RestoreState
  <2>1. PICK order \in Orders(listens) :
          toServer' = [i \in DOMAIN order |->
              Listen(order[i], started[order[i]], cache[order[i]])]
    BY <1>4 DEF RestoreState
  <2>2. listens \in SUBSET Place
    BY <1>1 DEF ListensTyped
  <2>3. PICK n \in Nat : DOMAIN order = 1..n /\ \A i \in 1..n : order[i] \in listens
    BY <2>2, OrdersAreSequences
  <2>4. \A i \in 1..n : Listen(order[i], started[order[i]], cache[order[i]]) \in Request
    BY <2>2, <2>3, <1>1 DEF ListensTyped, ViewsTyped, Listen, Request
  <2>5. toServer' \in Seq(Request)
    BY <2>1, <2>3, <2>4
  <2>6. ListensTyped' /\ RestTyped'
    BY <1>4, <2>5, <1>1 DEF RestoreState, ListensTyped, RestTyped
  <2>7. QED
    BY <1>2, <2>6 DEF TypeOK, ViewsTyped, ListensTyped, RestTyped
<1>5. QED
  BY <1>3, <1>4

LEMMA TypeServer ==
    ASSUME TypeOK, Server
    PROVE  TypeOK'
<1>1. ViewsTyped /\ ListensTyped /\ RestTyped
  BY TypeParts
<1>2. UNCHANGED <<views, listens, started>>
  BY DEF Server, ServerListens, ServerUnlistens, ServerChange
<1>3. ViewsTyped'
  BY <1>1, <1>2 DEF ViewsTyped, Observed, Part
<1>4. toServer # <<>> => Head(toServer) \in Request /\ Tail(toServer) \in Seq(Request)
  BY <1>1 DEF ListensTyped
<1>5. ListensTyped'
  BY <1>1, <1>2, <1>4 DEF Server, ServerListens, ServerUnlistens, ServerChange, ListensTyped
<1>6. CASE ServerListens
  <2> DEFINE p == Head(toServer).at
             turn == Head(toServer).turn
             data == Part(p, server)
  <2>1. p \in Place /\ turn \in Nat
    BY <1>6, <1>4 DEF ServerListens, Request
  <2>2. data \in Data
    BY <2>1, <1>1, PartIsData DEF RestTyped
  <2> HIDE DEF data
  <2>3. /\ DataAt(p, data) \in Reply
        /\ Answer("ok", p, turn) \in Reply
        /\ Answer("denied", p, turn) \in Reply
    BY <2>1, <2>2 DEF DataAt, Answer, Reply
  <2>4. /\ <<DataAt(p, data)>> \in Seq(Reply)
        /\ <<Answer("ok", p, turn)>> \in Seq(Reply)
        /\ <<>> \in Seq(Reply)
    BY <2>3
  <2>5. toClient \in Seq(Reply)
    BY <1>1 DEF RestTyped
  <2>6. toClient' \in Seq(Reply) /\ active' \subseteq Place
    <3>1. CASE toClient' = Append(toClient, Answer("denied", p, turn)) /\ active' = active
      BY <3>1, <2>3, <2>5, <1>1 DEF RestTyped
    <3>2. CASE /\ active' = active \cup {p}
               /\ toClient' = toClient \o <<>> \o <<Answer("ok", p, turn)>>
      BY <3>2, <2>1, <2>4, <2>5, <1>1 DEF RestTyped
    <3>3. CASE /\ active' = active \cup {p}
               /\ toClient' = toClient \o <<DataAt(p, data)>> \o <<Answer("ok", p, turn)>>
      BY <3>3, <2>1, <2>4, <2>5, <1>1 DEF RestTyped
    <3>4. QED
      BY <1>6, <3>1, <3>2, <3>3 DEF ServerListens, data
  <2>7. count' \in [Counted -> Nat]
    BY <1>6, <1>1, CountTyped DEF ServerListens, RestTyped, Counted
  <2>8. RestTyped'
    BY <1>6, <2>6, <2>7, <1>1 DEF ServerListens, RestTyped
  <2>9. QED
    BY <1>3, <1>5, <2>8 DEF TypeOK, ViewsTyped, ListensTyped, RestTyped
<1>7. CASE ServerUnlistens
  <2>1. RestTyped'
    BY <1>7, <1>1 DEF ServerUnlistens, RestTyped
  <2>2. QED
    BY <1>3, <1>5, <2>1 DEF TypeOK, ViewsTyped, ListensTyped, RestTyped
<1>8. CASE \E c \in Child, v \in Version : ServerChange(c, v)
  <2>1. PICK c \in Child, v \in Version : ServerChange(c, v)
    BY <1>8
  <2>2. server' \in Data /\ held' \in [Child -> SUBSET Value]
    BY <2>1, <1>1 DEF ServerChange, RestTyped
  <2>3. Part(c, server') \in Data
    BY <2>2, PartIsData
  <2>4. DataAt(c, Part(c, server')) \in Reply
    BY <2>3 DEF DataAt, Reply
  <2>5. toClient' \in Seq(Reply)
    BY <2>1, <2>4, <1>1 DEF ServerChange, RestTyped
  <2>6. count' \in [Counted -> Nat]
    BY <2>1, <1>1, CountTyped DEF ServerChange, Counted
  <2>7. RestTyped'
    BY <2>1, <2>2, <2>5, <2>6, <1>1 DEF ServerChange, RestTyped
  <2>8. QED
    BY <1>3, <1>5, <2>7 DEF TypeOK, ViewsTyped, ListensTyped, RestTyped
<1>9. QED
  BY <1>6, <1>7, <1>8 DEF Server

LEMMA TypeStep == TypeOK /\ [Next]_vars => TypeOK'
<1> SUFFICES ASSUME TypeOK, [Next]_vars PROVE TypeOK'
  OBVIOUS
<1>1. CASE \E p \in Place : AddEventRegistration(p)
  BY <1>1, TypeAdd
<1>2. CASE \E p \in Place : RemoveEventRegistration(p)
  BY <1>2, TypeRemove
<1>3. CASE OnDataUpdate
  BY <1>3, TypeDataUpdate
<1>4. CASE OnListenResponse
  BY <1>4, TypeResponse
<1>5. CASE OnDisconnect \/ RestoreState
  BY <1>5, TypeConnection
<1>6. CASE Server
  BY <1>6, TypeServer
<1>7. CASE UNCHANGED vars
  BY <1>7 DEF vars, TypeOK, Observed, Part
<1>8. QED
  BY <1>1, <1>2, <1>3, <1>4, <1>5, <1>6, <1>7 DEF Next, Client

(* The views' data stays under their places, views go with their observers *)
(* (FSyncPoint.m:198), and every frame is well formed.                     *)
THEOREM TypeInvariance == Spec => []TypeOK
BY TypeInit, TypeStep, PTL DEF Spec

-----------------------------------------------------------------------------
(* The frames that a step sends *)

IsListen(f, p) == f.op = "listen" /\ f.at = p
IsUnlisten(f, p) == f.op = "unlisten" /\ f.at = p
IsData(f, p) == f.op = "data" /\ f.at = p

LEMMA RequestFacts ==
    ASSUME NEW f \in Request
    PROVE  /\ f.op \in {"listen", "unlisten"} /\ f.at \in Place
           /\ f.op = "listen" => f.turn \in Nat /\ f.hash \in Data
BY DEF Request

LEMMA ReplyFacts ==
    ASSUME NEW f \in Reply
    PROVE  /\ f.op \in {"data", "ok", "denied"} /\ f.at \in Place
           /\ f.op = "data" => f.data \in Data
           /\ f.op \in {"ok", "denied"} => f.turn \in Nat
BY DEF Reply

(* An order of a set of places has each of them, once. *)
LEMMA OrderFacts ==
    ASSUME NEW S \in SUBSET Place, NEW order \in Orders(S)
    PROVE  /\ order \in Seq(S)
           /\ \A i, j \in DOMAIN order : order[i] = order[j] => i = j
           /\ \A q \in S : \E i \in DOMAIN order : order[i] = q
<1> USE SyncTreeAssumption
<1> DEFINE n == Cardinality(S)
<1>1. IsFiniteSet(Child \cup {Root})
  BY FS_AddElement
<1>2. IsFiniteSet(S) /\ n \in Nat
  BY <1>1, FS_Subset, FS_CardinalityType
<1>3. order \in [1..n -> S] /\ \A i, j \in DOMAIN order : order[i] = order[j] => i = j
  BY DEF Orders
<1>4. DOMAIN order = 1..n /\ IsFiniteSet(1..n) /\ Cardinality(1..n) = n
  <2>1. 1 \in Int /\ n \in Int
    BY <1>2
  <2>2. IsFiniteSet(1..n) /\ Cardinality(1..n) = IF 1 > n THEN 0 ELSE n - 1 + 1
    BY <2>1, FS_Interval
  <2>3. (IF 1 > n THEN 0 ELSE n - 1 + 1) = n
    BY <1>2
  <2>4. QED
    BY <1>3, <2>2, <2>3
<1> HIDE DEF n
<1>5. order \in Injection(1..n, S)
  BY <1>3, <1>4 DEF Injection, IsInjective
<1>6. order \in Surjection(1..n, S)
  BY <1>2, <1>4, <1>5, FS_Injection DEF n
<1>7. \A q \in S : \E i \in 1..n : order[i] = q
  BY <1>6 DEF Surjection
<1>8. order \in Seq(S)
  BY <1>2, <1>3, FunctionSeq
<1>9. QED
  BY <1>3, <1>4, <1>7, <1>8

(* The listens of some places, each with its next number *)
LEMMA ListensFacts ==
    ASSUME TypeOK, NEW S \in SUBSET Place, NEW order \in Orders(S), NEW data,
           \A p \in S : data[p] \in Data
    PROVE  LET new == Listens(order, data)
           IN  /\ new \in Seq(Request)
               /\ \A i \in DOMAIN new : \E q \in S :
                     new[i] = Listen(q, started[q] + 1, data[q])
               /\ \A q \in S : \E i \in DOMAIN new :
                     new[i] = Listen(q, started[q] + 1, data[q])
               /\ \A i, j \in DOMAIN new : new[i].at = new[j].at => i = j
<1> DEFINE new == Listens(order, data)
<1>1. new \in Seq(Request)
  BY ListensAreRequests
<1>2. /\ order \in Seq(S)
      /\ \A i, j \in DOMAIN order : order[i] = order[j] => i = j
      /\ \A q \in S : \E i \in DOMAIN order : order[i] = q
  BY OrderFacts
<1>3. new = [i \in DOMAIN order |-> Listen(order[i], started[order[i]] + 1, data[order[i]])]
  BY DEF Listens
<1> HIDE DEF new
<1>4. \A i \in DOMAIN order : order[i] \in S
  BY <1>2
<1>5. \A i \in DOMAIN new : new[i].at = order[i]
  BY <1>3 DEF Listen
<1>6. QED
  BY <1>1, <1>2, <1>3, <1>4, <1>5 DEF new

LEMMA UnlistensFacts ==
    ASSUME NEW S \in SUBSET Place, NEW order \in Orders(S)
    PROVE  LET new == Unlistens(order)
           IN  /\ new \in Seq(Request)
               /\ \A i \in DOMAIN new : \E q \in S : IsUnlisten(new[i], q)
               /\ \A q \in S : \E i \in DOMAIN new : IsUnlisten(new[i], q)
<1> DEFINE new == Unlistens(order)
<1>1. new \in Seq(Request)
  BY UnlistensAreRequests
<1>2. /\ order \in Seq(S)
      /\ \A q \in S : \E i \in DOMAIN order : order[i] = q
  BY OrderFacts
<1>3. new = [i \in DOMAIN order |-> Unlisten(order[i])]
  BY DEF Unlistens
<1> HIDE DEF new
<1>4. \A i \in DOMAIN order : order[i] \in S
  BY <1>2
<1>5. \A i \in DOMAIN new : IsUnlisten(new[i], order[i])
  BY <1>3 DEF IsUnlisten, Unlisten
<1>6. QED
  BY <1>1, <1>2, <1>3, <1>4, <1>5 DEF new

(* What is sent when a place is observed that nothing covers: its listen,  *)
(* and behind it that those below it stop *)
SetUp(new, p, data) ==
    /\ new \in Seq(Request)
    /\ 1 \in DOMAIN new /\ new[1] = Listen(p, started[p] + 1, data)
    /\ \A i \in DOMAIN new :
          i = 1 \/ (i > 1 /\ \E q \in Below(p) \cap listens : IsUnlisten(new[i], q))
    /\ \A q \in Below(p) \cap listens :
          \E i \in DOMAIN new : i > 1 /\ IsUnlisten(new[i], q)

LEMMA SetupFacts ==
    ASSUME TypeOK, NEW p \in Place, NEW data \in Data, SetupListener(p, data)
    PROVE  \E new \in Seq(Request) : SetUp(new, p, data) /\ Send(new)
<1>1. PICK stops \in Orders(Below(p) \cap listens) :
        Send(Listens(<<p>>, [q \in {p} |-> data]) \o Unlistens(stops))
  BY DEF SetupListener
<1> DEFINE one == Listens(<<p>>, [q \in {p} |-> data])
           more == Unlistens(stops)
           frame == Listen(p, started[p] + 1, data)
<1>2. one = <<frame>>
  <2> DEFINE d == [q \in {p} |-> data]
  <2>1. DOMAIN <<p>> = 1..1 /\ \A i \in 1..1 : <<p>>[i] = p /\ d[<<p>>[i]] = data
    OBVIOUS
  <2>2. Listens(<<p>>, d) =
          [i \in 1..1 |-> Listen(<<p>>[i], started[<<p>>[i]] + 1, d[<<p>>[i]])]
    BY <2>1 DEF Listens
  <2> HIDE DEF d
  <2>3. Listens(<<p>>, d) = [i \in 1..1 |-> frame]
    BY <2>1, <2>2
  <2> HIDE DEF frame
  <2>4. [i \in 1..1 |-> frame] = <<frame>>
    OBVIOUS
  <2>5. QED
    BY <2>3, <2>4 DEF d
<1>3. frame \in Request
  BY DEF TypeOK, Listen, Request
<1>4. /\ more \in Seq(Request)
      /\ \A i \in DOMAIN more : \E q \in Below(p) \cap listens : IsUnlisten(more[i], q)
      /\ \A q \in Below(p) \cap listens : \E i \in DOMAIN more : IsUnlisten(more[i], q)
  <2>1. Below(p) \cap listens \in SUBSET Place
    BY DEF TypeOK
  <2>2. QED
    BY <2>1, UnlistensFacts
<1> HIDE DEF one, more, frame
<1> DEFINE new == one \o more
<1>5. /\ one \in Seq(Request) /\ Len(one) = 1 /\ DOMAIN one = {1} /\ one[1] = frame
  BY <1>2, <1>3
<1>6. /\ new \in Seq(Request)
      /\ \A i \in DOMAIN more : i \in Nat /\ i > 0
      /\ \A i \in DOMAIN one : i \in DOMAIN new /\ new[i] = one[i]
      /\ \A i \in DOMAIN more : Len(one) + i \in DOMAIN new /\ new[Len(one) + i] = more[i]
      /\ \A i \in DOMAIN new :
            \/ i \in DOMAIN one
            \/ /\ i \in (Len(one) + 1)..(Len(one) + Len(more))
               /\ i - Len(one) \in DOMAIN more /\ new[i] = more[i - Len(one)]
  BY <1>4, <1>5, ConcatPlaces
<1> HIDE DEF new
<1>7. 1 \in DOMAIN new /\ new[1] = frame
  BY <1>5, <1>6
<1>8. \A i \in DOMAIN new :
          i = 1 \/ (i > 1 /\ \E q \in Below(p) \cap listens : IsUnlisten(new[i], q))
  <2> SUFFICES ASSUME NEW i \in DOMAIN new, i # 1
               PROVE  i > 1 /\ \E q \in Below(p) \cap listens : IsUnlisten(new[i], q)
    OBVIOUS
  <2>1. /\ i \in 2..(1 + Len(more)) /\ i - 1 \in DOMAIN more /\ new[i] = more[i - 1]
    BY <1>5, <1>6
  <2>2. Len(more) \in Nat
    BY <1>4
  <2>3. QED
    BY <2>1, <2>2, <1>4
<1>9. \A q \in Below(p) \cap listens : \E i \in DOMAIN new : i > 1 /\ IsUnlisten(new[i], q)
  <2> SUFFICES ASSUME NEW q \in Below(p) \cap listens
               PROVE  \E i \in DOMAIN new : i > 1 /\ IsUnlisten(new[i], q)
    OBVIOUS
  <2>1. PICK i \in DOMAIN more : IsUnlisten(more[i], q)
    BY <1>4
  <2>2. i \in Nat /\ i > 0 /\ 1 + i \in DOMAIN new /\ new[1 + i] = more[i]
    BY <1>5, <1>6
  <2>3. 1 + i > 1
    BY <2>2
  <2>4. QED
    BY <2>1, <2>2, <2>3
<1>10. SetUp(new, p, data)
  BY <1>6, <1>7, <1>8, <1>9 DEF SetUp, frame
<1>11. Send(new)
  BY <1>1 DEF new, one, more
<1>12. QED
  BY <1>6, <1>10, <1>11

(* What is sent when a view goes that nothing covers: the listens of those *)
(* below it, and perhaps behind them that its own stops *)
Handed(new, p) ==
    /\ new \in Seq(Request)
    /\ \A i \in DOMAIN new :
          \/ IsUnlisten(new[i], p)
          \/ \E q \in Below(p) \cap Observed : new[i] = Listen(q, started[q] + 1, cache[q])
    /\ \A q \in Below(p) \cap Observed :
          \E i \in DOMAIN new : new[i] = Listen(q, started[q] + 1, cache[q])
    /\ \A i, j \in DOMAIN new :
          new[i].op = "listen" /\ new[j].op = "listen" /\ new[i].at = new[j].at => i = j
    /\ \A i, j \in DOMAIN new : new[i].op = "listen" /\ new[j].op = "unlisten" => i < j

LEMMA HandOverFacts ==
    ASSUME TypeOK, NEW p \in Place,
           NEW stops, stops = <<>> \/ stops = <<Unlisten(p)>>, HandOver(p, stops)
    PROVE  \E new \in Seq(Request) :
              /\ Handed(new, p) /\ Send(new)
              /\ stops = <<>> => \A i \in DOMAIN new : new[i].op = "listen"
<1>1. PICK order \in Orders(Below(p) \cap Observed) : Send(Listens(order, cache) \o stops)
  BY DEF HandOver
<1> DEFINE some == Listens(order, cache)
           S == Below(p) \cap Observed
<1>2. /\ some \in Seq(Request)
      /\ \A i \in DOMAIN some : \E q \in S : some[i] = Listen(q, started[q] + 1, cache[q])
      /\ \A q \in S : \E i \in DOMAIN some : some[i] = Listen(q, started[q] + 1, cache[q])
      /\ \A i, j \in DOMAIN some : some[i].at = some[j].at => i = j
  <2>1. S \in SUBSET Place
    BY DEF Observed
  <2>2. \A q \in S : cache[q] \in Data
    BY <2>1 DEF TypeOK
  <2>3. QED
    BY <2>1, <2>2, ListensFacts
<1>3. /\ stops \in Seq(Request) /\ \A i \in DOMAIN stops : IsUnlisten(stops[i], p)
      /\ stops = <<>> => DOMAIN stops = {}
  <2>1. CASE stops = <<>>
    BY <2>1
  <2>2. CASE stops = <<Unlisten(p)>>
    <3> DEFINE u == Unlisten(p)
    <3>1. u \in Request /\ IsUnlisten(u, p)
      BY DEF Unlisten, Request, IsUnlisten
    <3> HIDE DEF u
    <3>2. <<u>> \in Seq(Request) /\ DOMAIN <<u>> = {1} /\ <<u>>[1] = u /\ <<u>> # <<>>
      BY <3>1
    <3>3. QED
      BY <2>2, <3>1, <3>2 DEF u
  <2>3. QED
    BY <2>1, <2>2
<1> HIDE DEF some
<1> DEFINE new == some \o stops
<1>4. /\ new \in Seq(Request)
      /\ \A i \in DOMAIN some : i \in DOMAIN new /\ new[i] = some[i]
      /\ \A i \in DOMAIN new :
            \/ i \in DOMAIN some
            \/ /\ i \in (Len(some) + 1)..(Len(some) + Len(stops))
               /\ i - Len(some) \in DOMAIN stops /\ new[i] = stops[i - Len(some)]
  BY <1>2, <1>3, ConcatPlaces
<1> HIDE DEF new
<1>5. \A i \in DOMAIN new : IsUnlisten(new[i], p) \/ (i \in DOMAIN some /\ new[i] = some[i])
  BY <1>3, <1>4
<1>6. Handed(new, p)
  <2>1. \A i \in DOMAIN new :
          \/ IsUnlisten(new[i], p)
          \/ \E q \in S : new[i] = Listen(q, started[q] + 1, cache[q])
    BY <1>2, <1>5
  <2>2. \A q \in S : \E i \in DOMAIN new : new[i] = Listen(q, started[q] + 1, cache[q])
    BY <1>2, <1>4
  <2>3. \A i, j \in DOMAIN new :
          new[i].op = "listen" /\ new[j].op = "listen" /\ new[i].at = new[j].at => i = j
    BY <1>2, <1>5 DEF IsUnlisten
  <2>4. \A i, j \in DOMAIN new : new[i].op = "listen" /\ new[j].op = "unlisten" => i < j
    <3> SUFFICES ASSUME NEW i \in DOMAIN new, NEW j \in DOMAIN new,
                        new[i].op = "listen", new[j].op = "unlisten"
                 PROVE  i < j
      OBVIOUS
    <3> DEFINE n == Len(some)
    <3>1. i \in DOMAIN some
      BY <1>5 DEF IsUnlisten
    <3>2. j \notin DOMAIN some
      BY <1>2, <1>4 DEF Listen
    <3>3. n \in Nat /\ i \in 1..n
      BY <1>2, <3>1
    <3>4. j \in (n + 1)..(n + Len(stops)) /\ Len(stops) \in Nat
      BY <1>3, <1>4, <3>2
    <3> HIDE DEF n
    <3>5. QED
      BY <3>3, <3>4
  <2>5. QED
    BY <1>4, <2>1, <2>2, <2>3, <2>4 DEF Handed
<1>7. stops = <<>> => \A i \in DOMAIN new : new[i].op = "listen"
  <2> SUFFICES ASSUME stops = <<>>, NEW i \in DOMAIN new PROVE new[i].op = "listen"
    OBVIOUS
  <2>1. i \in DOMAIN some /\ new[i] = some[i]
    BY <1>3, <1>4
  <2>2. QED
    BY <2>1, <1>2 DEF Listen
<1>8. Send(new)
  BY <1>1 DEF new, some
<1>9. QED
  BY <1>4, <1>6, <1>7, <1>8
-----------------------------------------------------------------------------
(* First values *)

(* Listens are numbered, and no frame has a number to come. *)
Turns ==
    /\ \A f \in ToSet(toServer) : f.op = "listen" => f.turn <= started[f.at]
    /\ \A f \in ToSet(toClient) : f.op \in {"ok", "denied"} => f.turn <= started[f.at]

(* What the server has, and what data it has sent, it has held. *)
ServerHeld == \A c \in Child : server[c] \in held[c]
DataHeld ==
    \A f \in ToSet(toClient) :
        f.op = "data" => \A c \in Under(f.at) : f.data[c] \in held[c]

CacheHeld(p) == \A c \in Under(p) : cache[p][c] \in held[c]

(* While its listen is on its way a view has the data the listen tells of, *)
(* or later data of the server.                                            *)
HashKnown ==
    \A f \in ToSet(toServer) :
        f.op = "listen" /\ f.at \in listens /\ f.turn = started[f.at] =>
            \A c \in Under(f.at) : cache[f.at][c] \in held[c] \cup {f.hash[c]}

(* Before the answer to its listen comes the data the view lacks. *)
AnswerMeant ==
    \A k \in DOMAIN toClient :
        LET f == toClient[k] IN
        f.op = "ok" /\ f.at \in listens /\ f.turn = started[f.at] =>
            \/ \E j \in DOMAIN toClient : j < k /\ IsData(toClient[j], f.at)
            \/ CacheHeld(f.at)

HeldInv ==
    /\ Turns /\ ServerHeld /\ DataHeld /\ HashKnown /\ AnswerMeant

LEMMA QueueTypes ==
    ASSUME TypeOK
    PROVE  /\ \A f \in ToSet(toServer) : f \in Request
           /\ \A f \in ToSet(toClient) : f \in Reply
           /\ \A i \in DOMAIN toServer : toServer[i] \in Request /\ toServer[i] \in ToSet(toServer)
           /\ \A i \in DOMAIN toClient : toClient[i] \in Reply /\ toClient[i] \in ToSet(toClient)
<1>1. toServer \in Seq(Request) /\ toClient \in Seq(Reply)
  BY DEF TypeOK
<1>2. QED
  BY <1>1 DEF ToSet

(* The queue to the client without its head *)
LEMMA ClientTail ==
    ASSUME TypeOK, toClient # <<>>, toClient' = Tail(toClient)
    PROVE  /\ \A f \in ToSet(toClient') : f \in ToSet(toClient)
           /\ 1 \in DOMAIN toClient /\ toClient[1] = Head(toClient)
           /\ Head(toClient) \in Reply /\ Head(toClient) \in ToSet(toClient)
           /\ DOMAIN toClient \subseteq Nat /\ DOMAIN toClient' \subseteq Nat
           /\ \A k \in DOMAIN toClient' : /\ k + 1 \in DOMAIN toClient /\ k >= 1
                                          /\ toClient'[k] = toClient[k + 1]
           /\ \A k \in DOMAIN toClient :
                 k = 1 \/ (k - 1 \in DOMAIN toClient' /\ toClient'[k - 1] = toClient[k])
<1>1. toClient \in Seq(Reply)
  BY DEF TypeOK
<1> DEFINE t == Tail(toClient)
<1>2. /\ t \in Seq(Reply) /\ Head(toClient) = toClient[1] /\ Head(toClient) \in Reply
      /\ 1 \in DOMAIN toClient /\ Head(toClient) \in ToSet(toClient)
      /\ \A i \in DOMAIN t : i + 1 \in DOMAIN toClient /\ i + 1 # 1 /\ t[i] = toClient[i + 1]
      /\ \A i \in DOMAIN toClient : i = 1 \/ i - 1 \in DOMAIN t
      /\ \A i \in DOMAIN toClient : i \in Nat /\ i >= 1
      /\ ToSet(toClient) = {Head(toClient)} \cup ToSet(t)
  BY <1>1, TailFacts
<1>3. \A i \in DOMAIN t : i \in Nat /\ i >= 1
  <2>1. t \in Seq(Reply)
    BY <1>2
  <2> HIDE DEF t
  <2>2. DOMAIN t = 1..Len(t) /\ Len(t) \in Nat
    BY <2>1
  <2>3. QED
    BY <2>2
<1> HIDE DEF t
<1>4. \A i \in DOMAIN toClient : i = 1 \/ (i - 1 \in DOMAIN t /\ t[i - 1] = toClient[i])
  <2> SUFFICES ASSUME NEW i \in DOMAIN toClient, i # 1
               PROVE  i - 1 \in DOMAIN t /\ t[i - 1] = toClient[i]
    OBVIOUS
  <2>1. i - 1 \in DOMAIN t /\ i \in Nat
    BY <1>2
  <2>2. t[i - 1] = toClient[(i - 1) + 1] /\ (i - 1) + 1 = i
    BY <2>1, <1>2
  <2>3. QED
    BY <2>1, <2>2
<1>5. toClient' = t
  BY DEF t
<1>6. /\ DOMAIN toClient \subseteq Nat
      /\ \A f \in ToSet(t) : f \in ToSet(toClient)
      /\ \A k \in DOMAIN t : k + 1 \in DOMAIN toClient /\ k >= 1 /\ t[k] = toClient[k + 1]
  BY <1>2, <1>3
<1>7. QED
  BY <1>2, <1>3, <1>4, <1>5, <1>6

(* ... and with more behind it *)
LEMMA ClientMore ==
    ASSUME TypeOK, NEW new \in Seq(Reply), toClient' = toClient \o new
    PROVE  /\ \A f \in ToSet(toClient') : f \in ToSet(toClient) \/ f \in ToSet(new)
           /\ Len(toClient) \in Nat
           /\ \A k \in DOMAIN toClient :
                 k \in Nat /\ k <= Len(toClient) /\ k \in DOMAIN toClient' /\ toClient'[k] = toClient[k]
           /\ \A i \in DOMAIN new :
                 /\ i \in Nat /\ i > 0
                 /\ Len(toClient) + i \in DOMAIN toClient' /\ toClient'[Len(toClient) + i] = new[i]
           /\ \A k \in DOMAIN toClient' :
                 \/ k \in DOMAIN toClient
                 \/ /\ k \in Nat /\ k > Len(toClient)
                    /\ k - Len(toClient) \in DOMAIN new /\ toClient'[k] = new[k - Len(toClient)]
<1>1. toClient \in Seq(Reply)
  BY DEF TypeOK
<1> DEFINE u == toClient \o new
           n == Len(toClient)
<1>2. /\ u \in Seq(Reply) /\ n \in Nat
      /\ \A i \in DOMAIN toClient : i \in Nat /\ i <= n
      /\ \A i \in DOMAIN new : i \in Nat /\ i > 0
      /\ \A i \in DOMAIN toClient : i \in DOMAIN u /\ u[i] = toClient[i]
      /\ \A i \in DOMAIN new : n + i \in DOMAIN u /\ u[n + i] = new[i]
      /\ \A i \in DOMAIN u :
            \/ i \in DOMAIN toClient
            \/ /\ i \in (n + 1)..(n + Len(new))
               /\ i - n \in DOMAIN new /\ u[i] = new[i - n]
  BY <1>1, ConcatPlaces
<1>3. ToSet(u) = ToSet(toClient) \cup ToSet(new)
  BY <1>1, ConcatFacts
<1>4. Len(new) \in Nat
  OBVIOUS
<1> HIDE DEF u, n
<1>5. \A i \in (n + 1)..(n + Len(new)) : i \in Nat /\ i > n
  BY <1>2, <1>4
<1>6. toClient' = u
  BY DEF u
<1>7. QED
  BY <1>2, <1>3, <1>5, <1>6 DEF n

LEMMA HeldInit == Init => HeldInv
<1> SUFFICES ASSUME Init PROVE HeldInv
  OBVIOUS
<1>1. toServer = <<>> /\ toClient = <<>> /\ DOMAIN <<>> = {}
  BY DEF Init
<1>2. ToSet(toServer) = {} /\ ToSet(toClient) = {}
  BY <1>1 DEF ToSet
<1>3. ServerHeld
  BY DEF Init, ServerHeld
<1>4. QED
  BY <1>1, <1>2, <1>3 DEF HeldInv, Turns, DataHeld, HashKnown, AnswerMeant

(* Listens are sent with what their views have, places that were listened  *)
(* to keep their views, and what goes off the other queue is no data.      *)
LEMMA HeldListens ==
    ASSUME TypeOK, HeldInv, listens' \in SUBSET Place,
           \A f \in ToSet(toServer') :
               \/ f \in ToSet(toServer)
               \/ f.op = "unlisten"
               \/ /\ f.op = "listen" /\ f.at \in Place
                  /\ f.turn = started'[f.at] /\ f.hash = cache'[f.at],
           \A p \in Place : started'[p] = started[p] \/ started'[p] = started[p] + 1,
           \A p \in listens' :
               \/ started'[p] = started[p] + 1
               \/ p \in listens /\ started'[p] = started[p] /\ cache'[p] = cache[p],
           \/ toClient' = toClient
           \/ toClient # <<>> /\ Head(toClient).op # "data" /\ toClient' = Tail(toClient),
           UNCHANGED <<server, held>>
    PROVE  HeldInv'
<1>1. /\ \A f \in ToSet(toServer) : f \in Request
      /\ \A f \in ToSet(toClient) : f \in Reply
      /\ \A p \in Place : started[p] \in Nat
  BY QueueTypes DEF TypeOK
<1>2. \A p \in Place : started'[p] \in Nat /\ started[p] <= started'[p]
  BY <1>1
<1>3. \A f \in ToSet(toClient') : f \in ToSet(toClient)
  BY ClientTail
<1>4. Turns'
  <2>1. ASSUME NEW f \in ToSet(toServer'), f.op = "listen"
        PROVE  f.turn <= started'[f.at]
    <3>1. CASE f \in ToSet(toServer)
      <4>1. f.turn <= started[f.at] /\ f.at \in Place /\ f.turn \in Nat
        BY <2>1, <3>1, <1>1, RequestFacts DEF HeldInv, Turns
      <4>2. QED
        BY <4>1, <1>1, <1>2
    <3>2. CASE f \notin ToSet(toServer)
      <4>1. f.at \in Place /\ f.turn = started'[f.at]
        BY <2>1, <3>2
      <4>2. QED
        BY <4>1, <1>2
    <3>3. QED
      BY <3>1, <3>2
  <2>2. ASSUME NEW f \in ToSet(toClient'), f.op \in {"ok", "denied"}
        PROVE  f.turn <= started'[f.at]
    <3>1. f.turn <= started[f.at] /\ f.at \in Place /\ f.turn \in Nat
      BY <2>2, <1>1, <1>3, ReplyFacts DEF HeldInv, Turns
    <3>2. QED
      BY <3>1, <1>1, <1>2
  <2>3. QED
    BY <2>1, <2>2 DEF Turns
<1>5. ServerHeld' /\ DataHeld'
  BY <1>3 DEF HeldInv, ServerHeld, DataHeld
<1>6. HashKnown'
  <2> SUFFICES ASSUME NEW f \in ToSet(toServer'), f.op = "listen", f.at \in listens',
                      f.turn = started'[f.at], NEW c \in Under(f.at)
               PROVE  cache'[f.at][c] \in held[c] \cup {f.hash[c]}
    BY DEF HashKnown
  <2>1. CASE f \in ToSet(toServer)
    <3>1. f.turn <= started[f.at] /\ f.at \in Place /\ f.turn \in Nat
      BY <2>1, <1>1, RequestFacts DEF HeldInv, Turns
    <3>2. started'[f.at] # started[f.at] + 1
      BY <3>1, <1>1
    <3>3. f.at \in listens /\ started'[f.at] = started[f.at] /\ cache'[f.at] = cache[f.at]
      BY <3>2
    <3>4. cache[f.at][c] \in held[c] \cup {f.hash[c]}
      BY <2>1, <3>3 DEF HeldInv, HashKnown
    <3>5. QED
      BY <3>3, <3>4
  <2>2. CASE f \notin ToSet(toServer)
    BY <2>2
  <2>3. QED
    BY <2>1, <2>2
<1>7. AnswerMeant'
  <2>1. ASSUME NEW k \in DOMAIN toClient, NEW f, f = toClient[k], f.op = "ok",
               f.at \in listens', f.turn = started'[f.at]
        PROVE  \/ \E j \in DOMAIN toClient : j < k /\ IsData(toClient[j], f.at)
               \/ CacheHeld(f.at)'
    <3>1. f \in ToSet(toClient) /\ f \in Reply
      BY <2>1, QueueTypes
    <3>2. f.turn <= started[f.at] /\ f.at \in Place /\ f.turn \in Nat
      BY <2>1, <3>1, ReplyFacts DEF HeldInv, Turns
    <3>3. started'[f.at] # started[f.at] + 1
      BY <2>1, <3>2, <1>1
    <3>4. f.at \in listens /\ started'[f.at] = started[f.at] /\ cache'[f.at] = cache[f.at]
      BY <2>1, <3>3
    <3>5. \/ \E j \in DOMAIN toClient : j < k /\ IsData(toClient[j], f.at)
          \/ CacheHeld(f.at)
      BY <2>1, <3>4 DEF HeldInv, AnswerMeant
    <3>6. CacheHeld(f.at) => CacheHeld(f.at)'
      BY <3>4 DEF CacheHeld
    <3>7. QED
      BY <3>5, <3>6
  <2>2. CASE toClient' = toClient
    BY <2>1, <2>2 DEF AnswerMeant
  <2>3. CASE toClient # <<>> /\ Head(toClient).op # "data" /\ toClient' = Tail(toClient)
    <3> SUFFICES ASSUME NEW k \in DOMAIN toClient', NEW f, f = toClient'[k], f.op = "ok",
                        f.at \in listens', f.turn = started'[f.at]
                 PROVE  \/ \E j \in DOMAIN toClient' : j < k /\ IsData(toClient'[j], f.at)
                        \/ CacheHeld(f.at)'
      BY DEF AnswerMeant
    <3>1. /\ toClient[1] = Head(toClient) /\ DOMAIN toClient \subseteq Nat
          /\ k + 1 \in DOMAIN toClient /\ toClient'[k] = toClient[k + 1] /\ k \in Nat
          /\ \A j \in DOMAIN toClient :
                j = 1 \/ (j - 1 \in DOMAIN toClient' /\ toClient'[j - 1] = toClient[j])
      BY <2>3, ClientTail
    <3>2. \/ \E j \in DOMAIN toClient : j < k + 1 /\ IsData(toClient[j], f.at)
          \/ CacheHeld(f.at)'
      BY <3>1, <2>1
    <3>3. ASSUME NEW j \in DOMAIN toClient, j < k + 1, IsData(toClient[j], f.at)
          PROVE  \E i \in DOMAIN toClient' : i < k /\ IsData(toClient'[i], f.at)
      <4>1. j # 1
        BY <3>1, <3>3, <2>3 DEF IsData
      <4>2. j - 1 \in DOMAIN toClient' /\ toClient'[j - 1] = toClient[j] /\ j - 1 < k
        BY <3>1, <3>3, <4>1
      <4>3. QED
        BY <4>2, <3>3
    <3>4. QED
      BY <3>2, <3>3
  <2>4. QED
    BY <2>2, <2>3
<1>8. QED
  BY <1>4, <1>5, <1>6, <1>7 DEF HeldInv
(* A place's first observer *)
LEMMA NewView ==
    ASSUME TypeOK, ListensCover, NEW p \in Place, AddEventRegistration(p), observers[p] = 0
    PROVE  LET data == ServerCacheForQuery(p)
           IN  /\ data \in Data /\ p \notin Observed /\ p \notin listens
               /\ Observed' = Observed \cup {p}
               /\ cache'[p] = data
               /\ \A q \in Place : q # p => cache'[q] = cache[q]
               /\ complete' = complete \cup {q \in {p} : SeedsComplete(q)}
               /\ \/ Covered(p) /\ UNCHANGED <<listens, started, toServer>>
                  \/ ~Covered(p) /\ SetupListener(p, data)
<1> DEFINE data == ServerCacheForQuery(p)
<1>1. observers \in [Place -> Nat] /\ cache \in [Place -> Data]
  BY DEF TypeOK
<1>2. /\ observers' = [observers EXCEPT ![p] = @ + 1]
      /\ cache' = [cache EXCEPT ![p] = data]
      /\ complete' = complete \cup {q \in {p} : SeedsComplete(q)}
      /\ \/ Covered(p) /\ UNCHANGED <<listens, started, toServer>>
         \/ ~Covered(p) /\ SetupListener(p, data)
  BY <1>1 DEF AddEventRegistration
<1>3. data \in Data
  BY <1>1 DEF ServerCacheForQuery, Part, Under
<1> HIDE DEF data
<1>4. p \notin Observed /\ p \notin listens
  BY <1>1 DEF Observed, ListensCover
<1>5. Observed' = Observed \cup {p}
  BY <1>1, <1>2 DEF Observed
<1>6. cache'[p] = data /\ \A q \in Place : q # p => cache'[q] = cache[q]
  BY <1>1, <1>2
<1>7. QED
  BY <1>2, <1>3, <1>4, <1>5, <1>6 DEF data

LEMMA MoreObservers ==
    ASSUME TypeOK, NEW p \in Place, AddEventRegistration(p), observers[p] # 0
    PROVE  UNCHANGED <<cache, complete, listens, started, toServer, Observed>>
<1>1. observers \in [Place -> Nat] /\ observers[p] > 0
  BY DEF TypeOK
<1>2. /\ observers' = [observers EXCEPT ![p] = @ + 1]
      /\ UNCHANGED <<cache, complete, listens, started, toServer>>
  BY <1>1 DEF AddEventRegistration
<1>3. Observed' = Observed
  BY <1>1, <1>2 DEF Observed
<1>4. QED
  BY <1>2, <1>3

(* A view that goes *)
LEMMA ViewGone ==
    ASSUME TypeOK, NEW p \in Place, RemoveView(p)
    PROVE  /\ Observed' = Observed \ {p}
           /\ cache'[p] = Nothing /\ complete' = complete \ {p}
           /\ \A q \in Place : q # p => cache'[q] = cache[q]
<1>1. observers \in [Place -> Nat] /\ cache \in [Place -> Data]
  BY DEF TypeOK
<1>2. /\ observers' = [observers EXCEPT ![p] = 0]
      /\ cache' = [cache EXCEPT ![p] = Nothing]
      /\ complete' = complete \ {p}
  BY DEF RemoveView
<1>3. QED
  BY <1>1, <1>2 DEF Observed

LEMMA Started ==
    ASSUME TypeOK, NEW S, Starting(S)
    PROVE  \A p \in Place : started'[p] = IF p \in S THEN started[p] + 1 ELSE started[p]
BY DEF TypeOK, Starting

(* What is in the queue to the server after something was sent *)
LEMMA SentFacts ==
    ASSUME TypeOK, NEW new \in Seq(Request), Send(new)
    PROVE  \A f \in ToSet(toServer') :
              f \in ToSet(toServer) \/ \E i \in DOMAIN new : f = new[i]
<1>1. toServer \in Seq(Request)
  BY DEF TypeOK
<1>2. ToSet(toServer \o new) = ToSet(toServer) \cup ToSet(new)
  BY <1>1, ConcatFacts
<1>3. QED
  BY <1>2 DEF Send, ToSet

LEMMA HeldAdd ==
    ASSUME TypeOK, ListensCover, HeldInv, NEW p \in Place, AddEventRegistration(p)
    PROVE  HeldInv'
<1>1. UNCHANGED <<connected, toClient, server, active, held>>
  BY DEF AddEventRegistration
<1>2. listens \in SUBSET Place /\ \A q \in Place : started[q] \in Nat
  BY DEF TypeOK
<1>3. CASE observers[p] # 0
  <2>1. UNCHANGED <<cache, listens, started, toServer>>
    BY <1>3, MoreObservers
  <2>2. QED
    BY <2>1, <1>1, <1>2, HeldListens
<1>4. CASE observers[p] = 0
  <2> DEFINE data == ServerCacheForQuery(p)
  <2>1. /\ data \in Data /\ p \notin listens /\ cache'[p] = data
        /\ \A q \in Place : q # p => cache'[q] = cache[q]
        /\ \/ UNCHANGED <<listens, started, toServer>>
           \/ SetupListener(p, data)
    BY <1>4, NewView
  <2> HIDE DEF data
  <2>2. CASE UNCHANGED <<listens, started, toServer>>
    <3>1. \A q \in listens' : q \in listens /\ started'[q] = started[q] /\ cache'[q] = cache[q]
      BY <2>1, <2>2, <1>2
    <3>2. QED
      BY <2>2, <3>1, <1>1, <1>2, HeldListens
  <2>3. CASE SetupListener(p, data)
    <3>1. PICK new \in Seq(Request) : SetUp(new, p, data) /\ Send(new)
      BY <2>1, <2>3, SetupFacts
    <3>2. listens' = (listens \ Below(p)) \cup {p} /\ Starting({p})
      BY <2>3 DEF SetupListener
    <3>3. \A q \in Place : started'[q] = IF q = p THEN started[q] + 1 ELSE started[q]
      BY <3>2, Started
    <3>4. \A i \in DOMAIN new :
             \/ new[i].op = "unlisten"
             \/ /\ new[i].op = "listen" /\ new[i].at \in Place
                /\ new[i].turn = started'[new[i].at] /\ new[i].hash = cache'[new[i].at]
      BY <3>1, <3>3, <2>1 DEF SetUp, IsUnlisten, Listen
    <3>5. \A f \in ToSet(toServer') :
             \/ f \in ToSet(toServer)
             \/ f.op = "unlisten"
             \/ /\ f.op = "listen" /\ f.at \in Place
                /\ f.turn = started'[f.at] /\ f.hash = cache'[f.at]
      BY <3>1, <3>4, SentFacts
    <3>6. \A q \in listens' :
             \/ started'[q] = started[q] + 1
             \/ q \in listens /\ started'[q] = started[q] /\ cache'[q] = cache[q]
      BY <3>2, <3>3, <2>1, <1>2
    <3>7. \A q \in Place : started'[q] = started[q] \/ started'[q] = started[q] + 1
      BY <3>3
    <3>8. listens' \in SUBSET Place
      BY <3>2, <1>2
    <3>9. QED
      BY <3>5, <3>6, <3>7, <3>8, <1>1, HeldListens
  <2>4. QED
    BY <2>1, <2>2, <2>3
<1>5. QED
  BY <1>3, <1>4

LEMMA HeldHandOver ==
    ASSUME TypeOK, HeldInv, NEW p \in Place, RemoveView(p),
           NEW stops, stops = <<>> \/ stops = <<Unlisten(p)>>, HandOver(p, stops),
           \/ toClient' = toClient
           \/ toClient # <<>> /\ Head(toClient).op # "data" /\ toClient' = Tail(toClient),
           UNCHANGED <<server, held>>
    PROVE  HeldInv'
<1> USE SyncTreeAssumption
<1> DEFINE S == Below(p) \cap Observed
<1>1. listens \in SUBSET Place /\ \A q \in Place : started[q] \in Nat
  BY DEF TypeOK
<1>2. PICK new \in Seq(Request) : Handed(new, p) /\ Send(new)
  BY HandOverFacts
<1>3. listens' = (listens \ {p}) \cup S /\ Starting(S) /\ S \in SUBSET Place /\ p \notin S
  BY DEF HandOver, Observed, Below
<1>4. \A q \in Place : q # p => cache'[q] = cache[q]
  BY ViewGone
<1>5. \A i \in DOMAIN new :
         new[i].op = "unlisten" \/ \E q \in S : new[i] = Listen(q, started[q] + 1, cache[q])
  BY <1>2 DEF Handed, IsUnlisten
<1> HIDE DEF S
<1>6. \A q \in Place : started'[q] = IF q \in S THEN started[q] + 1 ELSE started[q]
  BY <1>3, Started
<1>7. \A i \in DOMAIN new :
         \/ new[i].op = "unlisten"
         \/ /\ new[i].op = "listen" /\ new[i].at \in Place
            /\ new[i].turn = started'[new[i].at] /\ new[i].hash = cache'[new[i].at]
  <2> SUFFICES ASSUME NEW i \in DOMAIN new, new[i].op # "unlisten"
               PROVE  /\ new[i].op = "listen" /\ new[i].at \in Place
                      /\ new[i].turn = started'[new[i].at] /\ new[i].hash = cache'[new[i].at]
    OBVIOUS
  <2>1. PICK q \in S : new[i] = Listen(q, started[q] + 1, cache[q])
    BY <1>5
  <2>2. /\ new[i].op = "listen" /\ new[i].at = q
        /\ new[i].turn = started[q] + 1 /\ new[i].hash = cache[q]
    BY <2>1 DEF Listen
  <2>3. q \in Place /\ q # p
    BY <1>3
  <2>4. QED
    BY <2>2, <2>3, <1>4, <1>6
<1>8. \A f \in ToSet(toServer') :
         \/ f \in ToSet(toServer)
         \/ f.op = "unlisten"
         \/ /\ f.op = "listen" /\ f.at \in Place
            /\ f.turn = started'[f.at] /\ f.hash = cache'[f.at]
  BY <1>2, <1>7, SentFacts
<1>9. \A q \in listens' :
         \/ started'[q] = started[q] + 1
         \/ q \in listens /\ started'[q] = started[q] /\ cache'[q] = cache[q]
  BY <1>1, <1>3, <1>4, <1>6
<1>10. \A q \in Place : started'[q] = started[q] \/ started'[q] = started[q] + 1
  BY <1>6
<1>11. listens' \in SUBSET Place
  BY <1>1, <1>3
<1>12. QED
  BY <1>8, <1>9, <1>10, <1>11, HeldListens

LEMMA HeldRemove ==
    ASSUME TypeOK, ListensCover, HeldInv, NEW p \in Place, RemoveEventRegistration(p)
    PROVE  HeldInv'
<1>1. UNCHANGED <<connected, toClient, server, active, held>> /\ listens \in SUBSET Place
  BY DEF RemoveEventRegistration, TypeOK
<1>2. CASE UNCHANGED <<cache, listens, started, toServer>>
  BY <1>1, <1>2, HeldListens
<1>3. CASE RemoveView(p) /\ Covered(p) /\ UNCHANGED <<listens, started, toServer>>
  <2>1. p \notin listens
    BY <1>3 DEF ListensCover
  <2>2. \A q \in listens' : q \in listens /\ started'[q] = started[q] /\ cache'[q] = cache[q]
    BY <2>1, <1>1, <1>3, ViewGone
  <2>3. QED
    BY <2>2, <1>1, <1>3, HeldListens
<1>4. CASE RemoveView(p) /\ HandOver(p, <<Unlisten(p)>>)
  BY <1>1, <1>4, HeldHandOver
<1>5. QED
  BY <1>2, <1>3, <1>4 DEF RemoveEventRegistration

LEMMA HeldResponse ==
    ASSUME TypeOK, HeldInv, OnListenResponse
    PROVE  HeldInv'
<1> DEFINE p == Head(toClient).at
<1>1. /\ toClient # <<>> /\ Head(toClient).op # "data" /\ toClient' = Tail(toClient)
      /\ UNCHANGED <<connected, server, active, held>> /\ listens \in SUBSET Place
  BY DEF OnListenResponse, TypeOK
<1>2. CASE UNCHANGED <<cache, listens, started, toServer>>
  BY <1>1, <1>2, HeldListens
<1>3. CASE CurrentListen(Head(toClient)) /\ RemoveView(p) /\ HandOver(p, <<>>)
  <2>1. p \in Place
    BY <1>1, <1>3 DEF CurrentListen
  <2>2. QED
    BY <2>1, <1>1, <1>3, HeldHandOver
<1>4. QED
  BY <1>2, <1>3 DEF OnListenResponse

(* Data overwrites what it is the data of. *)
LEMMA DataUpdated ==
    ASSUME TypeOK, OnDataUpdate
    PROVE  LET p == Head(toClient).at
               data == Head(toClient).data
           IN  /\ p \in Place /\ data \in Data /\ Head(toClient).op = "data"
               /\ Observed' = Observed
               /\ complete' = complete \cup {q \in Observed : Under(q) \subseteq Under(p)}
               /\ \A q \in Place, c \in Child :
                     cache'[q][c] = IF q \in Observed /\ c \in Under(p) \cap Under(q)
                                    THEN data[c] ELSE cache[q][c]
<1> DEFINE p == Head(toClient).at
           data == Head(toClient).data
<1>1. Head(toClient) \in Reply /\ Head(toClient).op = "data"
  BY ClientTail DEF OnDataUpdate
<1>2. p \in Place /\ data \in Data
  BY <1>1, ReplyFacts
<1>3. /\ cache' = [q \in Place |->
            IF q \in Observed
                THEN [c \in Child |->
                        IF c \in Under(p) \cap Under(q) THEN data[c] ELSE cache[q][c]]
                ELSE cache[q]]
      /\ complete' = complete \cup {q \in Observed : Under(q) \subseteq Under(p)}
      /\ observers' = observers
  BY DEF OnDataUpdate, ApplyServerOverwrite
<1> HIDE DEF p, data
<1>4. Observed' = Observed
  BY <1>3 DEF Observed
<1>5. \A q \in Place, c \in Child :
         cache'[q][c] = IF q \in Observed /\ c \in Under(p) \cap Under(q)
                        THEN data[c] ELSE cache[q][c]
  BY <1>3
<1>6. QED
  BY <1>1, <1>2, <1>3, <1>4, <1>5 DEF p, data

LEMMA HeldData ==
    ASSUME TypeOK, ListensCover, HeldInv, OnDataUpdate
    PROVE  HeldInv'
<1> DEFINE h == Head(toClient)
<1>1. /\ toClient # <<>> /\ toClient' = Tail(toClient)
      /\ UNCHANGED <<listens, started, toServer, server, held>>
  BY DEF OnDataUpdate
<1>2. /\ h.at \in Place /\ h.op = "data"
      /\ \A q \in Place, c \in Child :
            cache'[q][c] = IF q \in Observed /\ c \in Under(h.at) \cap Under(q)
                           THEN h.data[c] ELSE cache[q][c]
  BY DataUpdated
<1>3. /\ toClient[1] = h /\ h \in ToSet(toClient) /\ 1 \in DOMAIN toClient
      /\ \A f \in ToSet(toClient') : f \in ToSet(toClient)
      /\ DOMAIN toClient \subseteq Nat /\ DOMAIN toClient' \subseteq Nat
      /\ \A k \in DOMAIN toClient' : k + 1 \in DOMAIN toClient /\ toClient'[k] = toClient[k + 1]
      /\ \A k \in DOMAIN toClient :
            k = 1 \/ (k - 1 \in DOMAIN toClient' /\ toClient'[k - 1] = toClient[k])
  BY <1>1, ClientTail
<1> HIDE DEF h
<1>4. /\ \A c \in Under(h.at) : h.data[c] \in held[c]
      /\ \A q \in Place : Under(q) \subseteq Child
      /\ listens \subseteq Observed /\ Observed \subseteq Place
  BY <1>2, <1>3 DEF HeldInv, DataHeld, Under, ListensCover, Observed
<1>5. Turns' /\ ServerHeld' /\ DataHeld'
  BY <1>1, <1>3 DEF HeldInv, Turns, ServerHeld, DataHeld
<1>6. HashKnown'
  <2> SUFFICES ASSUME NEW f \in ToSet(toServer), f.op = "listen", f.at \in listens,
                      f.turn = started[f.at], NEW c \in Under(f.at)
               PROVE  cache'[f.at][c] \in held[c] \cup {f.hash[c]}
    BY <1>1 DEF HashKnown
  <2>1. cache[f.at][c] \in held[c] \cup {f.hash[c]}
    BY DEF HeldInv, HashKnown
  <2>2. f.at \in Observed /\ f.at \in Place /\ c \in Child
    BY <1>4
  <2>3. CASE c \in Under(h.at)
    BY <2>2, <2>3, <1>2, <1>4
  <2>4. CASE c \notin Under(h.at)
    BY <2>1, <2>2, <2>4, <1>2
  <2>5. QED
    BY <2>3, <2>4
<1>7. AnswerMeant'
  <2> SUFFICES ASSUME NEW k \in DOMAIN toClient', NEW f, f = toClient'[k], f.op = "ok",
                      f.at \in listens, f.turn = started[f.at]
               PROVE  \/ \E j \in DOMAIN toClient' : j < k /\ IsData(toClient'[j], f.at)
                      \/ CacheHeld(f.at)'
    BY <1>1 DEF AnswerMeant
  <2>1. k + 1 \in DOMAIN toClient /\ f = toClient[k + 1] /\ k \in Nat
    BY <1>3
  <2>2. \/ \E j \in DOMAIN toClient : j < k + 1 /\ IsData(toClient[j], f.at)
        \/ CacheHeld(f.at)
    BY <2>1 DEF HeldInv, AnswerMeant
  <2>3. f.at \in Observed /\ f.at \in Place /\ Under(f.at) \subseteq Child
    BY <1>4
  <2>4. ASSUME CacheHeld(f.at) PROVE CacheHeld(f.at)'
    <3> SUFFICES ASSUME NEW c \in Under(f.at) PROVE cache'[f.at][c] \in held[c]
      BY <1>1 DEF CacheHeld
    <3>1. cache[f.at][c] \in held[c] /\ c \in Child
      BY <2>3, <2>4 DEF CacheHeld
    <3>2. CASE c \in Under(h.at)
      BY <3>1, <3>2, <2>3, <1>2, <1>4
    <3>3. CASE c \notin Under(h.at)
      BY <3>1, <3>3, <2>3, <1>2
    <3>4. QED
      BY <3>2, <3>3
  <2>5. ASSUME NEW j \in DOMAIN toClient, j < k + 1, IsData(toClient[j], f.at)
        PROVE  \/ \E i \in DOMAIN toClient' : i < k /\ IsData(toClient'[i], f.at)
               \/ CacheHeld(f.at)'
    <3>1. CASE j = 1
      <4>1. h.at = f.at
        BY <3>1, <2>5, <1>3 DEF IsData
      <4>2. \A c \in Under(f.at) : cache'[f.at][c] = h.data[c]
        BY <4>1, <2>3, <1>2
      <4>3. CacheHeld(f.at)'
        BY <4>1, <4>2, <1>1, <1>4 DEF CacheHeld
      <4>4. QED
        BY <4>3
    <3>2. CASE j # 1
      <4>1. j - 1 \in DOMAIN toClient' /\ toClient'[j - 1] = toClient[j] /\ j - 1 < k
        BY <1>3, <2>1, <2>5, <3>2
      <4>2. QED
        BY <4>1, <2>5
    <3>3. QED
      BY <3>1, <3>2
  <2>6. QED
    BY <2>2, <2>4, <2>5
<1>8. QED
  BY <1>5, <1>6, <1>7 DEF HeldInv

LEMMA HeldConnection ==
    ASSUME TypeOK, HeldInv, OnDisconnect \/ RestoreState
    PROVE  HeldInv'
<1>1. UNCHANGED <<cache, listens, started, server, held>> /\ listens \in SUBSET Place
  BY DEF OnDisconnect, RestoreState, TypeOK
<1>2. CASE OnDisconnect
  <2>1. toServer' = <<>> /\ toClient' = <<>> /\ DOMAIN <<>> = {}
    BY <1>2 DEF OnDisconnect
  <2>2. ToSet(toServer') = {} /\ ToSet(toClient') = {}
    BY <2>1 DEF ToSet
  <2>3. QED
    BY <1>1, <2>1, <2>2
       DEF HeldInv, Turns, ServerHeld, DataHeld, HashKnown, AnswerMeant
<1>3. CASE RestoreState
  <2>1. PICK order \in Orders(listens) :
          toServer' = [i \in DOMAIN order |->
              Listen(order[i], started[order[i]], cache[order[i]])]
    BY <1>3 DEF RestoreState
  <2>2. \A i \in DOMAIN order : order[i] \in Place
    BY <1>1, OrderFacts
  <2>3. \A f \in ToSet(toServer') :
           /\ f.op = "listen" /\ f.at \in Place
           /\ f.turn = started'[f.at] /\ f.hash = cache'[f.at]
    BY <1>1, <2>1, <2>2 DEF ToSet, Listen
  <2>4. toClient' = toClient
    BY <1>3 DEF RestoreState
  <2>5. QED
    BY <1>1, <2>3, <2>4, HeldListens
<1>4. QED
  BY <1>2, <1>3
LEMMA TwoInARow ==
    ASSUME NEW S, NEW a \in S, NEW b \in S
    PROVE  <<a>> \o <<b>> = <<a, b>>
<1> DEFINE u == <<a>> \o <<b>>
           v == <<a, b>>
<1>1. /\ <<a>> \in Seq(S) /\ Len(<<a>>) = 1 /\ <<a>>[1] = a
      /\ <<b>> \in Seq(S) /\ Len(<<b>>) = 1 /\ <<b>>[1] = b
      /\ v \in Seq(S) /\ Len(v) = 2 /\ v[1] = a /\ v[2] = b
  OBVIOUS
<1>2. /\ u \in Seq(S) /\ Len(u) = Len(<<a>>) + Len(<<b>>)
      /\ \A i \in 1..Len(<<a>>) + Len(<<b>>) :
            u[i] = IF i <= Len(<<a>>) THEN <<a>>[i] ELSE <<b>>[i - Len(<<a>>)]
  BY <1>1, ConcatProperties
<1> HIDE DEF u, v
<1>3. Len(u) = 2 /\ u[1] = a /\ u[2] = b
  BY <1>1, <1>2
<1>4. \A i \in 1..Len(u) : u[i] = v[i]
  BY <1>1, <1>3
<1>5. u = v
  BY <1>1, <1>2, <1>3, <1>4, SeqEqual
<1>6. QED
  BY <1>5 DEF u, v

(* What the server does with a listen: it is active from now on, and the   *)
(* data comes before the answer, if the hash is not that of the data; or   *)
(* it is refused.                                                          *)
Accepts(h, new) ==
    LET data == Part(h.at, server)
    IN  /\ active' = active \cup {h.at} /\ count' = count
        /\ \/ /\ DOMAIN new = {1} /\ new[1] = Answer("ok", h.at, h.turn)
              /\ h.hash = data
           \/ /\ DOMAIN new = {1, 2} /\ new[1] = DataAt(h.at, data)
              /\ new[2] = Answer("ok", h.at, h.turn)
Refuses(h, new) ==
    /\ active' = active /\ Count("deny", MaxDenials)
    /\ DOMAIN new = {1} /\ new[1] = Answer("denied", h.at, h.turn)

LEMMA Served ==
    ASSUME TypeOK, ServerListens
    PROVE  /\ Head(toServer) \in Request /\ Head(toServer).op = "listen"
           /\ Head(toServer).at \in Place /\ Part(Head(toServer).at, server) \in Data
           /\ \E new \in Seq(Reply) :
                 /\ toClient' = toClient \o new
                 /\ Accepts(Head(toServer), new) \/ Refuses(Head(toServer), new)
<1> DEFINE h == Head(toServer)
           data == Part(h.at, server)
           ok == Answer("ok", h.at, h.turn)
           no == Answer("denied", h.at, h.turn)
           d == DataAt(h.at, data)
<1>1. toServer \in Seq(Request) /\ toClient \in Seq(Reply) /\ server \in Data
  BY DEF TypeOK
<1>2. toServer # <<>> /\ h.op = "listen"
  BY DEF ServerListens
<1>3. h \in Request
  BY <1>1, <1>2
<1>4. h.at \in Place /\ h.turn \in Nat
  BY <1>2, <1>3, RequestFacts
<1>5. data \in Data
  BY <1>1, <1>4, PartIsData
<1>6. /\ \/ /\ active' = active \cup {h.at} /\ count' = count
           /\ \/ h.hash = data /\ toClient' = toClient \o <<>> \o <<ok>>
              \/ toClient' = toClient \o <<d>> \o <<ok>>
        \/ /\ active' = active /\ Count("deny", MaxDenials)
           /\ toClient' = Append(toClient, no)
  BY DEF ServerListens
<1> HIDE DEF h, data
<1>7. ok \in Reply /\ no \in Reply /\ d \in Reply
  BY <1>4, <1>5 DEF Answer, DataAt, Reply
<1>8. ok = Answer("ok", h.at, h.turn) /\ no = Answer("denied", h.at, h.turn) /\ d = DataAt(h.at, data)
  OBVIOUS
<1> HIDE DEF ok, no, d
<1>9. /\ <<ok>> \in Seq(Reply) /\ DOMAIN <<ok>> = {1} /\ <<ok>>[1] = ok
      /\ <<no>> \in Seq(Reply) /\ DOMAIN <<no>> = {1} /\ <<no>>[1] = no
      /\ <<d, ok>> \in Seq(Reply) /\ DOMAIN <<d, ok>> = {1, 2}
      /\ <<d, ok>>[1] = d /\ <<d, ok>>[2] = ok /\ <<d>> \in Seq(Reply)
  BY <1>7
<1>10. CASE h.hash = data /\ toClient' = toClient \o <<>> \o <<ok>> /\ active' = active \cup {h.at} /\ count' = count
  <2>1. toClient \o <<>> = toClient
    BY <1>1
  <2>2. toClient' = toClient \o <<ok>>
    BY <1>10, <2>1
  <2>3. Accepts(h, <<ok>>)
    BY <1>8, <1>9, <1>10 DEF Accepts, data
  <2>4. QED
    BY <1>2, <1>3, <1>4, <1>5, <1>9, <2>2, <2>3 DEF h, data
<1>11. CASE toClient' = toClient \o <<d>> \o <<ok>> /\ active' = active \cup {h.at} /\ count' = count
  <2>1. (toClient \o <<d>>) \o <<ok>> = toClient \o (<<d>> \o <<ok>>)
    BY <1>1, <1>9, ConcatAssociative
  <2>2. <<d>> \o <<ok>> = <<d, ok>>
    BY <1>7, TwoInARow
  <2>3. toClient' = toClient \o <<d, ok>>
    BY <1>11, <2>1, <2>2
  <2>4. Accepts(h, <<d, ok>>)
    BY <1>8, <1>9, <1>11 DEF Accepts, data
  <2>5. QED
    BY <1>2, <1>3, <1>4, <1>5, <1>9, <2>3, <2>4 DEF h, data
<1>12. CASE active' = active /\ Count("deny", MaxDenials) /\ toClient' = Append(toClient, no)
  <2>1. Append(toClient, no) = toClient \o <<no>>
    BY <1>1, <1>7
  <2>2. Refuses(h, <<no>>)
    BY <1>8, <1>9, <1>12 DEF Refuses
  <2>3. QED
    BY <1>2, <1>3, <1>4, <1>5, <1>9, <1>12, <2>1, <2>2 DEF h, data
<1>13. QED
  BY <1>6, <1>10, <1>11, <1>12

(* The queue to the server without its head *)
LEMMA ServerTail ==
    ASSUME TypeOK, toServer # <<>>, toServer' = Tail(toServer)
    PROVE  /\ \A f \in ToSet(toServer') : f \in ToSet(toServer)
           /\ 1 \in DOMAIN toServer /\ toServer[1] = Head(toServer)
           /\ Head(toServer) \in Request /\ Head(toServer) \in ToSet(toServer)
           /\ DOMAIN toServer \subseteq Nat /\ DOMAIN toServer' \subseteq Nat
           /\ \A f \in ToSet(toServer) : f = Head(toServer) \/ f \in ToSet(toServer')
           /\ \A k \in DOMAIN toServer' : /\ k + 1 \in DOMAIN toServer /\ k >= 1
                                          /\ toServer'[k] = toServer[k + 1]
           /\ \A k \in DOMAIN toServer : k >= 1
           /\ \A k \in DOMAIN toServer :
                 k = 1 \/ (k - 1 \in DOMAIN toServer' /\ toServer'[k - 1] = toServer[k])
<1>1. toServer \in Seq(Request)
  BY DEF TypeOK
<1> DEFINE t == Tail(toServer)
<1>2. /\ t \in Seq(Request) /\ Head(toServer) = toServer[1] /\ Head(toServer) \in Request
      /\ 1 \in DOMAIN toServer /\ Head(toServer) \in ToSet(toServer)
      /\ \A i \in DOMAIN t : i + 1 \in DOMAIN toServer /\ i + 1 # 1 /\ t[i] = toServer[i + 1]
      /\ \A i \in DOMAIN toServer : i = 1 \/ i - 1 \in DOMAIN t
      /\ \A i \in DOMAIN toServer : i \in Nat /\ i >= 1
      /\ ToSet(toServer) = {Head(toServer)} \cup ToSet(t)
  BY <1>1, TailFacts
<1>3. \A i \in DOMAIN t : i \in Nat /\ i >= 1
  <2>1. t \in Seq(Request)
    BY <1>2
  <2> HIDE DEF t
  <2>2. DOMAIN t = 1..Len(t) /\ Len(t) \in Nat
    BY <2>1
  <2>3. QED
    BY <2>2
<1> HIDE DEF t
<1>4. \A i \in DOMAIN toServer : i = 1 \/ (i - 1 \in DOMAIN t /\ t[i - 1] = toServer[i])
  <2> SUFFICES ASSUME NEW i \in DOMAIN toServer, i # 1
               PROVE  i - 1 \in DOMAIN t /\ t[i - 1] = toServer[i]
    OBVIOUS
  <2>1. i - 1 \in DOMAIN t /\ i \in Nat
    BY <1>2
  <2>2. t[i - 1] = toServer[(i - 1) + 1] /\ (i - 1) + 1 = i
    BY <2>1, <1>2
  <2>3. QED
    BY <2>1, <2>2
<1>5. toServer' = t
  BY DEF t
<1>6. /\ DOMAIN toServer \subseteq Nat
      /\ \A f \in ToSet(t) : f \in ToSet(toServer)
      /\ \A f \in ToSet(toServer) : f = Head(toServer) \/ f \in ToSet(t)
      /\ \A k \in DOMAIN toServer : k >= 1
      /\ \A k \in DOMAIN t : k + 1 \in DOMAIN toServer /\ k >= 1 /\ t[k] = toServer[k + 1]
  BY <1>2, <1>3
<1>7. QED
  BY <1>2, <1>3, <1>4, <1>5, <1>6

(* Frames that are added behind the queue to the client *)
LEMMA HeldReplies ==
    ASSUME TypeOK, HeldInv, NEW new \in Seq(Reply), toClient' = toClient \o new,
           UNCHANGED <<cache, listens, started>>,
           \A f \in ToSet(toServer') : f \in ToSet(toServer),
           \A c \in Child : server'[c] \in held'[c] /\ held[c] \subseteq held'[c],
           \A i \in DOMAIN new :
              /\ new[i].op \in {"ok", "denied"} => new[i].turn <= started[new[i].at]
              /\ new[i].op = "data" => \A c \in Under(new[i].at) : new[i].data[c] \in held'[c]
              /\ /\ new[i].op = "ok" /\ new[i].at \in listens
                 /\ new[i].turn = started[new[i].at]
                 => \/ \E j \in DOMAIN new : j < i /\ IsData(new[j], new[i].at)
                    \/ CacheHeld(new[i].at)'
    PROVE  HeldInv'
<1>1. /\ \A f \in ToSet(toClient') : f \in ToSet(toClient) \/ f \in ToSet(new)
      /\ Len(toClient) \in Nat
      /\ \A k \in DOMAIN toClient :
            k \in Nat /\ k <= Len(toClient) /\ k \in DOMAIN toClient' /\ toClient'[k] = toClient[k]
      /\ \A i \in DOMAIN new :
            /\ i \in Nat /\ i > 0
            /\ Len(toClient) + i \in DOMAIN toClient' /\ toClient'[Len(toClient) + i] = new[i]
      /\ \A k \in DOMAIN toClient' :
            \/ k \in DOMAIN toClient
            \/ /\ k \in Nat /\ k > Len(toClient)
               /\ k - Len(toClient) \in DOMAIN new /\ toClient'[k] = new[k - Len(toClient)]
  BY ClientMore
<1>2. \A f \in ToSet(new) : \E i \in DOMAIN new : f = new[i]
  BY DEF ToSet
<1>3. /\ \A f \in ToSet(toServer) : f \in Request
      /\ \A f \in ToSet(toClient) : f \in Reply
      /\ \A p \in Place : Under(p) \subseteq Child
  BY QueueTypes DEF Under
<1>4. Turns'
  BY <1>1, <1>2 DEF HeldInv, Turns
<1>5. ServerHeld'
  BY DEF ServerHeld
<1>6. DataHeld'
  <2> SUFFICES ASSUME NEW f \in ToSet(toClient'), f.op = "data", NEW c \in Under(f.at)
               PROVE  f.data[c] \in held'[c]
    BY DEF DataHeld
  <2>1. CASE f \in ToSet(toClient)
    <3>1. f.data[c] \in held[c] /\ c \in Child
      BY <2>1, <1>3, ReplyFacts DEF HeldInv, DataHeld
    <3>2. QED
      BY <3>1
  <2>2. CASE f \in ToSet(new)
    BY <2>2, <1>2
  <2>3. QED
    BY <2>1, <2>2, <1>1
<1>7. HashKnown'
  <2> SUFFICES ASSUME NEW f \in ToSet(toServer), f.op = "listen", f.at \in listens,
                      f.turn = started[f.at], NEW c \in Under(f.at)
               PROVE  cache[f.at][c] \in held'[c] \cup {f.hash[c]}
    BY DEF HashKnown
  <2>1. cache[f.at][c] \in held[c] \cup {f.hash[c]}
    BY DEF HeldInv, HashKnown
  <2>2. c \in Child
    BY <1>3, RequestFacts
  <2>3. QED
    BY <2>1, <2>2
<1>8. AnswerMeant'
  <2> SUFFICES ASSUME NEW k \in DOMAIN toClient', NEW f, f = toClient'[k], f.op = "ok",
                      f.at \in listens, f.turn = started[f.at]
               PROVE  \/ \E j \in DOMAIN toClient' : j < k /\ IsData(toClient'[j], f.at)
                      \/ CacheHeld(f.at)'
    BY DEF AnswerMeant
  <2>1. CASE k \in DOMAIN toClient
    <3>1. f = toClient[k] /\ f.at \in Place
      BY <2>1, <1>1, QueueTypes, ReplyFacts
    <3>2. \/ \E j \in DOMAIN toClient : j < k /\ IsData(toClient[j], f.at)
          \/ CacheHeld(f.at)
      BY <2>1, <3>1 DEF HeldInv, AnswerMeant
    <3>3. CacheHeld(f.at) => CacheHeld(f.at)'
      BY <3>1, <1>3 DEF CacheHeld
    <3>4. QED
      BY <3>2, <3>3, <1>1
  <2>2. CASE k \notin DOMAIN toClient
    <3> DEFINE i == k - Len(toClient)
    <3>1. k \in Nat /\ i \in DOMAIN new /\ f = new[i] /\ i \in Nat
      BY <2>2, <1>1
    <3>2. \/ \E j \in DOMAIN new : j < i /\ IsData(new[j], f.at)
          \/ CacheHeld(f.at)'
      BY <3>1
    <3>3. ASSUME NEW j \in DOMAIN new, j < i, IsData(new[j], f.at)
          PROVE  \E m \in DOMAIN toClient' : m < k /\ IsData(toClient'[m], f.at)
      <4>1. /\ Len(toClient) + j \in DOMAIN toClient' /\ toClient'[Len(toClient) + j] = new[j]
            /\ Len(toClient) + j < k
        BY <3>1, <3>3, <1>1
      <4>2. QED
        BY <4>1, <3>3
    <3>4. QED
      BY <3>2, <3>3
  <2>3. QED
    BY <2>1, <2>2
<1>9. QED
  BY <1>4, <1>5, <1>6, <1>7, <1>8 DEF HeldInv

LEMMA PartFacts ==
    ASSUME NEW p \in Place, NEW data \in Data, NEW c \in Under(p)
    PROVE  c \in Child /\ Part(p, data)[c] = data[c]
BY DEF Part, Under

LEMMA HeldServerListens ==
    ASSUME TypeOK, HeldInv, ServerListens
    PROVE  HeldInv'
<1>0. PICK h : h = Head(toServer)
  OBVIOUS
<1>1. /\ toServer # <<>> /\ toServer' = Tail(toServer)
      /\ UNCHANGED <<cache, listens, started, server, held>>
  BY DEF ServerListens
<1>2. /\ h \in Request /\ h.op = "listen" /\ h.at \in Place
      /\ Part(h.at, server) \in Data /\ server \in Data
  BY <1>0, Served DEF TypeOK
<1>3. PICK new \in Seq(Reply) :
        toClient' = toClient \o new /\ (Accepts(h, new) \/ Refuses(h, new))
  BY <1>0, Served
<1>4. /\ h \in ToSet(toServer)
      /\ \A f \in ToSet(toServer') : f \in ToSet(toServer)
  BY <1>0, <1>1, ServerTail
<1>5. h.turn <= started[h.at]
  BY <1>2, <1>4 DEF HeldInv, Turns
<1>6. \A c \in Child : server[c] \in held[c]
  BY DEF HeldInv, ServerHeld
<1>7. ASSUME h.hash = Part(h.at, server), h.at \in listens, h.turn = started[h.at]
      PROVE  CacheHeld(h.at)'
  <2> SUFFICES ASSUME NEW c \in Under(h.at) PROVE cache[h.at][c] \in held[c]
    BY <1>1 DEF CacheHeld
  <2>1. cache[h.at][c] \in held[c] \cup {h.hash[c]}
    BY <1>2, <1>4, <1>7 DEF HeldInv, HashKnown
  <2>2. h.hash[c] = server[c] /\ c \in Child
    BY <1>2, <1>7, PartFacts
  <2>3. QED
    BY <2>1, <2>2, <1>6
<1>8. \A i \in DOMAIN new :
         /\ new[i].op \in {"ok", "denied"} => new[i].turn <= started[new[i].at]
         /\ new[i].op = "data" => \A c \in Under(new[i].at) : new[i].data[c] \in held'[c]
         /\ /\ new[i].op = "ok" /\ new[i].at \in listens
            /\ new[i].turn = started[new[i].at]
            => \/ \E j \in DOMAIN new : j < i /\ IsData(new[j], new[i].at)
               \/ CacheHeld(new[i].at)'
  <2>1. CASE Refuses(h, new)
    <3>1. \A i \in DOMAIN new : new[i].op = "denied" /\ new[i].at = h.at /\ new[i].turn = h.turn
      BY <2>1 DEF Refuses, Answer
    <3>2. QED
      BY <3>1, <1>5
  <2>2. CASE /\ DOMAIN new = {1} /\ new[1] = Answer("ok", h.at, h.turn)
             /\ h.hash = Part(h.at, server)
    <3>1. \A i \in DOMAIN new : new[i].op = "ok" /\ new[i].at = h.at /\ new[i].turn = h.turn
      BY <2>2 DEF Answer
    <3>2. QED
      BY <3>1, <2>2, <1>5, <1>7
  <2>3. CASE /\ DOMAIN new = {1, 2} /\ new[1] = DataAt(h.at, Part(h.at, server))
             /\ new[2] = Answer("ok", h.at, h.turn)
    <3>1. /\ new[1].op = "data" /\ new[1].at = h.at /\ new[1].data = Part(h.at, server)
          /\ new[2].op = "ok" /\ new[2].at = h.at /\ new[2].turn = h.turn
      BY <2>3 DEF Answer, DataAt
    <3>2. \A c \in Under(h.at) : new[1].data[c] \in held'[c]
      BY <3>1, <1>1, <1>2, <1>6, PartFacts
    <3>3. 1 < 2 /\ 1 \in DOMAIN new /\ IsData(new[1], h.at)
      BY <2>3, <3>1 DEF IsData
    <3>4. QED
      BY <2>3, <3>1, <3>2, <3>3, <1>5
  <2>4. QED
    BY <1>3, <2>1, <2>2, <2>3 DEF Accepts
<1>9. \A c \in Child : server'[c] \in held'[c] /\ held[c] \subseteq held'[c]
  BY <1>1, <1>6
<1>10. QED
  BY <1>1, <1>3, <1>4, <1>8, <1>9, HeldReplies

LEMMA HeldUnlistens ==
    ASSUME TypeOK, HeldInv, ServerUnlistens
    PROVE  HeldInv'
<1>1. /\ toServer # <<>> /\ toServer' = Tail(toServer) /\ listens \in SUBSET Place
      /\ UNCHANGED <<cache, listens, started, server, held, toClient>>
  BY DEF ServerUnlistens, TypeOK
<1>2. \A f \in ToSet(toServer') : f \in ToSet(toServer)
  BY <1>1, ServerTail
<1>3. QED
  BY <1>1, <1>2, HeldListens

(* What the server sends when an entry is set *)
LEMMA Changed ==
    ASSUME TypeOK, NEW c \in Child, NEW v \in Version, ServerChange(c, v)
    PROVE  /\ server' \in Data /\ server'[c] = v
           /\ \A d \in Child : d # c => server'[d] = server[d]
           /\ \A d \in Child : held[d] \subseteq held'[d]
           /\ v \in held'[c]
           /\ \E new \in Seq(Reply) :
                 /\ toClient' = toClient \o new
                 /\ active \cap {c, Root} = {} => DOMAIN new = {}
                 /\ active \cap {c, Root} # {} =>
                       DOMAIN new = {1} /\ new[1] = DataAt(c, Part(c, server'))
<1>1. server \in Data /\ held \in [Child -> SUBSET Value] /\ toClient \in Seq(Reply)
  BY DEF TypeOK
<1>2. /\ server' = [server EXCEPT ![c] = v]
      /\ held' = [held EXCEPT ![c] = @ \cup {v}]
      /\ toClient' = IF active \cap {c, Root} = {} THEN toClient
                     ELSE Append(toClient, DataAt(c, Part(c, server')))
  BY DEF ServerChange
<1>3. /\ server' \in Data /\ server'[c] = v
      /\ \A d \in Child : d # c => server'[d] = server[d]
      /\ \A d \in Child : held[d] \subseteq held'[d]
      /\ v \in held'[c]
  BY <1>1, <1>2
<1>4. CASE active \cap {c, Root} = {}
  <2>1. toClient' = toClient \o <<>> /\ <<>> \in Seq(Reply) /\ DOMAIN <<>> = {}
    BY <1>1, <1>2, <1>4
  <2>2. QED
    BY <1>3, <1>4, <2>1
<1>5. CASE active \cap {c, Root} # {}
  <2> DEFINE d == DataAt(c, Part(c, server'))
  <2>1. Part(c, server') \in Data
    BY <1>3, PartIsData
  <2>2. d \in Reply
    BY <2>1 DEF DataAt, Reply
  <2>3. toClient' = Append(toClient, d)
    BY <1>2, <1>5
  <2>4. d = DataAt(c, Part(c, server'))
    OBVIOUS
  <2> HIDE DEF d
  <2>5. /\ Append(toClient, d) = toClient \o <<d>> /\ <<d>> \in Seq(Reply)
        /\ DOMAIN <<d>> = {1} /\ <<d>>[1] = d
    BY <1>1, <2>2
  <2>6. QED
    BY <1>3, <1>5, <2>3, <2>4, <2>5
<1>6. QED
  BY <1>4, <1>5

LEMMA HeldChange ==
    ASSUME TypeOK, HeldInv, NEW c \in Child, NEW v \in Version, ServerChange(c, v)
    PROVE  HeldInv'
<1>1. UNCHANGED <<cache, listens, started, toServer>>
  BY DEF ServerChange
<1>2. /\ server' \in Data /\ server'[c] = v
      /\ \A d \in Child : d # c => server'[d] = server[d]
      /\ \A d \in Child : held[d] \subseteq held'[d]
      /\ v \in held'[c]
  BY Changed
<1>3. PICK new \in Seq(Reply) :
        /\ toClient' = toClient \o new
        /\ active \cap {c, Root} = {} => DOMAIN new = {}
        /\ active \cap {c, Root} # {} =>
              DOMAIN new = {1} /\ new[1] = DataAt(c, Part(c, server'))
  BY Changed
<1>4. \A d \in Child : server'[d] \in held'[d] /\ held[d] \subseteq held'[d]
  BY <1>2 DEF HeldInv, ServerHeld
<1>5. \A i \in DOMAIN new :
         /\ new[i].op = "data" /\ new[i].at = c /\ new[i].data = Part(c, server')
  BY <1>3 DEF DataAt
<1>6. \A d \in Under(c) : Part(c, server')[d] = server'[d] /\ d \in Child
  BY <1>2, PartFacts
<1>7. \A i \in DOMAIN new :
         /\ new[i].op \in {"ok", "denied"} => new[i].turn <= started[new[i].at]
         /\ new[i].op = "data" => \A d \in Under(new[i].at) : new[i].data[d] \in held'[d]
         /\ /\ new[i].op = "ok" /\ new[i].at \in listens
            /\ new[i].turn = started[new[i].at]
            => \/ \E j \in DOMAIN new : j < i /\ IsData(new[j], new[i].at)
               \/ CacheHeld(new[i].at)'
  BY <1>4, <1>5, <1>6
<1>8. QED
  BY <1>1, <1>3, <1>4, <1>7, HeldReplies

LEMMA HeldStep == TypeOK /\ ListensCover /\ HeldInv /\ [Next]_vars => HeldInv'
<1> SUFFICES ASSUME TypeOK, ListensCover, HeldInv, [Next]_vars PROVE HeldInv'
  OBVIOUS
<1>1. CASE \E p \in Place : AddEventRegistration(p)
  BY <1>1, HeldAdd
<1>2. CASE \E p \in Place : RemoveEventRegistration(p)
  BY <1>2, HeldRemove
<1>3. CASE OnDataUpdate
  BY <1>3, HeldData
<1>4. CASE OnListenResponse
  BY <1>4, HeldResponse
<1>5. CASE OnDisconnect \/ RestoreState
  BY <1>5, HeldConnection
<1>6. CASE ServerListens
  BY <1>6, HeldServerListens
<1>7. CASE ServerUnlistens
  BY <1>7, HeldUnlistens
<1>8. CASE \E c \in Child, v \in Version : ServerChange(c, v)
  BY <1>8, HeldChange
<1>9. CASE UNCHANGED vars
  <2>1. UNCHANGED <<cache, listens, started, toServer, toClient, server, held>>
    BY <1>9 DEF vars
  <2>2. listens \in SUBSET Place
    BY DEF TypeOK
  <2>3. QED
    BY <2>1, <2>2, HeldListens
<1>10. QED
  BY <1>1, <1>2, <1>3, <1>4, <1>5, <1>6, <1>7, <1>8, <1>9 DEF Next, Client, Server

(* For any entries, changes, refusals and lost connections: what completes *)
(* a listened view is the server's data, or the answer to the listen that  *)
(* the view has now, ahead of which came the data it lacked; never the     *)
(* answer to an earlier listen (FPersistentConnection.m:795).              *)
THEOREM FirstValuesAreHeld == Spec => FirstValueIsHeld
<1> DEFINE Held == \A p \in listens' : p \in complete' \ complete =>
                      \A c \in Under(p) : cache'[p][c] \in held'[c]
<1>1. TypeOK /\ ListensCover /\ ListensCover' /\ HeldInv /\ [Next]_vars => [Held]_vars
  <2> SUFFICES ASSUME TypeOK, ListensCover, ListensCover', HeldInv, Next,
                      NEW p \in listens', p \in complete', p \notin complete,
                      NEW c \in Under(p)
               PROVE  cache'[p][c] \in held'[c]
    OBVIOUS
  <2> USE SyncTreeAssumption
  <2>1. p \in Place /\ p \in Observed' /\ ~Covered(p)' /\ c \in Child
    BY DEF ListensCover, Observed, Under
  <2>2. complete \subseteq Observed /\ observers \in [Place -> Nat]
    BY DEF TypeOK
  <2>3. ASSUME NEW q \in Place, AddEventRegistration(q)
        PROVE  FALSE
    <3>1. observers[q] = 0
      BY <2>3, MoreObservers
    <3>2. complete' = complete \cup {r \in {q} : SeedsComplete(r)}
      BY <2>3, <3>1, NewView
    <3>3. p = q /\ p # Root /\ Root \in complete
      BY <3>2 DEF SeedsComplete
    <3>4. observers[Root] > 0 /\ observers'[Root] = observers[Root]
      BY <3>3, <2>2, <2>3 DEF Observed, AddEventRegistration
    <3>5. QED
      BY <3>3, <3>4, <2>1 DEF Covered
  <2>4. ASSUME NEW q \in Place, RemoveEventRegistration(q)
        PROVE  FALSE
    BY <2>4 DEF RemoveEventRegistration, RemoveView
  <2>5. CASE OnDataUpdate
    <3> DEFINE h == Head(toClient)
    <3>1. /\ h.op = "data" /\ h.at \in Place
          /\ complete' = complete \cup {q \in Observed : Under(q) \subseteq Under(h.at)}
          /\ \A q \in Place, d \in Child :
                cache'[q][d] = IF q \in Observed /\ d \in Under(h.at) \cap Under(q)
                               THEN h.data[d] ELSE cache[q][d]
      BY <2>5, DataUpdated
    <3>2. h \in ToSet(toClient) /\ UNCHANGED held
      BY <2>5, ClientTail DEF OnDataUpdate
    <3> HIDE DEF h
    <3>3. \A d \in Under(h.at) : h.data[d] \in held[d]
      BY <3>1, <3>2 DEF HeldInv, DataHeld
    <3>4. p \in Observed /\ Under(p) \subseteq Under(h.at)
      BY <3>1
    <3>5. QED
      BY <3>1, <3>2, <3>3, <3>4, <2>1
  <2>6. CASE OnListenResponse
    <3> DEFINE h == Head(toClient)
    <3>1. /\ CurrentListen(h) /\ h.op = "ok"
          /\ complete' = complete \cup ListenComplete(h.at)
          /\ UNCHANGED <<observers, cache, listens, held>>
      BY <2>6 DEF OnListenResponse, RemoveView
    <3>2. 1 \in DOMAIN toClient /\ toClient[1] = h /\ DOMAIN toClient \subseteq Nat
      BY <2>6, ClientTail DEF OnListenResponse
    <3> HIDE DEF h
    <3>3. p \in Observed /\ Under(p) \subseteq Under(h.at)
      BY <3>1 DEF ListenComplete
    <3>4. h.at \in listens /\ h.turn = started[h.at] /\ p \in listens
      BY <3>1 DEF CurrentListen
    <3>5. h.at \in Observed /\ ~Covered(h.at) /\ ~Covered(p)
      BY <3>4 DEF ListensCover
    <3>6. p = h.at
      <4>1. CASE p = Root
        <5>1. observers[Root] > 0
          BY <4>1, <3>3 DEF Observed
        <5>2. QED
          BY <4>1, <5>1, <3>5 DEF Covered
      <4>2. CASE p # Root
        <5>1. Under(p) = {p}
          BY <4>2 DEF Under
        <5>2. p \in Under(h.at)
          BY <5>1, <3>3
        <5>3. h.at # Root
          BY <4>2, <3>5 DEF Covered, Observed
        <5>4. QED
          BY <5>2, <5>3 DEF Under
      <4>3. QED
        BY <4>1, <4>2
    <3>7. \A j \in DOMAIN toClient : ~(j < 1)
      <4>1. toClient \in Seq(Reply)
        BY DEF TypeOK
      <4>2. QED
        BY <4>1
    <3>8. CacheHeld(h.at)
      BY <3>1, <3>2, <3>4, <3>7 DEF HeldInv, AnswerMeant
    <3>9. QED
      BY <3>1, <3>6, <3>8 DEF CacheHeld
  <2>7. QED
    BY <2>3, <2>4, <2>5, <2>6
       DEF Next, Client, Server, OnDisconnect, RestoreState,
           ServerListens, ServerUnlistens, ServerChange
<1>2. Spec => [](TypeOK /\ ListensCover /\ HeldInv)
  BY TypeInvariance, ListensAlwaysCover, HeldInit, HeldStep, PTL DEF Spec
<1>3. QED
  BY <1>1, <1>2, PTL DEF Spec, FirstValueIsHeld

-----------------------------------------------------------------------------
(* Requests, as long as no observer is removed *)

(* Where a place is asked for: at the server, counted as 0, or in the      *)
(* queue to it; and where in the queue it is asked to stop.                *)
Asked(p) ==
    {i \in DOMAIN toServer : IsListen(toServer[i], p)} \cup {i \in {0} : p \in active}
Stopped(p) == {i \in DOMAIN toServer : IsUnlisten(toServer[i], p)}

(* Without a connection nothing is on its way or active. *)
Idle == ~connected => toServer = <<>> /\ toClient = <<>> /\ active = {}

TurnsGrow ==
    \A i, k \in DOMAIN toServer : \A p \in Place :
        i < k /\ IsListen(toServer[i], p) /\ IsListen(toServer[k], p)
            => toServer[i].turn < toServer[k].turn

(* Between two listens of a place the first one is stopped. *)
Alternate ==
    \A p \in Place : \A i, k \in Asked(p) : i < k => \E j \in Stopped(p) : i < j /\ j < k

(* What the client no longer listens to it has stopped, and for what it    *)
(* does not observe it has asked nothing.                                  *)
Unasked == \A p \in Place \ listens : \A i \in Asked(p) : \E j \in Stopped(p) : i < j
Unobserved == \A p \in Place \ Observed : Asked(p) = {}

(* The list is listened to until that is refused. *)
RootCurrent ==
    \A i \in DOMAIN toServer :
        /\ IsListen(toServer[i], Root) => toServer[i].turn = started[Root]
        /\ ~IsUnlisten(toServer[i], Root)

Sending ==
    /\ TurnsGrow /\ Alternate /\ Unasked /\ Unobserved /\ RootCurrent

LEMMA SendingNothing ==
    ASSUME toServer' = <<>>, active' = {}
    PROVE  Sending' /\ \A p : Asked(p)' = {}
<1>1. DOMAIN toServer' = {}
  OBVIOUS
<1>2. \A p : Asked(p)' = {}
  BY <1>1 DEF Asked
<1>3. QED
  BY <1>1, <1>2 DEF Sending, TurnsGrow, Alternate, Unasked, Unobserved, RootCurrent

LEMMA AskedPlaces ==
    ASSUME TypeOK, NEW p \in Place
    PROVE  /\ Len(toServer) \in Nat
           /\ \A i \in DOMAIN toServer : i \in Nat /\ i > 0 /\ i <= Len(toServer)
           /\ \A i \in Asked(p) : i \in Nat /\ i <= Len(toServer)
           /\ \A i \in Stopped(p) : i \in Nat /\ i > 0 /\ i <= Len(toServer)
<1>1. toServer \in Seq(Request)
  BY DEF TypeOK
<1>2. DOMAIN toServer = 1..Len(toServer) /\ Len(toServer) \in Nat
  BY <1>1
<1>3. \A i \in DOMAIN toServer : i \in Nat /\ i > 0 /\ i <= Len(toServer)
  BY <1>2
<1>4. QED
  BY <1>2, <1>3 DEF Asked, Stopped

(* Places are asked for that were not listened to, and stopped that are no *)
(* longer.                                                                 *)
LEMMA SendingMore ==
    ASSUME TypeOK, Turns, Sending, NEW new \in Seq(Request), toServer' = toServer \o new,
           UNCHANGED active, NEW S \in SUBSET Place, S \cap listens = {},
           \A q \in Place : started'[q] = IF q \in S THEN started[q] + 1 ELSE started[q],
           \A i \in DOMAIN new :
              \/ \E q \in S : IsListen(new[i], q) /\ new[i].turn = started[q] + 1
              \/ \E q \in Child \ S : IsUnlisten(new[i], q),
           \A i, j \in DOMAIN new :
              new[i].op = "listen" /\ new[j].op = "listen" /\ new[i].at = new[j].at => i = j,
           \A q \in Place \ listens' :
              /\ q \notin S
              /\ \/ q \notin listens \/ Asked(q) = {}
                 \/ \E i \in DOMAIN new : IsUnlisten(new[i], q),
           \A q \in Place \ Observed' : q \notin S /\ (q \notin Observed \/ Asked(q) = {}),
           Root \in S => Root \notin Observed
    PROVE  /\ Sending'
           /\ \A q \in Place \ S : Asked(q)' = Asked(q)
<1> USE SyncTreeAssumption
<1> DEFINE n == Len(toServer)
<1>1. /\ n \in Nat
      /\ \A i \in DOMAIN toServer : i \in Nat /\ i > 0 /\ i <= n
      /\ \A q \in Place : \A i \in Asked(q) : i \in Nat /\ i <= n
      /\ \A q \in Place : \A i \in Stopped(q) : i \in Nat /\ i > 0 /\ i <= n
  BY AskedPlaces
<1>2. /\ \A i \in DOMAIN new : i \in Nat /\ i > 0
      /\ \A i \in DOMAIN toServer : i \in DOMAIN toServer' /\ toServer'[i] = toServer[i]
      /\ \A i \in DOMAIN new : n + i \in DOMAIN toServer' /\ toServer'[n + i] = new[i]
      /\ \A i \in DOMAIN toServer' :
            \/ i \in DOMAIN toServer
            \/ /\ i \in (n + 1)..(n + Len(new))
               /\ i - n \in DOMAIN new /\ toServer'[i] = new[i - n]
  <2>1. toServer \in Seq(Request)
    BY DEF TypeOK
  <2>2. QED
    BY <2>1, ConcatPlaces
<1>3. \A i \in DOMAIN toServer' :
         \/ i \in DOMAIN toServer /\ toServer'[i] = toServer[i]
         \/ /\ i \in Nat /\ i > n
            /\ i - n \in DOMAIN new /\ toServer'[i] = new[i - n]
  <2>1. Len(new) \in Nat
    OBVIOUS
  <2>2. \A i \in (n + 1)..(n + Len(new)) : i \in Nat /\ i > n
    BY <1>1, <2>1
  <2>3. QED
    BY <1>2, <2>2
<1> HIDE DEF n
<1>4. \A q \in Place, i \in DOMAIN new :
         IsListen(new[i], q) => q \in S /\ new[i].turn = started[q] + 1
  BY DEF IsListen, IsUnlisten
<1>5. ASSUME NEW q \in Place, NEW i \in Asked(q)'
      PROVE  \/ i \in Asked(q)
             \/ /\ q \in S /\ i \in Nat /\ i > n /\ i - n \in DOMAIN new
                /\ IsListen(new[i - n], q)
  BY <1>3, <1>4 DEF Asked
<1>6. \A q \in Place : Asked(q) \subseteq Asked(q)' /\ Stopped(q) \subseteq Stopped(q)'
  BY <1>2 DEF Asked, Stopped
<1>7. \A q \in Place \ S : Asked(q)' = Asked(q)
  BY <1>5, <1>6
<1>8. \A p \in Place : started[p] \in Nat
  BY DEF TypeOK
<1>9. TurnsGrow'
  <2> SUFFICES ASSUME NEW i \in DOMAIN toServer', NEW k \in DOMAIN toServer', NEW p \in Place,
                      i < k, IsListen(toServer'[i], p), IsListen(toServer'[k], p)
               PROVE  toServer'[i].turn < toServer'[k].turn
    BY DEF TurnsGrow
  <2>1. CASE i \in DOMAIN toServer /\ k \in DOMAIN toServer
    BY <2>1, <1>2 DEF Sending, TurnsGrow
  <2>2. CASE i \in DOMAIN toServer /\ k \notin DOMAIN toServer
    <3>1. toServer'[i] = toServer[i] /\ toServer[i] \in ToSet(toServer) /\ toServer[i] \in Request
      BY <2>2, <1>2, QueueTypes
    <3>2. toServer[i].turn <= started[p] /\ toServer[i].turn \in Nat
      BY <3>1, RequestFacts DEF Turns, IsListen
    <3>3. toServer'[k].turn = started[p] + 1
      BY <2>2, <1>3, <1>4
    <3>4. QED
      BY <3>1, <3>2, <3>3, <1>8
  <2>3. CASE i \notin DOMAIN toServer /\ k \in DOMAIN toServer
    BY <2>3, <1>1, <1>3
  <2>4. CASE i \notin DOMAIN toServer /\ k \notin DOMAIN toServer
    <3>1. /\ i \in Nat /\ k \in Nat /\ i - n \in DOMAIN new /\ k - n \in DOMAIN new
          /\ toServer'[i] = new[i - n] /\ toServer'[k] = new[k - n]
      BY <2>4, <1>3
    <3>2. i - n = k - n
      BY <3>1 DEF IsListen
    <3>3. QED
      BY <3>1, <3>2, <1>1
  <2>5. QED
    BY <2>1, <2>2, <2>3, <2>4
<1>10. Alternate'
  <2> SUFFICES ASSUME NEW p \in Place, NEW i \in Asked(p)', NEW k \in Asked(p)', i < k
               PROVE  \E j \in Stopped(p)' : i < j /\ j < k
    BY DEF Alternate
  <2>1. CASE i \in Asked(p) /\ k \in Asked(p)
    BY <2>1, <1>6 DEF Sending, Alternate
  <2>2. CASE i \in Asked(p) /\ k \notin Asked(p)
    <3>1. p \notin listens /\ k \in Nat /\ k > n
      BY <2>2, <1>5
    <3>2. PICK j \in Stopped(p) : i < j
      BY <2>2, <3>1 DEF Sending, Unasked
    <3>3. j < k /\ j \in Stopped(p)'
      BY <3>1, <1>1, <1>6
    <3>4. QED
      BY <3>2, <3>3
  <2>3. CASE i \notin Asked(p) /\ k \in Asked(p)
    BY <2>3, <1>1, <1>5
  <2>4. CASE i \notin Asked(p) /\ k \notin Asked(p)
    <3>1. /\ i \in Nat /\ k \in Nat /\ i - n \in DOMAIN new /\ k - n \in DOMAIN new
          /\ IsListen(new[i - n], p) /\ IsListen(new[k - n], p)
      BY <2>4, <1>5
    <3>2. i - n = k - n
      BY <3>1 DEF IsListen
    <3>3. QED
      BY <3>1, <3>2, <1>1
  <2>5. QED
    BY <2>1, <2>2, <2>3, <2>4
<1>11. Unasked'
  <2> SUFFICES ASSUME NEW p \in Place \ listens', NEW i \in Asked(p)'
               PROVE  \E j \in Stopped(p)' : i < j
    BY DEF Unasked
  <2>1. i \in Asked(p)
    BY <1>7
  <2>2. CASE p \notin listens
    BY <2>1, <2>2, <1>6 DEF Sending, Unasked
  <2>3. CASE \E m \in DOMAIN new : IsUnlisten(new[m], p)
    <3>1. PICK m \in DOMAIN new : IsUnlisten(new[m], p)
      BY <2>3
    <3>2. n + m \in Stopped(p)'
      BY <3>1, <1>2 DEF Stopped
    <3>3. i < n + m
      BY <2>1, <1>1, <1>2
    <3>4. QED
      BY <3>2, <3>3
  <2>4. QED
    BY <2>1, <2>2, <2>3
<1>12. Unobserved'
  BY <1>7 DEF Sending, Unobserved
<1>13. RootCurrent'
  <2> SUFFICES ASSUME NEW i \in DOMAIN toServer'
               PROVE  /\ IsListen(toServer'[i], Root) => toServer'[i].turn = started'[Root]
                      /\ ~IsUnlisten(toServer'[i], Root)
    BY DEF RootCurrent
  <2>1. CASE i \in DOMAIN toServer
    <3>1. toServer'[i] = toServer[i]
      BY <2>1, <1>2
    <3>2. IsListen(toServer[i], Root) => Root \notin S
      <4>1. IsListen(toServer[i], Root) => i \in Asked(Root)
        BY <2>1 DEF Asked
      <4>2. QED
        BY <4>1 DEF Sending, Unobserved
    <3>3. QED
      BY <2>1, <3>1, <3>2 DEF Sending, RootCurrent
  <2>2. CASE i \notin DOMAIN toServer
    <3>1. i - n \in DOMAIN new /\ toServer'[i] = new[i - n]
      BY <2>2, <1>3
    <3>2. IsListen(new[i - n], Root) => new[i - n].turn = started'[Root]
      BY <3>1, <1>4
    <3>3. ~IsUnlisten(new[i - n], Root)
      BY <3>1 DEF IsListen, IsUnlisten
    <3>4. QED
      BY <3>1, <3>2, <3>3
  <2>3. QED
    BY <2>1, <2>2
<1>14. QED
  BY <1>7, <1>9, <1>10, <1>11, <1>12, <1>13 DEF Sending

(* The server takes a request. *)
LEMMA SendingLess ==
    ASSUME TypeOK, Turns, Sending, toServer # <<>>, toServer' = Tail(toServer),
           UNCHANGED <<listens, started, Observed>>,
           NEW h, h = Head(toServer),
           \/ h.op = "listen" /\ active \subseteq active' /\ active' \subseteq active \cup {h.at}
           \/ h.op = "unlisten" /\ active' = active \ {h.at}
    PROVE  /\ Sending'
           /\ \A q \in Place : Asked(q) = {} => Asked(q)' = {}
           /\ h.op = "listen" =>
                 /\ 1 \in Asked(h.at) /\ h.at \notin active
                 /\ h.turn = started[h.at] => \A i \in Asked(h.at)' : i = 0
<1>1. /\ 1 \in DOMAIN toServer /\ toServer[1] = h /\ h \in Request /\ h \in ToSet(toServer)
      /\ DOMAIN toServer \subseteq Nat /\ DOMAIN toServer' \subseteq Nat
      /\ \A k \in DOMAIN toServer' : /\ k + 1 \in DOMAIN toServer /\ k >= 1
                                     /\ toServer'[k] = toServer[k + 1]
      /\ \A k \in DOMAIN toServer : k >= 1
      /\ \A k \in DOMAIN toServer :
            k = 1 \/ (k - 1 \in DOMAIN toServer' /\ toServer'[k - 1] = toServer[k])
  BY ServerTail
<1>2. h.op \in {"listen", "unlisten"} /\ h.at \in Place
  BY <1>1, RequestFacts
<1>3. ASSUME h.op = "listen"
      PROVE  1 \in Asked(h.at) /\ h.at \notin active
  <2>1. 1 \in Asked(h.at)
    BY <1>1, <1>3 DEF Asked, IsListen
  <2>2. ASSUME h.at \in active
        PROVE  FALSE
    <3>1. 0 \in Asked(h.at)
      BY <2>2 DEF Asked
    <3>2. PICK j \in Stopped(h.at) : 0 < j /\ j < 1
      BY <2>1, <3>1, <1>2, 0 < 1 DEF Sending, Alternate
    <3>3. j \in Nat
      BY <1>1 DEF Stopped
    <3>4. QED
      BY <3>2, <3>3
  <2>3. QED
    BY <2>1, <2>2
<1>4. ASSUME NEW q \in Place, NEW i \in Asked(q)'
      PROVE  /\ i \in Nat
             /\ \/ i + 1 \in Asked(q)
                \/ i = 0 /\ i \in Asked(q) /\ (h.op = "unlisten" => q # h.at)
  <2>1. CASE i \in DOMAIN toServer' /\ IsListen(toServer'[i], q)
    BY <2>1, <1>1 DEF Asked
  <2>2. CASE i = 0 /\ q \in active'
    <3>1. CASE h.op = "listen"
      <4>1. q \in active \/ q = h.at
        BY <2>2, <3>1
      <4>2. CASE q \in active
        BY <4>2, <2>2, <3>1 DEF Asked
      <4>3. CASE q = h.at
        <5>1. 0 + 1 = 1
          OBVIOUS
        <5>2. QED
          BY <4>3, <5>1, <2>2, <3>1, <1>3
      <4>4. QED
        BY <4>1, <4>2, <4>3
    <3>2. CASE h.op = "unlisten"
      BY <3>2, <2>2 DEF Asked
    <3>3. QED
      BY <3>1, <3>2, <1>2
  <2>3. QED
    BY <2>1, <2>2 DEF Asked
<1>5. ASSUME NEW q \in Place, NEW j \in Stopped(q)
      PROVE  /\ j \in Nat /\ j >= 1
             /\ \/ j = 1 /\ h.op = "unlisten" /\ h.at = q
                \/ j # 1 /\ j - 1 \in Stopped(q)'
  BY <1>1 DEF Stopped, IsUnlisten
<1>6. ASSUME NEW p \in Place, NEW i \in Asked(p)', NEW m \in Nat,
             \A k \in Asked(p) : k < m + 1 => \E j \in Stopped(p) : k < j /\ j < m + 1,
             i < m
      PROVE  \E j \in Stopped(p)' : i < j /\ j < m
  <2>1. i \in Nat
    BY <1>4
  <2>2. CASE i + 1 \in Asked(p)
    <3>1. PICK j \in Stopped(p) : i + 1 < j /\ j < m + 1
      BY <2>1, <2>2, <1>6
    <3>2. j \in Nat /\ j # 1
      BY <3>1, <2>1, <1>5
    <3>3. j - 1 \in Stopped(p)' /\ i < j - 1 /\ j - 1 < m
      BY <3>1, <3>2, <2>1, <1>5
    <3>4. QED
      BY <3>3
  <2>3. CASE i = 0 /\ i \in Asked(p) /\ (h.op = "unlisten" => p # h.at)
    <3>1. PICK j \in Stopped(p) : 0 < j /\ j < m + 1
      BY <2>3, <1>6
    <3>2. j \in Nat /\ j # 1 /\ j - 1 \in Stopped(p)'
      BY <2>3, <1>5
    <3>3. i < j - 1 /\ j - 1 < m
      BY <3>1, <3>2, <2>3
    <3>4. QED
      BY <3>2, <3>3
  <2>4. QED
    BY <2>2, <2>3, <1>4
<1>7. Alternate'
  <2> SUFFICES ASSUME NEW p \in Place, NEW i \in Asked(p)', NEW k \in Asked(p)', i < k
               PROVE  \E j \in Stopped(p)' : i < j /\ j < k
    BY DEF Alternate
  <2>1. i \in Nat /\ k \in Nat /\ k # 0
    BY <1>4
  <2>2. k + 1 \in Asked(p)
    BY <2>1, <1>4
  <2>3. \A m \in Asked(p) : m < k + 1 => \E j \in Stopped(p) : m < j /\ j < k + 1
    BY <2>2 DEF Sending, Alternate
  <2>4. QED
    BY <2>1, <2>3, <1>6
<1>8. Unasked'
  <2> SUFFICES ASSUME NEW p \in Place \ listens, NEW i \in Asked(p)'
               PROVE  \E j \in Stopped(p)' : i < j
    BY DEF Unasked
  <2>1. i \in Nat
    BY <1>4
  <2>2. CASE i + 1 \in Asked(p)
    <3>1. PICK j \in Stopped(p) : i + 1 < j
      BY <2>2 DEF Sending, Unasked
    <3>2. j \in Nat /\ j # 1
      BY <3>1, <2>1, <1>5
    <3>3. j - 1 \in Stopped(p)' /\ i < j - 1
      BY <3>1, <3>2, <2>1, <1>5
    <3>4. QED
      BY <3>3
  <2>3. CASE i = 0 /\ i \in Asked(p) /\ (h.op = "unlisten" => p # h.at)
    <3>1. PICK j \in Stopped(p) : 0 < j
      BY <2>3 DEF Sending, Unasked
    <3>2. j \in Nat /\ j # 1 /\ j - 1 \in Stopped(p)'
      BY <2>3, <1>5
    <3>3. i < j - 1
      BY <3>1, <3>2, <2>3
    <3>4. QED
      BY <3>2, <3>3
  <2>4. QED
    BY <2>2, <2>3, <1>4
<1>9. \A q \in Place : Asked(q) = {} => Asked(q)' = {}
  BY <1>4
<1>10. Unobserved'
  BY <1>9 DEF Sending, Unobserved
<1>11. TurnsGrow' /\ RootCurrent'
  <2>1. TurnsGrow'
    BY <1>1 DEF Sending, TurnsGrow
  <2>2. RootCurrent'
    BY <1>1 DEF Sending, RootCurrent
  <2>3. QED
    BY <2>1, <2>2
<1>12. ASSUME h.op = "listen", h.turn = started[h.at], NEW i \in Asked(h.at)'
       PROVE  i = 0
  <2> SUFFICES ASSUME i \in DOMAIN toServer', IsListen(toServer'[i], h.at)
               PROVE  FALSE
    BY DEF Asked
  <2> DEFINE f == toServer[i + 1]
  <2>1. /\ i + 1 \in DOMAIN toServer /\ 1 < i + 1 /\ IsListen(f, h.at)
        /\ IsListen(toServer[1], h.at) /\ toServer[1].turn = started[h.at]
    BY <1>1, <1>12 DEF IsListen
  <2>2. started[h.at] < f.turn
    BY <2>1, <1>1, <1>2 DEF Sending, TurnsGrow
  <2>3. f \in ToSet(toServer) /\ f \in Request
    BY <2>1, QueueTypes
  <2> HIDE DEF f
  <2>4. f.turn <= started[h.at] /\ f.turn \in Nat
    BY <2>1, <2>3, RequestFacts DEF Turns, IsListen
  <2>5. started[h.at] \in Nat
    BY <1>2 DEF TypeOK
  <2>6. QED
    BY <2>2, <2>4, <2>5
<1>13. QED
  BY <1>3, <1>7, <1>8, <1>9, <1>10, <1>11, <1>12 DEF Sending

LEMMA IdleStep == Idle /\ [Next]_vars => Idle'
<1> SUFFICES ASSUME Idle, [Next]_vars, ~connected'
             PROVE  toServer' = <<>> /\ toClient' = <<>> /\ active' = {}
  BY DEF Idle
<1>1. CASE ~connected
  <2>1. toServer = <<>> /\ toClient = <<>> /\ active = {}
    BY <1>1 DEF Idle
  <2>2. ASSUME NEW p \in Place, AddEventRegistration(p) \/ RemoveEventRegistration(p)
        PROVE  toServer' = toServer /\ toClient' = toClient /\ active' = active
    BY <1>1, <2>2 DEF AddEventRegistration, RemoveEventRegistration, SetupListener, HandOver, Send
  <2>3. ASSUME NEW c \in Child, NEW v \in Version, ServerChange(c, v)
        PROVE  toServer' = toServer /\ toClient' = toClient /\ active' = active
    BY <2>1, <2>3 DEF ServerChange
  <2>4. ~OnDataUpdate /\ ~OnListenResponse /\ ~OnDisconnect /\ ~RestoreState
    BY <1>1, <2>1 DEF OnDataUpdate, OnListenResponse, OnDisconnect, RestoreState
  <2>5. ~ServerListens /\ ~ServerUnlistens
    BY <2>1 DEF ServerListens, ServerUnlistens
  <2>6. CASE UNCHANGED vars
    BY <2>1, <2>6 DEF vars
  <2>7. QED
    BY <2>1, <2>2, <2>3, <2>4, <2>5, <2>6 DEF Next, Client, Server
<1>2. CASE connected
  <2>1. OnDisconnect
    BY <1>2 DEF Next, Client, Server, vars, AddEventRegistration, RemoveEventRegistration,
          OnDataUpdate, OnListenResponse, RestoreState, ServerListens, ServerUnlistens, ServerChange
  <2>2. QED
    BY <2>1 DEF OnDisconnect
<1>3. QED
  BY <1>1, <1>2

(* What is not asked for is not until it is listened to again. *)
StillUnasked ==
    \A q \in Place : started'[q] = started[q] /\ Asked(q) = {} => Asked(q)' = {}

LEMMA SendingSame ==
    ASSUME Sending, UNCHANGED <<toServer, started, listens, active>>, Observed \subseteq Observed'
    PROVE  Sending' /\ \A q : Asked(q)' = Asked(q)
<1>1. \A q : Asked(q)' = Asked(q) /\ Stopped(q)' = Stopped(q)
  BY DEF Asked, Stopped
<1>2. TurnsGrow' /\ RootCurrent'
  BY DEF Sending, TurnsGrow, RootCurrent
<1>3. Alternate' /\ Unasked'
  BY <1>1 DEF Sending, Alternate, Unasked
<1>4. Unobserved'
  BY <1>1 DEF Sending, Unobserved
<1>5. QED
  BY <1>1, <1>2, <1>3, <1>4 DEF Sending

LEMMA SendingAdd ==
    ASSUME TypeOK, ListensCover, Turns, Idle, Sending, NEW p \in Place, AddEventRegistration(p)
    PROVE  Sending' /\ \A q \in Place : q # p \/ p \in Observed => Asked(q)' = Asked(q)
<1> USE SyncTreeAssumption
<1>1. UNCHANGED <<connected, toClient, server, active, held>> /\ observers[p] \in Nat
  BY DEF AddEventRegistration, TypeOK
<1>2. CASE observers[p] # 0
  BY <1>1, <1>2, MoreObservers, SendingSame
<1>3. CASE observers[p] = 0
  <2> DEFINE data == ServerCacheForQuery(p)
  <2>1. /\ data \in Data /\ p \notin Observed /\ p \notin listens
        /\ Observed' = Observed \cup {p}
        /\ \/ UNCHANGED <<listens, started, toServer>>
           \/ SetupListener(p, data)
    BY <1>3, NewView
  <2>2. CASE UNCHANGED <<listens, started, toServer>>
    BY <1>1, <2>1, <2>2, SendingSame
  <2>3. CASE SetupListener(p, data)
    <3>1. PICK new \in Seq(Request) : SetUp(new, p, data) /\ Send(new)
      BY <2>1, <2>3, SetupFacts
    <3>2. listens' = (listens \ Below(p)) \cup {p} /\ Starting({p})
      BY <2>3 DEF SetupListener
    <3> HIDE DEF data
    <3>3. CASE ~connected
      <4>1. toServer' = <<>> /\ active' = {} /\ active = {} /\ toServer = <<>>
        BY <1>1, <3>1, <3>3 DEF Send, Idle
      <4>2. Sending' /\ \A q : Asked(q)' = {}
        BY <4>1, SendingNothing
      <4>3. \A q : Asked(q) = {}
        BY <4>1 DEF Asked
      <4>4. QED
        BY <4>2, <4>3
    <3>4. CASE connected
      <4> DEFINE S == {p}
      <4>1. /\ toServer' = toServer \o new /\ active' = active
            /\ S \in SUBSET Place /\ S \cap listens = {}
        BY <1>1, <2>1, <3>1, <3>4 DEF Send
      <4>2. \A q \in Place : started'[q] = IF q \in S THEN started[q] + 1 ELSE started[q]
        BY <3>2, Started
      <4>3. \A i \in DOMAIN new :
               \/ \E q \in S : IsListen(new[i], q) /\ new[i].turn = started[q] + 1
               \/ \E q \in Child \ S : IsUnlisten(new[i], q)
        <5>1. IsListen(new[1], p) /\ new[1].turn = started[p] + 1
          BY <3>1 DEF SetUp, IsListen, Listen
        <5>2. Below(p) \cap listens \subseteq Child \ S
          BY DEF Below
        <5>3. QED
          BY <3>1, <5>1, <5>2 DEF SetUp
      <4>4. \A i, j \in DOMAIN new :
               new[i].op = "listen" /\ new[j].op = "listen" /\ new[i].at = new[j].at => i = j
        BY <3>1 DEF SetUp, IsUnlisten
      <4>5. \A q \in Place \ listens' :
               /\ q \notin S
               /\ \/ q \notin listens \/ Asked(q) = {}
                  \/ \E i \in DOMAIN new : IsUnlisten(new[i], q)
        BY <3>1, <3>2 DEF SetUp
      <4>6. \A q \in Place \ Observed' : q \notin S /\ (q \notin Observed \/ Asked(q) = {})
        BY <2>1
      <4>7. Root \in S => Root \notin Observed
        BY <2>1
      <4> HIDE DEF S
      <4>8. Sending' /\ \A q \in Place \ S : Asked(q)' = Asked(q)
        BY <4>1, <4>2, <4>3, <4>4, <4>5, <4>6, <4>7, SendingMore
      <4>9. QED
        BY <4>8, <2>1 DEF S
    <3>5. QED
      BY <3>3, <3>4
  <2>4. QED
    BY <2>1, <2>2, <2>3
<1>4. QED
  BY <1>2, <1>3

LEMMA SendingRefused ==
    ASSUME TypeOK, ListensCover, Turns, Sending, connected, UNCHANGED active,
           NEW p \in listens, Asked(p) = {}, RemoveView(p), HandOver(p, <<>>)
    PROVE  Sending' /\ StillUnasked
<1> USE SyncTreeAssumption
<1> DEFINE S == Below(p) \cap Observed
<1>1. p \in Place /\ listens \subseteq Observed /\ Observed \subseteq Place
  BY DEF TypeOK, ListensCover, Observed
<1>2. PICK new \in Seq(Request) :
        /\ Handed(new, p) /\ Send(new)
        /\ \A i \in DOMAIN new : new[i].op = "listen"
  BY <1>1, HandOverFacts
<1>3. listens' = (listens \ {p}) \cup S /\ Starting(S)
  BY DEF HandOver
<1>4. Observed' = Observed \ {p}
  BY <1>1, ViewGone
<1>5. S \in SUBSET Place /\ S \cap listens = {} /\ p \notin S /\ Root \notin S
  BY <1>1 DEF Below, ListensCover, Covered, Observed
<1>6. toServer' = toServer \o new
  BY <1>2 DEF Send
<1>7. \A i \in DOMAIN new :
         \/ \E q \in S : IsListen(new[i], q) /\ new[i].turn = started[q] + 1
         \/ \E q \in Child \ S : IsUnlisten(new[i], q)
  <2> SUFFICES ASSUME NEW i \in DOMAIN new
               PROVE  \E q \in S : IsListen(new[i], q) /\ new[i].turn = started[q] + 1
    OBVIOUS
  <2>1. PICK q \in S : new[i] = Listen(q, started[q] + 1, cache[q])
    BY <1>2 DEF Handed, IsUnlisten
  <2>2. QED
    BY <2>1 DEF Listen, IsListen
<1>8. \A i, j \in DOMAIN new :
         new[i].op = "listen" /\ new[j].op = "listen" /\ new[i].at = new[j].at => i = j
  BY <1>2 DEF Handed
<1>9. \A q \in Place \ listens' :
         /\ q \notin S
         /\ \/ q \notin listens \/ Asked(q) = {}
            \/ \E i \in DOMAIN new : IsUnlisten(new[i], q)
  BY <1>3
<1>10. \A q \in Place \ Observed' : q \notin S /\ (q \notin Observed \/ Asked(q) = {})
  BY <1>4, <1>5
<1> HIDE DEF S
<1>11. \A q \in Place : started'[q] = IF q \in S THEN started[q] + 1 ELSE started[q]
  BY <1>3, Started
<1>12. Sending' /\ \A q \in Place \ S : Asked(q)' = Asked(q)
  BY <1>5, <1>6, <1>7, <1>8, <1>9, <1>10, <1>11, SendingMore
<1>13. \A q \in Place : started'[q] = started[q] => q \notin S
  BY <1>11 DEF TypeOK
<1>14. QED
  BY <1>12, <1>13 DEF StillUnasked

LEMMA SendingRestored ==
    ASSUME TypeOK, ListensCover, Idle, RestoreState
    PROVE  Sending'
<1>1. /\ UNCHANGED <<observers, cache, listens, started, active>>
      /\ ~connected /\ listens \in SUBSET Place
  BY DEF RestoreState, TypeOK
<1>2. active' = {} /\ Observed' = Observed /\ listens \subseteq Observed
  BY <1>1 DEF Idle, Observed, ListensCover
<1>3. PICK order \in Orders(listens) :
        toServer' = [i \in DOMAIN order |->
            Listen(order[i], started[order[i]], cache[order[i]])]
  BY DEF RestoreState
<1>4. order \in Seq(listens) /\ \A i, j \in DOMAIN order : order[i] = order[j] => i = j
  BY <1>1, <1>3, OrderFacts
<1>5. \A i \in DOMAIN order : order[i] \in listens
  BY <1>4
<1>6. /\ DOMAIN toServer' = DOMAIN order
      /\ \A i \in DOMAIN toServer' :
            /\ toServer'[i].op = "listen" /\ toServer'[i].at = order[i]
            /\ toServer'[i].turn = started[order[i]]
  BY <1>3 DEF Listen
<1>7. DOMAIN toServer' \subseteq Nat
  BY <1>4, <1>6
<1>8. \A q : Asked(q)' = {i \in DOMAIN toServer' : order[i] = q}
  BY <1>2, <1>6 DEF Asked, IsListen
<1>9. \A q : \A i, k \in Asked(q)' : i \in Nat /\ ~(i < k)
  BY <1>4, <1>6, <1>7, <1>8
<1>10. \A q : q \notin listens => Asked(q)' = {}
  BY <1>5, <1>6, <1>8
<1>11. TurnsGrow'
  BY <1>4, <1>6, <1>7 DEF TurnsGrow, IsListen
<1>12. Alternate'
  BY <1>9 DEF Alternate
<1>13. Unasked' /\ Unobserved'
  BY <1>1, <1>2, <1>10 DEF Unasked, Unobserved
<1>14. RootCurrent'
  BY <1>1, <1>6 DEF RootCurrent, IsListen, IsUnlisten
<1>15. QED
  BY <1>11, <1>12, <1>13, <1>14 DEF Sending

-----------------------------------------------------------------------------
(* Answers, as long as no observer is removed *)

(* What the client completes a view for when it reads it *)
Completes(f, p, turn) == IsData(f, p) \/ (f.op = "ok" /\ f.at = p /\ f.turn = turn)

(* What is refused is asked for no longer, and no data of it comes behind. *)
Refused ==
    \A k \in DOMAIN toClient :
        LET f == toClient[k] IN
        f.op = "denied" /\ f.at \in listens /\ f.turn = started[f.at] =>
            /\ Asked(f.at) = {}
            /\ f.at # Root => \A m \in DOMAIN toClient : m > k => ~IsData(toClient[m], f.at)

(* The list that the server sends changes of has come, or is coming. *)
RootComing ==
    Root \in active =>
        Root \in complete \/ \E j \in DOMAIN toClient : Completes(toClient[j], Root, started[Root])

(* Data of an entry that has no view is sent because of the list, and      *)
(* behind it.                                                              *)
DataAsked ==
    \A k \in DOMAIN toClient : \A c \in Child \ Observed :
        IsData(toClient[k], c) =>
            /\ Root \in active
            /\ \/ Root \in complete
               \/ \E j \in DOMAIN toClient : j < k /\ Completes(toClient[j], Root, started[Root])

Answers == Refused /\ RootComing /\ DataAsked

(* The first d frames are read, and perhaps listens started: those refused *)
(* stay refused.                                                           *)
LEMMA AnswersBehind ==
    ASSUME TypeOK, Turns, Answers, NEW d \in Nat,
           \A k \in DOMAIN toClient' :
              k \in Nat /\ k > 0 /\ k + d \in DOMAIN toClient /\ toClient'[k] = toClient[k + d],
           \A k \in DOMAIN toClient :
              k <= d \/ (k - d \in DOMAIN toClient' /\ toClient'[k - d] = toClient[k]),
           \A p \in listens' :
              started'[p] = started[p] + 1 \/ (p \in listens /\ started'[p] = started[p]),
           StillUnasked, listens' \subseteq Place,
           Root \in active' => Root \in active,
           Root \in active =>
              /\ Root \in active' /\ started'[Root] = started[Root]
              /\ Root \in complete => Root \in complete'
              /\ \A k \in DOMAIN toClient :
                    k <= d /\ Completes(toClient[k], Root, started[Root]) => Root \in complete',
           \A c \in Child \ Observed' :
              c \notin Observed \/ \A k \in DOMAIN toClient : k > d => ~IsData(toClient[k], c)
    PROVE  Answers'
<1>1. \A k \in DOMAIN toClient : k \in Nat
  <2>1. toClient \in Seq(Reply)
    BY DEF TypeOK
  <2>2. QED
    BY <2>1
<1>2. Refused'
  <2> SUFFICES ASSUME NEW k \in DOMAIN toClient', NEW f, f = toClient'[k], f.op = "denied",
                      f.at \in listens', f.turn = started'[f.at]
               PROVE  /\ Asked(f.at)' = {}
                      /\ f.at # Root =>
                            \A m \in DOMAIN toClient' : m > k => ~IsData(toClient'[m], f.at)
    BY DEF Refused
  <2>1. k + d \in DOMAIN toClient /\ f = toClient[k + d] /\ k \in Nat
    OBVIOUS
  <2>2. f \in Reply /\ f \in ToSet(toClient)
    BY <2>1, QueueTypes
  <2>3. f.at \in Place /\ f.turn \in Nat /\ f.turn <= started[f.at] /\ started[f.at] \in Nat
    BY <2>2, ReplyFacts DEF Turns, TypeOK
  <2>4. f.at \in listens /\ started'[f.at] = started[f.at]
    BY <2>3
  <2>5. /\ Asked(f.at) = {}
        /\ f.at # Root => \A m \in DOMAIN toClient : m > k + d => ~IsData(toClient[m], f.at)
    <3>1. PICK i \in DOMAIN toClient : i = k + d
      BY <2>1
    <3>2. f = toClient[i]
      BY <2>1, <3>1
    <3>3. /\ Asked(f.at) = {}
          /\ f.at # Root => \A m \in DOMAIN toClient : m > i => ~IsData(toClient[m], f.at)
      BY <3>2, <2>4 DEF Answers, Refused
    <3>4. QED
      BY <3>1, <3>3
  <2>6. Asked(f.at)' = {}
    BY <2>3, <2>4, <2>5 DEF StillUnasked
  <2>7. ASSUME f.at # Root, NEW m \in DOMAIN toClient', m > k
        PROVE  ~IsData(toClient'[m], f.at)
    <3>1. m + d \in DOMAIN toClient /\ toClient'[m] = toClient[m + d] /\ m + d > k + d
      BY <2>1, <2>7
    <3>2. QED
      BY <3>1, <2>5, <2>7
  <2>8. QED
    BY <2>6, <2>7
<1>3. ASSUME Root \in active, NEW j \in DOMAIN toClient, Completes(toClient[j], Root, started[Root])
      PROVE  \/ Root \in complete'
             \/ j - d \in DOMAIN toClient' /\ Completes(toClient'[j - d], Root, started'[Root])
  BY <1>3 DEF Completes
<1>4. RootComing'
  BY <1>3 DEF Answers, RootComing
<1>5. DataAsked'
  <2> SUFFICES ASSUME NEW k \in DOMAIN toClient', NEW c \in Child \ Observed',
                      IsData(toClient'[k], c)
               PROVE  /\ Root \in active'
                      /\ \/ Root \in complete'
                         \/ \E j \in DOMAIN toClient' : j < k /\ Completes(toClient'[j], Root, started'[Root])
    BY DEF DataAsked
  <2>1. k \in Nat /\ k + d > d /\ k + d \in DOMAIN toClient /\ IsData(toClient[k + d], c)
    OBVIOUS
  <2>2. c \notin Observed
    BY <2>1
  <2>3. /\ Root \in active
        /\ \/ Root \in complete
           \/ \E j \in DOMAIN toClient : j < k + d /\ Completes(toClient[j], Root, started[Root])
    BY <2>1, <2>2 DEF Answers, DataAsked
  <2>4. CASE Root \in complete
    BY <2>3, <2>4
  <2>5. ASSUME NEW j \in DOMAIN toClient, j < k + d, Completes(toClient[j], Root, started[Root])
        PROVE  \/ Root \in complete'
               \/ \E i \in DOMAIN toClient' : i < k /\ Completes(toClient'[i], Root, started'[Root])
    <3>1. j - d < k
      BY <2>1, <2>5, <1>1
    <3>2. QED
      BY <3>1, <2>3, <2>5, <1>3
  <2>6. QED
    BY <2>3, <2>4, <2>5
<1>6. QED
  BY <1>2, <1>4, <1>5 DEF Answers

(* The server adds frames: data of an entry only if it or the list is      *)
(* asked for.                                                              *)
LEMMA AnswersMore ==
    ASSUME TypeOK, ListensCover, Sending, Answers,
           NEW new \in Seq(Reply), toClient' = toClient \o new,
           UNCHANGED <<listens, started, complete, Observed>>, StillUnasked,
           Root \in active => Root \in active',
           Root \in active' => Root \in active \/ \E i \in DOMAIN new : Completes(new[i], Root, started[Root]),
           \A i \in DOMAIN new, c \in Child :
              IsData(new[i], c) => Asked(c) # {} \/ Root \in active,
           \A i \in DOMAIN new :
              new[i].op = "denied" /\ new[i].at \in listens /\ new[i].turn = started[new[i].at] =>
                 /\ Asked(new[i].at)' = {}
                 /\ \A m \in DOMAIN new : ~IsData(new[m], new[i].at)
    PROVE  Answers'
<1> USE SyncTreeAssumption
<1> DEFINE n == Len(toClient)
<1>1. /\ n \in Nat
      /\ \A k \in DOMAIN toClient :
            k \in Nat /\ k <= n /\ k \in DOMAIN toClient' /\ toClient'[k] = toClient[k]
      /\ \A i \in DOMAIN new :
            i \in Nat /\ i > 0 /\ n + i \in DOMAIN toClient' /\ toClient'[n + i] = new[i]
      /\ \A k \in DOMAIN toClient' :
            \/ k \in DOMAIN toClient
            \/ /\ k \in Nat /\ k > n
               /\ k - n \in DOMAIN new /\ toClient'[k] = new[k - n]
  BY ClientMore
<1> HIDE DEF n
<1>2. ASSUME NEW f, Completes(f, Root, started[Root])
      PROVE  Completes(f, Root, started'[Root])
  BY <1>2 DEF Completes
<1>3. Refused'
  <2> SUFFICES ASSUME NEW k \in DOMAIN toClient', NEW f, f = toClient'[k], f.op = "denied",
                      f.at \in listens, f.turn = started[f.at]
               PROVE  /\ Asked(f.at)' = {}
                      /\ f.at # Root =>
                            \A m \in DOMAIN toClient' : m > k => ~IsData(toClient'[m], f.at)
    BY DEF Refused
  <2>0. f.at \in Place
    BY DEF TypeOK
  <2>1. CASE k \in DOMAIN toClient
    <3>1. f = toClient[k]
      BY <2>1, <1>1
    <3>2. /\ Asked(f.at) = {}
          /\ f.at # Root => \A m \in DOMAIN toClient : m > k => ~IsData(toClient[m], f.at)
      BY <3>1, <2>1 DEF Answers, Refused
    <3>3. Asked(f.at)' = {}
      BY <3>2, <2>0 DEF StillUnasked
    <3>4. ASSUME f.at # Root, NEW m \in DOMAIN toClient', m > k, IsData(toClient'[m], f.at)
          PROVE  FALSE
      <4>1. Root \notin Observed
        BY <3>4 DEF ListensCover, Covered, Observed
      <4>2. Root \notin active
        <5>1. Asked(Root) = {}
          BY <4>1 DEF Sending, Unobserved
        <5>2. QED
          BY <5>1 DEF Asked
      <4>3. CASE m \in DOMAIN toClient
        BY <4>3, <3>2, <3>4, <1>1
      <4>4. CASE m \notin DOMAIN toClient
        <5>1. m - n \in DOMAIN new /\ IsData(new[m - n], f.at)
          BY <4>4, <3>4, <1>1
        <5>2. f.at \in Child
          BY <2>0, <3>4
        <5>3. QED
          BY <5>1, <5>2, <4>2, <3>2
      <4>5. QED
        BY <4>3, <4>4
    <3>5. QED
      BY <3>3, <3>4
  <2>2. CASE k \notin DOMAIN toClient
    <3>1. k \in Nat /\ k > n /\ k - n \in DOMAIN new /\ f = new[k - n]
      BY <2>2, <1>1
    <3>2. Asked(f.at)' = {} /\ \A m \in DOMAIN new : ~IsData(new[m], f.at)
      BY <3>1
    <3>3. ASSUME NEW m \in DOMAIN toClient', m > k
          PROVE  ~IsData(toClient'[m], f.at)
      <4>1. m \notin DOMAIN toClient
        BY <3>1, <3>3, <1>1
      <4>2. QED
        BY <4>1, <3>2, <1>1
    <3>4. QED
      BY <3>2, <3>3
  <2>3. QED
    BY <2>1, <2>2
<1>4. RootComing'
  <2> SUFFICES ASSUME Root \in active', Root \notin complete
               PROVE  \E j \in DOMAIN toClient' : Completes(toClient'[j], Root, started'[Root])
    BY DEF RootComing
  <2>1. CASE Root \in active
    <3>1. PICK j \in DOMAIN toClient : Completes(toClient[j], Root, started[Root])
      BY <2>1 DEF Answers, RootComing
    <3>2. QED
      BY <3>1, <1>1, <1>2
  <2>2. CASE \E i \in DOMAIN new : Completes(new[i], Root, started[Root])
    BY <2>2, <1>1, <1>2
  <2>3. QED
    BY <2>1, <2>2
<1>5. DataAsked'
  <2> SUFFICES ASSUME NEW k \in DOMAIN toClient', NEW c \in Child \ Observed,
                      IsData(toClient'[k], c)
               PROVE  /\ Root \in active'
                      /\ \/ Root \in complete
                         \/ \E j \in DOMAIN toClient' : j < k /\ Completes(toClient'[j], Root, started'[Root])
    BY DEF DataAsked
  <2>1. CASE k \in DOMAIN toClient
    <3>1. /\ Root \in active
          /\ \/ Root \in complete
             \/ \E j \in DOMAIN toClient : j < k /\ Completes(toClient[j], Root, started[Root])
      BY <2>1, <1>1 DEF Answers, DataAsked
    <3>2. QED
      BY <3>1, <1>1, <1>2
  <2>2. CASE k \notin DOMAIN toClient
    <3>1. k \in Nat /\ k > n /\ k - n \in DOMAIN new /\ IsData(new[k - n], c)
      BY <2>2, <1>1
    <3>2. Asked(c) = {}
      BY DEF Sending, Unobserved
    <3>3. Root \in active
      BY <3>1, <3>2
    <3>4. Root \in complete \/ \E j \in DOMAIN toClient : Completes(toClient[j], Root, started[Root])
      BY <3>3 DEF Answers, RootComing
    <3>5. \A j \in DOMAIN toClient : j < k
      BY <3>1, <1>1
    <3>6. QED
      BY <3>3, <3>4, <3>5, <1>1, <1>2
  <2>3. QED
    BY <2>1, <2>2
<1>6. QED
  BY <1>3, <1>4, <1>5 DEF Answers

(* A client without frames and a server without listens *)
LEMMA AnswersNothing ==
    ASSUME toClient' = <<>>, active' = {}
    PROVE  Answers'
<1>1. DOMAIN toClient' = {}
  OBVIOUS
<1>2. QED
  BY <1>1 DEF Answers, Refused, RootComing, DataAsked

(* The first frame is the answer to the listen there is now, or is data. *)
LEMMA HeadRefused ==
    ASSUME TypeOK, ListensCover, Sending, Answers, toClient # <<>>,
           NEW h, h = Head(toClient), h.op = "denied", CurrentListen(h)
    PROVE  /\ h.at \in listens /\ Asked(h.at) = {} /\ Root \notin active
           /\ h.at # Root =>
                 /\ Root \notin Observed
                 /\ \A m \in DOMAIN toClient : m > 1 => ~IsData(toClient[m], h.at)
<1>1. 1 \in DOMAIN toClient /\ toClient[1] = h
  <2>1. toClient \in Seq(Reply)
    BY DEF TypeOK
  <2>2. QED
    BY <2>1, TailFacts
<1>2. /\ h.at \in listens /\ Asked(h.at) = {}
      /\ h.at # Root => \A m \in DOMAIN toClient : m > 1 => ~IsData(toClient[m], h.at)
  BY <1>1 DEF CurrentListen, Answers, Refused
<1>3. h.at # Root => Root \notin Observed
  BY <1>2 DEF ListensCover, Covered, Observed
<1>4. Asked(Root) = {}
  BY <1>2, <1>3 DEF Sending, Unobserved
<1>5. QED
  BY <1>2, <1>3, <1>4 DEF Asked

(* No frame read, or one *)
LEMMA AnswersSame ==
    ASSUME TypeOK, Turns, Answers, toClient' = toClient,
           \A p \in listens' :
              started'[p] = started[p] + 1 \/ (p \in listens /\ started'[p] = started[p]),
           StillUnasked, listens' \subseteq Place,
           Root \in active' <=> Root \in active,
           Root \in active => started'[Root] = started[Root] /\ (Root \in complete => Root \in complete'),
           Observed \subseteq Observed'
    PROVE  Answers'
<1>1. \A k \in DOMAIN toClient : k \in Nat /\ k > 0
  <2>1. toClient \in Seq(Reply)
    BY DEF TypeOK
  <2>2. QED
    BY <2>1
<1>2. /\ \A k \in DOMAIN toClient' :
            k \in Nat /\ k > 0 /\ k + 0 \in DOMAIN toClient /\ toClient'[k] = toClient[k + 0]
      /\ \A k \in DOMAIN toClient :
            k <= 0 \/ (k - 0 \in DOMAIN toClient' /\ toClient'[k - 0] = toClient[k])
  <2>1. \A k \in DOMAIN toClient : k + 0 = k /\ k - 0 = k
    BY <1>1
  <2>2. QED
    BY <1>1, <2>1
<1>3. Root \in active =>
         /\ Root \in active' /\ started'[Root] = started[Root]
         /\ Root \in complete => Root \in complete'
         /\ \A k \in DOMAIN toClient :
               k <= 0 /\ Completes(toClient[k], Root, started[Root]) => Root \in complete'
  BY <1>1
<1>4. Root \in active' => Root \in active
  OBVIOUS
<1>5. \A c \in Child \ Observed' :
         c \notin Observed \/ \A k \in DOMAIN toClient : k > 0 => ~IsData(toClient[k], c)
  OBVIOUS
<1>6. QED
  BY <1>2, <1>3, <1>4, <1>5, 0 \in Nat, AnswersBehind

LEMMA AnswersTail ==
    ASSUME TypeOK, Turns, Answers, toClient # <<>>, toClient' = Tail(toClient),
           \A p \in listens' :
              started'[p] = started[p] + 1 \/ (p \in listens /\ started'[p] = started[p]),
           StillUnasked, listens' \subseteq Place,
           UNCHANGED active,
           Root \in active =>
              /\ started'[Root] = started[Root]
              /\ Root \in complete => Root \in complete'
              /\ Completes(Head(toClient), Root, started[Root]) => Root \in complete',
           \A c \in Child \ Observed' :
              c \notin Observed \/ \A k \in DOMAIN toClient : k > 1 => ~IsData(toClient[k], c)
    PROVE  Answers'
<1>1. /\ toClient[1] = Head(toClient)
      /\ DOMAIN toClient \subseteq Nat /\ DOMAIN toClient' \subseteq Nat
      /\ \A k \in DOMAIN toClient' : /\ k + 1 \in DOMAIN toClient /\ k >= 1
                                     /\ toClient'[k] = toClient[k + 1]
      /\ \A k \in DOMAIN toClient :
            k = 1 \/ (k - 1 \in DOMAIN toClient' /\ toClient'[k - 1] = toClient[k])
  BY ClientTail
<1>2. /\ \A k \in DOMAIN toClient' :
            k \in Nat /\ k > 0 /\ k + 1 \in DOMAIN toClient /\ toClient'[k] = toClient[k + 1]
      /\ \A k \in DOMAIN toClient :
            k <= 1 \/ (k - 1 \in DOMAIN toClient' /\ toClient'[k - 1] = toClient[k])
  BY <1>1
<1>3. \A k \in DOMAIN toClient : k <= 1 => k = 1
  <2>1. toClient \in Seq(Reply)
    BY DEF TypeOK
  <2>2. QED
    BY <2>1
<1>4. Root \in active =>
         /\ Root \in active' /\ started'[Root] = started[Root]
         /\ Root \in complete => Root \in complete'
         /\ \A k \in DOMAIN toClient :
               k <= 1 /\ Completes(toClient[k], Root, started[Root]) => Root \in complete'
  BY <1>1, <1>3
<1>5. Root \in active' => Root \in active
  OBVIOUS
<1>6. QED
  BY <1>2, <1>4, <1>5, 1 \in Nat, AnswersBehind

-----------------------------------------------------------------------------
(* Views, as long as no observer is removed *)

(* Views of an entry and of the list have the same of it, complete or not; *)
(* a list that is not complete has nothing of what has no view, and an     *)
(* entry's view that is not complete nothing at all.                       *)
BothSame == \A c \in Child : {c, Root} \subseteq Observed => cache[c][c] = cache[Root][c]
NothingYet == Root \in Observed \ complete => \A c \in Child \ Observed : cache[Root][c] = None
EmptyYet == \A c \in Child \cap Observed : c \notin complete => cache[c][c] = None
RootCompletes == Root \in complete => Observed \subseteq complete

Same == BothSame /\ NothingYet /\ EmptyYet /\ RootCompletes

LEMMA SameAdd ==
    ASSUME TypeOK, ListensCover, Same, NEW p \in Place, AddEventRegistration(p)
    PROVE  Same'
<1> USE SyncTreeAssumption
<1>1. CASE observers[p] # 0
  <2>1. UNCHANGED <<cache, complete, Observed>>
    BY <1>1, MoreObservers
  <2>2. QED
    BY <2>1 DEF Same, BothSame, NothingYet, EmptyYet, RootCompletes
<1>2. CASE observers[p] = 0
  <2> DEFINE data == ServerCacheForQuery(p)
  <2>1. /\ data \in Data /\ p \notin Observed
        /\ Observed' = Observed \cup {p}
        /\ cache'[p] = data
        /\ \A q \in Place : q # p => cache'[q] = cache[q]
        /\ complete' = complete \cup {q \in {p} : SeedsComplete(q)}
    BY <1>2, NewView
  <2>2. /\ complete \subseteq Observed /\ p \notin complete
        /\ cache \in [Place -> Data]
    BY <2>1 DEF TypeOK
  <2>3. CASE p = Root
    <3>1. \A c \in Child : data[c] = IF c \in complete THEN cache[c][c] ELSE None
      BY <2>3 DEF ServerCacheForQuery, SeedsComplete
    <3> HIDE DEF data
    <3>2. complete' = complete
      BY <2>1, <2>3 DEF SeedsComplete
    <3>3. BothSame'
      BY <2>1, <2>2, <2>3, <3>1 DEF Same, BothSame, EmptyYet
    <3>4. NothingYet'
      BY <2>1, <2>2, <2>3, <3>1 DEF NothingYet
    <3>5. EmptyYet' /\ RootCompletes'
      BY <2>1, <2>2, <2>3, <3>2 DEF Same, EmptyYet, RootCompletes
    <3>6. QED
      BY <3>3, <3>4, <3>5 DEF Same
  <2>4. CASE p # Root /\ Root \in complete
    <3>1. data[p] = cache[Root][p]
      BY <2>4 DEF ServerCacheForQuery, SeedsComplete, Part, Under
    <3> HIDE DEF data
    <3>2. complete' = complete \cup {p}
      BY <2>1, <2>4 DEF SeedsComplete
    <3>3. BothSame'
      BY <2>1, <2>4, <3>1 DEF Same, BothSame
    <3>4. NothingYet'
      BY <2>4, <3>2 DEF NothingYet
    <3>5. EmptyYet' /\ RootCompletes'
      BY <2>1, <2>4, <3>2 DEF Same, EmptyYet, RootCompletes
    <3>6. QED
      BY <3>3, <3>4, <3>5 DEF Same
  <2>5. CASE p # Root /\ Root \notin complete
    <3>1. data[p] = None
      BY <2>5 DEF ServerCacheForQuery, SeedsComplete
    <3> HIDE DEF data
    <3>2. complete' = complete
      BY <2>1, <2>5 DEF SeedsComplete
    <3>3. BothSame'
      BY <2>1, <2>5, <3>1 DEF Same, BothSame, NothingYet
    <3>4. NothingYet'
      BY <2>1, <2>5, <3>2 DEF Same, NothingYet
    <3>5. EmptyYet' /\ RootCompletes'
      BY <2>1, <2>5, <3>1, <3>2 DEF Same, EmptyYet, RootCompletes
    <3>6. QED
      BY <3>3, <3>4, <3>5 DEF Same
  <2>6. QED
    BY <2>3, <2>4, <2>5
<1>3. QED
  BY <1>1, <1>2

LEMMA SameData ==
    ASSUME TypeOK, Same, DataAsked, OnDataUpdate
    PROVE  Same'
<1> USE SyncTreeAssumption
<1> DEFINE p == Head(toClient).at
           data == Head(toClient).data
<1>1. /\ p \in Place /\ data \in Data /\ Head(toClient).op = "data"
      /\ Observed' = Observed
      /\ complete' = complete \cup {q \in Observed : Under(q) \subseteq Under(p)}
      /\ \A q \in Place, c \in Child :
            cache'[q][c] = IF q \in Observed /\ c \in Under(p) \cap Under(q)
                           THEN data[c] ELSE cache[q][c]
  BY DataUpdated
<1>2. ASSUME NEW c \in Child \ Observed, p = c
      PROVE  Root \in complete
  <2>1. toClient[1] = Head(toClient) /\ 1 \in DOMAIN toClient /\ DOMAIN toClient \subseteq Nat
    BY ClientTail DEF OnDataUpdate
  <2>2. \A j \in DOMAIN toClient : ~(j < 1)
    <3>1. toClient \in Seq(Reply)
      BY DEF TypeOK
    <3>2. QED
      BY <3>1
  <2>3. IsData(toClient[1], c)
    BY <1>1, <1>2, <2>1 DEF IsData
  <2>4. QED
    BY <2>1, <2>2, <2>3 DEF DataAsked
<1> HIDE DEF p, data
<1>3. /\ Under(Root) = Child /\ \A c \in Child : Under(c) = {c}
      /\ Observed \subseteq Place
  BY DEF Under, Observed
<1>4. BothSame'
  BY <1>1, <1>3 DEF Same, BothSame
<1>5. NothingYet'
  <2> SUFFICES ASSUME Root \in Observed, Root \notin complete', NEW c \in Child \ Observed
               PROVE  cache'[Root][c] = None
    BY <1>1 DEF NothingYet
  <2>1. Root \notin complete /\ p # Root
    BY <1>1, <1>3
  <2>2. p # c
    BY <1>2, <2>1
  <2>3. c \notin Under(p)
    BY <1>1, <1>3, <2>1, <2>2
  <2>4. QED
    BY <1>1, <2>1, <2>3 DEF Same, NothingYet
<1>6. EmptyYet'
  <2> SUFFICES ASSUME NEW c \in Child \cap Observed, c \notin complete'
               PROVE  cache'[c][c] = None
    BY <1>1 DEF EmptyYet
  <2>1. c \notin complete /\ c \notin Under(p)
    BY <1>1, <1>3
  <2>2. QED
    BY <1>1, <2>1 DEF Same, EmptyYet
<1>7. RootCompletes'
  BY <1>1, <1>3 DEF Same, RootCompletes, Under
<1>8. QED
  BY <1>4, <1>5, <1>6, <1>7 DEF Same

LEMMA SameOk ==
    ASSUME Same, NEW p \in Place, UNCHANGED <<observers, cache>>,
           complete' = complete \cup ListenComplete(p)
    PROVE  Same'
<1>1. Observed' = Observed /\ Observed \subseteq Place
  BY DEF Observed
<1>2. complete \subseteq complete' /\ complete' = complete \cup {q \in Observed : Under(q) \subseteq Under(p)}
  BY DEF ListenComplete
<1>3. BothSame' /\ NothingYet' /\ EmptyYet'
  BY <1>1, <1>2 DEF Same, BothSame, NothingYet, EmptyYet
<1>4. RootCompletes'
  <2>1. \A q \in Place : Under(q) \subseteq Under(Root)
    BY DEF Under
  <2>2. QED
    BY <1>1, <1>2, <2>1 DEF Same, RootCompletes
<1>5. QED
  BY <1>3, <1>4 DEF Same

LEMMA SameRefused ==
    ASSUME TypeOK, Same, NEW p \in Place, RemoveView(p), p # Root => Root \notin Observed
    PROVE  Same'
<1>1. /\ Observed' = Observed \ {p} /\ complete' = complete \ {p}
      /\ \A q \in Place : q # p => cache'[q] = cache[q]
      /\ complete \subseteq Observed
  BY ViewGone DEF TypeOK
<1>2. BothSame' /\ NothingYet' /\ EmptyYet' /\ RootCompletes'
  BY <1>1 DEF Same, BothSame, NothingYet, EmptyYet, RootCompletes
<1>3. QED
  BY <1>2 DEF Same

-----------------------------------------------------------------------------
(* All three together *)

Agreeing == Sending /\ Answers /\ Same
AgreeInv == count["remove"] = 0 => Agreeing

LEMMA AgreeInit == Init => Idle /\ AgreeInv
<1> SUFFICES ASSUME Init PROVE Idle /\ AgreeInv
  OBVIOUS
<1>1. /\ toServer = <<>> /\ toClient = <<>> /\ active = {} /\ complete = {}
      /\ DOMAIN <<>> = {} /\ Observed = {}
  BY DEF Init, Observed
<1>2. \A p : Asked(p) = {}
  BY <1>1 DEF Asked
<1>3. Sending
  BY <1>1, <1>2 DEF Sending, TurnsGrow, Alternate, Unasked, Unobserved, RootCurrent
<1>4. Answers
  BY <1>1 DEF Answers, Refused, RootComing, DataAsked
<1>5. Same
  BY <1>1 DEF Same, BothSame, NothingYet, EmptyYet, RootCompletes
<1>6. QED
  BY <1>1, <1>3, <1>4, <1>5 DEF Idle, AgreeInv, Agreeing

LEMMA AgreeAdd ==
    ASSUME TypeOK, ListensCover, Turns, Idle, Agreeing, NEW p \in Place, AddEventRegistration(p)
    PROVE  Agreeing'
<1> USE SyncTreeAssumption
<1>1. UNCHANGED <<connected, toClient, server, active, held>> /\ observers[p] \in Nat
  BY DEF AddEventRegistration, TypeOK
<1>2. Sending' /\ \A q \in Place : q # p \/ p \in Observed => Asked(q)' = Asked(q)
  BY SendingAdd DEF Agreeing
<1>3. Same'
  BY SameAdd DEF Agreeing
<1>4. /\ Observed \subseteq Observed' /\ complete \subseteq complete' /\ listens' \subseteq Place
      /\ \A q \in Place :
            \/ started'[q] = started[q]
            \/ q = p /\ p \notin Observed /\ started'[q] = started[q] + 1
      /\ \A q \in listens' :
            started'[q] = started[q] + 1 \/ (q \in listens /\ started'[q] = started[q])
      /\ p \in Observed \/ (UNCHANGED <<started, toServer>> \/ started'[p] = started[p] + 1)
  <2>1. CASE observers[p] # 0
    <3>1. UNCHANGED <<complete, listens, started, Observed>> /\ p \in Observed
      BY <2>1, <1>1, MoreObservers DEF Observed
    <3>2. QED
      BY <3>1 DEF TypeOK
  <2>2. CASE observers[p] = 0
    <3>1. /\ p \notin Observed /\ p \notin listens
          /\ Observed' = Observed \cup {p}
          /\ complete' = complete \cup {q \in {p} : SeedsComplete(q)}
          /\ \/ UNCHANGED <<listens, started, toServer>>
             \/ SetupListener(p, ServerCacheForQuery(p))
      BY <2>2, NewView
    <3>2. CASE UNCHANGED <<listens, started, toServer>>
      BY <3>1, <3>2 DEF TypeOK
    <3>3. CASE SetupListener(p, ServerCacheForQuery(p))
      <4>1. listens' = (listens \ Below(p)) \cup {p} /\ Starting({p})
        BY <3>3 DEF SetupListener
      <4>2. \A q \in Place : started'[q] = IF q \in {p} THEN started[q] + 1 ELSE started[q]
        BY <4>1, Started
      <4>3. QED
        BY <3>1, <4>1, <4>2 DEF TypeOK
    <3>4. QED
      BY <3>1, <3>2, <3>3
  <2>3. QED
    BY <2>1, <2>2
<1>5. StillUnasked
  <2> SUFFICES ASSUME NEW q \in Place, started'[q] = started[q], Asked(q) = {}
               PROVE  Asked(q)' = {}
    BY DEF StillUnasked
  <2>1. CASE q # p \/ p \in Observed
    BY <2>1, <1>2
  <2>2. CASE q = p /\ p \notin Observed
    <3>1. started[p] \in Nat
      BY DEF TypeOK
    <3>2. UNCHANGED <<started, toServer>>
      BY <2>2, <3>1, <1>4
    <3>3. QED
      BY <3>2, <1>1 DEF Asked
  <2>3. QED
    BY <2>1, <2>2
<1>6. Root \in active => started'[Root] = started[Root]
  <2> SUFFICES ASSUME Root \in active, Root \notin Observed PROVE FALSE
    BY <1>4
  <2>1. QED
    BY DEF Agreeing, Sending, Unobserved, Asked
<1>7. Answers'
  BY <1>1, <1>4, <1>5, <1>6, AnswersSame DEF Agreeing
<1>8. QED
  BY <1>2, <1>3, <1>7 DEF Agreeing

LEMMA AgreeData ==
    ASSUME TypeOK, ListensCover, Turns, Agreeing, OnDataUpdate
    PROVE  Agreeing'
<1> DEFINE h == Head(toClient)
<1>1. /\ toClient # <<>> /\ toClient' = Tail(toClient)
      /\ UNCHANGED <<observers, connected, listens, started, toServer, remote, count>>
  BY DEF OnDataUpdate
<1>2. /\ h.at \in Place /\ h.op = "data" /\ Observed' = Observed
      /\ complete' = complete \cup {q \in Observed : Under(q) \subseteq Under(h.at)}
  BY DataUpdated
<1> HIDE DEF h
<1>3. Sending' /\ \A q : Asked(q)' = Asked(q)
  BY <1>1, <1>2, SendingSame DEF Agreeing
<1>4. Same'
  BY SameData DEF Agreeing, Answers
<1>5. Root \in active /\ Completes(h, Root, started[Root]) => Root \in complete'
  <2> SUFFICES ASSUME Root \in active, Completes(h, Root, started[Root])
               PROVE  Root \in complete'
    OBVIOUS
  <2>1. h.at = Root
    BY <1>2 DEF Completes, IsData
  <2>2. Root \in Observed
    BY DEF Agreeing, Sending, Unobserved, Asked
  <2>3. QED
    BY <2>1, <2>2, <1>2
<1>6. \A p \in listens' : p \in listens /\ started'[p] = started[p]
  BY <1>1
<1>7. StillUnasked /\ listens' \subseteq Place
  BY <1>1, <1>3 DEF StillUnasked, TypeOK
<1>8. Root \in active =>
         /\ started'[Root] = started[Root]
         /\ Root \in complete => Root \in complete'
         /\ Completes(Head(toClient), Root, started[Root]) => Root \in complete'
  BY <1>1, <1>2, <1>5 DEF h
<1>9. Answers'
  BY <1>1, <1>2, <1>6, <1>7, <1>8, AnswersTail DEF Agreeing
<1>10. QED
  BY <1>3, <1>4, <1>9 DEF Agreeing

LEMMA AgreeResponse ==
    ASSUME TypeOK, ListensCover, Turns, Idle, Agreeing, OnListenResponse
    PROVE  Agreeing'
<1>0. PICK h : h = Head(toClient)
  OBVIOUS
<1>1. /\ toClient # <<>> /\ toClient' = Tail(toClient) /\ connected
      /\ UNCHANGED <<connected, server, active, held, count>>
      /\ h.op \in {"ok", "denied"} /\ h \in Reply /\ h.at \in Place
  BY <1>0, ClientTail, ReplyFacts DEF OnListenResponse, Idle
<1>2. CASE ~CurrentListen(h) /\ UNCHANGED <<views, listens, started, toServer>>
  <2>1. Observed' = Observed
    BY <1>2 DEF Observed
  <2>2. Sending' /\ \A q : Asked(q)' = Asked(q)
    BY <1>1, <1>2, <2>1, SendingSame DEF Agreeing
  <2>3. Same'
    BY <1>2, <2>1 DEF Agreeing, Same, BothSame, NothingYet, EmptyYet, RootCompletes
  <2>4. Root \in active => ~Completes(h, Root, started[Root])
    <3> SUFFICES ASSUME Root \in active, Completes(h, Root, started[Root]) PROVE FALSE
      OBVIOUS
    <3>1. Root \in Observed
      BY DEF Agreeing, Sending, Unobserved, Asked
    <3>2. Root \in listens
      BY <3>1 DEF ListensCover, Covered
    <3>3. QED
      BY <3>2, <1>1, <1>2 DEF Completes, IsData, CurrentListen
  <2>5. StillUnasked /\ listens' \subseteq Place
    BY <1>2, <2>2 DEF StillUnasked, TypeOK
  <2>6. Root \in active =>
           /\ started'[Root] = started[Root]
           /\ Root \in complete => Root \in complete'
           /\ Completes(Head(toClient), Root, started[Root]) => Root \in complete'
    BY <1>0, <1>2, <2>4
  <2>7. \A p \in listens' : p \in listens /\ started'[p] = started[p]
    BY <1>2
  <2>8. Answers'
    BY <1>1, <2>1, <2>5, <2>6, <2>7, AnswersTail DEF Agreeing
  <2>9. QED
    BY <2>2, <2>3, <2>8 DEF Agreeing
<1>3. CASE /\ CurrentListen(h) /\ h.op = "ok"
           /\ complete' = complete \cup ListenComplete(h.at)
           /\ UNCHANGED <<observers, cache, listens, started, toServer>>
  <2>1. Observed' = Observed
    BY <1>3 DEF Observed
  <2>2. Sending' /\ \A q : Asked(q)' = Asked(q)
    BY <1>1, <1>3, <2>1, SendingSame DEF Agreeing
  <2>3. Same'
    BY <1>1, <1>3, SameOk DEF Agreeing
  <2>4. Root \in active /\ Completes(h, Root, started[Root]) => Root \in complete'
    <3> SUFFICES ASSUME Root \in active, h.at = Root PROVE Root \in complete'
      BY <1>1 DEF Completes, IsData
    <3>1. Root \in Observed
      BY DEF Agreeing, Sending, Unobserved, Asked
    <3>2. QED
      BY <3>1, <1>3 DEF ListenComplete
  <2>5. StillUnasked /\ listens' \subseteq Place
    BY <1>3, <2>2 DEF StillUnasked, TypeOK
  <2>6. Root \in active =>
           /\ started'[Root] = started[Root]
           /\ Root \in complete => Root \in complete'
           /\ Completes(Head(toClient), Root, started[Root]) => Root \in complete'
    BY <1>0, <1>3, <2>4
  <2>7. \A p \in listens' : p \in listens /\ started'[p] = started[p]
    BY <1>3
  <2>8. Answers'
    BY <1>1, <2>1, <2>5, <2>6, <2>7, AnswersTail DEF Agreeing
  <2>9. QED
    BY <2>2, <2>3, <2>8 DEF Agreeing
<1>4. CASE CurrentListen(h) /\ h.op = "denied" /\ RemoveView(h.at) /\ HandOver(h.at, <<>>)
  <2>1. /\ h.at \in listens /\ Asked(h.at) = {} /\ Root \notin active
        /\ h.at # Root =>
              /\ Root \notin Observed
              /\ \A m \in DOMAIN toClient : m > 1 => ~IsData(toClient[m], h.at)
    BY <1>0, <1>1, <1>4, HeadRefused DEF Agreeing
  <2>2. Sending' /\ StillUnasked
    BY <1>1, <1>4, <2>1, SendingRefused DEF Agreeing
  <2>3. Same'
    BY <1>1, <1>4, <2>1, SameRefused DEF Agreeing
  <2>4. listens' = (listens \ {h.at}) \cup (Below(h.at) \cap Observed)
        /\ Starting(Below(h.at) \cap Observed)
    BY <1>4 DEF HandOver
  <2>5. listens' \subseteq Place
    BY <2>4 DEF TypeOK, Observed
  <2>6. \A q \in Place :
           started'[q] = IF q \in Below(h.at) \cap Observed THEN started[q] + 1 ELSE started[q]
    BY <2>4, Started
  <2>7. \A p \in listens' :
           started'[p] = started[p] + 1 \/ (p \in listens /\ started'[p] = started[p])
    BY <2>4, <2>5, <2>6
  <2>8. \A c \in Child \ Observed' :
           c \notin Observed \/ \A k \in DOMAIN toClient : k > 1 => ~IsData(toClient[k], c)
    <3>1. Observed' = Observed \ {h.at}
      BY <1>1, <1>4, ViewGone
    <3>2. QED
      BY <3>1, <2>1, SyncTreeAssumption
  <2>9. Answers'
    BY <1>1, <2>1, <2>2, <2>5, <2>7, <2>8, AnswersTail DEF Agreeing
  <2>10. QED
    BY <2>2, <2>3, <2>9 DEF Agreeing
<1>5. QED
  BY <1>0, <1>2, <1>3, <1>4 DEF OnListenResponse

LEMMA AgreeConnection ==
    ASSUME TypeOK, ListensCover, Turns, Idle, Agreeing, OnDisconnect \/ RestoreState
    PROVE  Agreeing'
<1>1. UNCHANGED <<observers, cache, complete, listens, started>>
  BY DEF OnDisconnect, RestoreState
<1>2. Observed' = Observed
  BY <1>1 DEF Observed
<1>3. Same'
  BY <1>1, <1>2 DEF Agreeing, Same, BothSame, NothingYet, EmptyYet, RootCompletes
<1>4. toClient' = <<>> /\ active' = {}
  BY DEF OnDisconnect, RestoreState, Idle
<1>5. Answers'
  BY <1>4, AnswersNothing
<1>6. CASE OnDisconnect
  <2>1. toServer' = <<>>
    BY <1>6 DEF OnDisconnect
  <2>2. QED
    BY <1>3, <1>4, <1>5, <2>1, SendingNothing DEF Agreeing
<1>7. CASE RestoreState
  BY <1>3, <1>5, <1>7, SendingRestored DEF Agreeing
<1>8. QED
  BY <1>6, <1>7

LEMMA AgreeListens ==
    ASSUME TypeOK, ListensCover, Turns, Agreeing, ServerListens
    PROVE  Agreeing'
<1>0. PICK h : h = Head(toServer)
  OBVIOUS
<1>1. /\ toServer # <<>> /\ toServer' = Tail(toServer)
      /\ UNCHANGED <<observers, cache, complete, connected, listens, started, server, held>>
  BY DEF ServerListens
<1>2. Observed' = Observed
  BY <1>1 DEF Observed
<1>3. /\ h \in Request /\ h.op = "listen" /\ h.at \in Place
  BY <1>0, Served
<1>4. PICK new \in Seq(Reply) :
        toClient' = toClient \o new /\ (Accepts(h, new) \/ Refuses(h, new))
  BY <1>0, Served
<1>5. active \subseteq active' /\ active' \subseteq active \cup {h.at}
  BY <1>4 DEF Accepts, Refuses
<1>6. /\ Sending'
      /\ \A q \in Place : Asked(q) = {} => Asked(q)' = {}
      /\ 1 \in Asked(h.at) /\ h.at \notin active
      /\ h.turn = started[h.at] => \A i \in Asked(h.at)' : i = 0
  <2>1. UNCHANGED <<listens, started, Observed>>
    BY <1>1, <1>2
  <2>2. h.op = "listen" /\ active \subseteq active' /\ active' \subseteq active \cup {h.at}
    BY <1>3, <1>5
  <2>3. TypeOK /\ Turns /\ Sending
    BY DEF Agreeing
  <2>4. QED
    BY <1>0, <1>1, <2>1, <2>2, <2>3, SendingLess
<1>7. Same'
  BY <1>1, <1>2 DEF Agreeing, Same, BothSame, NothingYet, EmptyYet, RootCompletes
<1>8. StillUnasked
  BY <1>6 DEF StillUnasked
<1>9. Root \in active' => Root \in active \/ \E i \in DOMAIN new : Completes(new[i], Root, started[Root])
  <2> SUFFICES ASSUME Root \in active', Root \notin active
               PROVE  \E i \in DOMAIN new : Completes(new[i], Root, started[Root])
    OBVIOUS
  <2>1. h.at = Root /\ Accepts(h, new)
    BY <1>4, <1>5 DEF Refuses
  <2>2. PICK i \in DOMAIN new : new[i] = Answer("ok", h.at, h.turn)
    BY <2>1 DEF Accepts
  <2>3. h.turn = started[Root]
    <3>1. 1 \in DOMAIN toServer /\ toServer[1] = h
      BY <1>0, <1>1, ServerTail
    <3>2. QED
      BY <2>1, <3>1, <1>3 DEF Agreeing, Sending, RootCurrent, IsListen
  <2>4. QED
    BY <2>1, <2>2, <2>3 DEF Answer, Completes
<1>10. \A i \in DOMAIN new, c \in Child : IsData(new[i], c) => Asked(c) # {}
  <2> SUFFICES ASSUME NEW i \in DOMAIN new, NEW c \in Child, IsData(new[i], c)
               PROVE  h.at = c
    BY <1>6
  <2>1. \/ new[i] = Answer("ok", h.at, h.turn) \/ new[i] = Answer("denied", h.at, h.turn)
        \/ new[i] = DataAt(h.at, Part(h.at, server))
    BY <1>4 DEF Accepts, Refuses
  <2>2. QED
    BY <2>1 DEF Answer, DataAt, IsData
<1>11. \A i \in DOMAIN new :
          new[i].op = "denied" /\ new[i].at \in listens /\ new[i].turn = started[new[i].at] =>
             /\ Asked(new[i].at)' = {}
             /\ \A m \in DOMAIN new : ~IsData(new[m], new[i].at)
  <2> SUFFICES ASSUME NEW i \in DOMAIN new, new[i].op = "denied",
                      new[i].turn = started[new[i].at]
               PROVE  /\ Asked(new[i].at)' = {}
                      /\ \A m \in DOMAIN new : ~IsData(new[m], new[i].at)
    OBVIOUS
  <2>1. Refuses(h, new)
    BY <1>4 DEF Accepts, Answer, DataAt
  <2>2. /\ DOMAIN new = {1} /\ new[1] = Answer("denied", h.at, h.turn) /\ active' = active
    BY <2>1 DEF Refuses
  <2>3. new[i].at = h.at /\ h.turn = started[h.at]
    BY <2>2 DEF Answer
  <2>4. \A k \in Asked(h.at)' : k = 0
    BY <2>3, <1>6
  <2>5. 0 \notin DOMAIN toServer'
    BY <1>1, ServerTail
  <2>6. Asked(h.at)' = {}
    BY <2>2, <2>4, <2>5, <1>6 DEF Asked
  <2>7. \A m \in DOMAIN new : ~IsData(new[m], h.at)
    BY <2>2 DEF Answer, IsData
  <2>8. QED
    BY <2>3, <2>6, <2>7
<1>12. Answers'
  <2>1. UNCHANGED <<listens, started, complete, Observed>>
    BY <1>1, <1>2
  <2>2. /\ Root \in active => Root \in active'
        /\ \A i \in DOMAIN new, c \in Child : IsData(new[i], c) => Asked(c) # {} \/ Root \in active
    BY <1>5, <1>10
  <2>3. Sending /\ Answers
    BY DEF Agreeing
  <2>4. QED
    BY <2>1, <2>2, <2>3, <1>4, <1>8, <1>9, <1>11, AnswersMore
<1>13. QED
  BY <1>6, <1>7, <1>12 DEF Agreeing

LEMMA AgreeUnlistens ==
    ASSUME TypeOK, Turns, Agreeing, ServerUnlistens
    PROVE  Agreeing'
<1>0. PICK h : h = Head(toServer)
  OBVIOUS
<1>1. /\ toServer # <<>> /\ toServer' = Tail(toServer) /\ h.op = "unlisten"
      /\ active' = active \ {h.at}
      /\ UNCHANGED <<observers, cache, complete, connected, listens, started, toClient>>
  BY <1>0 DEF ServerUnlistens
<1>2. Observed' = Observed
  BY <1>1 DEF Observed
<1>3. Sending' /\ \A q \in Place : Asked(q) = {} => Asked(q)' = {}
  <2>1. UNCHANGED <<listens, started, Observed>>
    BY <1>1, <1>2
  <2>2. Sending
    BY DEF Agreeing
  <2>3. QED
    BY <1>0, <1>1, <2>1, <2>2, SendingLess
<1>4. Same'
  BY <1>1, <1>2 DEF Agreeing, Same, BothSame, NothingYet, EmptyYet, RootCompletes
<1>5. StillUnasked
  BY <1>3 DEF StillUnasked
<1>6. h.at # Root
  <2>1. 1 \in DOMAIN toServer /\ toServer[1] = h
    BY <1>0, <1>1, ServerTail
  <2>2. QED
    BY <2>1, <1>1 DEF Agreeing, Sending, RootCurrent, IsUnlisten
<1>7. Answers'
  <2>1. \A p \in listens' : p \in listens /\ started'[p] = started[p]
    BY <1>1
  <2>2. Root \in active' <=> Root \in active
    BY <1>1, <1>6
  <2>3. listens' \subseteq Place /\ Answers
    BY <1>1 DEF TypeOK, Agreeing
  <2>4. QED
    BY <2>1, <2>2, <2>3, <1>1, <1>2, <1>5, AnswersSame
<1>8. QED
  BY <1>3, <1>4, <1>7 DEF Agreeing

LEMMA AgreeChange ==
    ASSUME TypeOK, ListensCover, Agreeing, NEW c \in Child, NEW v \in Version, ServerChange(c, v)
    PROVE  Agreeing'
<1>1. UNCHANGED <<observers, cache, complete, listens, started, toServer, active>>
  BY DEF ServerChange
<1>2. Observed' = Observed
  BY <1>1 DEF Observed
<1>3. PICK new \in Seq(Reply) :
        /\ toClient' = toClient \o new
        /\ active \cap {c, Root} = {} => DOMAIN new = {}
        /\ active \cap {c, Root} # {} =>
              DOMAIN new = {1} /\ new[1] = DataAt(c, Part(c, server'))
  BY Changed
<1>4. Sending' /\ \A q : Asked(q)' = Asked(q)
  BY <1>1, <1>2, SendingSame DEF Agreeing
<1>5. Same'
  BY <1>1, <1>2 DEF Agreeing, Same, BothSame, NothingYet, EmptyYet, RootCompletes
<1>6. \A i \in DOMAIN new :
         /\ new[i].op = "data" /\ new[i].at = c
         /\ c \in active \/ Root \in active
  BY <1>3 DEF DataAt
<1>7. \A i \in DOMAIN new, d \in Child : IsData(new[i], d) => Asked(d) # {} \/ Root \in active
  BY <1>6 DEF IsData, Asked
<1>8. Answers'
  <2>1. UNCHANGED <<listens, started, complete, Observed>> /\ StillUnasked
    BY <1>1, <1>2, <1>4 DEF StillUnasked
  <2>2. \A i \in DOMAIN new : new[i].op # "denied"
    BY <1>6
  <2>3. Sending /\ Answers
    BY DEF Agreeing
  <2>4. QED
    BY <2>1, <2>2, <2>3, <1>1, <1>3, <1>7, AnswersMore
<1>9. QED
  BY <1>4, <1>5, <1>8 DEF Agreeing

LEMMA AgreeStep ==
    TypeOK /\ ListensCover /\ HeldInv /\ Idle /\ AgreeInv /\ [Next]_vars => AgreeInv'
<1> SUFFICES ASSUME TypeOK, ListensCover, HeldInv, Idle, AgreeInv, [Next]_vars,
                    count'["remove"] = 0
             PROVE  Agreeing'
  BY DEF AgreeInv
<1>0. Turns /\ count \in [Counted -> Nat] /\ "remove" \in Counted
  BY DEF HeldInv, TypeOK, Counted
<1>1. ASSUME NEW what \in Counted, NEW bound, Count(what, bound)
      PROVE  what # "remove" /\ count["remove"] = 0
  BY <1>0, <1>1 DEF Count
<1>2. CASE \E p \in Place : AddEventRegistration(p)
  <2>1. PICK p \in Place : AddEventRegistration(p)
    BY <1>2
  <2>2. Count("observe", MaxObserves) /\ "observe" \in Counted
    BY <2>1 DEF AddEventRegistration, Counted
  <2>3. Agreeing
    BY <2>2, <1>1 DEF AgreeInv
  <2>4. QED
    BY <2>1, <2>3, <1>0, AgreeAdd
<1>3. CASE \E p \in Place : RemoveEventRegistration(p)
  BY <1>0, <1>1, <1>3 DEF RemoveEventRegistration
<1>4. CASE OnDataUpdate
  <2>1. Agreeing
    BY <1>4 DEF OnDataUpdate, AgreeInv
  <2>2. QED
    BY <2>1, <1>0, <1>4, AgreeData
<1>5. CASE OnListenResponse
  <2>1. Agreeing
    BY <1>5 DEF OnListenResponse, AgreeInv
  <2>2. QED
    BY <2>1, <1>0, <1>5, AgreeResponse
<1>6. CASE OnDisconnect \/ RestoreState
  <2>1. "drop" \in Counted
    BY DEF Counted
  <2>2. Agreeing
    BY <1>1, <1>6, <2>1 DEF OnDisconnect, RestoreState, AgreeInv
  <2>3. QED
    BY <2>2, <1>0, <1>6, AgreeConnection
<1>7. CASE ServerListens
  <2>1. "deny" \in Counted
    BY DEF Counted
  <2>2. Agreeing
    BY <1>1, <1>7, <2>1 DEF ServerListens, AgreeInv
  <2>3. QED
    BY <2>2, <1>0, <1>7, AgreeListens
<1>8. CASE ServerUnlistens
  <2>1. Agreeing
    BY <1>8 DEF ServerUnlistens, AgreeInv
  <2>2. QED
    BY <2>1, <1>0, <1>8, AgreeUnlistens
<1>9. CASE \E c \in Child, v \in Version : ServerChange(c, v)
  <2>1. PICK c \in Child, v \in Version : ServerChange(c, v)
    BY <1>9
  <2>2. Count("change", MaxChanges) /\ "change" \in Counted
    BY <2>1 DEF ServerChange, Counted
  <2>3. Agreeing
    BY <2>2, <1>1 DEF AgreeInv
  <2>4. QED
    BY <2>1, <2>3, AgreeChange
<1>10. CASE UNCHANGED vars
  <2>1. UNCHANGED <<observers, cache, complete, listens, started, toServer, toClient, active, count>>
    BY <1>10 DEF vars
  <2>2. Observed' = Observed /\ \A p : Asked(p)' = Asked(p) /\ Stopped(p)' = Stopped(p)
    BY <2>1 DEF Observed, Asked, Stopped
  <2>3. Agreeing
    BY <2>1 DEF AgreeInv
  <2>4. Sending' /\ Observed \subseteq Observed'
    BY <2>1, <2>2, <2>3, SendingSame DEF Agreeing
  <2>5. Same'
    BY <2>1, <2>2, <2>3 DEF Agreeing, Same, BothSame, NothingYet, EmptyYet, RootCompletes
  <2>6. StillUnasked /\ listens' \subseteq Place
    BY <2>1, <2>2 DEF StillUnasked, TypeOK
  <2>7. Answers'
    BY <2>1, <2>3, <2>4, <2>6, <1>0, AnswersSame DEF Agreeing
  <2>8. QED
    BY <2>4, <2>5, <2>7 DEF Agreeing
<1>11. QED
  BY <1>2, <1>3, <1>4, <1>5, <1>6, <1>7, <1>8, <1>9, <1>10 DEF Next, Client, Server

(* For any entries, refusals, changes and lost connections: as long as no  *)
(* observer is removed, the views of an entry and of the list, once both   *)
(* are complete, have the same value of it, whichever came first and       *)
(* whatever it was given by the other (FSyncTree.m:948).                   *)
THEOREM ViewsAlwaysAgree == Spec => []ViewsAgree
<1>1. TypeOK /\ AgreeInv => ViewsAgree
  BY DEF TypeOK, AgreeInv, Agreeing, Same, BothSame, ViewsAgree
<1>2. Spec => [](TypeOK /\ ListensCover /\ HeldInv /\ Idle /\ AgreeInv)
  BY TypeInvariance, ListensAlwaysCover, HeldInit, HeldStep, AgreeInit, IdleStep, AgreeStep,
     PTL DEF Spec
<1>3. QED
  BY <1>1, <1>2, PTL

-----------------------------------------------------------------------------
(* Up to date, as long as no observer is removed and no listen refused *)

NoneDenied == \A k \in DOMAIN toClient : toClient[k].op # "denied"

(* Every listen in the queue is the last of its place, and no entry's      *)
(* listen is stopped but behind that of the list.                          *)
ListenCurrent ==
    \A i \in DOMAIN toServer :
        toServer[i].op = "listen" => toServer[i].turn = started[toServer[i].at]
RootFirst ==
    \A i \in DOMAIN toServer : toServer[i].op = "unlisten" =>
        /\ toServer[i].at \in Child
        /\ Root \in active \/ \E j \in DOMAIN toServer : j < i /\ IsListen(toServer[j], Root)

(* What is listened to is asked for, and complete or about to be. *)
Everyone == connected => \A p \in listens : Asked(p) # {}
AllComing ==
    connected => \A p \in listens :
        \/ p \in complete
        \/ \E i \in DOMAIN toServer : IsListen(toServer[i], p)
        \/ \E k \in DOMAIN toClient : Completes(toClient[k], p, started[p])

(* All views that have data of an entry have this. *)
Shows(c, v) == \A q \in Observed : c \in Under(q) => cache[q][c] = v

(* Of an entry that the server does not send nothing is on its way, and    *)
(* every listen in the queue carries the hash of what the views have.      *)
Carries(f, c) == f.op = "data" /\ c \in Under(f.at)
NoneCarries(c) == \A k \in DOMAIN toClient : ~Carries(toClient[k], c)
Unserved ==
    \A c \in Child : active \cap {c, Root} = {} =>
        /\ NoneCarries(c)
        /\ \A i \in DOMAIN toServer :
              toServer[i].op = "listen" /\ c \in Under(toServer[i].at)
                  => Shows(c, toServer[i].hash[c])

(* Of one that it sends the last on its way, or else the views, have what  *)
(* it holds.                                                               *)
LastCarries(c) ==
    \E k \in DOMAIN toClient :
        /\ Carries(toClient[k], c) /\ toClient[k].data[c] = server[c]
        /\ \A m \in DOMAIN toClient : m > k => ~Carries(toClient[m], c)
ServedLast ==
    \A c \in Child : active \cap {c, Root} # {} =>
        LastCarries(c) \/ (NoneCarries(c) /\ Shows(c, server[c]))

UpToDate ==
    /\ NoneDenied /\ ListenCurrent /\ RootFirst /\ Everyone /\ AllComing
    /\ Unserved /\ ServedLast

LEMMA UpToDateInit == Init => UpToDate
<1> SUFFICES ASSUME Init PROVE UpToDate
  OBVIOUS
<1>1. toServer = <<>> /\ toClient = <<>> /\ active = {} /\ listens = {} /\ DOMAIN <<>> = {}
  BY DEF Init
<1>2. QED
  BY <1>1 DEF UpToDate, NoneDenied, ListenCurrent, RootFirst, Everyone, AllComing, Unserved,
              ServedLast, NoneCarries

LEMMA UpToDateSame ==
    ASSUME UpToDate,
           UNCHANGED <<toServer, toClient, connected, active, listens, started, server,
                       cache, complete, Observed>>
    PROVE  UpToDate'
<1>1. \A p : Asked(p)' = Asked(p)
  BY DEF Asked
<1>2. \A c, v : Shows(c, v)' = Shows(c, v)
  BY DEF Shows
<1>3. \A c : NoneCarries(c)' = NoneCarries(c) /\ LastCarries(c)' = LastCarries(c)
  BY DEF NoneCarries, LastCarries
<1>4. NoneDenied' /\ ListenCurrent' /\ RootFirst' /\ Everyone' /\ AllComing'
  BY <1>1 DEF UpToDate, NoneDenied, ListenCurrent, RootFirst, Everyone, AllComing
<1>5. Unserved' /\ ServedLast'
  BY <1>2, <1>3 DEF UpToDate, Unserved, ServedLast, Shows
<1>6. QED
  BY <1>4, <1>5 DEF UpToDate

(* The queue to the server with more behind it *)
LEMMA ServerMore ==
    ASSUME TypeOK, NEW new \in Seq(Request), toServer' = toServer \o new
    PROVE  /\ Len(toServer) \in Nat
           /\ \A i \in DOMAIN toServer :
                 /\ i \in Nat /\ i > 0 /\ i <= Len(toServer)
                 /\ i \in DOMAIN toServer' /\ toServer'[i] = toServer[i]
           /\ \A i \in DOMAIN new :
                 /\ i \in Nat /\ i > 0
                 /\ Len(toServer) + i \in DOMAIN toServer' /\ toServer'[Len(toServer) + i] = new[i]
           /\ \A i \in DOMAIN toServer' :
                 \/ i \in DOMAIN toServer
                 \/ /\ i \in Nat /\ i > Len(toServer)
                    /\ i - Len(toServer) \in DOMAIN new /\ toServer'[i] = new[i - Len(toServer)]
<1> DEFINE n == Len(toServer)
           u == toServer \o new
<1>1. toServer \in Seq(Request)
  BY DEF TypeOK
<1>2. n \in Nat /\ Len(new) \in Nat /\ \A i \in DOMAIN toServer : i \in Nat /\ i > 0 /\ i <= n
  BY <1>1
<1>3. /\ \A i \in DOMAIN new : i \in Nat /\ i > 0
      /\ \A i \in DOMAIN toServer : i \in DOMAIN u /\ u[i] = toServer[i]
      /\ \A i \in DOMAIN new : n + i \in DOMAIN u /\ u[n + i] = new[i]
      /\ \A i \in DOMAIN u :
            \/ i \in DOMAIN toServer
            \/ /\ i \in (n + 1)..(n + Len(new))
               /\ i - n \in DOMAIN new /\ u[i] = new[i - n]
  BY <1>1, ConcatPlaces
<1> HIDE DEF n, u
<1>4. \A i \in (n + 1)..(n + Len(new)) : i \in Nat /\ i > n
  BY <1>2
<1>5. toServer' = u
  BY DEF u
<1>6. QED
  BY <1>2, <1>3, <1>4, <1>5 DEF n

(* What a first observer sends *)
LEMMA NewSent ==
    ASSUME TypeOK, ListensCover, Idle, NEW p \in Place, AddEventRegistration(p), observers[p] = 0
    PROVE  /\ \A i \in DOMAIN toServer : i \in DOMAIN toServer' /\ toServer'[i] = toServer[i]
           /\ \A i \in DOMAIN toServer' :
                 \/ i \in DOMAIN toServer
                 \/ /\ IsListen(toServer'[i], p) /\ toServer'[i].turn = started'[p]
                    /\ toServer'[i].hash = cache'[p]
                 \/ /\ p = Root /\ toServer'[i].op = "unlisten" /\ toServer'[i].at \in Child
                    /\ \E j \in DOMAIN toServer' : j < i /\ IsListen(toServer'[j], Root)
           /\ \/ UNCHANGED <<listens, started, toServer>> /\ Root \in Observed
              \/ /\ listens' = (listens \ Below(p)) \cup {p}
                 /\ \A q \in Place : q # p => started'[q] = started[q]
                 /\ connected => \E i \in DOMAIN toServer' : IsListen(toServer'[i], p)
<1> DEFINE data == ServerCacheForQuery(p)
<1>1. /\ data \in Data /\ p \notin Observed /\ p \notin listens
      /\ Observed' = Observed \cup {p} /\ cache'[p] = data
      /\ \/ Covered(p) /\ UNCHANGED <<listens, started, toServer>>
         \/ ~Covered(p) /\ SetupListener(p, data)
  BY NewView
<1>2. CASE Covered(p) /\ UNCHANGED <<listens, started, toServer>>
  BY <1>2 DEF Covered, Observed
<1>3. CASE SetupListener(p, data)
  <2>1. PICK new \in Seq(Request) : SetUp(new, p, data) /\ Send(new)
    BY <1>1, <1>3, SetupFacts
  <2>2. listens' = (listens \ Below(p)) \cup {p} /\ Starting({p})
    BY <1>3 DEF SetupListener
  <2> HIDE DEF data
  <2>3. /\ started'[p] = started[p] + 1
        /\ \A q \in Place : q # p => started'[q] = started[q]
    <3>1. \A q \in Place : started'[q] = IF q \in {p} THEN started[q] + 1 ELSE started[q]
      BY <2>2, Started
    <3>2. QED
      BY <3>1
  <2>4. CASE ~connected
    BY <2>1, <2>2, <2>3, <2>4 DEF Send
  <2>5. CASE connected
    <3>1. toServer' = toServer \o new
      BY <2>1, <2>5 DEF Send
    <3>2. /\ \A i \in DOMAIN toServer : i \in DOMAIN toServer' /\ toServer'[i] = toServer[i]
          /\ Len(toServer) \in Nat
          /\ \A i \in DOMAIN new :
                Len(toServer) + i \in DOMAIN toServer' /\ toServer'[Len(toServer) + i] = new[i]
          /\ \A i \in DOMAIN toServer' :
                \/ i \in DOMAIN toServer
                \/ /\ i \in Nat /\ i > Len(toServer)
                   /\ i - Len(toServer) \in DOMAIN new /\ toServer'[i] = new[i - Len(toServer)]
      BY <3>1, ServerMore
    <3> DEFINE n == Len(toServer)
    <3>3. /\ n + 1 \in DOMAIN toServer' /\ IsListen(toServer'[n + 1], p)
          /\ toServer'[n + 1].turn = started'[p] /\ toServer'[n + 1].hash = cache'[p]
      BY <1>1, <2>1, <2>3, <3>2 DEF SetUp, Listen, IsListen
    <3> HIDE DEF n
    <3>4. ASSUME NEW i \in DOMAIN toServer', i \notin DOMAIN toServer, i # n + 1
          PROVE  /\ p = Root /\ toServer'[i].op = "unlisten" /\ toServer'[i].at \in Child
                 /\ n + 1 < i
      <4>1. /\ i \in Nat /\ i > n /\ n \in Nat /\ i - n \in DOMAIN new
            /\ toServer'[i] = new[i - n]
        BY <3>2, <3>4 DEF n
      <4>2. i - n # 1
        BY <3>4, <4>1
      <4>3. PICK q \in Below(p) \cap listens : IsUnlisten(new[i - n], q)
        BY <2>1, <4>1, <4>2 DEF SetUp
      <4>4. n + 1 < i
        BY <4>1, <4>2
      <4>5. QED
        BY <4>1, <4>3, <4>4 DEF IsUnlisten, Below
    <3>5. QED
      BY <2>2, <2>3, <3>2, <3>3, <3>4
  <2>6. QED
    BY <2>4, <2>5
<1>4. QED
  BY <1>1, <1>2, <1>3

LEMMA UpToDateAdd ==
    ASSUME TypeOK, ListensCover, Idle, Agreeing, BothSame', UpToDate,
           NEW p \in Place, AddEventRegistration(p)
    PROVE  UpToDate'
<1> USE SyncTreeAssumption
<1>1. UNCHANGED <<connected, toClient, server, active, held>>
  BY DEF AddEventRegistration
<1>2. CASE observers[p] # 0
  BY <1>1, <1>2, MoreObservers, UpToDateSame
<1>3. CASE observers[p] = 0
  <2>1. /\ p \notin Observed /\ p \notin listens
        /\ Observed' = Observed \cup {p}
        /\ \A q \in Place : q # p => cache'[q] = cache[q]
        /\ complete \subseteq complete'
    BY <1>3, NewView
  <2>2. /\ \A i \in DOMAIN toServer : i \in DOMAIN toServer' /\ toServer'[i] = toServer[i]
        /\ \A i \in DOMAIN toServer' :
              \/ i \in DOMAIN toServer
              \/ /\ IsListen(toServer'[i], p) /\ toServer'[i].turn = started'[p]
                 /\ toServer'[i].hash = cache'[p]
              \/ /\ p = Root /\ toServer'[i].op = "unlisten" /\ toServer'[i].at \in Child
                 /\ \E j \in DOMAIN toServer' : j < i /\ IsListen(toServer'[j], Root)
        /\ \/ UNCHANGED <<listens, started, toServer>> /\ Root \in Observed
           \/ /\ listens' = (listens \ Below(p)) \cup {p}
              /\ \A q \in Place : q # p => started'[q] = started[q]
              /\ connected => \E i \in DOMAIN toServer' : IsListen(toServer'[i], p)
    BY <1>3, NewSent
  <2>3. /\ listens \subseteq Place /\ Observed \subseteq Place
        /\ \A i \in DOMAIN toServer : toServer[i] \in Request
        /\ \A i \in DOMAIN toServer : toServer[i].at \in Place
    BY QueueTypes, RequestFacts DEF TypeOK, Observed
  <2>4. /\ \A q \in Place \ Observed : Asked(q) = {}
        /\ \A i \in DOMAIN toServer : toServer[i].op = "listen" => toServer[i].at \in Observed
        /\ active \subseteq Observed
    <3>1. \A q \in Place \ Observed : Asked(q) = {}
      BY DEF Agreeing, Sending, Unobserved
    <3>2. active \subseteq Place
      BY DEF TypeOK
    <3>3. \A q \in Place \ Observed : q \notin active
      BY <3>1 DEF Asked
    <3>4. \A q \in Place \ Observed : \A i \in DOMAIN toServer : ~IsListen(toServer[i], q)
      BY <3>1 DEF Asked
    <3>5. \A i \in DOMAIN toServer : toServer[i].op = "listen" => toServer[i].at \in Observed
      BY <2>3, <3>4 DEF IsListen
    <3>6. QED
      BY <3>1, <3>2, <3>3, <3>5
  <2>5. /\ \A c \in Child : Under(c) = {c}
        /\ \A q \in Place, c \in Child : c \in Under(q) <=> q = c \/ q = Root
    BY DEF Under
  <2>6. ASSUME NEW c \in Child, c \in Observed \/ Root \in Observed, NEW v, Shows(c, v)
        PROVE  Shows(c, v)'
    BY <2>1, <2>3, <2>5, <2>6 DEF Shows, BothSame
  <2>7. ASSUME NEW c \in Under(p), NEW v, v = cache'[p][c]
        PROVE  Shows(c, v)'
    <3>1. c \in Child
      BY DEF Under
    <3>2. QED
      BY <2>1, <2>3, <2>5, <2>7, <3>1 DEF Shows, BothSame
  <2>8. NoneDenied'
    BY <1>1 DEF UpToDate, NoneDenied
  <2>9. ListenCurrent'
    <3> SUFFICES ASSUME NEW i \in DOMAIN toServer', toServer'[i].op = "listen"
                 PROVE  toServer'[i].turn = started'[toServer'[i].at]
      BY DEF ListenCurrent
    <3>1. CASE i \in DOMAIN toServer
      <4>1. toServer'[i] = toServer[i] /\ toServer[i].at # p /\ toServer[i].at \in Place
        BY <3>1, <2>1, <2>2, <2>3, <2>4
      <4>2. QED
        BY <4>1, <3>1, <2>2 DEF UpToDate, ListenCurrent
    <3>2. CASE i \notin DOMAIN toServer
      BY <3>2, <2>2 DEF IsListen
    <3>3. QED
      BY <3>1, <3>2
  <2>10. RootFirst'
    <3> SUFFICES ASSUME NEW i \in DOMAIN toServer', toServer'[i].op = "unlisten"
                 PROVE  /\ toServer'[i].at \in Child
                        /\ \/ Root \in active
                           \/ \E j \in DOMAIN toServer' : j < i /\ IsListen(toServer'[j], Root)
      BY <1>1 DEF RootFirst
    <3>1. CASE i \in DOMAIN toServer
      BY <3>1, <2>2 DEF UpToDate, RootFirst
    <3>2. CASE i \notin DOMAIN toServer
      BY <3>2, <2>2 DEF IsListen
    <3>3. QED
      BY <3>1, <3>2
  <2>11. \A q \in Place : Asked(q) # {} => Asked(q)' # {}
    BY <1>1, <2>2 DEF Asked
  <2>12. ASSUME connected, NEW q \in listens'
         PROVE  q \in listens \/ \E i \in DOMAIN toServer' : IsListen(toServer'[i], q)
    BY <2>2, <2>12
  <2>13. Everyone'
    BY <1>1, <2>3, <2>11, <2>12 DEF UpToDate, Everyone, Asked
  <2>14. AllComing'
    <3> SUFFICES ASSUME connected, NEW q \in listens
                 PROVE  \/ q \in complete'
                        \/ \E i \in DOMAIN toServer' : IsListen(toServer'[i], q)
                        \/ \E k \in DOMAIN toClient : Completes(toClient[k], q, started'[q])
      BY <1>1, <2>12 DEF AllComing
    <3>1. started'[q] = started[q]
      BY <2>1, <2>2, <2>3
    <3>2. QED
      BY <2>1, <2>2, <3>1 DEF UpToDate, AllComing
  <2>15. \A c : NoneCarries(c)' = NoneCarries(c) /\ LastCarries(c)' = LastCarries(c)
    BY <1>1 DEF NoneCarries, LastCarries
  <2>16. Unserved'
    <3> SUFFICES ASSUME NEW c \in Child, active \cap {c, Root} = {}
                 PROVE  /\ NoneCarries(c)
                        /\ \A i \in DOMAIN toServer' : \A v :
                              /\ toServer'[i].op = "listen" /\ c \in Under(toServer'[i].at)
                              /\ v = toServer'[i].hash[c]
                              => Shows(c, v)'
      BY <1>1, <2>15 DEF Unserved, Shows
    <3>1. NoneCarries(c)
      BY DEF UpToDate, Unserved
    <3>2. ASSUME NEW i \in DOMAIN toServer', NEW v, toServer'[i].op = "listen",
                 c \in Under(toServer'[i].at), v = toServer'[i].hash[c]
          PROVE  Shows(c, v)'
      <4>1. CASE i \in DOMAIN toServer
        <5>1. toServer'[i] = toServer[i] /\ toServer[i].at \in Observed
          BY <3>2, <4>1, <2>2, <2>4
        <5>2. c \in Observed \/ Root \in Observed
          BY <3>2, <5>1, <2>3, <2>5
        <5>3. Shows(c, v)
          BY <3>2, <4>1, <5>1 DEF UpToDate, Unserved
        <5>4. QED
          BY <5>2, <5>3, <2>6
      <4>2. CASE i \notin DOMAIN toServer
        <5>1. toServer'[i].at = p /\ toServer'[i].hash = cache'[p]
          BY <3>2, <4>2, <2>2 DEF IsListen
        <5>2. QED
          BY <5>1, <3>2, <2>7
      <4>3. QED
        BY <4>1, <4>2
    <3>3. QED
      BY <3>1, <3>2
  <2>17. ServedLast'
    <3> SUFFICES ASSUME NEW c \in Child, active \cap {c, Root} # {}
                 PROVE  LastCarries(c) \/ (NoneCarries(c) /\ \A v : v = server[c] => Shows(c, v)')
      BY <1>1, <2>15 DEF ServedLast, Shows
    <3>1. c \in Observed \/ Root \in Observed
      BY <2>4
    <3>2. LastCarries(c) \/ (NoneCarries(c) /\ Shows(c, server[c]))
      BY DEF UpToDate, ServedLast
    <3>3. QED
      BY <3>1, <3>2, <2>6
  <2>18. QED
    BY <2>8, <2>9, <2>10, <2>13, <2>14, <2>16, <2>17 DEF UpToDate
<1>4. QED
  BY <1>2, <1>3

(* The client reads data: it goes to all views that have data of an entry. *)
LEMMA UpToDateData ==
    ASSUME TypeOK, ListensCover, UpToDate, OnDataUpdate
    PROVE  UpToDate'
<1> DEFINE h == Head(toClient)
<1>1. /\ toClient # <<>> /\ toClient' = Tail(toClient)
      /\ UNCHANGED <<observers, connected, listens, started, toServer, server, active, held, count>>
  BY DEF OnDataUpdate
<1>2. /\ h.at \in Place /\ h.op = "data" /\ h.data \in Data /\ Observed' = Observed
      /\ complete' = complete \cup {q \in Observed : Under(q) \subseteq Under(h.at)}
      /\ \A q \in Place, c \in Child :
            cache'[q][c] = IF q \in Observed /\ c \in Under(h.at) \cap Under(q)
                           THEN h.data[c] ELSE cache[q][c]
  BY DataUpdated
<1>3. /\ 1 \in DOMAIN toClient /\ toClient[1] = h
      /\ DOMAIN toClient \subseteq Nat /\ DOMAIN toClient' \subseteq Nat
      /\ \A k \in DOMAIN toClient' : /\ k + 1 \in DOMAIN toClient /\ k >= 1
                                     /\ toClient'[k] = toClient[k + 1]
      /\ \A k \in DOMAIN toClient :
            k = 1 \/ (k - 1 \in DOMAIN toClient' /\ toClient'[k - 1] = toClient[k])
  BY <1>1, ClientTail
<1> HIDE DEF h
<1>4. Observed \subseteq Place /\ listens \subseteq Observed
  BY DEF Observed, ListensCover
<1>5. NoneDenied'
  BY <1>3 DEF UpToDate, NoneDenied
<1>6. ListenCurrent' /\ RootFirst'
  BY <1>1 DEF UpToDate, ListenCurrent, RootFirst
<1>7. Everyone'
  BY <1>1 DEF UpToDate, Everyone, Asked
<1>8. AllComing'
  <2> SUFFICES ASSUME connected, NEW q \in listens
               PROVE  \/ q \in complete'
                      \/ \E i \in DOMAIN toServer : IsListen(toServer[i], q)
                      \/ \E k \in DOMAIN toClient' : Completes(toClient'[k], q, started[q])
    BY <1>1 DEF AllComing
  <2>1. ASSUME NEW k \in DOMAIN toClient, Completes(toClient[k], q, started[q])
        PROVE  \/ q \in complete'
               \/ \E m \in DOMAIN toClient' : Completes(toClient'[m], q, started[q])
    <3>1. CASE k = 1
      BY <2>1, <3>1, <1>2, <1>3, <1>4 DEF Completes, IsData
    <3>2. CASE k # 1
      BY <2>1, <3>2, <1>3
    <3>3. QED
      BY <3>1, <3>2
  <2>2. QED
    BY <2>1, <1>2 DEF UpToDate, AllComing
<1>9. ASSUME NEW c \in Child, ~Carries(h, c)
      PROVE  /\ \A v : Shows(c, v) => Shows(c, v)'
             /\ NoneCarries(c) => NoneCarries(c)'
             /\ LastCarries(c) => LastCarries(c)'
  <2>1. c \notin Under(h.at)
    BY <1>2, <1>9 DEF Carries
  <2>2. \A v : Shows(c, v) => Shows(c, v)'
    BY <1>2, <1>4, <2>1 DEF Shows
  <2>3. NoneCarries(c) => NoneCarries(c)'
    BY <1>3 DEF NoneCarries
  <2>4. ASSUME LastCarries(c)
        PROVE  LastCarries(c)'
    <3>1. PICK k \in DOMAIN toClient :
            /\ Carries(toClient[k], c) /\ toClient[k].data[c] = server[c]
            /\ \A m \in DOMAIN toClient : m > k => ~Carries(toClient[m], c)
      BY <2>4 DEF LastCarries
    <3>2. k - 1 \in DOMAIN toClient' /\ toClient'[k - 1] = toClient[k] /\ k \in Nat
      BY <3>1, <1>3, <1>9
    <3>3. ASSUME NEW m \in DOMAIN toClient', m > k - 1
          PROVE  ~Carries(toClient'[m], c)
      <4>1. m + 1 > k /\ m + 1 \in DOMAIN toClient /\ toClient'[m] = toClient[m + 1]
        BY <3>2, <3>3, <1>3
      <4>2. QED
        BY <4>1, <3>1
    <3>4. QED
      BY <3>1, <3>2, <3>3, <1>1 DEF LastCarries
  <2>5. QED
    BY <2>2, <2>3, <2>4
<1>10. Unserved'
  <2> SUFFICES ASSUME NEW c \in Child, active \cap {c, Root} = {}
               PROVE  /\ NoneCarries(c)'
                      /\ \A i \in DOMAIN toServer : \A v :
                            /\ toServer[i].op = "listen" /\ c \in Under(toServer[i].at)
                            /\ v = toServer[i].hash[c]
                            => Shows(c, v)'
    BY <1>1 DEF Unserved, Shows
  <2>1. NoneCarries(c)
    BY DEF UpToDate, Unserved
  <2>2. ~Carries(h, c)
    BY <2>1, <1>3 DEF NoneCarries
  <2>3. QED
    BY <2>1, <2>2, <1>9 DEF UpToDate, Unserved
<1>11. ServedLast'
  <2> SUFFICES ASSUME NEW c \in Child, active \cap {c, Root} # {}
               PROVE  LastCarries(c)' \/ (NoneCarries(c)' /\ \A v : v = server[c] => Shows(c, v)')
    BY <1>1 DEF ServedLast, Shows
  <2>1. LastCarries(c) \/ (NoneCarries(c) /\ Shows(c, server[c]))
    BY DEF UpToDate, ServedLast
  <2>2. CASE ~Carries(h, c)
    BY <2>1, <2>2, <1>9
  <2>3. CASE Carries(h, c)
    <3>1. PICK k \in DOMAIN toClient :
            /\ Carries(toClient[k], c) /\ toClient[k].data[c] = server[c]
            /\ \A m \in DOMAIN toClient : m > k => ~Carries(toClient[m], c)
      BY <2>1, <2>3, <1>3 DEF LastCarries, NoneCarries
    <3>2. k \in Nat
      BY <3>1, <1>3
    <3>3. CASE k = 1
      <4>1. NoneCarries(c)'
        <5> SUFFICES ASSUME NEW m \in DOMAIN toClient' PROVE ~Carries(toClient'[m], c)
          BY DEF NoneCarries
        <5>1. m + 1 > k /\ m + 1 \in DOMAIN toClient /\ toClient'[m] = toClient[m + 1]
          BY <3>3, <1>3
        <5>2. QED
          BY <5>1, <3>1
      <4>2. h.data[c] = server[c] /\ c \in Under(h.at)
        BY <3>1, <3>3, <1>3 DEF Carries
      <4>3. ASSUME NEW v, v = server[c]
            PROVE  Shows(c, v)'
        BY <4>2, <4>3, <1>2, <1>4 DEF Shows
      <4>4. QED
        BY <4>1, <4>3
    <3>4. CASE k # 1
      <4>1. k - 1 \in DOMAIN toClient' /\ toClient'[k - 1] = toClient[k]
        BY <3>4, <1>3
      <4>2. ASSUME NEW m \in DOMAIN toClient', m > k - 1
            PROVE  ~Carries(toClient'[m], c)
        <5>1. m + 1 > k /\ m + 1 \in DOMAIN toClient /\ toClient'[m] = toClient[m + 1]
          BY <3>2, <4>2, <1>3
        <5>2. QED
          BY <5>1, <3>1
      <4>3. QED
        BY <3>1, <4>1, <4>2, <1>1 DEF LastCarries
    <3>5. QED
      BY <3>3, <3>4
  <2>4. QED
    BY <2>2, <2>3
<1>12. QED
  BY <1>5, <1>6, <1>7, <1>8, <1>10, <1>11 DEF UpToDate

(* The client reads an answer, which is no refusal. *)
LEMMA UpToDateResponse ==
    ASSUME TypeOK, ListensCover, UpToDate, OnListenResponse
    PROVE  UpToDate'
<1>0. PICK h : h = Head(toClient)
  OBVIOUS
<1>1. /\ 1 \in DOMAIN toClient /\ toClient[1] = h /\ h.at \in Place
      /\ DOMAIN toClient \subseteq Nat /\ DOMAIN toClient' \subseteq Nat
      /\ \A k \in DOMAIN toClient' : /\ k + 1 \in DOMAIN toClient /\ k >= 1
                                     /\ toClient'[k] = toClient[k + 1]
      /\ \A k \in DOMAIN toClient :
            k = 1 \/ (k - 1 \in DOMAIN toClient' /\ toClient'[k - 1] = toClient[k])
  BY <1>0, ClientTail, ReplyFacts DEF OnListenResponse
<1>2. h.op = "ok"
  BY <1>0, <1>1 DEF UpToDate, NoneDenied, OnListenResponse
<1>3. /\ UNCHANGED <<observers, cache, connected, listens, started, toServer, server, active, held>>
      /\ \/ ~CurrentListen(h) /\ UNCHANGED complete
         \/ complete' = complete \cup ListenComplete(h.at)
  BY <1>0, <1>2 DEF OnListenResponse
<1>4. Observed' = Observed /\ listens \subseteq Observed /\ Observed \subseteq Place
  BY <1>3 DEF Observed, ListensCover
<1>5. NoneDenied'
  BY <1>1 DEF UpToDate, NoneDenied
<1>6. ListenCurrent' /\ RootFirst'
  BY <1>3 DEF UpToDate, ListenCurrent, RootFirst
<1>7. Everyone'
  BY <1>3 DEF UpToDate, Everyone, Asked
<1>8. AllComing'
  <2> SUFFICES ASSUME connected, NEW q \in listens
               PROVE  \/ q \in complete'
                      \/ \E i \in DOMAIN toServer : IsListen(toServer[i], q)
                      \/ \E k \in DOMAIN toClient' : Completes(toClient'[k], q, started[q])
    BY <1>3 DEF AllComing
  <2>1. ASSUME NEW k \in DOMAIN toClient, Completes(toClient[k], q, started[q])
        PROVE  \/ q \in complete'
               \/ \E m \in DOMAIN toClient' : Completes(toClient'[m], q, started[q])
    <3>1. CASE k = 1
      <4>1. h.at = q /\ CurrentListen(h)
        BY <2>1, <3>1, <1>1, <1>2 DEF Completes, IsData, CurrentListen
      <4>2. q \in ListenComplete(h.at)
        BY <4>1, <1>4 DEF ListenComplete
      <4>3. QED
        BY <4>1, <4>2, <1>3
    <3>2. CASE k # 1
      BY <2>1, <3>2, <1>1
    <3>3. QED
      BY <3>1, <3>2
  <2>2. QED
    BY <2>1, <1>3 DEF UpToDate, AllComing
<1>9. ASSUME NEW c
      PROVE  /\ \A v : Shows(c, v)' = Shows(c, v)
             /\ NoneCarries(c) => NoneCarries(c)'
             /\ LastCarries(c) => LastCarries(c)'
  <2>1. \A v : Shows(c, v)' = Shows(c, v)
    BY <1>3, <1>4 DEF Shows
  <2>2. NoneCarries(c) => NoneCarries(c)'
    BY <1>1 DEF NoneCarries
  <2>3. ASSUME LastCarries(c)
        PROVE  LastCarries(c)'
    <3>1. PICK k \in DOMAIN toClient :
            /\ Carries(toClient[k], c) /\ toClient[k].data[c] = server[c]
            /\ \A m \in DOMAIN toClient : m > k => ~Carries(toClient[m], c)
      BY <2>3 DEF LastCarries
    <3>2. k - 1 \in DOMAIN toClient' /\ toClient'[k - 1] = toClient[k] /\ k \in Nat
      BY <3>1, <1>1, <1>2 DEF Carries
    <3>3. ASSUME NEW m \in DOMAIN toClient', m > k - 1
          PROVE  ~Carries(toClient'[m], c)
      <4>1. m + 1 > k /\ m + 1 \in DOMAIN toClient /\ toClient'[m] = toClient[m + 1]
        BY <3>2, <3>3, <1>1
      <4>2. QED
        BY <4>1, <3>1
    <3>4. QED
      BY <3>1, <3>2, <3>3, <1>3 DEF LastCarries
  <2>4. QED
    BY <2>1, <2>2, <2>3
<1>10. Unserved' /\ ServedLast'
  <2>1. Unserved'
    BY <1>3, <1>4, <1>9 DEF UpToDate, Unserved, Shows
  <2>2. ServedLast'
    <3> SUFFICES ASSUME NEW c \in Child, active \cap {c, Root} # {}
                 PROVE  LastCarries(c)' \/ (NoneCarries(c)' /\ Shows(c, server[c])')
      BY <1>3 DEF ServedLast
    <3>1. LastCarries(c) \/ (NoneCarries(c) /\ Shows(c, server[c]))
      BY DEF UpToDate, ServedLast
    <3>2. Shows(c, server[c])' = Shows(c, server[c])
      BY <1>3, <1>4 DEF Shows
    <3>3. QED
      BY <3>1, <3>2, <1>9
  <2>3. QED
    BY <2>1, <2>2
<1>11. QED
  BY <1>5, <1>6, <1>7, <1>8, <1>10 DEF UpToDate

(* The connection: the listens are sent again with what their views have. *)
LEMMA UpToDateConnection ==
    ASSUME TypeOK, ListensCover, Idle, Agreeing, UpToDate, OnDisconnect \/ RestoreState
    PROVE  UpToDate'
<1> USE SyncTreeAssumption
<1>1. UNCHANGED <<observers, cache, complete, listens, started>> /\ listens \in SUBSET Place
  BY DEF OnDisconnect, RestoreState, TypeOK
<1>2. Observed' = Observed /\ listens \subseteq Observed /\ Observed \subseteq Place
  BY <1>1 DEF Observed, ListensCover
<1>3. toClient' = <<>> /\ active' = {}
  BY DEF OnDisconnect, RestoreState, Idle
<1>4. DOMAIN toClient' = {}
  BY <1>3
<1>5. NoneDenied' /\ ServedLast' /\ \A c : NoneCarries(c)'
  BY <1>3, <1>4 DEF NoneDenied, ServedLast, NoneCarries
<1>6. CASE OnDisconnect
  <2>1. toServer' = <<>> /\ ~connected'
    BY <1>6 DEF OnDisconnect
  <2>2. DOMAIN toServer' = {}
    BY <2>1
  <2>3. QED
    BY <1>5, <2>1, <2>2
       DEF UpToDate, ListenCurrent, RootFirst, Everyone, AllComing, Unserved
<1>7. CASE RestoreState
  <2>1. PICK order \in Orders(listens) :
          toServer' = [i \in DOMAIN order |->
              Listen(order[i], started[order[i]], cache[order[i]])]
    BY <1>7 DEF RestoreState
  <2>2. order \in Seq(listens) /\ \A q \in listens : \E i \in DOMAIN order : order[i] = q
    BY <1>1, <2>1, OrderFacts
  <2>3. \A i \in DOMAIN order : order[i] \in listens
    BY <2>2
  <2>4. /\ DOMAIN toServer' = DOMAIN order
        /\ \A i \in DOMAIN toServer' :
              /\ toServer'[i].op = "listen" /\ toServer'[i].at = order[i]
              /\ toServer'[i].turn = started[order[i]] /\ toServer'[i].hash = cache[order[i]]
    BY <2>1 DEF Listen
  <2>5. ListenCurrent' /\ RootFirst'
    BY <1>1, <2>4 DEF ListenCurrent, RootFirst
  <2>6. \A q \in listens : \E i \in DOMAIN toServer' : IsListen(toServer'[i], q)
    BY <2>2, <2>4 DEF IsListen
  <2>7. Everyone' /\ AllComing'
    <3>1. \A q \in listens : Asked(q)' # {}
      BY <2>6 DEF Asked
    <3>2. QED
      BY <1>1, <2>6, <3>1 DEF Everyone, AllComing
  <2>8. ASSUME NEW c \in Child, NEW i \in DOMAIN toServer', c \in Under(toServer'[i].at),
               NEW v, v = toServer'[i].hash[c]
        PROVE  Shows(c, v)'
    <3>1. PICK p \in listens : p = order[i]
      BY <2>3, <2>4
    <3>2. p \in Observed /\ c \in Under(p) /\ v = cache[p][c]
      BY <1>2, <2>4, <2>8, <3>1
    <3>3. \A q \in Place : c \in Under(q) <=> q = c \/ q = Root
      BY DEF Under
    <3>4. \A q \in Observed : c \in Under(q) => cache[q][c] = v
      BY <1>2, <3>2, <3>3 DEF Agreeing, Same, BothSame
    <3>5. QED
      BY <1>1, <1>2, <3>4 DEF Shows
  <2>9. Unserved'
    <3> SUFFICES ASSUME NEW c \in Child
                 PROVE  /\ NoneCarries(c)'
                        /\ \A i \in DOMAIN toServer' : \A v :
                              c \in Under(toServer'[i].at) /\ v = toServer'[i].hash[c]
                              => Shows(c, v)'
      BY DEF Unserved, Shows
    <3>1. QED
      BY <1>5, <2>8
  <2>10. QED
    BY <1>5, <2>5, <2>7, <2>9 DEF UpToDate
<1>8. QED
  BY <1>6, <1>7

(* Frames that are added and do not carry an entry *)
LEMMA CarriesMore ==
    ASSUME TypeOK, NEW new \in Seq(Reply), toClient' = toClient \o new,
           NEW c, server'[c] = server[c],
           \A i \in DOMAIN new : ~Carries(new[i], c)
    PROVE  /\ NoneCarries(c) => NoneCarries(c)'
           /\ LastCarries(c) => LastCarries(c)'
<1>1. /\ \A k \in DOMAIN toClient : k \in DOMAIN toClient' /\ toClient'[k] = toClient[k]
      /\ \A k \in DOMAIN toClient' :
            \/ k \in DOMAIN toClient
            \/ k - Len(toClient) \in DOMAIN new /\ toClient'[k] = new[k - Len(toClient)]
  BY ClientMore
<1>2. \A k \in DOMAIN toClient' : k \in DOMAIN toClient \/ ~Carries(toClient'[k], c)
  BY <1>1
<1>3. NoneCarries(c) => NoneCarries(c)'
  BY <1>1, <1>2 DEF NoneCarries
<1>4. ASSUME LastCarries(c)
      PROVE  LastCarries(c)'
  <2>1. PICK k \in DOMAIN toClient :
          /\ Carries(toClient[k], c) /\ toClient[k].data[c] = server[c]
          /\ \A m \in DOMAIN toClient : m > k => ~Carries(toClient[m], c)
    BY <1>4 DEF LastCarries
  <2>2. \A m \in DOMAIN toClient' : m > k => ~Carries(toClient'[m], c)
    BY <2>1, <1>1, <1>2
  <2>3. QED
    BY <2>1, <2>2, <1>1 DEF LastCarries
<1>5. QED
  BY <1>3, <1>4

(* Frames of which the first carries what the server has, and no other *)
LEMMA CarriesLast ==
    ASSUME TypeOK, NEW new \in Seq(Reply), toClient' = toClient \o new, NEW c,
           1 \in DOMAIN new, Carries(new[1], c), new[1].data[c] = server'[c],
           \A i \in DOMAIN new : i # 1 => ~Carries(new[i], c)
    PROVE  LastCarries(c)'
<1> DEFINE n == Len(toClient)
<1>1. /\ n \in Nat
      /\ \A k \in DOMAIN toClient : k \in Nat /\ k <= n
      /\ \A i \in DOMAIN new : n + i \in DOMAIN toClient' /\ toClient'[n + i] = new[i]
      /\ \A k \in DOMAIN toClient' :
            \/ k \in DOMAIN toClient
            \/ /\ k \in Nat /\ k > n
               /\ k - n \in DOMAIN new /\ toClient'[k] = new[k - n]
  BY ClientMore
<1> HIDE DEF n
<1>2. ASSUME NEW m \in DOMAIN toClient', m > n + 1
      PROVE  ~Carries(toClient'[m], c)
  <2>1. m \notin DOMAIN toClient
    BY <1>1, <1>2
  <2>2. m - n \in DOMAIN new /\ toClient'[m] = new[m - n] /\ m - n # 1
    BY <2>1, <1>1, <1>2
  <2>3. QED
    BY <2>2
<1>3. n + 1 \in DOMAIN toClient' /\ toClient'[n + 1] = new[1]
  BY <1>1
<1>4. QED
  BY <1>2, <1>3 DEF LastCarries

LEMMA UpToDateListens ==
    ASSUME TypeOK, ListensCover, UpToDate, ServerListens, count'["deny"] = 0
    PROVE  UpToDate'
<1> USE SyncTreeAssumption
<1>0. PICK h : h = Head(toServer)
  OBVIOUS
<1>1. /\ toServer # <<>> /\ toServer' = Tail(toServer)
      /\ UNCHANGED <<observers, cache, complete, connected, listens, started, server, held>>
  BY DEF ServerListens
<1>2. Observed' = Observed
  BY <1>1 DEF Observed
<1>3. /\ h \in Request /\ h.op = "listen" /\ h.at \in Place
  BY <1>0, Served
<1>4. PICK new \in Seq(Reply) : toClient' = toClient \o new /\ Accepts(h, new)
  <2>1. PICK new \in Seq(Reply) :
          toClient' = toClient \o new /\ (Accepts(h, new) \/ Refuses(h, new))
    BY <1>0, Served
  <2>2. ~Refuses(h, new)
    BY DEF Refuses, Count, TypeOK, Counted
  <2>3. QED
    BY <2>1, <2>2
<1>5. /\ 1 \in DOMAIN toServer /\ toServer[1] = h
      /\ DOMAIN toServer \subseteq Nat /\ DOMAIN toServer' \subseteq Nat
      /\ \A k \in DOMAIN toServer' : /\ k + 1 \in DOMAIN toServer /\ k >= 1
                                     /\ toServer'[k] = toServer[k + 1]
      /\ \A k \in DOMAIN toServer :
            k = 1 \/ (k - 1 \in DOMAIN toServer' /\ toServer'[k - 1] = toServer[k])
  BY <1>0, <1>1, ServerTail
<1>6. /\ Len(toClient) \in Nat
      /\ \A k \in DOMAIN toClient : k \in DOMAIN toClient' /\ toClient'[k] = toClient[k]
      /\ \A i \in DOMAIN new :
            Len(toClient) + i \in DOMAIN toClient' /\ toClient'[Len(toClient) + i] = new[i]
      /\ \A k \in DOMAIN toClient' :
            \/ k \in DOMAIN toClient
            \/ k - Len(toClient) \in DOMAIN new /\ toClient'[k] = new[k - Len(toClient)]
  BY <1>4, ClientMore
<1>7. /\ active' = active \cup {h.at}
      /\ \E i \in DOMAIN new : new[i] = Answer("ok", h.at, h.turn)
      /\ \A i \in DOMAIN new :
            \/ new[i] = Answer("ok", h.at, h.turn)
            \/ i = 1 /\ new[i] = DataAt(h.at, Part(h.at, server))
      /\ h.hash = Part(h.at, server) \/ (1 \in DOMAIN new /\ new[1] = DataAt(h.at, Part(h.at, server)))
  BY <1>4 DEF Accepts
<1>8. NoneDenied'
  <2>1. \A i \in DOMAIN new : new[i].op # "denied"
    BY <1>7 DEF Answer, DataAt
  <2>2. QED
    BY <1>6, <2>1 DEF UpToDate, NoneDenied
<1>9. ListenCurrent'
  BY <1>1, <1>5 DEF UpToDate, ListenCurrent
<1>10. RootFirst'
  <2> SUFFICES ASSUME NEW i \in DOMAIN toServer', toServer'[i].op = "unlisten"
               PROVE  /\ toServer'[i].at \in Child
                      /\ \/ Root \in active'
                         \/ \E j \in DOMAIN toServer' : j < i /\ IsListen(toServer'[j], Root)
    BY DEF RootFirst
  <2>1. i + 1 \in DOMAIN toServer /\ toServer'[i] = toServer[i + 1] /\ i \in Nat
    BY <1>5
  <2>2. /\ toServer'[i].at \in Child
        /\ \/ Root \in active
           \/ \E j \in DOMAIN toServer : j < i + 1 /\ IsListen(toServer[j], Root)
    BY <2>1 DEF UpToDate, RootFirst
  <2>3. ASSUME NEW j \in DOMAIN toServer, j < i + 1, IsListen(toServer[j], Root)
        PROVE  \/ Root \in active'
               \/ \E m \in DOMAIN toServer' : m < i /\ IsListen(toServer'[m], Root)
    <3>1. CASE j = 1
      BY <2>3, <3>1, <1>5, <1>7 DEF IsListen
    <3>2. CASE j # 1
      <4>1. j - 1 \in DOMAIN toServer' /\ toServer'[j - 1] = toServer[j] /\ j - 1 < i
        BY <2>1, <2>3, <3>2, <1>5
      <4>2. QED
        BY <4>1, <2>3
    <3>3. QED
      BY <3>1, <3>2
  <2>4. QED
    BY <2>2, <2>3, <1>7
<1>11. ASSUME NEW q, Asked(q) # {}
       PROVE  Asked(q)' # {}
  <2>1. CASE q \in active
    BY <2>1, <1>7 DEF Asked
  <2>2. CASE \E i \in DOMAIN toServer : IsListen(toServer[i], q)
    <3>1. PICK i \in DOMAIN toServer : IsListen(toServer[i], q)
      BY <2>2
    <3>2. CASE i = 1
      BY <3>1, <3>2, <1>5, <1>7 DEF Asked, IsListen
    <3>3. CASE i # 1
      BY <3>1, <3>3, <1>5 DEF Asked
    <3>4. QED
      BY <3>2, <3>3
  <2>3. QED
    BY <2>1, <2>2, <1>11 DEF Asked
<1>12. Everyone'
  BY <1>1, <1>11 DEF UpToDate, Everyone
<1>13. AllComing'
  <2> SUFFICES ASSUME connected, NEW q \in listens
               PROVE  \/ q \in complete
                      \/ \E i \in DOMAIN toServer' : IsListen(toServer'[i], q)
                      \/ \E k \in DOMAIN toClient' : Completes(toClient'[k], q, started[q])
    BY <1>1 DEF AllComing
  <2>1. ASSUME NEW i \in DOMAIN toServer, IsListen(toServer[i], q)
        PROVE  \/ \E m \in DOMAIN toServer' : IsListen(toServer'[m], q)
               \/ \E k \in DOMAIN toClient' : Completes(toClient'[k], q, started[q])
    <3>1. CASE i = 1
      <4>1. h.at = q /\ h.turn = started[q]
        BY <2>1, <3>1, <1>5 DEF IsListen, UpToDate, ListenCurrent
      <4>2. PICK m \in DOMAIN new : new[m] = Answer("ok", h.at, h.turn)
        BY <1>7
      <4>3. Completes(new[m], q, started[q])
        BY <4>1, <4>2 DEF Answer, Completes
      <4>4. QED
        BY <4>3, <1>6
    <3>2. CASE i # 1
      BY <2>1, <3>2, <1>5
    <3>3. QED
      BY <3>1, <3>2
  <2>2. QED
    BY <2>1, <1>6 DEF UpToDate, AllComing
<1>14. \A c, v : Shows(c, v)' = Shows(c, v)
  BY <1>1, <1>2 DEF Shows
<1>15. ASSUME NEW c \in Child, c \notin Under(h.at)
       PROVE  /\ NoneCarries(c) => NoneCarries(c)'
              /\ LastCarries(c) => LastCarries(c)'
              /\ active' \cap {c, Root} = active \cap {c, Root}
  <2>1. \A i \in DOMAIN new : ~Carries(new[i], c)
    BY <1>7, <1>15 DEF Carries, Answer, DataAt
  <2>2. h.at # c /\ h.at # Root
    BY <1>15 DEF Under
  <2>3. server'[c] = server[c]
    BY <1>1
  <2>4. QED
    BY <2>1, <2>2, <2>3, <1>4, <1>7, CarriesMore
<1>16. Unserved'
  <2> SUFFICES ASSUME NEW c \in Child, active' \cap {c, Root} = {}
               PROVE  /\ NoneCarries(c)'
                      /\ \A i \in DOMAIN toServer' : \A v :
                            /\ toServer'[i].op = "listen" /\ c \in Under(toServer'[i].at)
                            /\ v = toServer'[i].hash[c]
                            => Shows(c, v)'
    BY DEF Unserved, Shows
  <2>1. c \notin Under(h.at)
    BY <1>3, <1>7 DEF Under
  <2>2. NoneCarries(c)'
    BY <2>1, <1>15 DEF UpToDate, Unserved
  <2>3. ASSUME NEW i \in DOMAIN toServer', NEW v, toServer'[i].op = "listen",
               c \in Under(toServer'[i].at), v = toServer'[i].hash[c]
        PROVE  Shows(c, v)'
    <3>1. i + 1 \in DOMAIN toServer /\ toServer'[i] = toServer[i + 1]
      BY <1>5
    <3>2. active \cap {c, Root} = {}
      BY <2>1, <1>15
    <3>3. Shows(c, v)
      BY <2>3, <3>1, <3>2 DEF UpToDate, Unserved
    <3>4. QED
      BY <3>3, <1>14
  <2>4. QED
    BY <2>2, <2>3
<1>17. ServedLast'
  <2> SUFFICES ASSUME NEW c \in Child, active' \cap {c, Root} # {}
               PROVE  LastCarries(c)' \/ (NoneCarries(c)' /\ \A v : v = server[c] => Shows(c, v)')
    BY <1>1 DEF ServedLast, Shows
  <2>0. Shows(c, server[c]) => \A v : v = server[c] => Shows(c, v)'
    BY <1>14
  <2>1. CASE c \notin Under(h.at)
    BY <2>0, <2>1, <1>15 DEF UpToDate, ServedLast
  <2>2. CASE c \in Under(h.at)
    <3>0. server \in Data
      BY DEF TypeOK
    <3>1. Part(h.at, server)[c] = server[c]
      BY <2>2, <3>0, <1>3 DEF Part
    <3>2. CASE 1 \in DOMAIN new /\ new[1] = DataAt(h.at, Part(h.at, server))
      <4>1. Carries(new[1], c) /\ new[1].data[c] = server'[c]
        BY <2>2, <3>1, <3>2, <1>1 DEF Carries, DataAt
      <4>2. \A i \in DOMAIN new : i # 1 => ~Carries(new[i], c)
        BY <1>7 DEF Carries, Answer
      <4>3. QED
        BY <3>2, <4>1, <4>2, <1>4, CarriesLast
    <3>3. CASE ~(1 \in DOMAIN new /\ new[1] = DataAt(h.at, Part(h.at, server)))
      <4>1. h.hash[c] = server[c] /\ \A i \in DOMAIN new : new[i] = Answer("ok", h.at, h.turn)
        BY <3>1, <3>3, <1>7
      <4>2. \A i \in DOMAIN new : ~Carries(new[i], c)
        BY <4>1 DEF Carries, Answer
      <4>3. /\ NoneCarries(c) => NoneCarries(c)'
            /\ LastCarries(c) => LastCarries(c)'
        BY <4>2, <1>1, <1>4, CarriesMore
      <4>4. CASE active \cap {c, Root} # {}
        BY <2>0, <4>3, <4>4 DEF UpToDate, ServedLast
      <4>5. CASE active \cap {c, Root} = {}
        <5>1. NoneCarries(c) /\ Shows(c, h.hash[c])
          BY <2>2, <4>5, <1>3, <1>5 DEF UpToDate, Unserved
        <5>2. QED
          BY <5>1, <2>0, <4>1, <4>3
      <4>6. QED
        BY <4>4, <4>5
    <3>4. QED
      BY <3>2, <3>3
  <2>3. QED
    BY <2>1, <2>2
<1>18. QED
  BY <1>8, <1>9, <1>10, <1>12, <1>13, <1>16, <1>17 DEF UpToDate

(* An entry's listen stops when the list is sent instead. *)
LEMMA UpToDateUnlistens ==
    ASSUME TypeOK, ListensCover, Agreeing, UpToDate, ServerUnlistens
    PROVE  UpToDate'
<1> USE SyncTreeAssumption
<1>0. PICK h : h = Head(toServer)
  OBVIOUS
<1>1. /\ toServer # <<>> /\ toServer' = Tail(toServer) /\ h.op = "unlisten"
      /\ active' = active \ {h.at}
      /\ UNCHANGED <<observers, cache, complete, connected, listens, started, toClient, server>>
  BY <1>0 DEF ServerUnlistens
<1>2. Observed' = Observed
  BY <1>1 DEF Observed
<1>3. /\ 1 \in DOMAIN toServer /\ toServer[1] = h
      /\ DOMAIN toServer \subseteq Nat /\ DOMAIN toServer' \subseteq Nat
      /\ \A k \in DOMAIN toServer' : /\ k + 1 \in DOMAIN toServer /\ k >= 1
                                     /\ toServer'[k] = toServer[k + 1]
      /\ \A k \in DOMAIN toServer :
            k = 1 \/ (k - 1 \in DOMAIN toServer' /\ toServer'[k - 1] = toServer[k])
      /\ \A k \in DOMAIN toServer : k >= 1
  BY <1>0, <1>1, ServerTail
<1>4. h.at \in Child /\ Root \in active /\ Root \in active'
  <2>1. \A j \in DOMAIN toServer : ~(j < 1)
    BY <1>3
  <2>2. h.at \in Child /\ Root \in active
    BY <2>1, <1>1, <1>3 DEF UpToDate, RootFirst
  <2>3. QED
    BY <2>2, <1>1
<1>5. Root \in Observed
  BY <1>4 DEF Agreeing, Sending, Unobserved, Asked
<1>6. h.at \notin listens
  BY <1>4, <1>5 DEF ListensCover, Covered, Observed
<1>7. NoneDenied'
  BY <1>1 DEF UpToDate, NoneDenied
<1>8. ListenCurrent' /\ RootFirst'
  <2>1. ListenCurrent'
    BY <1>1, <1>3 DEF UpToDate, ListenCurrent
  <2>2. RootFirst'
    BY <1>3, <1>4 DEF UpToDate, RootFirst
  <2>3. QED
    BY <2>1, <2>2
<1>9. \A q, i : i \in DOMAIN toServer /\ IsListen(toServer[i], q)
                   => i - 1 \in DOMAIN toServer' /\ IsListen(toServer'[i - 1], q)
  BY <1>1, <1>3 DEF IsListen
<1>10. Everyone'
  <2>1. \A q \in listens : Asked(q) # {} => Asked(q)' # {}
    BY <1>1, <1>6, <1>9 DEF Asked
  <2>2. QED
    BY <2>1, <1>1 DEF UpToDate, Everyone
<1>11. AllComing'
  BY <1>1, <1>9 DEF UpToDate, AllComing
<1>12. Unserved'
  BY <1>4 DEF Unserved
<1>13. ServedLast'
  <2>1. \A c : NoneCarries(c)' = NoneCarries(c) /\ LastCarries(c)' = LastCarries(c)
    BY <1>1 DEF NoneCarries, LastCarries
  <2>2. \A c : Shows(c, server[c])' = Shows(c, server[c])
    BY <1>1, <1>2 DEF Shows
  <2>3. \A c \in Child : active \cap {c, Root} # {}
    BY <1>4
  <2>4. QED
    BY <2>1, <2>2, <2>3 DEF UpToDate, ServedLast
<1>14. QED
  BY <1>7, <1>8, <1>10, <1>11, <1>12, <1>13 DEF UpToDate

(* An entry is set: whoever is sent it is sent this last. *)
LEMMA UpToDateChange ==
    ASSUME TypeOK, UpToDate, NEW c \in Child, NEW v \in Version, ServerChange(c, v)
    PROVE  UpToDate'
<1>1. UNCHANGED <<observers, cache, complete, connected, listens, started, toServer, active>>
  BY DEF ServerChange
<1>2. Observed' = Observed
  BY <1>1 DEF Observed
<1>3. /\ server' \in Data
      /\ \A d \in Child : d # c => server'[d] = server[d]
  BY Changed
<1>4. PICK new \in Seq(Reply) :
        /\ toClient' = toClient \o new
        /\ active \cap {c, Root} = {} => DOMAIN new = {}
        /\ active \cap {c, Root} # {} =>
              DOMAIN new = {1} /\ new[1] = DataAt(c, Part(c, server'))
  BY Changed
<1>5. \A i \in DOMAIN new : new[i].op = "data" /\ new[i].at = c
  BY <1>4 DEF DataAt
<1>6. /\ \A k \in DOMAIN toClient : k \in DOMAIN toClient' /\ toClient'[k] = toClient[k]
      /\ \A k \in DOMAIN toClient' :
            \/ k \in DOMAIN toClient
            \/ k - Len(toClient) \in DOMAIN new /\ toClient'[k] = new[k - Len(toClient)]
  BY <1>4, ClientMore
<1>7. NoneDenied'
  BY <1>5, <1>6 DEF UpToDate, NoneDenied
<1>8. ListenCurrent' /\ RootFirst'
  BY <1>1 DEF UpToDate, ListenCurrent, RootFirst
<1>9. Everyone' /\ AllComing'
  <2>1. Everyone'
    BY <1>1 DEF UpToDate, Everyone, Asked
  <2>2. AllComing'
    BY <1>1, <1>6 DEF UpToDate, AllComing
  <2>3. QED
    BY <2>1, <2>2
<1>10. \A d, w : Shows(d, w)' = Shows(d, w)
  BY <1>1, <1>2 DEF Shows
<1>11. /\ c \in Under(c) /\ Under(c) = {c}
  BY SyncTreeAssumption DEF Under
<1>12. ASSUME NEW d \in Child, d # c
       PROVE  /\ NoneCarries(d) => NoneCarries(d)'
              /\ LastCarries(d) => LastCarries(d)'
              /\ server'[d] = server[d]
  <2>1. \A i \in DOMAIN new : ~Carries(new[i], d)
    BY <1>5, <1>11, <1>12 DEF Carries
  <2>2. server'[d] = server[d]
    BY <1>3, <1>12
  <2>3. QED
    BY <2>1, <2>2, <1>4, CarriesMore
<1>13. CASE active \cap {c, Root} = {}
  <2>1. \A k \in DOMAIN toClient' : k \in DOMAIN toClient /\ toClient'[k] = toClient[k]
    BY <1>4, <1>6, <1>13
  <2>2. \A d : NoneCarries(d) => NoneCarries(d)'
    BY <2>1 DEF NoneCarries
  <2>3. Unserved'
    BY <2>2, <1>1, <1>2 DEF UpToDate, Unserved, Shows
  <2>4. ServedLast'
    <3> SUFFICES ASSUME NEW d \in Child, active \cap {d, Root} # {}
                 PROVE  LastCarries(d)' \/ (NoneCarries(d)' /\ Shows(d, server[d])')
      BY <1>1 DEF ServedLast
    <3>1. d # c
      BY <1>13
    <3>2. Shows(d, server[d])' = Shows(d, server[d])
      BY <3>1, <1>1, <1>2, <1>12 DEF Shows
    <3>3. QED
      BY <3>1, <3>2, <1>12 DEF UpToDate, ServedLast
  <2>5. QED
    BY <2>3, <2>4, <1>7, <1>8, <1>9 DEF UpToDate
<1>14. CASE active \cap {c, Root} # {}
  <2>1. LastCarries(c)'
    <3>1. DOMAIN new = {1} /\ new[1] = DataAt(c, Part(c, server'))
      BY <1>4, <1>14
    <3>2. Part(c, server')[c] = server'[c]
      BY <1>3, <1>11, PartFacts
    <3>3. Carries(new[1], c) /\ new[1].data[c] = server'[c]
      BY <3>1, <3>2, <1>11 DEF Carries, DataAt
    <3>4. QED
      BY <3>1, <3>3, <1>4, CarriesLast
  <2>2. Unserved'
    <3> SUFFICES ASSUME NEW d \in Child, active \cap {d, Root} = {}
                 PROVE  /\ NoneCarries(d)'
                        /\ \A i \in DOMAIN toServer :
                              toServer[i].op = "listen" /\ d \in Under(toServer[i].at)
                                  => Shows(d, toServer[i].hash[d])
      BY <1>1, <1>2 DEF Unserved, Shows
    <3>1. d # c
      BY <1>14
    <3>2. QED
      BY <3>1, <1>12 DEF UpToDate, Unserved
  <2>3. ServedLast'
    <3> SUFFICES ASSUME NEW d \in Child, active \cap {d, Root} # {}, d # c
                 PROVE  LastCarries(d)' \/ (NoneCarries(d)' /\ Shows(d, server[d])')
      BY <2>1, <1>1 DEF ServedLast
    <3>1. Shows(d, server[d])' = Shows(d, server[d])
      BY <1>1, <1>2, <1>12 DEF Shows
    <3>2. QED
      BY <3>1, <1>12 DEF UpToDate, ServedLast
  <2>4. QED
    BY <2>2, <2>3, <1>7, <1>8, <1>9 DEF UpToDate
<1>15. QED
  BY <1>13, <1>14

FreshInv == count["remove"] = 0 /\ count["deny"] = 0 => UpToDate

LEMMA UpToDateStep ==
    /\ TypeOK /\ ListensCover /\ Idle /\ AgreeInv /\ AgreeInv'
    /\ FreshInv /\ [Next]_vars
    => FreshInv'
<1> SUFFICES ASSUME TypeOK, ListensCover, Idle, AgreeInv, AgreeInv', FreshInv, [Next]_vars,
                    count'["remove"] = 0, count'["deny"] = 0
             PROVE  UpToDate'
  BY DEF FreshInv
<1>0. count \in [Counted -> Nat] /\ "remove" \in Counted /\ "deny" \in Counted
  BY DEF TypeOK, Counted
<1>1. ASSUME NEW what \in Counted, NEW bound, Count(what, bound)
      PROVE  /\ what # "remove" /\ what # "deny"
             /\ count["remove"] = 0 /\ count["deny"] = 0
  BY <1>0, <1>1 DEF Count
<1>2. CASE \E p \in Place : AddEventRegistration(p)
  <2>1. PICK p \in Place : AddEventRegistration(p)
    BY <1>2
  <2>2. Count("observe", MaxObserves) /\ "observe" \in Counted
    BY <2>1 DEF AddEventRegistration, Counted
  <2>3. Agreeing /\ UpToDate
    BY <2>2, <1>1 DEF AgreeInv, FreshInv
  <2>4. BothSame'
    BY DEF AgreeInv, Agreeing, Same
  <2>5. QED
    BY <2>1, <2>3, <2>4, UpToDateAdd
<1>3. CASE \E p \in Place : RemoveEventRegistration(p)
  BY <1>0, <1>1, <1>3 DEF RemoveEventRegistration
<1>4. CASE OnDataUpdate
  <2>1. UpToDate
    BY <1>4 DEF OnDataUpdate, FreshInv
  <2>2. QED
    BY <2>1, <1>4, UpToDateData
<1>5. CASE OnListenResponse
  <2>1. UpToDate
    BY <1>5 DEF OnListenResponse, FreshInv
  <2>2. QED
    BY <2>1, <1>5, UpToDateResponse
<1>6. CASE OnDisconnect \/ RestoreState
  <2>1. "drop" \in Counted
    BY DEF Counted
  <2>2. Agreeing /\ UpToDate
    BY <1>1, <1>6, <2>1 DEF OnDisconnect, RestoreState, AgreeInv, FreshInv
  <2>3. QED
    BY <2>2, <1>6, UpToDateConnection
<1>7. CASE ServerListens
  <2>1. UpToDate
    BY <1>1, <1>7 DEF ServerListens, FreshInv, Counted
  <2>2. QED
    BY <2>1, <1>7, UpToDateListens
<1>8. CASE ServerUnlistens
  <2>1. Agreeing /\ UpToDate
    BY <1>8 DEF ServerUnlistens, AgreeInv, FreshInv
  <2>2. QED
    BY <2>1, <1>8, UpToDateUnlistens
<1>9. CASE \E c \in Child, v \in Version : ServerChange(c, v)
  <2>1. PICK c \in Child, v \in Version : ServerChange(c, v)
    BY <1>9
  <2>2. Count("change", MaxChanges) /\ "change" \in Counted
    BY <2>1 DEF ServerChange, Counted
  <2>3. UpToDate
    BY <2>2, <1>1 DEF FreshInv
  <2>4. QED
    BY <2>1, <2>3, UpToDateChange
<1>10. CASE UNCHANGED vars
  <2>1. UNCHANGED <<observers, cache, complete, connected, listens, started, toServer,
                    toClient, server, active, count>>
    BY <1>10 DEF vars
  <2>2. UpToDate /\ Observed' = Observed
    BY <2>1 DEF FreshInv, Observed
  <2>3. QED
    BY <2>1, <2>2, UpToDateSame
<1>11. QED
  BY <1>2, <1>3, <1>4, <1>5, <1>6, <1>7, <1>8, <1>9, <1>10 DEF Next, Client, Server

LEMMA UpToDateAtRest ==
    ASSUME TypeOK, ListensCover, Agreeing, UpToDate, Silent
    PROVE  \A p \in Observed : p \in complete /\ cache[p] = Part(p, server)
<1> USE SyncTreeAssumption
<1>1. connected /\ DOMAIN toServer = {} /\ DOMAIN toClient = {}
  BY DEF Silent
<1>2. \A p \in listens : p \in active /\ p \in complete
  BY <1>1 DEF UpToDate, Everyone, AllComing, Asked
<1>3. ASSUME NEW p \in Observed
      PROVE  \/ p \in listens
             \/ Root \in listens /\ Root \in Observed
  BY DEF ListensCover, Covered, Observed
<1>4. ASSUME NEW p \in Observed
      PROVE  p \in complete
  BY <1>2, <1>3 DEF Agreeing, Same, RootCompletes
<1>5. ASSUME NEW p \in Observed, NEW c \in Under(p)
      PROVE  cache[p][c] = server[c]
  <2>1. c \in Child /\ (p = c \/ p = Root)
    BY DEF Under, Observed
  <2>2. active \cap {c, Root} # {}
    BY <1>2, <1>3, <2>1
  <2>3. Shows(c, server[c])
    BY <1>1, <2>1, <2>2 DEF UpToDate, ServedLast, LastCarries
  <2>4. QED
    BY <2>3 DEF Shows
<1>6. ASSUME NEW p \in Observed
      PROVE  cache[p] = Part(p, server)
  <2>1. p \in Place /\ cache[p] = Part(p, cache[p])
    BY DEF TypeOK, Observed
  <2>2. \A c \in Child : c \in Under(p) => cache[p][c] = server[c]
    BY <1>5
  <2>3. Part(p, cache[p]) = Part(p, server)
    BY <2>2 DEF Part
  <2>4. QED
    BY <2>1, <2>3
<1>7. QED
  BY <1>4, <1>6

LEMMA FreshInvariance ==
    Spec => [](TypeOK /\ ListensCover /\ AgreeInv /\ FreshInv)
<1>1. Init => FreshInv
  BY UpToDateInit DEF FreshInv
<1>2. QED
  BY <1>1, TypeInvariance, ListensAlwaysCover, HeldInit, HeldStep, AgreeInit, IdleStep,
     AgreeStep, UpToDateStep, PTL DEF Spec

(* For any entries, changes and lost connections: when nothing is on its   *)
(* way, no listen was refused and no observer removed, every observer has  *)
(* been told what the server holds, those of covered places too, for which *)
(* nothing was ever asked of the server (FSyncTree.m:459).                 *)
THEOREM AllUpToDateAtRest == Spec => []CurrentAtRest
<1>1. TypeOK /\ ListensCover /\ AgreeInv /\ FreshInv => CurrentAtRest
  <2> SUFFICES ASSUME TypeOK, ListensCover, AgreeInv, FreshInv, Silent, count["deny"] = 0,
                      count["remove"] = 0
               PROVE  \A p \in Observed : p \in complete /\ cache[p] = Part(p, server)
    BY DEF CurrentAtRest
  <2>1. Agreeing /\ UpToDate
    BY DEF AgreeInv, FreshInv
  <2>2. QED
    BY <2>1, UpToDateAtRest
<1>2. QED
  BY <1>1, FreshInvariance, PTL

-----------------------------------------------------------------------------
(* Listens answered, whatever was removed or refused *)

Answered(f, p, turn) == f.op \in {"ok", "denied"} /\ f.at = p /\ f.turn = turn

(* A view that is listened to is complete, or the listen is on its way, or *)
(* its answer is.                                                          *)
Coming ==
    connected => \A p \in listens :
        \/ p \in complete
        \/ \E i \in DOMAIN toServer :
              IsListen(toServer[i], p) /\ toServer[i].turn = started[p]
        \/ \E k \in DOMAIN toClient : Answered(toClient[k], p, started[p])

(* Some places more are listened to. *)
LEMMA ComingMore ==
    ASSUME TypeOK, Coming, UNCHANGED connected, NEW new \in Seq(Request), Send(new),
           NEW S, listens' \subseteq listens \cup S,
           \A q \in Place : q \notin S => started'[q] = started[q],
           \A q \in S : \E i \in DOMAIN new :
              IsListen(new[i], q) /\ new[i].turn = started'[q],
           \A q \in listens' : q \notin S =>
              /\ q \in complete => q \in complete'
              /\ \A k \in DOMAIN toClient : Answered(toClient[k], q, started[q])
                    => \E m \in DOMAIN toClient' : toClient'[m] = toClient[k]
    PROVE  Coming'
<1> SUFFICES ASSUME connected', NEW p \in listens'
             PROVE  \/ p \in complete'
                    \/ \E i \in DOMAIN toServer' :
                          IsListen(toServer'[i], p) /\ toServer'[i].turn = started'[p]
                    \/ \E k \in DOMAIN toClient' : Answered(toClient'[k], p, started'[p])
  BY DEF Coming
<1>1. toServer' = toServer \o new
  BY DEF Send
<1>2. /\ \A i \in DOMAIN toServer : i \in DOMAIN toServer' /\ toServer'[i] = toServer[i]
      /\ \A i \in DOMAIN new :
            Len(toServer) + i \in DOMAIN toServer' /\ toServer'[Len(toServer) + i] = new[i]
  BY <1>1, ServerMore
<1>3. CASE p \in S
  <2>1. PICK i \in DOMAIN new : IsListen(new[i], p) /\ new[i].turn = started'[p]
    BY <1>3
  <2>2. QED
    BY <2>1, <1>2
<1>4. CASE p \notin S
  <2>1. p \in listens /\ p \in Place /\ started'[p] = started[p]
    BY <1>4 DEF TypeOK
  <2>2. CASE p \in complete
    BY <2>2, <1>4
  <2>3. CASE \E i \in DOMAIN toServer :
                IsListen(toServer[i], p) /\ toServer[i].turn = started[p]
    BY <2>1, <2>3, <1>2
  <2>4. CASE \E k \in DOMAIN toClient : Answered(toClient[k], p, started[p])
    BY <2>1, <2>4, <1>4
  <2>5. QED
    BY <2>1, <2>2, <2>3, <2>4 DEF Coming
<1>5. QED
  BY <1>3, <1>4

(* The same places are. *)
LEMMA ComingSame ==
    ASSUME Coming, UNCHANGED <<connected, listens, started>>, complete \subseteq complete',
           \A q \in listens :
              /\ \A i \in DOMAIN toServer :
                    IsListen(toServer[i], q) /\ toServer[i].turn = started[q] =>
                       \/ \E j \in DOMAIN toServer' : toServer'[j] = toServer[i]
                       \/ \E k \in DOMAIN toClient' : Answered(toClient'[k], q, started[q])
              /\ \A k \in DOMAIN toClient : Answered(toClient[k], q, started[q]) =>
                    \/ q \in complete'
                    \/ \E m \in DOMAIN toClient' : toClient'[m] = toClient[k]
    PROVE  Coming'
<1> SUFFICES ASSUME connected, NEW p \in listens
             PROVE  \/ p \in complete'
                    \/ \E i \in DOMAIN toServer' :
                          IsListen(toServer'[i], p) /\ toServer'[i].turn = started[p]
                    \/ \E k \in DOMAIN toClient' : Answered(toClient'[k], p, started[p])
  BY DEF Coming
<1>1. CASE p \in complete
  BY <1>1
<1>2. CASE \E i \in DOMAIN toServer :
              IsListen(toServer[i], p) /\ toServer[i].turn = started[p]
  <2>1. PICK i \in DOMAIN toServer :
           IsListen(toServer[i], p) /\ toServer[i].turn = started[p]
    BY <1>2
  <2>2. QED
    BY <2>1
<1>3. CASE \E k \in DOMAIN toClient : Answered(toClient[k], p, started[p])
  <2>1. PICK k \in DOMAIN toClient : Answered(toClient[k], p, started[p])
    BY <1>3
  <2>2. QED
    BY <2>1
<1>4. QED
  BY <1>1, <1>2, <1>3 DEF Coming

(* What a view's listens and frames come to when it is set up *)
LEMMA ComingAdd ==
    ASSUME TypeOK, ListensCover, Coming, NEW p \in Place, AddEventRegistration(p)
    PROVE  Coming'
<1>1. UNCHANGED <<connected, toClient, server, active, held>>
  BY DEF AddEventRegistration
<1>2. CASE observers[p] # 0
  BY <1>1, <1>2, MoreObservers DEF Coming
<1>3. CASE observers[p] = 0
  <2> DEFINE data == ServerCacheForQuery(p)
  <2>1. /\ data \in Data /\ complete \subseteq complete'
        /\ \/ Covered(p) /\ UNCHANGED <<listens, started, toServer>>
           \/ ~Covered(p) /\ SetupListener(p, data)
    BY <1>3, NewView
  <2>2. CASE UNCHANGED <<listens, started, toServer>>
    BY <1>1, <2>1, <2>2, ComingSame
  <2>3. CASE SetupListener(p, data)
    <3> HIDE DEF data
    <3>1. PICK new \in Seq(Request) : SetUp(new, p, data) /\ Send(new)
      BY <2>1, <2>3, SetupFacts
    <3>2. listens' \subseteq listens \cup {p} /\ Starting({p})
      BY <2>3 DEF SetupListener
    <3>3. \A q \in Place : started'[q] = IF q \in {p} THEN started[q] + 1 ELSE started[q]
      BY <3>2, Started
    <3>4. \E i \in DOMAIN new : IsListen(new[i], p) /\ new[i].turn = started'[p]
      BY <3>1, <3>3 DEF SetUp, Listen, IsListen
    <3>5. QED
      BY <1>1, <2>1, <3>1, <3>2, <3>3, <3>4, ComingMore
  <2>4. QED
    BY <2>1, <2>2, <2>3
<1>4. QED
  BY <1>2, <1>3

LEMMA ComingHandOver ==
    ASSUME TypeOK, ListensCover, Coming, NEW p \in Place, RemoveView(p), UNCHANGED connected,
           NEW stops, stops = <<>> \/ stops = <<Unlisten(p)>>, HandOver(p, stops),
           \A k \in DOMAIN toClient : toClient[k].at # p =>
              \E m \in DOMAIN toClient' : toClient'[m] = toClient[k]
    PROVE  Coming'
<1> DEFINE S == Below(p) \cap Observed
<1>1. PICK new \in Seq(Request) : Handed(new, p) /\ Send(new)
  BY HandOverFacts
<1>2. /\ listens' = (listens \ {p}) \cup S /\ Starting(S)
  BY DEF HandOver
<1>3. \A q \in Place : started'[q] = IF q \in S THEN started[q] + 1 ELSE started[q]
  BY <1>2, Started
<1>4. S \subseteq Place /\ p \notin S
  BY SyncTreeAssumption DEF Observed, Below
<1>5. \A q \in S : \E i \in DOMAIN new : IsListen(new[i], q) /\ new[i].turn = started'[q]
  BY <1>1, <1>3, <1>4 DEF Handed, Listen, IsListen
<1>6. complete' = complete \ {p}
  BY ViewGone
<1> HIDE DEF S
<1>7. \A q \in listens' : q \notin S =>
         /\ q # p
         /\ q \in complete => q \in complete'
         /\ \A k \in DOMAIN toClient : Answered(toClient[k], q, started[q])
               => \E m \in DOMAIN toClient' : toClient'[m] = toClient[k]
  BY <1>2, <1>6 DEF Answered
<1>8. QED
  BY <1>1, <1>2, <1>3, <1>5, <1>7, ComingMore

LEMMA ComingRemove ==
    ASSUME TypeOK, ListensCover, Coming, NEW p \in Place, RemoveEventRegistration(p)
    PROVE  Coming'
<1>1. UNCHANGED <<connected, toClient, server, active, held>>
  BY DEF RemoveEventRegistration
<1>2. CASE UNCHANGED <<complete, listens, started, toServer>>
  BY <1>1, <1>2, ComingSame
<1>3. CASE RemoveView(p) /\ Covered(p) /\ UNCHANGED <<listens, started, toServer>>
  <2>1. p \notin listens /\ complete' = complete \ {p}
    BY <1>3, ViewGone DEF ListensCover
  <2>2. QED
    BY <1>1, <1>3, <2>1 DEF Coming
<1>4. CASE RemoveView(p) /\ HandOver(p, <<Unlisten(p)>>)
  BY <1>1, <1>4, ComingHandOver
<1>5. QED
  BY <1>2, <1>3, <1>4 DEF RemoveEventRegistration

LEMMA ComingResponse ==
    ASSUME TypeOK, ListensCover, Coming, OnListenResponse
    PROVE  Coming'
<1> DEFINE h == Head(toClient)
<1>1. /\ toClient # <<>> /\ toClient' = Tail(toClient) /\ h.op \in {"ok", "denied"}
      /\ UNCHANGED <<connected, server, active, held, count>>
  BY DEF OnListenResponse
<1>2. /\ 1 \in DOMAIN toClient /\ toClient[1] = h /\ h \in Reply
      /\ \A k \in DOMAIN toClient :
            k = 1 \/ (k - 1 \in DOMAIN toClient' /\ toClient'[k - 1] = toClient[k])
  BY <1>1, ClientTail
<1>3. h.at \in Place
  BY <1>2, ReplyFacts
<1>4. /\ \/ /\ ~CurrentListen(h)
            /\ UNCHANGED <<observers, cache, complete, listens, started, toServer>>
         \/ /\ CurrentListen(h) /\ h.op = "ok"
            /\ complete' = complete \cup ListenComplete(h.at)
            /\ UNCHANGED <<observers, cache, listens, started, toServer>>
         \/ /\ CurrentListen(h) /\ h.op = "denied"
            /\ RemoveView(h.at)
            /\ HandOver(h.at, <<>>)
  BY DEF OnListenResponse
<1> HIDE DEF h
<1>5. \A k \in DOMAIN toClient :
         toClient[k] = h \/ \E m \in DOMAIN toClient' : toClient'[m] = toClient[k]
  BY <1>2
<1>6. CASE ~CurrentListen(h) /\ UNCHANGED <<complete, listens, started, toServer>>
  <2>1. \A q \in listens : ~Answered(h, q, started[q])
    BY <1>6 DEF Answered, CurrentListen
  <2>2. QED
    BY <1>1, <1>5, <1>6, <2>1, ComingSame
<1>7. CASE /\ CurrentListen(h) /\ complete' = complete \cup ListenComplete(h.at)
           /\ UNCHANGED <<listens, started, toServer>>
  <2>1. h.at \in complete'
    BY <1>7 DEF CurrentListen, ListensCover, ListenComplete
  <2>2. \A q \in listens : Answered(h, q, started[q]) => q \in complete'
    BY <2>1 DEF Answered
  <2>3. QED
    BY <1>1, <1>5, <1>7, <2>2, ComingSame
<1>8. CASE RemoveView(h.at) /\ HandOver(h.at, <<>>)
  BY <1>1, <1>3, <1>5, <1>8, ComingHandOver
<1>9. QED
  BY <1>4, <1>6, <1>7, <1>8

LEMMA ComingRestore ==
    ASSUME TypeOK, RestoreState
    PROVE  Coming'
<1>1. PICK order \in Orders(listens) :
        toServer' = [i \in DOMAIN order |->
                       Listen(order[i], started[order[i]], cache[order[i]])]
  BY DEF RestoreState
<1>2. \A q \in listens : \E i \in DOMAIN order : order[i] = q
  BY OrderFacts DEF TypeOK
<1>3. UNCHANGED <<listens, started>>
  BY DEF RestoreState
<1>4. \A q \in listens : \E i \in DOMAIN toServer' :
         IsListen(toServer'[i], q) /\ toServer'[i].turn = started[q]
  BY <1>1, <1>2 DEF Listen, IsListen
<1>5. QED
  BY <1>3, <1>4 DEF Coming

LEMMA ComingServer ==
    ASSUME TypeOK, Coming, ServerListens \/ ServerUnlistens
    PROVE  Coming'
<1> DEFINE h == Head(toServer)
<1>1. /\ toServer # <<>> /\ toServer' = Tail(toServer)
      /\ UNCHANGED <<connected, complete, listens, started>>
  BY DEF ServerListens, ServerUnlistens
<1>2. \A k \in DOMAIN toServer :
         toServer[k] = h \/ \E j \in DOMAIN toServer' : toServer'[j] = toServer[k]
  BY <1>1, ServerTail
<1>3. CASE ServerUnlistens
  <2>1. h.op = "unlisten" /\ UNCHANGED toClient
    BY <1>3 DEF ServerUnlistens
  <2> HIDE DEF h
  <2>2. \A q : ~IsListen(h, q)
    BY <2>1 DEF IsListen
  <2>3. QED
    BY <1>1, <1>2, <2>1, <2>2, ComingSame
<1>4. CASE ServerListens
  <2>1. PICK new \in Seq(Reply) :
           /\ toClient' = toClient \o new
           /\ Accepts(h, new) \/ Refuses(h, new)
    BY <1>4, Served
  <2>2. /\ \A k \in DOMAIN toClient : k \in DOMAIN toClient' /\ toClient'[k] = toClient[k]
        /\ \A i \in DOMAIN new :
              Len(toClient) + i \in DOMAIN toClient' /\ toClient'[Len(toClient) + i] = new[i]
    BY <2>1, ClientMore
  <2> HIDE DEF h
  <2>3. \E i \in DOMAIN new : Answered(new[i], h.at, h.turn)
    BY <2>1 DEF Accepts, Refuses, Answered, Answer
  <2>4. \E k \in DOMAIN toClient' : Answered(toClient'[k], h.at, h.turn)
    BY <2>2, <2>3
  <2>5. \A q \in listens : IsListen(h, q) /\ h.turn = started[q] =>
           \E k \in DOMAIN toClient' : Answered(toClient'[k], q, started[q])
    BY <2>4 DEF IsListen
  <2>6. QED
    BY <1>1, <1>2, <2>2, <2>5, ComingSame
<1>5. QED
  BY <1>3, <1>4

LEMMA ComingStep == TypeOK /\ ListensCover /\ Coming /\ [Next]_vars => Coming'
<1> SUFFICES ASSUME TypeOK, ListensCover, Coming, [Next]_vars PROVE Coming'
  OBVIOUS
<1>1. CASE \E p \in Place : AddEventRegistration(p)
  BY <1>1, ComingAdd
<1>2. CASE \E p \in Place : RemoveEventRegistration(p)
  BY <1>2, ComingRemove
<1>3. CASE OnDataUpdate
  <2> DEFINE h == Head(toClient)
  <2>1. /\ toClient # <<>> /\ toClient' = Tail(toClient) /\ h.op = "data"
        /\ UNCHANGED <<connected, listens, started, toServer>>
    BY <1>3 DEF OnDataUpdate
  <2>2. complete \subseteq complete'
    BY <1>3, DataUpdated
  <2>3. \A k \in DOMAIN toClient :
           toClient[k] = h \/ \E m \in DOMAIN toClient' : toClient'[m] = toClient[k]
    BY <2>1, ClientTail
  <2> HIDE DEF h
  <2>4. \A q, turn : ~Answered(h, q, turn)
    BY <2>1 DEF Answered
  <2>5. QED
    BY <2>1, <2>2, <2>3, <2>4, ComingSame
<1>4. CASE OnListenResponse
  BY <1>4, ComingResponse
<1>5. CASE OnDisconnect
  BY <1>5 DEF OnDisconnect, Coming
<1>6. CASE RestoreState
  BY <1>6, ComingRestore
<1>7. CASE ServerListens \/ ServerUnlistens
  BY <1>7, ComingServer
<1>8. CASE \E c \in Child, v \in Version : ServerChange(c, v)
  <2>1. PICK c \in Child, v \in Version : ServerChange(c, v)
    BY <1>8
  <2>2. PICK new \in Seq(Reply) : toClient' = toClient \o new
    BY <2>1, Changed
  <2>3. \A k \in DOMAIN toClient : k \in DOMAIN toClient' /\ toClient'[k] = toClient[k]
    BY <2>2, ClientMore
  <2>4. UNCHANGED <<connected, complete, listens, started, toServer>>
    BY <2>1 DEF ServerChange
  <2>5. QED
    BY <2>3, <2>4, ComingSame
<1>9. CASE UNCHANGED vars
  BY <1>9 DEF vars, Coming
<1>10. QED
  BY <1>1, <1>2, <1>3, <1>4, <1>5, <1>6, <1>7, <1>8, <1>9 DEF Next, Client, Server
-----------------------------------------------------------------------------
(* Listened places up to date, whatever was removed, if nothing was refused *)

(* Whether the server sends changes of a place when it has come to the     *)
(* i-th request on its way, and of an entry, alone or with the list        *)
On(p, i) ==
    \E j \in Asked(p) : j <= i /\ \A m \in Stopped(p) : ~(j < m /\ m <= i)
Sends(c, i) == On(c, i) \/ On(Root, i)
From(c, k) == \A i \in Nat : k <= i /\ i <= Len(toServer) => Sends(c, i)

Dormant(c) == c \notin active /\ Root \notin active
Lists(f, c) == f.op = "listen" /\ c \in Under(f.at)

(* What the listened views have of an entry, or will have *)
Heard(c, v) == \A q \in listens : c \in Under(q) => cache[q][c] = v
Fresh(c) ==
    \/ server[c] = None
    \/ LastCarries(c)
    \/ NoneCarries(c) /\ \A v : v = server[c] => Heard(c, v)

(* The first listen for an entry of which nothing is sent or on its way, *)
(* with the hash of what the views have                                  *)
Matching(c, k) ==
    /\ Dormant(c) /\ NoneCarries(c)
    /\ \A i \in DOMAIN toServer : i < k => ~Lists(toServer[i], c)
    /\ \A v : v = toServer[k].hash[c] => Heard(c, v)

(* From now, or from a listen on its way whose hash will not deceive, the  *)
(* server sends all changes of an entry.                                   *)
FedAt(c, k) ==
    /\ From(c, k)
    /\ \/ k = 0 /\ Fresh(c)
       \/ /\ k \in DOMAIN toServer /\ Lists(toServer[k], c)
          /\ toServer[k].hash[c] = None \/ Matching(c, k)
Fed(c) == \E k \in Nat : FedAt(c, k)
Wanted(c) == c \in listens \/ Root \in listens

AllFed == connected => \A c \in Child : Wanted(c) => Fed(c)
Together ==
    \A c \in Child : {c, Root} \subseteq Observed => cache[c][c] \in {None, cache[Root][c]}
Never ==
    \A c \in Child : server[c] = None =>
        /\ \A q \in Place : cache[q][c] = None
        /\ \A k \in DOMAIN toClient : Carries(toClient[k], c) => toClient[k].data[c] = None

Feeding == AllFed /\ Together /\ EmptyYet /\ Never /\ NoneDenied

(* What lists an entry *)
LEMMA UnderFacts ==
    ASSUME NEW c \in Child
    PROVE  \A q \in Place : c \in Under(q) <=> (q = c \/ q = Root)
BY SyncTreeAssumption DEF Under

LEMMA OnNow ==
    ASSUME TypeOK, NEW p \in Place
    PROVE  On(p, 0) <=> p \in active
<1>1. /\ \A i \in Asked(p) : i \in Nat
      /\ \A i \in Stopped(p) : i \in Nat /\ i > 0
      /\ \A i \in DOMAIN toServer : i \in Nat /\ i > 0
  BY AskedPlaces
<1>2. p \in active <=> 0 \in Asked(p)
  BY <1>1 DEF Asked
<1>3. QED
  BY <1>1, <1>2 DEF On

LEMMA OnTail ==
    ASSUME TypeOK, toServer # <<>>, toServer' = Tail(toServer), NEW p \in Place,
           (p \in active /\ ~IsUnlisten(Head(toServer), p)) \/ IsListen(Head(toServer), p)
               => p \in active',
           NEW i \in Nat, On(p, i + 1)
    PROVE  On(p, i)'
<1>1. /\ 1 \in DOMAIN toServer /\ toServer[1] = Head(toServer)
      /\ DOMAIN toServer \subseteq Nat /\ DOMAIN toServer' \subseteq Nat
      /\ \A k \in DOMAIN toServer' : /\ k + 1 \in DOMAIN toServer /\ k >= 1
                                     /\ toServer'[k] = toServer[k + 1]
      /\ \A k \in DOMAIN toServer :
            k = 1 \/ (k - 1 \in DOMAIN toServer' /\ toServer'[k - 1] = toServer[k])
      /\ \A k \in DOMAIN toServer : k >= 1
  BY ServerTail
<1>2. PICK j \in Asked(p) : j <= i + 1 /\ \A m \in Stopped(p) : ~(j < m /\ m <= i + 1)
  BY DEF On
<1>3. \A m \in Stopped(p)' : m \in Nat /\ m >= 1 /\ m + 1 \in Stopped(p)
  BY <1>1 DEF Stopped
<1>4. j \in Nat
  BY <1>1 DEF Asked
<1>5. CASE j = 0 \/ j = 1
  <2>1. p \in active'
    <3>1. CASE j = 0
      <4>1. p \in active
        BY <3>1, <1>1 DEF Asked
      <4>2. 1 \notin Stopped(p)
        BY <3>1, <1>2
      <4>3. QED
        BY <4>1, <4>2, <1>1 DEF Stopped
    <3>2. CASE j = 1
      BY <3>2, <1>1 DEF Asked
    <3>3. QED
      BY <1>5, <3>1, <3>2
  <2>2. 0 \in Asked(p)'
    BY <2>1 DEF Asked
  <2>3. \A m \in Stopped(p)' : ~(0 < m /\ m <= i)
    <3> SUFFICES ASSUME NEW m \in Stopped(p)', m <= i PROVE FALSE
      OBVIOUS
    <3>1. m \in Nat /\ m + 1 \in Stopped(p) /\ m >= 1
      BY <1>3
    <3>2. j < m + 1 /\ m + 1 <= i + 1
      BY <3>1, <1>5
    <3>3. QED
      BY <3>1, <3>2, <1>2
  <2>4. QED
    BY <2>2, <2>3 DEF On
<1>6. CASE j # 0 /\ j # 1
  <2>1. j \in DOMAIN toServer /\ IsListen(toServer[j], p)
    BY <1>6 DEF Asked
  <2>2. j - 1 \in Asked(p)'
    BY <2>1, <1>1, <1>6 DEF Asked
  <2>3. \A m \in Stopped(p)' : ~(j - 1 < m /\ m <= i)
    <3> SUFFICES ASSUME NEW m \in Stopped(p)', j - 1 < m, m <= i PROVE FALSE
      OBVIOUS
    <3>1. m \in Nat /\ m + 1 \in Stopped(p)
      BY <1>3
    <3>2. j < m + 1 /\ m + 1 <= i + 1
      BY <3>1, <1>4
    <3>3. QED
      BY <3>1, <3>2, <1>2
  <2>4. j - 1 <= i
    BY <1>2, <1>4
  <2>5. QED
    BY <2>2, <2>3, <2>4 DEF On
<1>7. QED
  BY <1>5, <1>6

(* The requests that are added *)
LEMMA OnMore ==
    ASSUME TypeOK, NEW new \in Seq(Request), toServer' = toServer \o new, UNCHANGED active,
           NEW p \in Place
    PROVE  /\ \A i \in Nat : i <= Len(toServer) /\ On(p, i) => On(p, i)'
           /\ \A i \in DOMAIN new :
                 /\ On(p, Len(toServer))
                 /\ \A m \in DOMAIN new : m <= i => ~IsUnlisten(new[m], p)
                 => \A n : n = Len(toServer) + i => On(p, n)'
           /\ \A i, j \in DOMAIN new :
                 /\ j <= i /\ IsListen(new[j], p)
                 /\ \A m \in DOMAIN new : ~IsUnlisten(new[m], p)
                 => \A n : n = Len(toServer) + i => On(p, n)'
<1>1. /\ Len(toServer) \in Nat
      /\ \A i \in DOMAIN toServer :
            /\ i \in Nat /\ i > 0 /\ i <= Len(toServer)
            /\ i \in DOMAIN toServer' /\ toServer'[i] = toServer[i]
      /\ \A i \in DOMAIN new :
            /\ i \in Nat /\ i > 0
            /\ Len(toServer) + i \in DOMAIN toServer' /\ toServer'[Len(toServer) + i] = new[i]
      /\ \A i \in DOMAIN toServer' :
            \/ i \in DOMAIN toServer
            \/ /\ i \in Nat /\ i > Len(toServer)
               /\ i - Len(toServer) \in DOMAIN new /\ toServer'[i] = new[i - Len(toServer)]
  BY ServerMore
<1>2. /\ \A j \in Asked(p) : j \in Asked(p)' /\ j \in Nat /\ j <= Len(toServer)
      /\ \A j \in DOMAIN new : IsListen(new[j], p) => Len(toServer) + j \in Asked(p)'
  BY <1>1 DEF Asked
<1>3. \A m \in Stopped(p)' :
         \/ m \in Stopped(p) /\ m \in Nat /\ m <= Len(toServer)
         \/ /\ m \in Nat /\ m > Len(toServer) /\ m - Len(toServer) \in DOMAIN new
            /\ IsUnlisten(new[m - Len(toServer)], p)
  BY <1>1 DEF Stopped
<1>4. ASSUME NEW i \in Nat, i <= Len(toServer), On(p, i)
      PROVE  On(p, i)'
  <2>1. PICK j \in Asked(p) : j <= i /\ \A m \in Stopped(p) : ~(j < m /\ m <= i)
    BY <1>4 DEF On
  <2>2. \A m \in Stopped(p)' : ~(j < m /\ m <= i)
    BY <1>1, <1>3, <1>4, <2>1
  <2>3. QED
    BY <1>2, <2>1, <2>2 DEF On
<1>5. ASSUME NEW i \in DOMAIN new, On(p, Len(toServer)),
             \A m \in DOMAIN new : m <= i => ~IsUnlisten(new[m], p),
             NEW n, n = Len(toServer) + i
      PROVE  On(p, n)'
  <2>1. PICK j \in Asked(p) :
           j <= Len(toServer) /\ \A m \in Stopped(p) : ~(j < m /\ m <= Len(toServer))
    BY <1>5 DEF On
  <2>2. \A m \in Stopped(p)' : ~(j < m /\ m <= n)
    <3> SUFFICES ASSUME NEW m \in Stopped(p)', j < m, m <= n PROVE FALSE
      OBVIOUS
    <3>1. CASE m \in Stopped(p) /\ m \in Nat /\ m <= Len(toServer)
      BY <3>1, <2>1
    <3>2. CASE /\ m \in Nat /\ m > Len(toServer) /\ m - Len(toServer) \in DOMAIN new
               /\ IsUnlisten(new[m - Len(toServer)], p)
      <4>1. m - Len(toServer) <= i
        BY <3>2, <1>1, <1>5
      <4>2. QED
        BY <3>2, <4>1, <1>5
    <3>3. QED
      BY <3>1, <3>2, <1>3
  <2>3. j <= n
    BY <1>1, <1>2, <1>5, <2>1
  <2>4. QED
    BY <1>2, <2>1, <2>2, <2>3 DEF On
<1>6. ASSUME NEW i \in DOMAIN new, NEW j \in DOMAIN new, j <= i, IsListen(new[j], p),
             \A m \in DOMAIN new : ~IsUnlisten(new[m], p),
             NEW n, n = Len(toServer) + i
      PROVE  On(p, n)'
  <2>1. Len(toServer) + j \in Asked(p)' /\ Len(toServer) + j <= n
    BY <1>1, <1>2, <1>6
  <2>2. \A m \in Stopped(p)' : ~(Len(toServer) + j < m /\ m <= n)
    <3> SUFFICES ASSUME NEW m \in Stopped(p)', Len(toServer) + j < m PROVE FALSE
      OBVIOUS
    <3>1. m \notin Nat \/ m > Len(toServer)
      BY <1>1
    <3>2. QED
      BY <3>1, <1>1, <1>3, <1>6
  <2>3. QED
    BY <2>1, <2>2 DEF On
<1>7. QED
  BY <1>4, <1>5, <1>6

(* The requests on their way are the same. *)
LEMMA FedSame ==
    ASSUME TypeOK, NEW c \in Child, Fed(c), UNCHANGED <<toServer, active>>,
           ~Dormant(c) /\ Fresh(c) => Fresh(c)',
           Dormant(c) /\ NoneCarries(c) => NoneCarries(c)',
           Dormant(c) /\ NoneCarries(c) => \A v : Heard(c, v) => Heard(c, v)'
    PROVE  Fed(c)'
<1>1. PICK k \in Nat : FedAt(c, k)
  BY DEF Fed
<1>2. From(c, k)'
  BY <1>1 DEF FedAt, From, Sends, On, Asked, Stopped
<1>3. CASE k = 0 /\ Fresh(c)
  <2>1. Len(toServer) \in Nat
    BY DEF TypeOK
  <2>2. Sends(c, 0)
    BY <1>1, <1>3, <2>1 DEF FedAt, From
  <2>3. c \in Place /\ Root \in Place
    OBVIOUS
  <2>4. ~Dormant(c)
    BY <2>2, <2>3, OnNow DEF Sends, Dormant
  <2>5. FedAt(c, k)'
    BY <1>2, <1>3, <2>4 DEF FedAt
  <2>6. QED
    BY <2>5 DEF Fed
<1>4. CASE /\ k \in DOMAIN toServer /\ Lists(toServer[k], c)
           /\ toServer[k].hash[c] = None \/ Matching(c, k)
  <2>1. Matching(c, k) => Matching(c, k)'
    <3> SUFFICES ASSUME Matching(c, k) PROVE Matching(c, k)'
      OBVIOUS
    <3>1. Dormant(c) /\ NoneCarries(c)
      BY DEF Matching
    <3>2. Dormant(c)' /\ NoneCarries(c)'
      BY <3>1 DEF Dormant
    <3>3. \A v : v = toServer'[k].hash[c] => Heard(c, v)'
      BY <3>1 DEF Matching
    <3>4. QED
      BY <3>2, <3>3 DEF Matching
  <2>2. FedAt(c, k)'
    BY <1>2, <1>4, <2>1 DEF FedAt
  <2>3. QED
    BY <2>2 DEF Fed
<1>5. QED
  BY <1>1, <1>3, <1>4 DEF FedAt

(* The server takes one. *)
LEMMA FedTail ==
    ASSUME TypeOK, NEW c \in Child, Fed(c), toServer # <<>>, toServer' = Tail(toServer),
           UNCHANGED <<listens, cache, server>>,
           \A p \in {c, Root} :
              (p \in active /\ ~IsUnlisten(Head(toServer), p)) \/ IsListen(Head(toServer), p)
                  => p \in active',
           Fresh(c) => Fresh(c)',
           /\ Lists(Head(toServer), c)
           /\ Head(toServer).hash[c] = None \/ Matching(c, 1)
           => Fresh(c)',
           ~Lists(Head(toServer), c) /\ Dormant(c) => Dormant(c)',
           ~Lists(Head(toServer), c) /\ NoneCarries(c) => NoneCarries(c)'
    PROVE  Fed(c)'
<1>1. PICK k \in Nat : FedAt(c, k)
  BY DEF Fed
<1>2. /\ 1 \in DOMAIN toServer /\ toServer[1] = Head(toServer)
      /\ DOMAIN toServer \subseteq Nat /\ DOMAIN toServer' \subseteq Nat
      /\ \A i \in DOMAIN toServer' : /\ i + 1 \in DOMAIN toServer /\ i >= 1
                                     /\ toServer'[i] = toServer[i + 1]
      /\ \A i \in DOMAIN toServer :
            i = 1 \/ (i - 1 \in DOMAIN toServer' /\ toServer'[i - 1] = toServer[i])
      /\ \A i \in DOMAIN toServer : i >= 1
  BY ServerTail
<1>3. Len(toServer') + 1 = Len(toServer) /\ Len(toServer') \in Nat
  BY DEF TypeOK
<1>4. ASSUME NEW i \in Nat, k <= i + 1, i <= Len(toServer')
      PROVE  Sends(c, i)'
  <2>1. Sends(c, i + 1)
    BY <1>1, <1>3, <1>4 DEF FedAt, From
  <2>2. c \in Place /\ Root \in Place
    OBVIOUS
  <2>3. CASE On(c, i + 1)
    <3>1. On(c, i)'
      BY <2>2, <2>3, OnTail
    <3>2. QED
      BY <3>1 DEF Sends
  <2>4. CASE On(Root, i + 1)
    <3>1. On(Root, i)'
      BY <2>2, <2>4, OnTail
    <3>2. QED
      BY <3>1 DEF Sends
  <2>5. QED
    BY <2>1, <2>3, <2>4 DEF Sends
<1>5. ASSUME Fresh(c)', k <= 1
      PROVE  Fed(c)'
  <2>1. From(c, 0)'
    BY <1>4, <1>5 DEF From
  <2>2. FedAt(c, 0)'
    BY <1>5, <2>1 DEF FedAt
  <2>3. QED
    BY <2>2 DEF Fed
<1>6. CASE k = 0 /\ Fresh(c)
  BY <1>5, <1>6
<1>7. CASE /\ k \in DOMAIN toServer /\ Lists(toServer[k], c)
           /\ toServer[k].hash[c] = None \/ Matching(c, k)
  <2>1. CASE k = 1
    <3>1. Fresh(c)'
      BY <1>2, <1>7, <2>1
    <3>2. QED
      BY <1>5, <2>1, <3>1
  <2>2. CASE k # 1
    <3>1. k - 1 \in Nat /\ k - 1 \in DOMAIN toServer' /\ toServer'[k - 1] = toServer[k]
      BY <1>2, <1>7, <2>2
    <3>2. \A l : l = k - 1 => From(c, l)'
      BY <1>4 DEF From
    <3>3. Matching(c, k) => \A l : l = k - 1 => Matching(c, l)'
      <4> SUFFICES ASSUME Matching(c, k), NEW l, l = k - 1 PROVE Matching(c, l)'
        OBVIOUS
      <4>1. ~Lists(Head(toServer), c)
        BY <1>2, <1>7, <2>2 DEF Matching
      <4>2. Dormant(c)' /\ NoneCarries(c)'
        BY <4>1 DEF Matching
      <4>3. \A i \in DOMAIN toServer' : i < l => ~Lists(toServer'[i], c)
        BY <1>2 DEF Matching
      <4>4. \A v : v = toServer'[l].hash[c] => Heard(c, v)'
        BY <3>1 DEF Matching, Heard
      <4>5. QED
        BY <4>2, <4>3, <4>4 DEF Matching
    <3>4. \A l : l = k - 1 => FedAt(c, l)'
      BY <1>7, <3>1, <3>2, <3>3 DEF FedAt
    <3>5. QED
      BY <3>1, <3>4 DEF Fed
  <2>3. QED
    BY <2>1, <2>2
<1>8. QED
  BY <1>1, <1>6, <1>7 DEF FedAt

(* The client adds some, and the entry is sent through them. *)
LEMMA FedMore ==
    ASSUME TypeOK, NEW c \in Child, Fed(c),
           NEW new \in Seq(Request), toServer' = toServer \o new,
           UNCHANGED <<active, toClient, server>>,
           \A v : Heard(c, v) => Heard(c, v)',
           Sends(c, Len(toServer)) =>
              \A i \in DOMAIN new : \A n : n = Len(toServer) + i => Sends(c, n)'
    PROVE  Fed(c)'
<1>1. PICK k \in Nat : FedAt(c, k)
  BY DEF Fed
<1>2. /\ Len(toServer) \in Nat
      /\ \A i \in DOMAIN toServer :
            /\ i \in Nat /\ i > 0 /\ i <= Len(toServer)
            /\ i \in DOMAIN toServer' /\ toServer'[i] = toServer[i]
      /\ \A i \in DOMAIN toServer' :
            \/ i \in DOMAIN toServer
            \/ /\ i \in Nat /\ i > Len(toServer)
               /\ i - Len(toServer) \in DOMAIN new /\ toServer'[i] = new[i - Len(toServer)]
  BY ServerMore
<1>3. k <= Len(toServer)
  BY <1>1, <1>2 DEF FedAt
<1>4. From(c, k)'
  <2> SUFFICES ASSUME NEW i \in Nat, k <= i, i <= Len(toServer') PROVE Sends(c, i)'
    BY DEF From
  <2>1. CASE i <= Len(toServer)
    <3>1. Sends(c, i)
      BY <1>1, <2>1 DEF FedAt, From
    <3>2. c \in Place /\ Root \in Place
      OBVIOUS
    <3>3. On(c, i) => On(c, i)'
      BY <2>1, <3>2, OnMore
    <3>4. On(Root, i) => On(Root, i)'
      BY <2>1, <3>2, OnMore
    <3>5. QED
      BY <3>1, <3>3, <3>4 DEF Sends
  <2>2. CASE i > Len(toServer)
    <3>1. Sends(c, Len(toServer))
      BY <1>1, <1>2, <1>3 DEF FedAt, From
    <3>2. i - Len(toServer) \in DOMAIN new
      BY <1>2, <2>2
    <3>3. i = Len(toServer) + (i - Len(toServer))
      BY <1>2
    <3>4. QED
      BY <3>1, <3>2, <3>3
  <2>3. QED
    BY <1>2, <2>1, <2>2
<1>5. \A d : NoneCarries(d) => NoneCarries(d)'
  BY DEF NoneCarries
<1>6. CASE k = 0 /\ Fresh(c)
  <2>1. LastCarries(c) => LastCarries(c)'
    BY DEF LastCarries
  <2>2. Fresh(c)'
    BY <1>5, <1>6, <2>1 DEF Fresh
  <2>3. FedAt(c, k)'
    BY <1>4, <1>6, <2>2 DEF FedAt
  <2>4. QED
    BY <2>3 DEF Fed
<1>7. CASE /\ k \in DOMAIN toServer /\ Lists(toServer[k], c)
           /\ toServer[k].hash[c] = None \/ Matching(c, k)
  <2>1. k \in DOMAIN toServer' /\ toServer'[k] = toServer[k]
    BY <1>2, <1>7
  <2>2. Matching(c, k) => Matching(c, k)'
    <3> SUFFICES ASSUME Matching(c, k) PROVE Matching(c, k)'
      OBVIOUS
    <3>1. Dormant(c)' /\ NoneCarries(c)'
      BY <1>5 DEF Matching, Dormant
    <3>2. \A i \in DOMAIN toServer' : i < k => ~Lists(toServer'[i], c)
      BY <1>2, <1>3 DEF Matching
    <3>3. \A v : v = toServer'[k].hash[c] => Heard(c, v)'
      BY <2>1 DEF Matching
    <3>4. QED
      BY <3>1, <3>2, <3>3 DEF Matching
  <2>3. FedAt(c, k)'
    BY <1>4, <1>7, <2>1, <2>2 DEF FedAt
  <2>4. QED
    BY <2>3 DEF Fed
<1>8. QED
  BY <1>1, <1>6, <1>7 DEF FedAt

(* The client adds a listen without any data of the entry. *)
LEMMA FedNew ==
    ASSUME TypeOK, NEW c \in Child,
           NEW new \in Seq(Request), toServer' = toServer \o new, UNCHANGED active,
           NEW j \in DOMAIN new, NEW p \in Place, IsListen(new[j], p), p = c \/ p = Root,
           new[j].hash[c] = None,
           \A m \in DOMAIN new : ~IsUnlisten(new[m], p)
    PROVE  Fed(c)'
<1> DEFINE k == Len(toServer) + j
<1>1. /\ Len(toServer) \in Nat
      /\ j \in Nat /\ j > 0
      /\ k \in DOMAIN toServer' /\ toServer'[k] = new[j]
      /\ \A i \in DOMAIN toServer' :
            \/ i \in DOMAIN toServer
            \/ i > Len(toServer) /\ i - Len(toServer) \in DOMAIN new
  BY ServerMore
<1>2. k \in Nat /\ Len(toServer') \in Nat /\ DOMAIN toServer' = 1..Len(toServer')
  <2>1. toServer' \in Seq(Request)
    BY DEF TypeOK
  <2>2. QED
    BY <1>1, <2>1
<1>3. \A n \in Nat : k <= n /\ n <= Len(toServer') => Sends(c, n)'
  <2> SUFFICES ASSUME NEW n \in Nat, k <= n, n <= Len(toServer') PROVE Sends(c, n)'
    OBVIOUS
  <2>1. n \in DOMAIN toServer' /\ n > Len(toServer)
    BY <1>1, <1>2
  <2>2. n \notin DOMAIN toServer
    BY <2>1, <1>1 DEF TypeOK
  <2>3. n - Len(toServer) \in DOMAIN new /\ j <= n - Len(toServer)
    BY <1>1, <2>1, <2>2
  <2>4. n = Len(toServer) + (n - Len(toServer))
    BY <1>1
  <2>5. On(p, n)'
    BY <2>3, <2>4, OnMore
  <2>6. QED
    BY <2>5 DEF Sends
<1>4. Lists(new[j], c)
  <2>1. c \in Under(p)
    BY UnderFacts
  <2>2. QED
    BY <2>1 DEF Lists, IsListen
<1> HIDE DEF k
<1>5. PICK l \in Nat : l = k
  BY <1>2
<1>6. From(c, l)'
  BY <1>3, <1>5 DEF From
<1>7. /\ l \in DOMAIN toServer' /\ Lists(toServer'[l], c)
      /\ toServer'[l].hash[c] = None
  BY <1>1, <1>4, <1>5
<1>8. FedAt(c, l)'
  BY <1>6, <1>7 DEF FedAt
<1>9. QED
  BY <1>8 DEF Fed

(* What the views have of an entry: alike, and none of it if the server has *)
(* none                                                                     *)
LEMMA AlikeAdd ==
    ASSUME TypeOK, ListensCover, Together, EmptyYet, Never, NEW p \in Place,
           AddEventRegistration(p)
    PROVE  Together' /\ EmptyYet' /\ Never'
<1> USE SyncTreeAssumption
<1>1. UNCHANGED <<toClient, server>>
  BY DEF AddEventRegistration
<1>2. CASE observers[p] # 0
  <2>1. UNCHANGED <<cache, complete, Observed>>
    BY <1>2, MoreObservers
  <2>2. QED
    BY <1>1, <2>1 DEF Together, EmptyYet, Never
<1>3. CASE observers[p] = 0
  <2> DEFINE data == ServerCacheForQuery(p)
  <2>1. /\ data \in Data /\ p \notin Observed
        /\ Observed' = Observed \cup {p}
        /\ cache'[p] = data
        /\ \A q \in Place : q # p => cache'[q] = cache[q]
        /\ complete' = complete \cup {q \in {p} : SeedsComplete(q)}
    BY <1>3, NewView
  <2>2. \A c \in Child :
           /\ SeedsComplete(p) => data[c] = IF c \in Under(p) THEN cache[Root][c] ELSE None
           /\ ~SeedsComplete(p) =>
                 data[c] = IF p = Root /\ c \in complete THEN cache[c][c] ELSE None
    BY DEF ServerCacheForQuery, Part
  <2> HIDE DEF data
  <2>3. Together'
    <3> SUFFICES ASSUME NEW c \in Child, {c, Root} \subseteq Observed'
                 PROVE  cache'[c][c] \in {None, cache'[Root][c]}
      BY DEF Together
    <3>1. CASE p = Root
      <4>1. ~SeedsComplete(p) /\ c # p /\ c \in Observed
        BY <3>1, <2>1 DEF SeedsComplete
      <4>2. cache'[c] = cache[c] /\ cache'[Root] = data
        BY <2>1, <3>1, <4>1
      <4>3. QED
        BY <2>2, <3>1, <4>1, <4>2 DEF EmptyYet
    <3>2. CASE p = c
      <4>1. c # Root /\ Root \in Observed /\ cache'[c] = data /\ cache'[Root] = cache[Root]
        BY <2>1, <3>2
      <4>2. c \in Under(p)
        BY <3>2 DEF Under
      <4>3. QED
        BY <2>2, <3>2, <4>1, <4>2
    <3>3. CASE p # Root /\ p # c
      <4>1. cache'[c] = cache[c] /\ cache'[Root] = cache[Root] /\ {c, Root} \subseteq Observed
        BY <2>1, <3>3
      <4>2. QED
        BY <4>1 DEF Together
    <3>4. QED
      BY <3>1, <3>2, <3>3
  <2>4. EmptyYet'
    <3> SUFFICES ASSUME NEW c \in Child \cap Observed', c \notin complete'
                 PROVE  cache'[c][c] = None
      BY DEF EmptyYet
    <3>1. CASE c = p
      <4>1. ~SeedsComplete(p) /\ p # Root
        BY <2>1, <3>1
      <4>2. QED
        BY <2>1, <2>2, <3>1, <4>1
    <3>2. CASE c # p
      BY <2>1, <3>2 DEF EmptyYet
    <3>3. QED
      BY <3>1, <3>2
  <2>5. Never'
    <3> SUFFICES ASSUME NEW c \in Child, server[c] = None
                 PROVE  \A q \in Place : cache'[q][c] = None
      BY <1>1 DEF Never
    <3>1. \A q \in Place : cache[q][c] = None
      BY DEF Never
    <3>2. data[c] = None
      BY <2>2, <3>1
    <3>3. QED
      BY <2>1, <3>1, <3>2
  <2>6. QED
    BY <2>3, <2>4, <2>5
<1>4. QED
  BY <1>2, <1>3

LEMMA AlikeGone ==
    ASSUME TypeOK, Together, EmptyYet, Never, NEW p \in Place, RemoveView(p), UNCHANGED server,
           \A k \in DOMAIN toClient' : \E m \in DOMAIN toClient : toClient'[k] = toClient[m]
    PROVE  Together' /\ EmptyYet' /\ Never'
<1>1. /\ Observed' = Observed \ {p}
      /\ cache'[p] = Nothing /\ complete' = complete \ {p}
      /\ \A q \in Place : q # p => cache'[q] = cache[q]
  BY ViewGone
<1>2. Together'
  BY <1>1 DEF Together
<1>3. EmptyYet'
  BY <1>1 DEF EmptyYet
<1>4. Never'
  <2> SUFFICES ASSUME NEW c \in Child, server[c] = None
               PROVE  /\ \A q \in Place : cache'[q][c] = None
                      /\ \A k \in DOMAIN toClient' :
                            Carries(toClient'[k], c) => toClient'[k].data[c] = None
    BY DEF Never
  <2>1. Nothing[c] = None
    BY DEF Nothing
  <2>2. \A q \in Place : cache'[q][c] = None
    BY <1>1, <2>1 DEF Never
  <2>3. \A k \in DOMAIN toClient' : Carries(toClient'[k], c) => toClient'[k].data[c] = None
    BY DEF Never
  <2>4. QED
    BY <2>2, <2>3
<1>5. QED
  BY <1>2, <1>3, <1>4

LEMMA AlikeData ==
    ASSUME TypeOK, Together, EmptyYet, Never, OnDataUpdate
    PROVE  Together' /\ EmptyYet' /\ Never'
<1> USE SyncTreeAssumption
<1> DEFINE h == Head(toClient)
<1>1. /\ h.at \in Place /\ h.data \in Data /\ h.op = "data"
      /\ Observed' = Observed
      /\ complete' = complete \cup {q \in Observed : Under(q) \subseteq Under(h.at)}
      /\ \A q \in Place, c \in Child :
            cache'[q][c] = IF q \in Observed /\ c \in Under(h.at) \cap Under(q)
                           THEN h.data[c] ELSE cache[q][c]
  BY DataUpdated
<1>2. toClient # <<>> /\ toClient' = Tail(toClient) /\ UNCHANGED server
  BY DEF OnDataUpdate
<1>3. /\ 1 \in DOMAIN toClient /\ toClient[1] = h
      /\ \A k \in DOMAIN toClient' : k + 1 \in DOMAIN toClient /\ toClient'[k] = toClient[k + 1]
  BY <1>2, ClientTail
<1> HIDE DEF h
<1>4. \A c \in Child : c \in Place /\ c # Root /\ Under(c) = {c} /\ Under(Root) = Child
  BY DEF Under
<1>5. Together'
  <2> SUFFICES ASSUME NEW c \in Child, {c, Root} \subseteq Observed
               PROVE  cache'[c][c] \in {None, cache'[Root][c]}
    BY <1>1 DEF Together
  <2>1. c \in Under(c) /\ c \in Under(Root) /\ c \in Place /\ Root \in Place
    BY <1>4
  <2>2. CASE c \in Under(h.at)
    BY <1>1, <2>1, <2>2
  <2>3. CASE c \notin Under(h.at)
    BY <1>1, <2>1, <2>3 DEF Together
  <2>4. QED
    BY <2>2, <2>3
<1>6. EmptyYet'
  <2> SUFFICES ASSUME NEW c \in Child \cap Observed, c \notin complete'
               PROVE  cache'[c][c] = None
    BY <1>1 DEF EmptyYet
  <2>1. c \notin Under(h.at) /\ c \notin complete
    BY <1>1, <1>4
  <2>2. QED
    BY <1>1, <2>1 DEF EmptyYet
<1>7. Never'
  <2> SUFFICES ASSUME NEW c \in Child, server[c] = None
               PROVE  /\ \A q \in Place : cache'[q][c] = None
                      /\ \A k \in DOMAIN toClient' :
                            Carries(toClient'[k], c) => toClient'[k].data[c] = None
    BY <1>2 DEF Never
  <2>1. c \in Under(h.at) => h.data[c] = None
    BY <1>1, <1>3 DEF Never, Carries
  <2>2. \A q \in Place : cache[q][c] = None
    BY DEF Never
  <2>3. \A q \in Place : cache'[q][c] = None
    BY <1>1, <2>1, <2>2
  <2>4. \A k \in DOMAIN toClient' : Carries(toClient'[k], c) => toClient'[k].data[c] = None
    BY <1>3 DEF Never
  <2>5. QED
    BY <2>3, <2>4
<1>8. QED
  BY <1>5, <1>6, <1>7

(* Only views that are not listened to change. *)
LEMMA FedViews ==
    ASSUME TypeOK, AllFed,
           UNCHANGED <<connected, toServer, toClient, server, active, listens>>,
           \A q \in listens : cache'[q] = cache[q]
    PROVE  AllFed'
<1> SUFFICES ASSUME connected, NEW c \in Child, Wanted(c) PROVE Fed(c)'
  BY DEF AllFed, Wanted
<1>1. Fed(c)
  BY DEF AllFed
<1>2. \A v : Heard(c, v) => Heard(c, v)'
  BY DEF Heard
<1>3. NoneCarries(c) => NoneCarries(c)'
  BY DEF NoneCarries
<1>4. LastCarries(c) => LastCarries(c)'
  BY DEF LastCarries
<1>5. Fresh(c) => Fresh(c)'
  BY <1>2, <1>3, <1>4 DEF Fresh
<1>6. QED
  BY <1>1, <1>2, <1>3, <1>5, FedSame

(* A view is set up: the client asks for its data, or had it asked for. *)
LEMMA FedAdd ==
    ASSUME TypeOK, ListensCover, AllFed, NEW p \in Place, AddEventRegistration(p)
    PROVE  AllFed'
<1> USE SyncTreeAssumption
<1>1. UNCHANGED <<connected, toClient, server, active>>
  BY DEF AddEventRegistration
<1>2. UNCHANGED <<listens, toServer>> /\ (\A q \in listens : cache'[q] = cache[q]) => AllFed'
  BY <1>1, FedViews
<1>3. CASE observers[p] # 0
  <2>1. UNCHANGED <<cache, listens, toServer>>
    BY <1>3, MoreObservers
  <2>2. QED
    BY <2>1, <1>2
<1>4. CASE observers[p] = 0
  <2> DEFINE data == ServerCacheForQuery(p)
  <2>1. /\ data \in Data /\ p \notin Observed /\ p \notin listens
        /\ cache'[p] = data
        /\ \A q \in Place : q # p => cache'[q] = cache[q]
        /\ \/ Covered(p) /\ UNCHANGED <<listens, started, toServer>>
           \/ ~Covered(p) /\ SetupListener(p, data)
    BY <1>4, NewView
  <2>2. \A c \in Child :
           ~SeedsComplete(p) =>
              data[c] = IF p = Root /\ c \in complete THEN cache[c][c] ELSE None
    BY DEF ServerCacheForQuery
  <2> HIDE DEF data
  <2>3. CASE UNCHANGED <<listens, toServer>>
    <3>1. \A q \in listens : q \in Place /\ q # p
      BY <2>1 DEF TypeOK
    <3>2. QED
      BY <2>1, <2>3, <3>1, <1>2
  <2>4. CASE ~Covered(p) /\ SetupListener(p, data)
    <3> SUFFICES ASSUME connected, NEW c \in Child, Wanted(c)' PROVE Fed(c)'
      BY <1>1 DEF AllFed
    <3>1. PICK new \in Seq(Request) : SetUp(new, p, data) /\ Send(new)
      BY <2>1, <2>4, SetupFacts
    <3>2. toServer' = toServer \o new
      BY <3>1 DEF Send
    <3>3. listens' = (listens \ Below(p)) \cup {p}
      BY <2>4 DEF SetupListener
    <3>4. Root \notin Observed
      BY <2>1, <2>4 DEF Covered, Observed, TypeOK
    <3>5. Root \notin listens /\ ~SeedsComplete(p)
      BY <3>4 DEF ListensCover, TypeOK, SeedsComplete
    <3>6. /\ DOMAIN new \subseteq Nat /\ 1 \in DOMAIN new
          /\ IsListen(new[1], p) /\ new[1].hash = data
          /\ \A i \in DOMAIN new : i = 1 \/ \E q \in Below(p) : IsUnlisten(new[i], q)
      <4>1. DOMAIN new \subseteq Nat
        OBVIOUS
      <4>2. IsListen(Listen(p, started[p] + 1, data), p) /\ Listen(p, started[p] + 1, data).hash = data
        BY DEF IsListen, Listen
      <4>3. QED
        BY <3>1, <4>1, <4>2 DEF SetUp
    <3>7. \A i \in DOMAIN new : ~IsUnlisten(new[i], p) /\ ~IsUnlisten(new[i], Root)
      BY <3>6 DEF IsListen, IsUnlisten, Below
    <3>8. \A i \in DOMAIN new : 1 <= i
      OBVIOUS
    <3>9. c \in Place /\ Root \in Place
      OBVIOUS
    <3>10. \A q \in Place : c \in Under(q) <=> (q = c \/ q = Root)
      BY UnderFacts
    <3>11. CASE p = c \/ (p = Root /\ c \notin complete)
      <4>1. new[1].hash[c] = None
        BY <2>2, <3>5, <3>6, <3>11
      <4>2. QED
        BY <1>1, <3>2, <3>6, <3>7, <3>11, <4>1, FedNew
    <3>12. CASE p = Root /\ c \in complete
      <4>1. c \in listens
        BY <3>4, <3>12 DEF TypeOK, ListensCover, Covered, Observed
      <4>2. Fed(c)
        BY <4>1 DEF AllFed, Wanted
      <4>3. cache'[Root][c] = cache[c][c]
        BY <2>1, <2>2, <3>5, <3>12
      <4>4. \A q \in listens' : q = Root
        BY <3>3, <3>12 DEF Below, TypeOK
      <4>5. \A v : Heard(c, v) => Heard(c, v)'
        BY <3>9, <3>10, <4>1, <4>3, <4>4 DEF Heard
      <4>6. \A i \in DOMAIN new : \A n : n = Len(toServer) + i => Sends(c, n)'
        <5>1. \A i \in DOMAIN new : \A n : n = Len(toServer) + i => On(Root, n)'
          BY <1>1, <3>2, <3>6, <3>7, <3>8, <3>9, <3>12, OnMore
        <5>2. QED
          BY <5>1 DEF Sends
      <4>7. QED
        BY <1>1, <3>2, <4>2, <4>5, <4>6, FedMore
    <3>13. CASE p # c /\ p # Root
      <4>1. Below(p) = {}
        BY <3>13 DEF Below
      <4>2. c \in listens
        BY <3>3, <3>5, <3>13, <4>1 DEF Wanted
      <4>3. Fed(c)
        BY <4>2 DEF AllFed, Wanted
      <4>4. \A q \in listens' : c \in Under(q) => q \in listens /\ cache'[q] = cache[q]
        BY <2>1, <3>3, <3>10, <3>13, <4>1 DEF TypeOK
      <4>5. \A v : Heard(c, v) => Heard(c, v)'
        BY <4>4 DEF Heard
      <4>6. \A i \in DOMAIN new : ~IsUnlisten(new[i], c)
        BY <3>6, <3>13, <4>1 DEF IsListen, IsUnlisten
      <4>7. \A i \in DOMAIN new : \A n : n = Len(toServer) + i =>
               /\ On(c, Len(toServer)) => On(c, n)'
               /\ On(Root, Len(toServer)) => On(Root, n)'
        BY <1>1, <3>2, <3>7, <3>9, <4>6, OnMore
      <4>8. Sends(c, Len(toServer)) =>
               \A i \in DOMAIN new : \A n : n = Len(toServer) + i => Sends(c, n)'
        BY <4>7 DEF Sends
      <4>9. QED
        BY <1>1, <3>2, <4>3, <4>5, <4>8, FedMore
    <3>14. QED
      BY <3>11, <3>12, <3>13
  <2>5. QED
    BY <2>1, <2>3, <2>4
<1>5. QED
  BY <1>3, <1>4

(* A view goes, and those below it are asked for before its listen stops. *)
LEMMA FedHandOver ==
    ASSUME TypeOK, ListensCover, AllFed, Together, NEW p \in listens, RemoveView(p),
           HandOver(p, <<Unlisten(p)>>), UNCHANGED <<connected, toClient, server, active>>
    PROVE  AllFed'
<1> USE SyncTreeAssumption
<1> SUFFICES ASSUME connected, NEW c \in Child, Wanted(c)' PROVE Fed(c)'
  BY DEF AllFed
<1>1. p \in Place /\ p \in Observed /\ ~Covered(p)
  BY DEF ListensCover, Observed
<1>2. PICK new \in Seq(Request) : Handed(new, p) /\ Send(new)
  BY <1>1, HandOverFacts
<1>3. toServer' = toServer \o new /\ DOMAIN new \subseteq Nat
  BY <1>2 DEF Send
<1>4. listens' = (listens \ {p}) \cup (Below(p) \cap Observed)
  BY DEF HandOver
<1>5. \A q \in Place : q # p => cache'[q] = cache[q]
  BY <1>1, ViewGone
<1>6. /\ \A i \in DOMAIN new : ~IsUnlisten(new[i], p) =>
            \E q \in Below(p) \cap Observed : new[i] = Listen(q, started[q] + 1, cache[q])
      /\ \A q \in Below(p) \cap Observed :
            \E i \in DOMAIN new : new[i] = Listen(q, started[q] + 1, cache[q])
      /\ \A i, j \in DOMAIN new : new[i].op = "listen" /\ new[j].op = "unlisten" => i < j
  BY <1>2 DEF Handed
<1>7. \A q : q # p => \A i \in DOMAIN new : ~IsUnlisten(new[i], q)
  BY <1>6 DEF IsUnlisten, Listen
<1>8. c \in Place /\ Root \in Place /\ c # Root
  OBVIOUS
<1>9. \A q \in Place : c \in Under(q) <=> (q = c \/ q = Root)
  BY UnderFacts
<1>10. CASE p = Root
  <2>1. c \in Observed
    BY <1>4, <1>8, <1>10 DEF Wanted, Below, ListensCover
  <2>2. PICK j \in DOMAIN new : new[j] = Listen(c, started[c] + 1, cache[c])
    BY <1>6, <1>10, <2>1 DEF Below
  <2>3. IsListen(new[j], c) /\ new[j].hash[c] = cache[c][c] /\ new[j].op = "listen"
    BY <2>2 DEF Listen, IsListen
  <2>4. \A i \in DOMAIN new : ~IsUnlisten(new[i], c)
    BY <1>7, <1>8, <1>10
  <2>5. CASE cache[c][c] = None
    BY <1>3, <1>8, <2>3, <2>4, <2>5, FedNew
  <2>6. CASE cache[c][c] # None
    <3>1. cache[c][c] = cache[Root][c]
      BY <1>1, <1>10, <2>1, <2>6 DEF Together
    <3>2. Fed(c)
      BY <1>10 DEF AllFed, Wanted
    <3>3. \A q \in listens' : c \in Under(q) => q = c
      BY <1>4, <1>9, <1>10 DEF Below, TypeOK
    <3>4. cache'[c][c] = cache[Root][c]
      BY <1>5, <1>8, <1>10, <3>1
    <3>5. \A v : Heard(c, v) => Heard(c, v)'
      BY <1>8, <1>9, <1>10, <3>3, <3>4 DEF Heard
    <3>6. ASSUME NEW i \in DOMAIN new, NEW n, n = Len(toServer) + i, Sends(c, Len(toServer))
          PROVE  Sends(c, n)'
      <4>1. i \in Nat /\ j \in Nat
        BY <1>3
      <4>2. CASE j <= i
        <5>1. On(c, n)'
          BY <1>3, <1>8, <2>3, <2>4, <3>6, <4>2, OnMore
        <5>2. QED
          BY <5>1 DEF Sends
      <4>3. CASE i < j
        <5>1. \A m \in DOMAIN new : m <= i => ~IsUnlisten(new[m], Root)
          <6> SUFFICES ASSUME NEW m \in DOMAIN new, m <= i, IsUnlisten(new[m], Root)
                       PROVE  FALSE
            OBVIOUS
          <6>1. j < m
            BY <1>6, <2>3 DEF IsUnlisten
          <6>2. m \in Nat
            BY <1>3
          <6>3. QED
            BY <4>1, <4>3, <6>1, <6>2
        <5>2. On(c, Len(toServer)) => On(c, n)'
          BY <1>3, <1>8, <2>4, <3>6, OnMore
        <5>3. On(Root, Len(toServer)) => On(Root, n)'
          BY <1>3, <1>8, <5>1, <3>6, OnMore
        <5>4. QED
          BY <3>6, <5>2, <5>3 DEF Sends
      <4>4. QED
        BY <4>1, <4>2, <4>3
    <3>7. QED
      BY <1>3, <3>2, <3>5, <3>6, FedMore
  <2>7. QED
    BY <2>5, <2>6
<1>11. CASE p # Root
  <2>1. Below(p) = {} /\ Root \notin listens
    BY <1>1, <1>11 DEF Below, ListensCover, Covered, Observed
  <2>2. c \in listens /\ c # p /\ Root # p
    BY <1>4, <1>11, <2>1 DEF Wanted
  <2>3. Fed(c)
    BY <2>2 DEF AllFed, Wanted
  <2>4. \A v : Heard(c, v) => Heard(c, v)'
    BY <1>4, <1>5, <2>1 DEF Heard, TypeOK
  <2>5. \A i \in DOMAIN new : ~IsUnlisten(new[i], c) /\ ~IsUnlisten(new[i], Root)
    BY <1>7, <2>2
  <2>6. \A i \in DOMAIN new : \A n : n = Len(toServer) + i =>
           /\ On(c, Len(toServer)) => On(c, n)'
           /\ On(Root, Len(toServer)) => On(Root, n)'
    BY <1>3, <1>8, <2>5, OnMore
  <2>7. Sends(c, Len(toServer)) =>
           \A i \in DOMAIN new : \A n : n = Len(toServer) + i => Sends(c, n)'
    BY <2>6 DEF Sends
  <2>8. QED
    BY <1>3, <2>3, <2>4, <2>7, FedMore
<1>12. QED
  BY <1>10, <1>11

LEMMA FedRemove ==
    ASSUME TypeOK, ListensCover, AllFed, Together, NEW p \in Place, RemoveEventRegistration(p)
    PROVE  AllFed'
<1>1. UNCHANGED <<connected, toClient, server, active>>
  BY DEF RemoveEventRegistration
<1>2. UNCHANGED <<listens, toServer>> /\ (\A q \in listens : cache'[q] = cache[q]) => AllFed'
  BY <1>1, FedViews
<1>3. CASE UNCHANGED <<cache, listens, toServer>>
  BY <1>2, <1>3
<1>4. CASE RemoveView(p) /\ Covered(p) /\ UNCHANGED <<listens, toServer>>
  <2>1. p \notin listens /\ \A q \in Place : q # p => cache'[q] = cache[q]
    BY <1>4, ViewGone DEF ListensCover
  <2>2. QED
    BY <1>2, <1>4, <2>1 DEF TypeOK
<1>5. CASE observers[p] = 1 /\ RemoveView(p) /\ ~Covered(p) /\ HandOver(p, <<Unlisten(p)>>)
  <2>1. p \in listens
    BY <1>5 DEF ListensCover, Observed
  <2>2. QED
    BY <1>1, <1>5, <2>1, FedHandOver
<1>6. QED
  BY <1>3, <1>4, <1>5 DEF RemoveEventRegistration

(* A frame is taken that carries nothing of an entry. *)
LEMMA FedFrame ==
    ASSUME TypeOK, NEW c \in Child, Fed(c), toClient # <<>>, toClient' = Tail(toClient),
           UNCHANGED <<toServer, active, server, listens>>,
           ~Carries(Head(toClient), c),
           \A q \in listens : cache'[q][c] = cache[q][c]
    PROVE  Fed(c)'
<1>1. /\ 1 \in DOMAIN toClient /\ toClient[1] = Head(toClient)
      /\ DOMAIN toClient \subseteq Nat /\ DOMAIN toClient' \subseteq Nat
      /\ \A k \in DOMAIN toClient' : /\ k + 1 \in DOMAIN toClient /\ k >= 1
                                     /\ toClient'[k] = toClient[k + 1]
      /\ \A k \in DOMAIN toClient :
            k = 1 \/ (k - 1 \in DOMAIN toClient' /\ toClient'[k - 1] = toClient[k])
  BY ClientTail
<1>2. NoneCarries(c) => NoneCarries(c)'
  BY <1>1 DEF NoneCarries
<1>3. LastCarries(c) => LastCarries(c)'
  <2> SUFFICES ASSUME LastCarries(c) PROVE LastCarries(c)'
    OBVIOUS
  <2>1. PICK k \in DOMAIN toClient :
          /\ Carries(toClient[k], c) /\ toClient[k].data[c] = server[c]
          /\ \A m \in DOMAIN toClient : m > k => ~Carries(toClient[m], c)
    BY DEF LastCarries
  <2>2. k - 1 \in DOMAIN toClient' /\ toClient'[k - 1] = toClient[k]
    BY <1>1, <2>1
  <2>3. \A m \in DOMAIN toClient' : m > k - 1 => ~Carries(toClient'[m], c)
    BY <1>1, <2>1
  <2>4. QED
    BY <2>1, <2>2, <2>3 DEF LastCarries
<1>4. \A v : Heard(c, v) => Heard(c, v)'
  BY DEF Heard
<1>5. Fresh(c) => Fresh(c)'
  BY <1>2, <1>3, <1>4 DEF Fresh
<1>6. QED
  BY <1>2, <1>4, <1>5, FedSame

LEMMA FedData ==
    ASSUME TypeOK, ListensCover, AllFed, OnDataUpdate
    PROVE  AllFed'
<1> DEFINE h == Head(toClient)
<1>1. /\ h.at \in Place /\ h.data \in Data /\ h.op = "data"
      /\ \A q \in Place, c \in Child :
            cache'[q][c] = IF q \in Observed /\ c \in Under(h.at) \cap Under(q)
                           THEN h.data[c] ELSE cache[q][c]
  BY DataUpdated
<1>2. /\ toClient # <<>> /\ toClient' = Tail(toClient)
      /\ UNCHANGED <<toServer, active, server, listens, connected>>
  BY DEF OnDataUpdate
<1>3. /\ 1 \in DOMAIN toClient /\ toClient[1] = h
      /\ DOMAIN toClient \subseteq Nat /\ DOMAIN toClient' \subseteq Nat
      /\ \A k \in DOMAIN toClient' : /\ k + 1 \in DOMAIN toClient /\ k >= 1
                                     /\ toClient'[k] = toClient[k + 1]
      /\ \A k \in DOMAIN toClient :
            k = 1 \/ (k - 1 \in DOMAIN toClient' /\ toClient'[k - 1] = toClient[k])
  BY <1>2, ClientTail
<1> HIDE DEF h
<1> SUFFICES ASSUME connected, NEW c \in Child, Wanted(c) PROVE Fed(c)'
  BY <1>2 DEF AllFed, Wanted
<1>4. Fed(c)
  BY DEF AllFed
<1>5. \A q \in listens : q \in Place /\ q \in Observed
  BY DEF ListensCover, Observed
<1>6. CASE ~Carries(h, c)
  <2>1. \A q \in listens : cache'[q][c] = cache[q][c]
    BY <1>1, <1>5, <1>6 DEF Carries
  <2>2. QED
    BY <1>2, <1>4, <1>6, <2>1, FedFrame DEF h
<1>7. CASE Carries(h, c)
  <2>1. ~NoneCarries(c)
    BY <1>3, <1>7 DEF NoneCarries
  <2>2. ASSUME LastCarries(c)
        PROVE  Fresh(c)'
    <3>1. PICK k \in DOMAIN toClient :
            /\ Carries(toClient[k], c) /\ toClient[k].data[c] = server[c]
            /\ \A m \in DOMAIN toClient : m > k => ~Carries(toClient[m], c)
      BY <2>2 DEF LastCarries
    <3>2. CASE k = 1
      <4>1. NoneCarries(c)'
        BY <1>3, <3>1, <3>2 DEF NoneCarries
      <4>2. \A v : v = server'[c] => Heard(c, v)'
        BY <1>1, <1>2, <1>3, <1>5, <1>7, <3>1, <3>2 DEF Heard, Carries
      <4>3. QED
        BY <4>1, <4>2 DEF Fresh
    <3>3. CASE k # 1
      <4>1. k - 1 \in DOMAIN toClient' /\ toClient'[k - 1] = toClient[k]
        BY <1>3, <3>3
      <4>2. \A m \in DOMAIN toClient' : m > k - 1 => ~Carries(toClient'[m], c)
        BY <1>3, <3>1
      <4>3. LastCarries(c)'
        BY <1>2, <3>1, <4>1, <4>2 DEF LastCarries
      <4>4. QED
        BY <4>3 DEF Fresh
    <3>4. QED
      BY <3>2, <3>3
  <2>3. Fresh(c) => Fresh(c)'
    BY <1>2, <2>1, <2>2 DEF Fresh
  <2>4. QED
    BY <1>2, <1>4, <2>1, <2>3, FedSame
<1>8. QED
  BY <1>6, <1>7

LEMMA FedResponse ==
    ASSUME TypeOK, AllFed, NoneDenied, OnListenResponse
    PROVE  AllFed' /\ UNCHANGED <<observers, cache, server>> /\ complete \subseteq complete'
<1>1. /\ toClient # <<>> /\ toClient' = Tail(toClient) /\ Head(toClient).op \in {"ok", "denied"}
      /\ UNCHANGED <<connected, server, active, held, count>>
  BY DEF OnListenResponse
<1>2. 1 \in DOMAIN toClient /\ toClient[1] = Head(toClient)
  BY <1>1, ClientTail
<1>3. Head(toClient).op = "ok"
  BY <1>1, <1>2 DEF NoneDenied
<1>4. UNCHANGED <<observers, cache, listens, toServer>> /\ complete \subseteq complete'
  BY <1>3 DEF OnListenResponse
<1>5. \A c : ~Carries(Head(toClient), c)
  BY <1>3 DEF Carries
<1>6. ASSUME connected, NEW c \in Child, Wanted(c)
      PROVE  Fed(c)'
  <2>1. Fed(c)
    BY <1>6 DEF AllFed
  <2>2. QED
    BY <1>1, <1>4, <1>5, <2>1, FedFrame
<1>7. AllFed'
  BY <1>1, <1>4, <1>6 DEF AllFed, Wanted
<1>8. QED
  BY <1>1, <1>4, <1>7

(* A new connection: each entry is asked for once, with what its view has. *)
LEMMA FedRestored ==
    ASSUME TypeOK, ListensCover, Idle, RestoreState
    PROVE  AllFed'
<1> USE SyncTreeAssumption
<1>1. PICK order \in Orders(listens) :
        toServer' = [i \in DOMAIN order |->
                       Listen(order[i], started[order[i]], cache[order[i]])]
  BY DEF RestoreState
<1>2. /\ UNCHANGED <<listens, started, cache, server>>
      /\ toClient' = <<>> /\ active' = {}
  BY DEF RestoreState, Idle
<1>3. /\ order \in Seq(listens)
      /\ \A i, j \in DOMAIN order : order[i] = order[j] => i = j
      /\ \A q \in listens : \E i \in DOMAIN order : order[i] = q
  BY OrderFacts DEF TypeOK
<1>4. /\ DOMAIN toServer' = DOMAIN order
      /\ \A i \in DOMAIN order :
            /\ toServer'[i].op = "listen" /\ toServer'[i].at = order[i]
            /\ toServer'[i].hash = cache[order[i]] /\ order[i] \in listens
  BY <1>1, <1>3 DEF Listen
<1>5. Len(toServer') \in Nat /\ DOMAIN toServer' = 1..Len(toServer')
  <2>1. Len(order) \in Nat /\ DOMAIN order = 1..Len(order)
    BY <1>3
  <2>2. Len(toServer') = Len(order)
    BY <1>1, <2>1
  <2>3. QED
    BY <1>4, <2>1, <2>2
<1> SUFFICES ASSUME NEW c \in Child, Wanted(c) PROVE Fed(c)'
  BY <1>2 DEF AllFed, Wanted
<1>6. \A q \in Place : c \in Under(q) <=> (q = c \/ q = Root)
  BY UnderFacts
<1>7. PICK q \in listens : c \in Under(q)
  BY <1>6 DEF Wanted
<1>8. \A r \in listens : c \in Under(r) => r = q
  BY <1>6, <1>7 DEF ListensCover, Covered, Observed
<1>9. PICK k \in DOMAIN order : order[k] = q
  BY <1>3, <1>7
<1>10. k \in Nat /\ k \in DOMAIN toServer'
  BY <1>4, <1>5
<1>11. Stopped(q)' = {} /\ k \in Asked(q)'
  BY <1>4, <1>9 DEF Stopped, Asked, IsUnlisten, IsListen
<1>12. \A i \in Nat : k <= i => On(q, i)'
  BY <1>11 DEF On
<1>13. From(c, k)'
  <2>1. q = c \/ q = Root
    BY <1>6, <1>7 DEF TypeOK
  <2>2. QED
    BY <1>12, <2>1 DEF From, Sends
<1>14. Lists(toServer'[k], c)
  BY <1>4, <1>7, <1>9 DEF Lists
<1>15. Matching(c, k)'
  <2>1. Dormant(c)' /\ NoneCarries(c)'
    BY <1>2 DEF Dormant, NoneCarries
  <2>2. \A i \in DOMAIN toServer' : i < k => ~Lists(toServer'[i], c)
    <3> SUFFICES ASSUME NEW i \in DOMAIN order, i < k, Lists(toServer'[i], c) PROVE FALSE
      BY <1>4
    <3>1. order[i] = q
      BY <1>4, <1>8 DEF Lists
    <3>2. i = k
      BY <1>3, <1>9, <3>1
    <3>3. QED
      BY <1>10, <3>2
  <2>3. \A v : v = toServer'[k].hash[c] => Heard(c, v)'
    BY <1>2, <1>4, <1>8, <1>9 DEF Heard
  <2>4. QED
    BY <2>1, <2>2, <2>3 DEF Matching
<1>16. FedAt(c, k)'
  BY <1>10, <1>13, <1>14, <1>15 DEF FedAt
<1>17. QED
  BY <1>10, <1>16 DEF Fed

(* The server takes a listen, and sends what differs from its hash. *)
LEMMA FeedListens ==
    ASSUME TypeOK, Feeding, ServerListens, count'["deny"] = 0
    PROVE  Feeding'
<1> USE SyncTreeAssumption
<1>0. PICK h : h = Head(toServer)
  OBVIOUS
<1>1. /\ toServer # <<>> /\ toServer' = Tail(toServer)
      /\ UNCHANGED <<observers, cache, complete, connected, listens, started, server>>
  BY DEF ServerListens
<1>2. /\ h \in Request /\ h.op = "listen" /\ h.at \in Place
      /\ \E new \in Seq(Reply) :
            /\ toClient' = toClient \o new
            /\ Accepts(h, new) \/ Refuses(h, new)
  BY <1>0, Served
<1>3. ~\E new : Refuses(h, new)
  <2>1. count["deny"] \in Nat /\ "deny" \in Counted /\ count \in [Counted -> Nat]
    BY DEF TypeOK, Counted
  <2>2. QED
    BY <2>1 DEF Refuses, Count
<1>4. PICK new \in Seq(Reply) : toClient' = toClient \o new /\ Accepts(h, new)
  BY <1>2, <1>3
<1>5. 1 \in DOMAIN toServer /\ toServer[1] = h
  BY <1>0, <1>1, ServerTail
<1>6. active' = active \cup {h.at}
  BY <1>4 DEF Accepts
<1>7. /\ \A i \in DOMAIN new : \/ new[i] = DataAt(h.at, Part(h.at, server))
                               \/ new[i] = Answer("ok", h.at, h.turn)
      /\ \/ /\ 1 \in DOMAIN new /\ new[1] = DataAt(h.at, Part(h.at, server))
            /\ \A i \in DOMAIN new : i # 1 => new[i] = Answer("ok", h.at, h.turn)
         \/ /\ h.hash = Part(h.at, server)
            /\ \A i \in DOMAIN new : new[i] = Answer("ok", h.at, h.turn)
  BY <1>4 DEF Accepts
<1>8. \A c : ~Carries(Answer("ok", h.at, h.turn), c)
  BY DEF Carries, Answer
<1>9. \A c : /\ Carries(DataAt(h.at, Part(h.at, server)), c) <=> c \in Under(h.at)
             /\ DataAt(h.at, Part(h.at, server)).data = Part(h.at, server)
  BY DEF Carries, DataAt
<1>10. \A c \in Child : c \in Under(h.at) => Part(h.at, server)[c] = server[c]
  BY DEF Part
<1>11. ASSUME NEW c \in Child, \A i \in DOMAIN new : ~Carries(new[i], c)
       PROVE  /\ NoneCarries(c) => NoneCarries(c)'
              /\ LastCarries(c) => LastCarries(c)'
              /\ Fresh(c) => Fresh(c)'
  <2>1. /\ NoneCarries(c) => NoneCarries(c)'
        /\ LastCarries(c) => LastCarries(c)'
    BY <1>1, <1>4, <1>11, CarriesMore
  <2>2. \A v : Heard(c, v) => Heard(c, v)'
    BY <1>1 DEF Heard
  <2>3. QED
    BY <1>1, <2>1, <2>2 DEF Fresh
<1>12. ASSUME NEW c \in Child, c \in Under(h.at),
              1 \in DOMAIN new, new[1] = DataAt(h.at, Part(h.at, server)),
              \A i \in DOMAIN new : i # 1 => new[i] = Answer("ok", h.at, h.turn)
       PROVE  Fresh(c)'
  <2>1. Carries(new[1], c) /\ new[1].data[c] = server'[c]
    BY <1>1, <1>9, <1>10, <1>12
  <2>2. \A i \in DOMAIN new : i # 1 => ~Carries(new[i], c)
    BY <1>8, <1>12
  <2>3. LastCarries(c)'
    BY <1>4, <1>12, <2>1, <2>2, CarriesLast
  <2>4. QED
    BY <2>3 DEF Fresh
<1>13. ASSUME NEW c \in Child
       PROVE  Fresh(c) => Fresh(c)'
  <2>1. CASE \A i \in DOMAIN new : ~Carries(new[i], c)
    BY <1>11, <2>1
  <2>2. CASE ~\A i \in DOMAIN new : ~Carries(new[i], c)
    BY <1>7, <1>8, <1>9, <1>12, <2>2
  <2>3. QED
    BY <2>1, <2>2
<1>14. ASSUME NEW c \in Child, Lists(h, c), h.hash[c] = None \/ Matching(c, 1)
       PROVE  Fresh(c)'
  <2>1. c \in Under(h.at)
    BY <1>14 DEF Lists
  <2>2. CASE h.hash = Part(h.at, server) /\ \A i \in DOMAIN new : new[i] = Answer("ok", h.at, h.turn)
    <3>1. h.hash[c] = server[c]
      BY <1>10, <2>1, <2>2
    <3>2. \A i \in DOMAIN new : ~Carries(new[i], c)
      BY <1>8, <2>2
    <3>3. Fresh(c)
      BY <1>5, <1>14, <3>1 DEF Fresh, Matching
    <3>4. QED
      BY <1>11, <3>2, <3>3
  <2>3. QED
    BY <1>7, <1>12, <2>1, <2>2
<1>15. ASSUME NEW c \in Child, ~Lists(h, c)
       PROVE  /\ Dormant(c) => Dormant(c)'
              /\ NoneCarries(c) => NoneCarries(c)'
  <2>1. c \notin Under(h.at)
    BY <1>2, <1>15 DEF Lists
  <2>2. h.at # c /\ h.at # Root
    BY <1>2, <2>1, UnderFacts
  <2>3. \A i \in DOMAIN new : ~Carries(new[i], c)
    BY <1>7, <1>8, <1>9, <2>1
  <2>4. QED
    BY <1>6, <1>11, <2>2, <2>3 DEF Dormant
<1>16. \A p : (p \in active /\ ~IsUnlisten(h, p)) \/ IsListen(h, p) => p \in active'
  BY <1>6 DEF IsListen
<1>17. AllFed'
  <2> SUFFICES ASSUME connected, NEW c \in Child, Wanted(c) PROVE Fed(c)'
    BY <1>1 DEF AllFed, Wanted
  <2>1. Fed(c)
    BY DEF Feeding, AllFed
  <2>2. QED
    BY <1>0, <1>1, <1>13, <1>14, <1>15, <1>16, <2>1, FedTail
<1>18. Together' /\ EmptyYet'
  BY <1>1 DEF Feeding, Together, EmptyYet, Observed
<1>19. /\ \A k \in DOMAIN toClient : toClient'[k] = toClient[k]
       /\ \A k \in DOMAIN toClient' :
             \/ k \in DOMAIN toClient
             \/ k - Len(toClient) \in DOMAIN new /\ toClient'[k] = new[k - Len(toClient)]
  BY <1>4, ClientMore
<1>20. Never'
  <2> SUFFICES ASSUME NEW c \in Child, server[c] = None
               PROVE  /\ \A q \in Place : cache[q][c] = None
                      /\ \A k \in DOMAIN toClient' :
                            Carries(toClient'[k], c) => toClient'[k].data[c] = None
    BY <1>1 DEF Never
  <2>1. \A i \in DOMAIN new : Carries(new[i], c) => new[i].data[c] = None
    BY <1>7, <1>8, <1>9, <1>10
  <2>2. QED
    BY <1>19, <2>1 DEF Feeding, Never
<1>21. NoneDenied'
  <2>1. \A i \in DOMAIN new : new[i].op # "denied"
    BY <1>7 DEF DataAt, Answer
  <2>2. QED
    BY <1>19, <2>1 DEF Feeding, NoneDenied
<1>22. QED
  BY <1>17, <1>18, <1>20, <1>21 DEF Feeding

LEMMA FeedUnlistens ==
    ASSUME TypeOK, Feeding, ServerUnlistens
    PROVE  Feeding'
<1>1. /\ toServer # <<>> /\ toServer' = Tail(toServer) /\ Head(toServer).op = "unlisten"
      /\ active' = active \ {Head(toServer).at}
      /\ UNCHANGED <<observers, cache, complete, connected, listens, toClient, server>>
  BY DEF ServerUnlistens
<1>2. \A p : (p \in active /\ ~IsUnlisten(Head(toServer), p)) \/ IsListen(Head(toServer), p)
                => p \in active'
  BY <1>1 DEF IsListen, IsUnlisten
<1>3. AllFed'
  <2> SUFFICES ASSUME connected, NEW c \in Child, Wanted(c) PROVE Fed(c)'
    BY <1>1 DEF AllFed, Wanted
  <2>1. Fed(c)
    BY DEF Feeding, AllFed
  <2>2. ~Lists(Head(toServer), c) /\ (Dormant(c) => Dormant(c)')
    BY <1>1 DEF Lists, Dormant
  <2>3. NoneCarries(c) => NoneCarries(c)'
    BY <1>1 DEF NoneCarries
  <2>4. LastCarries(c) => LastCarries(c)'
    BY <1>1 DEF LastCarries
  <2>5. \A v : Heard(c, v) => Heard(c, v)'
    BY <1>1 DEF Heard
  <2>6. Fresh(c) => Fresh(c)'
    BY <1>1, <2>3, <2>4, <2>5 DEF Fresh
  <2>7. QED
    BY <1>1, <1>2, <2>1, <2>2, <2>3, <2>6, FedTail
<1>4. QED
  BY <1>1, <1>3 DEF Feeding, Together, EmptyYet, Observed, Never, NoneDenied

(* An entry is set: if it is sent to this client at all, it is sent last. *)
LEMMA FeedChange ==
    ASSUME TypeOK, Feeding, NEW d \in Child, NEW v \in Version, ServerChange(d, v)
    PROVE  Feeding'
<1> USE SyncTreeAssumption
<1>1. UNCHANGED <<observers, cache, complete, connected, listens, started, toServer, active>>
  BY DEF ServerChange
<1>2. /\ server' \in Data /\ server'[d] = v
      /\ \A c \in Child : c # d => server'[c] = server[c]
  BY Changed
<1>3. PICK new \in Seq(Reply) :
        /\ toClient' = toClient \o new
        /\ active \cap {d, Root} = {} => DOMAIN new = {}
        /\ active \cap {d, Root} # {} =>
              DOMAIN new = {1} /\ new[1] = DataAt(d, Part(d, server'))
  BY Changed
<1>4. \A i \in DOMAIN new : i = 1 /\ new[i].op = "data" /\ new[i].at = d
  BY <1>3 DEF DataAt
<1>5. Under(d) = {d}
  BY DEF Under
<1>6. \A c, w : Heard(c, w) => Heard(c, w)'
  BY <1>1 DEF Heard
<1>7. /\ \A k \in DOMAIN toClient : toClient'[k] = toClient[k]
      /\ \A k \in DOMAIN toClient' :
            \/ k \in DOMAIN toClient
            \/ k - Len(toClient) \in DOMAIN new /\ toClient'[k] = new[k - Len(toClient)]
  BY <1>3, ClientMore
<1>8. AllFed'
  <2> SUFFICES ASSUME connected, NEW c \in Child, Wanted(c) PROVE Fed(c)'
    BY <1>1 DEF AllFed, Wanted
  <2>1. Fed(c)
    BY DEF Feeding, AllFed
  <2>2. CASE c # d
    <3>1. \A i \in DOMAIN new : ~Carries(new[i], c)
      BY <1>4, <1>5, <2>2 DEF Carries
    <3>2. server'[c] = server[c]
      BY <1>2, <2>2
    <3>3. /\ NoneCarries(c) => NoneCarries(c)'
          /\ LastCarries(c) => LastCarries(c)'
      BY <1>3, <3>1, <3>2, CarriesMore
    <3>4. Fresh(c) => Fresh(c)'
      BY <1>6, <3>2, <3>3 DEF Fresh
    <3>5. QED
      BY <1>1, <1>6, <2>1, <3>3, <3>4, FedSame
  <2>3. CASE c = d
    <3>1. ~Dormant(c) => Fresh(c)'
      <4> SUFFICES ASSUME ~Dormant(c) PROVE Fresh(c)'
        OBVIOUS
      <4>1. DOMAIN new = {1} /\ new[1] = DataAt(d, Part(d, server'))
        BY <1>3, <2>3 DEF Dormant
      <4>2. Part(d, server')[d] = server'[d]
        BY <1>5 DEF Part
      <4>3. Carries(new[1], c) /\ new[1].data[c] = server'[c]
        BY <1>5, <2>3, <4>1, <4>2 DEF Carries, DataAt
      <4>4. LastCarries(c)'
        BY <1>3, <4>1, <4>3, CarriesLast
      <4>5. QED
        BY <4>4 DEF Fresh
    <3>2. Dormant(c) /\ NoneCarries(c) => NoneCarries(c)'
      <4> SUFFICES ASSUME Dormant(c), NoneCarries(c) PROVE NoneCarries(c)'
        OBVIOUS
      <4>1. DOMAIN new = {}
        BY <1>3, <2>3 DEF Dormant
      <4>2. QED
        BY <1>7, <4>1 DEF NoneCarries
    <3>3. QED
      BY <1>1, <1>6, <2>1, <3>1, <3>2, FedSame
  <2>4. QED
    BY <2>2, <2>3
<1>9. Together' /\ EmptyYet'
  BY <1>1 DEF Feeding, Together, EmptyYet, Observed
<1>10. Never'
  <2> SUFFICES ASSUME NEW c \in Child, server'[c] = None
               PROVE  /\ \A q \in Place : cache[q][c] = None
                      /\ \A k \in DOMAIN toClient' :
                            Carries(toClient'[k], c) => toClient'[k].data[c] = None
    BY <1>1 DEF Never
  <2>1. c # d /\ server[c] = None
    BY <1>2
  <2>2. \A i \in DOMAIN new : ~Carries(new[i], c)
    BY <1>4, <1>5, <2>1 DEF Carries
  <2>3. QED
    BY <1>7, <2>1, <2>2 DEF Feeding, Never
<1>11. NoneDenied'
  BY <1>4, <1>7 DEF Feeding, NoneDenied
<1>12. QED
  BY <1>8, <1>9, <1>10, <1>11 DEF Feeding

FedInv == count["deny"] = 0 => Feeding

LEMMA FedStep == TypeOK /\ ListensCover /\ Idle /\ FedInv /\ [Next]_vars => FedInv'
<1> SUFFICES ASSUME TypeOK, ListensCover, Idle, FedInv, [Next]_vars, count'["deny"] = 0
             PROVE  Feeding'
  BY DEF FedInv
<1>0. count \in [Counted -> Nat] /\ "deny" \in Counted
  BY DEF TypeOK, Counted
<1>1. ASSUME NEW what \in Counted, NEW bound, Count(what, bound)
      PROVE  count["deny"] = 0
  BY <1>0, <1>1 DEF Count
<1>2. /\ "observe" \in Counted /\ "remove" \in Counted /\ "change" \in Counted
      /\ "drop" \in Counted
  BY DEF Counted
<1>3. CASE \E p \in Place : AddEventRegistration(p)
  <2>1. PICK p \in Place : AddEventRegistration(p)
    BY <1>3
  <2>2. Feeding /\ UNCHANGED toClient
    BY <1>1, <1>2, <2>1 DEF AddEventRegistration, FedInv
  <2>3. Together' /\ EmptyYet' /\ Never'
    BY <2>1, <2>2, AlikeAdd DEF Feeding
  <2>4. AllFed'
    BY <2>1, <2>2, FedAdd DEF Feeding
  <2>5. QED
    BY <2>2, <2>3, <2>4 DEF Feeding, NoneDenied
<1>4. CASE \E p \in Place : RemoveEventRegistration(p)
  <2>1. PICK p \in Place : RemoveEventRegistration(p)
    BY <1>4
  <2>2. Feeding /\ UNCHANGED <<toClient, server>>
    BY <1>1, <1>2, <2>1 DEF RemoveEventRegistration, FedInv
  <2>3. Together' /\ EmptyYet' /\ Never'
    <3>1. CASE RemoveView(p)
      BY <2>2, <3>1, AlikeGone DEF Feeding
    <3>2. CASE ~RemoveView(p)
      <4>1. observers[p] > 1 /\ observers' = [observers EXCEPT ![p] = @ - 1]
        BY <2>1, <3>2 DEF RemoveEventRegistration
      <4>2. UNCHANGED <<cache, complete>>
        BY <2>1, <3>2 DEF RemoveEventRegistration
      <4>3. Observed' = Observed
        BY <4>1 DEF Observed, TypeOK
      <4>4. QED
        BY <2>2, <4>2, <4>3 DEF Feeding, Together, EmptyYet, Never
    <3>3. QED
      BY <3>1, <3>2
  <2>4. AllFed'
    BY <2>1, <2>2, FedRemove DEF Feeding
  <2>5. QED
    BY <2>2, <2>3, <2>4 DEF Feeding, NoneDenied
<1>5. CASE OnDataUpdate
  <2>1. Feeding
    BY <1>5 DEF OnDataUpdate, FedInv
  <2>2. Together' /\ EmptyYet' /\ Never' /\ AllFed'
    BY <1>5, <2>1, AlikeData, FedData DEF Feeding
  <2>3. NoneDenied'
    <3>1. toClient # <<>> /\ toClient' = Tail(toClient)
      BY <1>5 DEF OnDataUpdate
    <3>2. QED
      BY <2>1, <3>1, ClientTail DEF Feeding, NoneDenied
  <2>4. QED
    BY <2>2, <2>3 DEF Feeding
<1>6. CASE OnListenResponse
  <2>1. Feeding /\ toClient # <<>> /\ toClient' = Tail(toClient)
    BY <1>6 DEF OnListenResponse, FedInv
  <2>2. /\ AllFed' /\ UNCHANGED <<observers, cache, server>> /\ complete \subseteq complete'
    BY <1>6, <2>1, FedResponse DEF Feeding
  <2>3. \A k \in DOMAIN toClient' : k + 1 \in DOMAIN toClient /\ toClient'[k] = toClient[k + 1]
    BY <2>1, ClientTail
  <2>4. Together' /\ EmptyYet'
    BY <2>1, <2>2 DEF Feeding, Together, EmptyYet, Observed
  <2>5. Never' /\ NoneDenied'
    BY <2>1, <2>2, <2>3 DEF Feeding, Never, NoneDenied
  <2>6. QED
    BY <2>2, <2>4, <2>5 DEF Feeding
<1>7. CASE OnDisconnect
  <2>1. Feeding
    BY <1>1, <1>2, <1>7 DEF OnDisconnect, FedInv
  <2>2. ~connected' /\ toClient' = <<>> /\ UNCHANGED <<observers, cache, complete, server>>
    BY <1>7 DEF OnDisconnect
  <2>3. QED
    BY <2>1, <2>2 DEF Feeding, AllFed, Together, EmptyYet, Observed, Never, NoneDenied
<1>8. CASE RestoreState
  <2>1. Feeding /\ UNCHANGED <<observers, cache, complete, server, toClient>>
    BY <1>8 DEF RestoreState, FedInv
  <2>2. AllFed'
    BY <1>8, FedRestored
  <2>3. QED
    BY <2>1, <2>2 DEF Feeding, Together, EmptyYet, Observed, Never, NoneDenied
<1>9. CASE ServerListens
  <2>1. Feeding
    BY <1>1, <1>9, <1>0 DEF ServerListens, FedInv
  <2>2. QED
    BY <1>9, <2>1, FeedListens
<1>10. CASE ServerUnlistens
  <2>1. Feeding
    BY <1>10 DEF ServerUnlistens, FedInv
  <2>2. QED
    BY <1>10, <2>1, FeedUnlistens
<1>11. CASE \E c \in Child, v \in Version : ServerChange(c, v)
  <2>1. PICK c \in Child, v \in Version : ServerChange(c, v)
    BY <1>11
  <2>2. Feeding
    BY <1>1, <1>2, <2>1 DEF ServerChange, FedInv
  <2>3. QED
    BY <2>1, <2>2, FeedChange
<1>12. CASE UNCHANGED vars
  <2>1. UNCHANGED <<observers, cache, complete, connected, listens, toServer, toClient,
                    server, active, count>>
    BY <1>12 DEF vars
  <2>2. Feeding
    BY <2>1 DEF FedInv
  <2>3. AllFed'
    BY <2>1, <2>2, FedViews DEF Feeding
  <2>4. QED
    BY <2>1, <2>2, <2>3 DEF Feeding, Together, EmptyYet, Observed, Never, NoneDenied
<1>13. QED
  BY <1>3, <1>4, <1>5, <1>6, <1>7, <1>8, <1>9, <1>10, <1>11, <1>12 DEF Next, Client, Server

LEMMA FedInit == Init => FedInv /\ Coming
<1> SUFFICES ASSUME Init PROVE Feeding /\ Coming
  BY DEF FedInv
<1>1. /\ observers = [p \in Place |-> 0] /\ cache = [p \in Place |-> Nothing]
      /\ connected = FALSE /\ toClient = <<>>
  BY DEF Init
<1>2. Observed = {}
  BY <1>1 DEF Observed
<1>3. Together /\ EmptyYet
  BY <1>2 DEF Together, EmptyYet
<1>4. Never /\ NoneDenied
  BY <1>1 DEF Never, NoneDenied, Nothing
<1>5. AllFed /\ Coming
  BY <1>1 DEF AllFed, Coming
<1>6. QED
  BY <1>3, <1>4, <1>5 DEF Feeding

LEMMA FedAtRest ==
    ASSUME TypeOK, Feeding, Silent, NEW p \in listens
    PROVE  cache[p] = Part(p, server)
<1>1. connected /\ Len(toServer) = 0 /\ DOMAIN toServer = {} /\ DOMAIN toClient = {}
  BY DEF Silent
<1>2. p \in Place /\ cache[p] = Part(p, cache[p])
  BY DEF TypeOK
<1>3. ASSUME NEW c \in Child, c \in Under(p)
      PROVE  cache[p][c] = server[c]
  <2>1. p = c \/ p = Root
    BY <1>2, <1>3, UnderFacts
  <2>2. Fed(c)
    BY <1>1, <2>1 DEF Feeding, AllFed, Wanted
  <2>3. Fresh(c)
    BY <1>1, <2>2 DEF Fed, FedAt
  <2>4. CASE server[c] = None
    BY <1>2, <2>4 DEF Feeding, Never
  <2>5. CASE LastCarries(c)
    BY <1>1, <2>5 DEF LastCarries
  <2>6. CASE \A v : v = server[c] => Heard(c, v)
    BY <1>3, <2>6 DEF Heard
  <2>7. QED
    BY <2>3, <2>4, <2>5, <2>6 DEF Fresh
<1>4. Part(p, cache[p]) = Part(p, server)
  BY <1>3 DEF Part
<1>5. QED
  BY <1>2, <1>4

(* For any entries, observers added and removed, listens refused, changes  *)
(* and lost connections: when nothing is on its way, every view that is    *)
(* listened to is complete; and if no listen was refused it has what the   *)
(* server holds, although listens were handed over from the list to its    *)
(* entries and back, and answered without data when the hashes they        *)
(* carried matched (FSyncTree.m:589-696).                                  *)
THEOREM ListenedUpToDateAtRest == Spec => []ListenedCurrentAtRest
<1>1. TypeOK /\ FedInv /\ Coming => ListenedCurrentAtRest
  <2> SUFFICES ASSUME TypeOK, FedInv, Coming, Silent, NEW p \in listens
               PROVE  p \in complete /\ (count["deny"] = 0 => cache[p] = Part(p, server))
    BY DEF ListenedCurrentAtRest
  <2>1. DOMAIN toServer = {} /\ DOMAIN toClient = {} /\ connected
    BY DEF Silent
  <2>2. p \in complete
    BY <2>1 DEF Coming
  <2>3. count["deny"] = 0 => cache[p] = Part(p, server)
    BY FedAtRest DEF FedInv
  <2>4. QED
    BY <2>2, <2>3
<1>2. QED
  BY <1>1, TypeInvariance, ListensAlwaysCover, AgreeInit, IdleStep, FedInit, FedStep,
     ComingStep, PTL DEF Spec
=============================================================================
