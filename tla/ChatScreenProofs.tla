--------------------------- MODULE ChatScreenProofs ---------------------------
(***************************************************************************)
(* Theorems about ChatScreen, for any messages and any number of screens,  *)
(* listens and lost connections: one bubble for a message, own messages on *)
(* every screen, nothing taken back, and at rest every screen shows what   *)
(* the server stores.                                                      *)
(***************************************************************************)
EXTENDS ChatScreen, SequenceFacts

-----------------------------------------------------------------------------
(* Frames *)

ListenOps == {"listenLog", "listenOther"}

LEMMA UpFrames ==
    /\ \A h \in SUBSET Msg : /\ ListenLog(h) \in UpFrame /\ ListenLog(h).op = "listenLog"
                             /\ ListenLog(h).hash = h
    /\ \A n \in Nat : /\ ListenOther(n) \in UpFrame /\ ListenOther(n).op = "listenOther"
                      /\ ListenOther(n).no = n
    /\ \A m \in Mine : /\ PutMessage(m) \in UpFrame /\ PutMessage(m).op = "put"
                       /\ PutMessage(m).key = m
    /\ \A f \in UpFrame :
          \/ f.op = "listenLog" /\ f.hash \in SUBSET Msg /\ f = ListenLog(f.hash)
          \/ f.op = "listenOther" /\ f.no \in Nat /\ f = ListenOther(f.no)
          \/ f.op = "put" /\ f.key \in Mine /\ f = PutMessage(f.key)
BY DEF UpFrame, ListenLog, ListenOther, PutMessage

LEMMA DownFrames ==
    /\ \A s \in SUBSET Msg : /\ DataUpdate(s) \in DownFrame /\ DataUpdate(s).op = "data"
                             /\ DataUpdate(s).snap = s
    /\ \A m \in Msg : /\ ChildUpdate(m) \in DownFrame /\ ChildUpdate(m).op = "child"
                      /\ ChildUpdate(m).key = m
    /\ \A op \in ListenOps : /\ ListenOk(op) \in DownFrame /\ ListenOk(op).op = "listenOk"
                             /\ ListenOk(op).to = op
    /\ \A m \in Mine : /\ PutOk(m) \in DownFrame /\ PutOk(m).op = "putOk"
                       /\ PutOk(m).key = m
    /\ \A f \in DownFrame :
          \/ f.op = "data" /\ f.snap \in SUBSET Msg /\ f = DataUpdate(f.snap)
          \/ f.op = "child" /\ f.key \in Msg /\ f = ChildUpdate(f.key)
          \/ f.op = "listenOk" /\ f.to \in ListenOps
          \/ f.op = "putOk" /\ f.key \in Mine /\ f = PutOk(f.key)
BY DEF DownFrame, DataUpdate, ChildUpdate, ListenOk, PutOk, ListenOps

LEMMA CountedFrames ==
    /\ \A s \in Seq(UpFrame) : {i \in DOMAIN s : s[i].op # "put"} = Ops(s, ListenOps)
    /\ \A s \in Seq(DownFrame) :
          {i \in DOMAIN s : s[i].op = "listenOk"} = Ops(s, {"listenOk"})
<1>1. ASSUME NEW s \in Seq(UpFrame)
      PROVE  {i \in DOMAIN s : s[i].op # "put"} = Ops(s, ListenOps)
  <2>1. \A i \in DOMAIN s : s[i] \in UpFrame
    OBVIOUS
  <2>2. \A i \in DOMAIN s : s[i].op # "put" <=> s[i].op \in ListenOps
    BY <2>1, UpFrames DEF ListenOps
  <2> QED
    BY <2>2 DEF Ops
<1>2. \A s \in Seq(DownFrame) :
          {i \in DOMAIN s : s[i].op = "listenOk"} = Ops(s, {"listenOk"})
  BY DEF Ops
<1> QED
  BY <1>1, <1>2

-----------------------------------------------------------------------------
(* The invariant, with its counts written as counts of the queues *)

Typed ==
    /\ log \subseteq Msg /\ serverCache \subseteq Msg /\ eventCache \subseteq Msg
    /\ screens \in Seq(Seq(Msg)) /\ presented \in BOOLEAN
    /\ outstanding \in Seq(Mine) /\ toAck \in Seq(Mine)
    /\ writes = ToSet(outstanding) \cup ToSet(toAck)
    /\ FramesTyped

Counted ==
    unackedListens = CountOf(up, ListenOps) + Cardinality(waiting)
                       + CountOf(down, {"listenOk"})

Parts ==
    /\ Typed /\ Counted /\ EventsMerged /\ ServerLeads /\ ListensOnce
    /\ NewsInOrder /\ AcksSafe /\ PutsOnce

LEMMA InvIsParts == (ScreenInv <=> Parts) /\ (ScreenInv' <=> Parts')
<1>1. Typed => (TypeOK <=> Counted)
  BY CountedFrames DEF Typed, FramesTyped, TypeOK, Counted, CountOf
<1>2. Typed' => (TypeOK' <=> Counted')
  BY CountedFrames DEF Typed, FramesTyped, TypeOK, Counted, CountOf
<1>3. TypeOK /\ FramesTyped => Typed
  BY DEF TypeOK, Typed
<1>4. TypeOK' /\ FramesTyped' => Typed'
  BY DEF TypeOK, Typed
<1>5. (Typed => FramesTyped) /\ (Typed' => FramesTyped')
  BY DEF Typed
<1> QED
  BY <1>1, <1>2, <1>3, <1>4, <1>5 DEF ScreenInv, Parts

(* What the typed state gives the provers about the queues *)
LEMMA QueueTypes ==
    ASSUME Typed
    PROVE  /\ Mine \subseteq Msg /\ writes \subseteq Msg
           /\ \A f \in ToSet(up) \cup waiting : f \in UpFrame
           /\ \A f \in ToSet(down) : f \in DownFrame
           /\ \A i \in DOMAIN down : down[i] \in DownFrame /\ down[i] \in ToSet(down)
           /\ CountOf(up, ListenOps) \in Nat /\ CountOf(down, {"listenOk"}) \in Nat
           /\ Cardinality(waiting) \in Nat
<1>1. up \in Seq(UpFrame) /\ down \in Seq(DownFrame) /\ waiting \subseteq UpFrame
  BY DEF Typed, FramesTyped
<1>2. CountOf(up, ListenOps) \in Nat /\ CountOf(down, {"listenOk"}) \in Nat
  BY <1>1, CountFacts
<1>3. Cardinality(waiting) \in Nat
  BY FS_CardinalityType DEF Typed, FramesTyped
<1>4. \A f \in ToSet(up) \cup waiting : f \in UpFrame
  BY <1>1 DEF ToSet
<1>5. \A i \in DOMAIN down : down[i] \in DownFrame /\ down[i] \in ToSet(down)
  BY <1>1 DEF ToSet
<1>6. Mine \subseteq Msg
  BY DEF Msg
<1>7. writes \subseteq Mine
  BY DEF Typed, ToSet
<1> QED
  BY <1>2, <1>3, <1>4, <1>5, <1>6, <1>7 DEF ToSet

(* With nothing counted there is no listen without an answer, and no data  *)
(* under way, for a response always follows them.                          *)
LEMMA NothingCounted ==
    ASSUME Parts, unackedListens = 0
    PROVE  ~Pending /\ \A m : ~InSnap(down, m)
<1>1. /\ CountOf(up, ListenOps) = 0 /\ Cardinality(waiting) = 0
      /\ CountOf(down, {"listenOk"}) = 0
  BY QueueTypes DEF Parts, Counted
<1>2. \A i \in DOMAIN up : up[i].op \notin ListenOps
  BY <1>1, CountFacts DEF Parts, Typed, FramesTyped
<1>3. waiting = {}
  BY <1>1, FS_EmptySet DEF Parts, Typed, FramesTyped
<1>4. \A i \in DOMAIN down : down[i].op # "listenOk"
  BY <1>1, CountFacts DEF Parts, Typed, FramesTyped
<1>5. ~Pending
  BY <1>2, <1>3 DEF Pending, ToSet, ListenOps
<1>6. \A i \in DOMAIN down : down[i].op # "data"
  BY <1>4 DEF Parts, NewsInOrder
<1> QED
  BY <1>5, <1>6 DEF InSnap, ToSet

(* The same when the response at the head is the only one *)
LEMMA LastCounted ==
    ASSUME Parts, down # <<>>, Head(down).op = "listenOk", unackedListens = 1
    PROVE  ~Pending /\ \A m : ~InSnap(down, m)
<1> DEFINE rest == Tail(down)
<1>1. down \in Seq(DownFrame) /\ up \in Seq(UpFrame)
  BY DEF Parts, Typed, FramesTyped
<1>2. /\ rest \in Seq(DownFrame) /\ down[1] = Head(down) /\ 1 \in DOMAIN down
      /\ \A i \in DOMAIN down : i = 1 \/ i - 1 \in DOMAIN rest
      /\ \A i \in DOMAIN rest : rest[i] = down[i + 1]
      /\ \A i \in DOMAIN down : i \in Nat /\ i >= 1
  BY <1>1, TailFacts
<1>3. CountOf(down, {"listenOk"}) = CountOf(rest, {"listenOk"}) + 1
  BY <1>1, CountTail
<1>4. CountOf(rest, {"listenOk"}) \in Nat
  BY <1>2, CountFacts
<1> HIDE DEF rest
<1>5. /\ CountOf(up, ListenOps) = 0 /\ Cardinality(waiting) = 0
      /\ CountOf(rest, {"listenOk"}) = 0
  BY <1>3, <1>4, QueueTypes DEF Parts, Counted
<1>6. \A i \in DOMAIN up : up[i].op \notin ListenOps
  BY <1>5, <1>1, CountFacts
<1>7. waiting = {}
  BY <1>5, FS_EmptySet DEF Parts, Typed, FramesTyped
<1>8. \A i \in DOMAIN rest : rest[i].op # "listenOk"
  BY <1>5, <1>2, CountFacts
<1>9. ~Pending
  BY <1>6, <1>7 DEF Pending, ToSet, ListenOps
<1>10. \A k \in DOMAIN down : down[k].op = "listenOk" => k = 1
  <2> SUFFICES ASSUME NEW k \in DOMAIN down, k # 1 PROVE down[k].op # "listenOk"
    OBVIOUS
  <2>1. k - 1 \in DOMAIN rest /\ (k - 1) + 1 = k
    BY <1>2
  <2>2. rest[k - 1] = down[k]
    BY <2>1, <1>2
  <2> QED
    BY <2>1, <2>2, <1>8
<1>11. \A j \in DOMAIN down : down[j].op # "data"
  <2> SUFFICES ASSUME NEW j \in DOMAIN down, down[j].op = "data" PROVE FALSE
    OBVIOUS
  <2>1. PICK k \in DOMAIN down : j < k /\ down[k].op = "listenOk"
    BY DEF Parts, NewsInOrder
  <2> QED
    BY <2>1, <1>10, <1>2
<1> QED
  BY <1>9, <1>11 DEF InSnap, ToSet

-----------------------------------------------------------------------------
(* Events *)

LEMMA KeyOrder ==
    ASSUME NEW S \in SUBSET Msg, NEW s \in InKeyOrder(S)
    PROVE  s \in Seq(Msg) /\ IsInjective(s) /\ ToSet(s) = S
<1>1. Cardinality(S) \in Nat
  BY KeyAssumption, FS_Subset, FS_CardinalityType
<1>2. /\ s \in [1..Cardinality(S) -> S] /\ ToSet(s) = S
      /\ \A i, j \in DOMAIN s : i < j => s[i] < s[j]
  BY DEF InKeyOrder
<1>3. \A i \in DOMAIN s : i \in Nat /\ s[i] \in Nat
  <2>1. S \subseteq Nat
    BY KeyAssumption
  <2>2. DOMAIN s = 1..Cardinality(S) /\ \A i \in DOMAIN s : s[i] \in S
    BY <1>2
  <2>3. \A i \in 1..Cardinality(S) : i \in Nat
    BY <1>1
  <2> QED
    BY <2>1, <2>2, <2>3
<1>4. IsInjective(s)
  <2> SUFFICES ASSUME NEW i \in DOMAIN s, NEW j \in DOMAIN s, s[i] = s[j]
               PROVE  i = j
    BY DEF IsInjective
  <2>1. i \in Nat /\ j \in Nat /\ s[i] \in Nat /\ s[j] \in Nat
    BY <1>3
  <2>2. ~(i < j) /\ ~(j < i)
    BY <2>1, <1>2
  <2> QED
    BY <2>1, <2>2
<1>5. s \in Seq(S)
  BY <1>1, <1>2
<1>6. s \in Seq(Msg)
  BY <1>5, SeqMonotonic
<1> QED
  BY <1>2, <1>4, <1>6

(* Events that only add keep every screen a record of the event cache. *)
LEMMA Raised ==
    ASSUME Typed, EventsMerged, NEW new \in SUBSET Msg, eventCache \subseteq new,
           RaiseEvents(new)
    PROVE  /\ eventCache' = new
           /\ screens' \in Seq(Seq(Msg)) /\ Len(screens') = Len(screens)
           /\ \A s \in DOMAIN screens' :
                 IsInjective(screens'[s]) /\ ToSet(screens'[s]) = eventCache'
<1>1. PICK added \in InKeyOrder(new \ eventCache) :
          screens' = [s \in DOMAIN screens |-> screens[s] \o added]
  BY DEF RaiseEvents
<1>2. eventCache' = new
  BY DEF RaiseEvents
<1>3. added \in Seq(Msg) /\ IsInjective(added) /\ ToSet(added) = new \ eventCache
  BY <1>1, KeyOrder
<1>4. /\ screens \in Seq(Seq(Msg)) /\ DOMAIN screens = 1..Len(screens)
      /\ Len(screens) \in Nat /\ \A s \in DOMAIN screens : screens[s] \in Seq(Msg)
  BY DEF Typed
<1>5. ASSUME NEW s \in DOMAIN screens
      PROVE  /\ screens[s] \o added \in Seq(Msg) /\ IsInjective(screens[s] \o added)
             /\ ToSet(screens[s] \o added) = new
  <2>1. IsInjective(screens[s]) /\ ToSet(screens[s]) = eventCache
    BY DEF EventsMerged
  <2>2. screens[s] \in Seq(Msg) /\ added \in Seq(Msg)
    BY <1>3, <1>4
  <2>3. ToSet(screens[s]) \cap ToSet(added) = {}
    BY <2>1, <1>3
  <2>4. /\ screens[s] \o added \in Seq(Msg) /\ IsInjective(screens[s] \o added)
        /\ ToSet(screens[s] \o added) = ToSet(screens[s]) \cup ToSet(added)
    BY <2>1, <2>2, <2>3, <1>3, ConcatFacts
  <2> QED
    BY <2>1, <2>4, <1>3
<1>6. screens' \in [1..Len(screens) -> Seq(Msg)]
  BY <1>1, <1>4, <1>5
<1>7. screens' \in Seq(Seq(Msg)) /\ Len(screens') = Len(screens)
  BY <1>4, <1>6, FunctionSeq
<1> QED
  BY <1>1, <1>2, <1>5, <1>7

(* Forgetting writes the server cache knows changes nothing on screen. *)
LEMMA Acked ==
    ASSUME Typed, EventsMerged, NEW acked, acked \subseteq serverCache, NEW c,
           AckWrites(acked, eventCache, c), serverCache' = serverCache
    PROVE  /\ eventCache' = eventCache /\ writes' = writes \ acked
           /\ screens' \in Seq(Seq(Msg)) /\ Len(screens') = Len(screens)
           /\ EventsMerged'
<1>1. AfterAck(serverCache, acked, eventCache, c) = eventCache
  BY DEF AfterAck
<1>2. writes' = writes \ acked /\ RaiseEvents(eventCache)
  BY <1>1 DEF AckWrites
<1>3. eventCache \in SUBSET Msg
  BY DEF Typed
<1>4. /\ eventCache' = eventCache
      /\ screens' \in Seq(Seq(Msg)) /\ Len(screens') = Len(screens)
      /\ \A s \in DOMAIN screens' :
            IsInjective(screens'[s]) /\ ToSet(screens'[s]) = eventCache'
  BY <1>2, <1>3, Raised
<1>5. eventCache' = serverCache' \cup writes'
  BY <1>2, <1>4 DEF EventsMerged
<1> QED
  BY <1>2, <1>4, <1>5 DEF EventsMerged

-----------------------------------------------------------------------------
(* Parts of the invariant that a step leaves alone *)

LEMMA KeptParts ==
    ASSUME Parts, Pending => Pending',
           UNCHANGED <<log, subscribed, down, serverCache, toAck, connected>>
    PROVE  ServerLeads' /\ NewsInOrder' /\ AcksSafe'
<1>1. ServerLeads /\ NewsInOrder /\ AcksSafe
  BY DEF Parts
<1>2. ServerLeads'
  BY <1>1 DEF ServerLeads
<1>3. NewsInOrder'
  BY <1>1 DEF NewsInOrder, InSnap
<1>4. AcksSafe'
  BY <1>1 DEF AcksSafe, InSnap
<1> QED
  BY <1>2, <1>3, <1>4

LEMMA PutsKept ==
    ASSUME Parts, UNCHANGED <<down, toAck, connected, outstanding>>,
           \A f \in UpFrame : f.op = "put" => (f \in ToSet(up') <=> f \in ToSet(up)),
           \A f \in ToSet(up') : f \in UpFrame
    PROVE  PutsOnce'
<1>1. PutsOnce
  BY DEF Parts
<1>2. \A m \in ToSet(outstanding) : m \in Mine
  BY DEF Parts, Typed, ToSet
<1>3. \A m \in ToSet(outstanding) : PutMessage(m) \in UpFrame /\ PutMessage(m).op = "put"
  BY <1>2, UpFrames
<1> QED
  BY <1>1, <1>3 DEF PutsOnce

(* Another listen is sent, or there is no connection to send it on. *)
LEMMA ListenSent ==
    ASSUME Parts, NEW f \in UpFrame, f.op \in ListenOps, up' = Append(up, f),
           unackedListens' = unackedListens + 1, UNCHANGED <<waiting, down>>
    PROVE  /\ Counted' /\ up' \in Seq(UpFrame) /\ ToSet(up') = ToSet(up) \cup {f}
           /\ unackedListens' \in Nat /\ up' # <<>>
           /\ f \notin ToSet(up) => IsInjective(up')
<1>1. up \in Seq(UpFrame) /\ unackedListens \in Nat /\ IsInjective(up)
  BY DEF Parts, Typed, FramesTyped, ListensOnce
<1>2. /\ up' \in Seq(UpFrame) /\ ToSet(up') = ToSet(up) \cup {f}
      /\ f \notin ToSet(up) => IsInjective(up')
  BY <1>1, AppendFacts
<1>3. CountOf(up', ListenOps) = CountOf(up, ListenOps) + 1
  BY <1>1, CountAppend
<1>4. Counted
  BY DEF Parts
<1>5. /\ CountOf(up, ListenOps) \in Nat /\ CountOf(down, {"listenOk"}) \in Nat
      /\ Cardinality(waiting) \in Nat
  BY QueueTypes DEF Parts
<1>6. Counted'
  BY <1>1, <1>3, <1>4, <1>5 DEF Counted
<1>7. up' # <<>>
  BY <1>1
<1> QED
  BY <1>1, <1>2, <1>6, <1>7

-----------------------------------------------------------------------------
(* The application *)

LEMMA InitInv == Init => ScreenInv
<1> SUFFICES ASSUME Init PROVE Parts
  BY InvIsParts
<1>1. Typed
  <2>1. FramesTyped
    <3>1. /\ up \in Seq(UpFrame) /\ down \in Seq(DownFrame)
          /\ waiting \subseteq UpFrame /\ \A f \in waiting : f.op # "put"
          /\ unackedListens \in Nat /\ otherListens \in Nat
          /\ outstanding = <<>> /\ toAck = <<>>
          /\ up = <<>> /\ down = <<>> /\ waiting = {}
      BY DEF Init
    <3>2. {connected, subscribed, complete} \subseteq BOOLEAN /\ ~subscribed /\ ~presented
      BY DEF Init
    <3> QED
      BY <3>1, <3>2, FS_EmptySet DEF FramesTyped
  <2>2. /\ log \subseteq Msg /\ serverCache \subseteq Msg /\ eventCache \subseteq Msg
        /\ outstanding \in Seq(Mine) /\ toAck \in Seq(Mine)
    BY DEF Init
  <2>4. screens \in Seq(Seq(Msg))
    BY DEF Init
  <2>5. presented \in BOOLEAN
    BY DEF Init
  <2>3. writes = ToSet(outstanding) \cup ToSet(toAck)
    BY DEF Init, ToSet
  <2> QED
    BY <2>1, <2>2, <2>3, <2>4, <2>5 DEF Typed
<1>2. Counted
  <2>1. \A O : Ops(<<>>, O) = {}
    BY DEF Ops
  <2>2. \A O : CountOf(<<>>, O) = 0
    BY <2>1, FS_EmptySet DEF CountOf
  <2> QED
    BY <2>2, FS_EmptySet DEF Init, Counted
<1>3. EventsMerged /\ ServerLeads
  BY DEF Init, EventsMerged, ServerLeads, ToSet
<1>4. ListensOnce
  BY DEF Init, ListensOnce, Listening, Pending, ToSet, IsInjective
<1>5. NewsInOrder /\ AcksSafe /\ PutsOnce
  BY DEF Init, NewsInOrder, AcksSafe, PutsOnce, ToSet, IsInjective
<1> QED
  BY <1>1, <1>2, <1>3, <1>4, <1>5 DEF Parts

LEMMA OpenStep ==
    ASSUME Parts, OpenScreen
    PROVE  Parts'
<1>1. PICK held \in InKeyOrder(eventCache) : screens' = Append(screens, held)
  BY DEF OpenScreen
<1>2. /\ UNCHANGED <<log, waiting, subscribed, down, connected, outstanding, toAck,
                     otherListens, writes, serverCache, complete, eventCache>>
      /\ presented' = TRUE
  BY DEF OpenScreen, serverVars
<1>3. Typed /\ FramesTyped /\ EventsMerged /\ ListensOnce /\ Counted
  BY DEF Parts, Typed
<1>4. held \in Seq(Msg) /\ IsInjective(held) /\ ToSet(held) = eventCache
  BY <1>1, <1>3, KeyOrder DEF Typed
<1>5. /\ screens' \in Seq(Seq(Msg)) /\ DOMAIN screens' = DOMAIN screens \cup {Len(screens) + 1}
      /\ screens'[Len(screens) + 1] = held
      /\ \A i \in DOMAIN screens : screens'[i] = screens[i]
  BY <1>1, <1>3, <1>4, AppendFacts DEF Typed
<1>6. Listening'
  BY <1>1, <1>3, <1>4 DEF Listening, Typed
<1>7. EventsMerged'
  BY <1>2, <1>3, <1>4, <1>5 DEF EventsMerged
<1>8. CASE ~Listening /\ connected
  <2> DEFINE f == ListenLog(serverCache)
  <2>1. f \in UpFrame /\ f.op = "listenLog" /\ f.hash = serverCache /\ f.op \in ListenOps
    BY <1>3, UpFrames DEF Typed, ListenOps
  <2>2. up' = Append(up, f) /\ unackedListens' = unackedListens + 1
    BY <1>8 DEF OpenScreen
  <2> HIDE DEF f
  <2>3. ~Pending /\ ~subscribed
    BY <1>3, <1>8 DEF ListensOnce
  <2>4. f \notin ToSet(up) /\ f \notin waiting
    BY <2>1, <2>3 DEF Pending
  <2>5. /\ Counted' /\ up' \in Seq(UpFrame) /\ ToSet(up') = ToSet(up) \cup {f}
        /\ unackedListens' \in Nat /\ IsInjective(up')
    BY <1>2, <2>1, <2>2, <2>4, ListenSent
  <2>6. Pending'
    BY <2>1, <2>5 DEF Pending
  <2>7. Typed'
    BY <1>2, <1>3, <1>5, <1>6, <1>8, <2>5 DEF Typed, FramesTyped
  <2>8. ListensOnce'
    BY <1>2, <1>3, <1>6, <2>1, <2>3, <2>4, <2>5, <2>6 DEF ListensOnce
  <2>9. ServerLeads' /\ NewsInOrder' /\ AcksSafe'
    BY <1>2, <2>6, KeptParts
  <2>10. PutsOnce'
    <3>1. \A g \in ToSet(up') : g \in UpFrame
      BY <1>3, <2>1, <2>5, QueueTypes
    <3> QED
      BY <1>2, <2>1, <2>5, <3>1, PutsKept
  <2> QED
    BY <1>7, <2>5, <2>7, <2>8, <2>9, <2>10 DEF Parts
<1>9. CASE Listening \/ ~connected
  <2>1. UNCHANGED <<up, unackedListens>>
    BY <1>9 DEF OpenScreen
  <2>2. Pending' <=> Pending
    BY <1>2, <2>1 DEF Pending
  <2>3. Typed'
    BY <1>2, <1>3, <1>5, <1>6, <2>1 DEF Typed, FramesTyped
  <2>4. Counted'
    BY <1>2, <1>3, <2>1 DEF Counted
  <2>5. ListensOnce'
    BY <1>2, <1>3, <1>6, <1>9, <2>1, <2>2 DEF ListensOnce
  <2>6. ServerLeads' /\ NewsInOrder' /\ AcksSafe'
    BY <1>2, <2>2, KeptParts
  <2>7. PutsOnce'
    BY <1>2, <2>1, <1>3, QueueTypes, PutsKept
  <2> QED
    BY <1>7, <2>3, <2>4, <2>5, <2>6, <2>7 DEF Parts
<1> QED
  BY <1>8, <1>9

LEMMA CloseStep ==
    ASSUME Parts, CloseScreen \/ UNCHANGED vars
    PROVE  Parts'
<1>1. /\ UNCHANGED <<log, waiting, subscribed, up, down, connected, outstanding, toAck,
                     unackedListens, otherListens, writes, serverCache, complete,
                     eventCache, screens>>
      /\ presented' \in BOOLEAN
      /\ presented' => presented
  <2>1. UNCHANGED <<serverVars, connVars, viewVars>>
    BY DEF CloseScreen, vars
  <2>2. presented' = presented \/ presented' = FALSE
    BY DEF CloseScreen, vars
  <2>3. presented \in BOOLEAN
    BY DEF Parts, Typed
  <2>4. presented' \in BOOLEAN
    BY <2>2, <2>3
  <2>5. presented' => presented
    BY <2>2
  <2> QED
    BY <2>1, <2>4, <2>5 DEF serverVars, connVars, viewVars
<1>2. Typed /\ FramesTyped
  BY DEF Parts, Typed
<1>3. FramesTyped'
  <2>1. Listening' <=> Listening
    BY <1>1 DEF Listening
  <2>2. presented' => Listening'
    BY <1>1, <1>2, <2>1 DEF FramesTyped
  <2>3. {connected', subscribed', complete'} \subseteq BOOLEAN
    BY <1>1, <1>2 DEF FramesTyped
  <2> QED
    BY <1>1, <1>2, <2>1, <2>2, <2>3 DEF FramesTyped
<1>4. Typed'
  BY <1>1, <1>2, <1>3 DEF Typed
<1>5. Counted' /\ EventsMerged'
  BY <1>1 DEF Parts, Counted, EventsMerged
<1>6. Pending' <=> Pending
  BY <1>1 DEF Pending
<1>7. ListensOnce'
  BY <1>1, <1>6 DEF Parts, ListensOnce, Listening
<1>8. ServerLeads' /\ NewsInOrder' /\ AcksSafe'
  BY <1>1, <1>6, KeptParts
<1>9. PutsOnce'
  BY <1>1 DEF Parts, PutsOnce
<1> QED
  BY <1>4, <1>5, <1>7, <1>8, <1>9 DEF Parts

LEMMA SendStep ==
    ASSUME Parts, NEW m \in Mine, SendButtonTapped(m)
    PROVE  Parts'
<1>1. /\ UNCHANGED <<log, waiting, subscribed, down, connected, toAck, unackedListens,
                     otherListens, serverCache, complete, presented>>
      /\ presented /\ m \notin log /\ m \notin writes
      /\ writes' = writes \cup {m} /\ RaiseEvents(eventCache \cup {m})
      /\ outstanding' = Append(outstanding, m)
      /\ up' = IF connected THEN Append(up, PutMessage(m)) ELSE up
  BY DEF SendButtonTapped, serverVars
<1>2. Typed /\ FramesTyped /\ EventsMerged /\ ListensOnce /\ Counted /\ PutsOnce
  BY DEF Parts, Typed
<1>3. m \in Msg
  BY DEF Msg
<1>4. /\ eventCache' = eventCache \cup {m}
      /\ screens' \in Seq(Seq(Msg)) /\ Len(screens') = Len(screens)
      /\ \A s \in DOMAIN screens' :
            IsInjective(screens'[s]) /\ ToSet(screens'[s]) = eventCache'
  <2>1. eventCache \cup {m} \in SUBSET Msg
    BY <1>2, <1>3 DEF Typed
  <2> QED
    BY <2>1, <1>1, <1>2, Raised
<1>5. EventsMerged'
  <2>1. eventCache' = serverCache' \cup writes'
    BY <1>1, <1>2, <1>4 DEF EventsMerged
  <2> QED
    BY <2>1, <1>4 DEF EventsMerged
<1>6. m \notin ToSet(outstanding) /\ m \notin ToSet(toAck)
  BY <1>1, <1>2 DEF Typed
<1>7. /\ outstanding' \in Seq(Mine) /\ IsInjective(outstanding')
      /\ ToSet(outstanding') = ToSet(outstanding) \cup {m}
  BY <1>1, <1>2, <1>6, AppendFacts DEF Typed, PutsOnce
<1>8. PutMessage(m) \in UpFrame /\ PutMessage(m).op = "put" /\ PutMessage(m).key = m
  BY UpFrames
<1>9. PutMessage(m) \notin ToSet(up) /\ PutMessage(m) \notin waiting
  BY <1>2, <1>6, <1>8 DEF PutsOnce, FramesTyped
<1>10. /\ up' \in Seq(UpFrame) /\ IsInjective(up')
       /\ ToSet(up') = ToSet(up) \cup (IF connected THEN {PutMessage(m)} ELSE {})
       /\ CountOf(up', ListenOps) = CountOf(up, ListenOps)
  <2>1. up \in Seq(UpFrame) /\ IsInjective(up)
    BY <1>2 DEF FramesTyped, ListensOnce
  <2>2. CASE connected
    <3>1. up' = Append(up, PutMessage(m))
      BY <2>2, <1>1
    <3>2. PutMessage(m).op \notin ListenOps
      BY <1>8 DEF ListenOps
    <3>3. CountOf(up', ListenOps) = CountOf(up, ListenOps) + 0
      BY <3>1, <3>2, <2>1, <1>8, CountAppend
    <3>4. CountOf(up, ListenOps) \in Nat
      BY <1>2, QueueTypes
    <3>5. /\ up' \in Seq(UpFrame) /\ IsInjective(up')
          /\ ToSet(up') = ToSet(up) \cup {PutMessage(m)}
      BY <3>1, <2>1, <1>8, <1>9, AppendFacts
    <3> QED
      BY <3>3, <3>4, <3>5, <2>2
  <2>3. CASE ~connected
    BY <2>1, <2>3, <1>1
  <2> QED
    BY <2>2, <2>3
<1>11. Listening /\ Listening'
  BY <1>1, <1>2, <1>4 DEF FramesTyped, Listening
<1>12. Typed'
  <2>1. FramesTyped'
    BY <1>1, <1>2, <1>10, <1>11 DEF FramesTyped
  <2>2. writes' = ToSet(outstanding') \cup ToSet(toAck')
    BY <1>1, <1>2, <1>7 DEF Typed
  <2>3. eventCache' \subseteq Msg
    BY <1>2, <1>3, <1>4 DEF Typed
  <2> QED
    BY <1>1, <1>2, <1>4, <1>7, <2>1, <2>2, <2>3 DEF Typed
<1>13. Counted'
  BY <1>1, <1>2, <1>10 DEF Counted
<1>14. \A f \in ToSet(up') : f \in ToSet(up) \/ (f = PutMessage(m) /\ connected)
  BY <1>10
<1>15. Pending' <=> Pending
  BY <1>1, <1>8, <1>10, <1>14 DEF Pending
<1>16. ListensOnce'
  BY <1>1, <1>2, <1>8, <1>9, <1>10, <1>11, <1>14, <1>15 DEF ListensOnce
<1>17. ServerLeads' /\ NewsInOrder' /\ AcksSafe'
  BY <1>1, <1>15, KeptParts
<1>18. PutsOnce'
  <2>1. PutOk(m) \notin ToSet(down)
    BY <1>2, <1>6, DownFrames DEF PutsOnce
  <2>2. \A f \in ToSet(up') : f.op = "put" =>
           f.key \in ToSet(outstanding') /\ PutOk(f.key) \notin ToSet(down')
    BY <2>1, <1>1, <1>2, <1>7, <1>8, <1>14 DEF PutsOnce
  <2>3. \A f \in ToSet(down') : f.op = "putOk" => f.key \in ToSet(outstanding')
    BY <1>1, <1>2, <1>7 DEF PutsOnce
  <2>4. connected' => \A n \in ToSet(outstanding') :
           PutMessage(n) \in ToSet(up') \/ PutOk(n) \in ToSet(down')
    BY <1>1, <1>2, <1>7, <1>10 DEF PutsOnce
  <2> QED
    BY <1>1, <1>2, <1>6, <1>7, <2>2, <2>3, <2>4 DEF PutsOnce
<1> QED
  BY <1>5, <1>12, <1>13, <1>16, <1>17, <1>18 DEF Parts

LEMMA ElsewhereStep ==
    ASSUME Parts, ListenElsewhere
    PROVE  Parts'
<1>1. /\ UNCHANGED <<log, waiting, subscribed, down, connected, outstanding, toAck, writes,
                     serverCache, complete, eventCache, screens, presented>>
      /\ otherListens' = otherListens + 1
  BY DEF ListenElsewhere, serverVars, viewVars
<1>2. Typed /\ FramesTyped /\ EventsMerged /\ ListensOnce /\ Counted
  BY DEF Parts, Typed
<1>3. otherListens \in Nat /\ otherListens' \in Nat
  BY <1>1, <1>2 DEF FramesTyped
<1>4. EventsMerged' /\ (Listening' <=> Listening)
  BY <1>1, <1>2 DEF EventsMerged, Listening
<1>5. \A n \in 1..otherListens : n \in 1..otherListens' /\ n # otherListens'
  BY <1>1, <1>3
<1>6. otherListens' \in 1..otherListens'
  BY <1>1, <1>3
<1>7. CASE connected
  <2> DEFINE f == ListenOther(otherListens')
  <2>1. /\ f \in UpFrame /\ f.op = "listenOther" /\ f.no = otherListens'
        /\ f.op \in ListenOps
    BY <1>3, UpFrames DEF ListenOps
  <2>2. up' = Append(up, f) /\ unackedListens' = unackedListens + 1
    BY <1>7 DEF ListenElsewhere
  <2> HIDE DEF f
  <2>3. f \notin ToSet(up) /\ f \notin waiting
    BY <1>2, <1>5, <2>1 DEF ListensOnce
  <2>4. /\ Counted' /\ up' \in Seq(UpFrame) /\ ToSet(up') = ToSet(up) \cup {f}
        /\ unackedListens' \in Nat /\ IsInjective(up')
    BY <1>1, <2>1, <2>2, <2>3, ListenSent
  <2>5. Pending' <=> Pending
    BY <1>1, <2>1, <2>4 DEF Pending
  <2>6. FramesTyped'
    BY <1>1, <1>2, <1>3, <1>4, <1>7, <2>4 DEF FramesTyped
  <2>7. Typed'
    BY <1>1, <1>2, <2>6 DEF Typed
  <2>8. ListensOnce'
    BY <1>1, <1>2, <1>4, <1>5, <1>6, <2>1, <2>3, <2>4, <2>5 DEF ListensOnce
  <2>9. ServerLeads' /\ NewsInOrder' /\ AcksSafe'
    BY <1>1, <2>5, KeptParts
  <2>10. PutsOnce'
    <3>1. \A g \in ToSet(up') : g \in UpFrame
      BY <1>2, <2>1, <2>4, QueueTypes
    <3> QED
      BY <1>1, <2>1, <2>4, <3>1, PutsKept
  <2> QED
    BY <1>4, <2>4, <2>7, <2>8, <2>9, <2>10 DEF Parts
<1>8. CASE ~connected
  <2>1. UNCHANGED <<up, unackedListens>>
    BY <1>8 DEF ListenElsewhere
  <2>2. Pending' <=> Pending
    BY <1>1, <2>1 DEF Pending
  <2>3. FramesTyped'
    BY <1>1, <1>2, <1>3, <1>4, <2>1 DEF FramesTyped
  <2>4. Typed'
    BY <1>1, <1>2, <2>3 DEF Typed
  <2>5. Counted'
    BY <1>1, <1>2, <2>1 DEF Counted
  <2>6. ListensOnce'
    BY <1>1, <1>2, <1>4, <1>5, <2>1, <2>2 DEF ListensOnce
  <2>7. ServerLeads' /\ NewsInOrder' /\ AcksSafe'
    BY <1>1, <2>2, KeptParts
  <2>8. PutsOnce'
    BY <1>1, <2>1, <1>2, QueueTypes, PutsKept
  <2> QED
    BY <1>4, <2>4, <2>5, <2>6, <2>7, <2>8 DEF Parts
<1> QED
  BY <1>7, <1>8

-----------------------------------------------------------------------------
(* The server and the friend's device *)

LEMMA NewsFacts ==
    ASSUME Parts, NEW m \in Msg, NEW d, d = down \o News(m)
    PROVE  /\ d \in Seq(DownFrame) /\ CountOf(d, {"listenOk"}) = CountOf(down, {"listenOk"})
           /\ ToSet(down) \subseteq ToSet(d)
           /\ \A f \in ToSet(d) : f \in ToSet(down) \/ f = ChildUpdate(m)
           /\ \A i \in DOMAIN down : i \in DOMAIN d /\ d[i] = down[i] /\ i \in Nat
           /\ \A i \in DOMAIN d :
                 \/ i \in DOMAIN down
                 \/ /\ d[i] = ChildUpdate(m) /\ subscribed /\ i \in Nat
                    /\ \A j \in DOMAIN down : j < i
           /\ subscribed /\ m \notin log => ChildUpdate(m) \in ToSet(d)
<1>1. down \in Seq(DownFrame)
  BY DEF Parts, Typed, FramesTyped
<1>2. \A i \in DOMAIN down : i \in Nat
  BY <1>1
<1>3. CASE subscribed /\ m \notin log
  <2> DEFINE f == ChildUpdate(m)
  <2>1. f \in DownFrame /\ f.op = "child"
    BY DownFrames
  <2>2. down \o <<f>> = Append(down, f)
    BY <1>1, <2>1, AppendIsConcat
  <2>3. d = Append(down, f)
    BY <1>3, <2>2 DEF News
  <2> HIDE DEF f
  <2>4. /\ d \in Seq(DownFrame) /\ DOMAIN d = DOMAIN down \cup {Len(down) + 1}
        /\ d[Len(down) + 1] = f /\ ToSet(d) = ToSet(down) \cup {f}
        /\ \A i \in DOMAIN down : d[i] = down[i] /\ i < Len(down) + 1
    BY <1>1, <2>1, <2>3, AppendFacts
  <2>5. CountOf(d, {"listenOk"}) = CountOf(down, {"listenOk"}) + 0
    BY <1>1, <2>1, <2>3, CountAppend
  <2>6. CountOf(down, {"listenOk"}) \in Nat /\ Len(down) + 1 \in Nat
    BY <1>1, CountFacts
  <2> QED
    BY <1>2, <1>3, <2>4, <2>5, <2>6 DEF f
<1>4. CASE ~(subscribed /\ m \notin log)
  <2>1. News(m) = <<>>
    BY <1>4 DEF News
  <2>2. d = down
    BY <2>1, <1>1, ConcatEmptySeq
  <2> QED
    BY <1>1, <1>2, <1>4, <2>2
<1> QED
  BY <1>3, <1>4

LEMMA FriendStep ==
    ASSUME Parts, NEW m \in Theirs, FriendSends(m)
    PROVE  Parts'
<1>1. /\ UNCHANGED <<waiting, subscribed, up, connected, outstanding, toAck,
                     unackedListens, otherListens, writes, serverCache, complete,
                     eventCache, screens, presented>>
      /\ m \notin log /\ log' = log \cup {m} /\ down' = down \o News(m)
  BY DEF FriendSends, viewVars
<1>2. /\ Typed /\ FramesTyped /\ EventsMerged /\ ServerLeads /\ ListensOnce /\ Counted
      /\ NewsInOrder /\ AcksSafe /\ PutsOnce
  BY DEF Parts, Typed
<1>3. m \in Msg
  BY DEF Msg
<1> DEFINE f == ChildUpdate(m)
<1>4. f.op = "child" /\ f.key = m
  BY <1>3, DownFrames
<1>5. /\ down' \in Seq(DownFrame) /\ CountOf(down', {"listenOk"}) = CountOf(down, {"listenOk"})
      /\ ToSet(down) \subseteq ToSet(down')
      /\ \A g \in ToSet(down') : g \in ToSet(down) \/ g = f
      /\ \A i \in DOMAIN down : i \in DOMAIN down' /\ down'[i] = down[i] /\ i \in Nat
      /\ \A i \in DOMAIN down' :
            \/ i \in DOMAIN down
            \/ /\ down'[i] = f /\ subscribed /\ i \in Nat
               /\ \A j \in DOMAIN down : j < i
      /\ subscribed => f \in ToSet(down')
  BY <1>1, <1>3, NewsFacts
<1> HIDE DEF f
<1>6. Listening' <=> Listening
  BY <1>1 DEF Listening
<1>7. Pending' <=> Pending
  BY <1>1 DEF Pending
<1>8. ~connected => down' = <<>>
  <2>1. ASSUME ~connected PROVE down' = <<>>
    <3>1. down = <<>> /\ ~subscribed
      BY <1>2, <2>1 DEF FramesTyped
    <3>2. DOMAIN down = {}
      BY <3>1
    <3>3. DOMAIN down' = {}
      BY <3>1, <3>2, <1>5
    <3> QED
      BY <3>3, <1>5
  <2> QED
    BY <2>1
<1>9. Typed'
  <2>1. FramesTyped'
    BY <1>1, <1>2, <1>5, <1>6, <1>8 DEF FramesTyped
  <2> QED
    BY <1>1, <1>2, <1>3, <2>1 DEF Typed
<1>10. Counted' /\ EventsMerged'
  BY <1>1, <1>2, <1>5 DEF Counted, EventsMerged
<1>11. ServerLeads'
  BY <1>1, <1>2, <1>4, <1>5 DEF ServerLeads
<1>12. ListensOnce'
  BY <1>1, <1>2, <1>6, <1>7 DEF ListensOnce
<1>13. \A n : InSnap(down, n) => InSnap(down', n)
  BY <1>5 DEF InSnap
<1>14. NewsInOrder'
  <2>1. ~subscribed' => \A g \in ToSet(down') : g.op \notin {"data", "child"}
    <3>1. ASSUME ~subscribed PROVE ToSet(down') \subseteq ToSet(down)
      BY <1>5, <3>1 DEF ToSet
    <3> QED
      BY <3>1, <1>1, <1>2 DEF NewsInOrder
  <2>2. ASSUME NEW j \in DOMAIN down', down'[j].op = "data"
        PROVE  /\ serverCache' \subseteq down'[j].snap
               /\ \A i \in DOMAIN down' : i < j => down'[i].op \notin {"data", "child"}
               /\ \E k \in DOMAIN down' : j < k /\ down'[k].op = "listenOk"
    <3>1. j \in DOMAIN down /\ down'[j] = down[j] /\ j \in Nat
      BY <1>4, <1>5, <2>2
    <3>2. \A i \in DOMAIN down' : i < j => i \in DOMAIN down /\ down'[i] = down[i]
      BY <1>5, <3>1
    <3>3. /\ serverCache \subseteq down[j].snap
          /\ \A i \in DOMAIN down : i < j => down[i].op \notin {"data", "child"}
      BY <1>2, <2>2, <3>1 DEF NewsInOrder
    <3>4. PICK k \in DOMAIN down : j < k /\ down[k].op = "listenOk"
      BY <1>2, <2>2, <3>1 DEF NewsInOrder
    <3>5. k \in DOMAIN down' /\ down'[k].op = "listenOk"
      BY <1>5, <3>4
    <3> QED
      BY <1>1, <3>1, <3>2, <3>3, <3>4, <3>5
  <2>3. subscribed' => \A n \in log' :
           n \in serverCache' \/ ChildUpdate(n) \in ToSet(down') \/ InSnap(down', n)
    BY <1>1, <1>2, <1>5, <1>13 DEF NewsInOrder, f
  <2> QED
    BY <2>1, <2>2, <2>3 DEF NewsInOrder
<1>15. AcksSafe'
  <2>1. ASSUME NEW k \in DOMAIN down', down'[k].op = "putOk"
        PROVE  \/ down'[k].key \in serverCache'
               \/ \E j \in DOMAIN down' : j < k /\ down'[j] = ChildUpdate(down'[k].key)
               \/ InSnap(down', down'[k].key)
               \/ Pending'
    <3>1. k \in DOMAIN down /\ down'[k] = down[k]
      BY <1>4, <1>5, <2>1
    <3>2. \/ down[k].key \in serverCache
          \/ \E j \in DOMAIN down : j < k /\ down[j] = ChildUpdate(down[k].key)
          \/ InSnap(down, down[k].key)
          \/ Pending
      BY <1>2, <2>1, <3>1 DEF AcksSafe
    <3> QED
      BY <1>1, <1>5, <1>7, <1>13, <3>1, <3>2
  <2>2. connected' => \A n \in ToSet(toAck') : n \in serverCache' \/ InSnap(down', n) \/ Pending'
    BY <1>1, <1>2, <1>7, <1>13 DEF AcksSafe
  <2> QED
    BY <2>1, <2>2 DEF AcksSafe
<1>16. PutsOnce'
  <2>1. \A g \in ToSet(down') : g.op = "putOk" => g \in ToSet(down)
    BY <1>4, <1>5
  <2>2. \A k \in DOMAIN down' : down'[k].op = "putOk" =>
           k \in DOMAIN down /\ down'[k] = down[k]
    BY <1>4, <1>5
  <2>3. \A n \in Mine : PutOk(n) \in ToSet(down') => PutOk(n) \in ToSet(down)
    BY <2>1, DownFrames
  <2>4. \A g \in ToSet(up) : g.op = "put" => g.key \in Mine
    BY <1>2, QueueTypes, UpFrames
  <2> QED
    BY <1>1, <1>2, <1>5, <2>1, <2>2, <2>3, <2>4 DEF PutsOnce
<1> QED
  BY <1>9, <1>10, <1>11, <1>12, <1>14, <1>15, <1>16 DEF Parts

(* d is s and one frame more *)
Grown(d, s, f) ==
    /\ d \in Seq(DownFrame)
    /\ DOMAIN d = DOMAIN s \cup {Len(d)}
    /\ d[Len(d)] = f /\ ToSet(d) = ToSet(s) \cup {f}
    /\ \A i \in DOMAIN s : d[i] = s[i] /\ i < Len(d) /\ i \in Nat
    /\ f.op # "listenOk" => CountOf(d, {"listenOk"}) = CountOf(s, {"listenOk"})
    /\ f.op = "listenOk" => CountOf(d, {"listenOk"}) = CountOf(s, {"listenOk"}) + 1

LEMMA DownAppended ==
    ASSUME NEW s \in Seq(DownFrame), NEW f \in DownFrame, NEW d, d = Append(s, f)
    PROVE  Grown(d, s, f)
<1>1. Len(d) = Len(s) + 1 /\ \A i \in DOMAIN s : i \in Nat
  OBVIOUS
<1>2. /\ d \in Seq(DownFrame) /\ DOMAIN d = DOMAIN s \cup {Len(s) + 1}
      /\ d[Len(s) + 1] = f /\ ToSet(d) = ToSet(s) \cup {f}
      /\ \A i \in DOMAIN s : d[i] = s[i] /\ i < Len(s) + 1
  BY AppendFacts
<1>3. CountOf(d, {"listenOk"}) = CountOf(s, {"listenOk"}) + IF f.op \in {"listenOk"} THEN 1 ELSE 0
  BY CountAppend
<1>4. CountOf(s, {"listenOk"}) \in Nat
  BY CountFacts
<1> QED
  BY <1>1, <1>2, <1>3, <1>4 DEF Grown

(* d is what is under way after the server took the put of n *)
PutAnswered(d, n) ==
    /\ d \in Seq(DownFrame) /\ CountOf(d, {"listenOk"}) = CountOf(down, {"listenOk"})
    /\ Len(d) \in DOMAIN d /\ d[Len(d)] = PutOk(n)
    /\ ToSet(down) \subseteq ToSet(d)
    /\ \A f \in ToSet(d) : f \in ToSet(down) \/ f = ChildUpdate(n) \/ f = PutOk(n)
    /\ \A i \in DOMAIN down :
          i \in DOMAIN d /\ d[i] = down[i] /\ i \in Nat /\ i < Len(d)
    /\ \A i \in DOMAIN d :
          \/ i \in DOMAIN down
          \/ i = Len(d)
          \/ /\ d[i] = ChildUpdate(n) /\ subscribed /\ i \in Nat
             /\ \A j \in DOMAIN down : j < i
    /\ subscribed /\ n \notin log =>
          \E j \in DOMAIN d : j < Len(d) /\ d[j] = ChildUpdate(n)

LEMMA PutFacts ==
    ASSUME Parts, NEW n \in Mine, NEW mid, mid = down \o News(n),
           NEW d, d = Append(mid, PutOk(n))
    PROVE  PutAnswered(d, n)
<1>1. n \in Msg /\ PutOk(n) \in DownFrame /\ PutOk(n).op = "putOk"
  BY DownFrames DEF Msg
<1>2. /\ mid \in Seq(DownFrame) /\ CountOf(mid, {"listenOk"}) = CountOf(down, {"listenOk"})
      /\ ToSet(down) \subseteq ToSet(mid)
      /\ \A f \in ToSet(mid) : f \in ToSet(down) \/ f = ChildUpdate(n)
      /\ \A i \in DOMAIN down : i \in DOMAIN mid /\ mid[i] = down[i] /\ i \in Nat
      /\ \A i \in DOMAIN mid :
            \/ i \in DOMAIN down
            \/ /\ mid[i] = ChildUpdate(n) /\ subscribed /\ i \in Nat
               /\ \A j \in DOMAIN down : j < i
      /\ subscribed /\ n \notin log => ChildUpdate(n) \in ToSet(mid)
  BY <1>1, NewsFacts
<1>3. mid \in Seq(DownFrame) /\ PutOk(n) \in DownFrame /\ PutOk(n).op # "listenOk"
  BY <1>1, <1>2
<1>4. /\ d \in Seq(DownFrame) /\ DOMAIN d = DOMAIN mid \cup {Len(d)}
      /\ d[Len(d)] = PutOk(n) /\ ToSet(d) = ToSet(mid) \cup {PutOk(n)}
      /\ \A i \in DOMAIN mid : d[i] = mid[i] /\ i < Len(d)
      /\ CountOf(d, {"listenOk"}) = CountOf(mid, {"listenOk"})
  <2>1. Grown(d, mid, PutOk(n))
    BY <1>3, DownAppended
  <2> QED
    BY <2>1, <1>3 DEF Grown
<1>6. CountOf(d, {"listenOk"}) = CountOf(down, {"listenOk"})
  BY <1>2, <1>4
<1>7. Len(d) \in DOMAIN d /\ d[Len(d)] = PutOk(n)
  BY <1>4
<1>8. \A i \in DOMAIN down : i \in DOMAIN d /\ d[i] = down[i] /\ i \in Nat /\ i < Len(d)
  BY <1>2, <1>4
<1>9. \A i \in DOMAIN d :
         \/ i \in DOMAIN down
         \/ i = Len(d)
         \/ /\ d[i] = ChildUpdate(n) /\ subscribed /\ i \in Nat
            /\ \A j \in DOMAIN down : j < i
  BY <1>2, <1>4
<1>10. subscribed /\ n \notin log =>
          \E j \in DOMAIN d : j < Len(d) /\ d[j] = ChildUpdate(n)
  <2> SUFFICES ASSUME subscribed, n \notin log
               PROVE  \E j \in DOMAIN d : j < Len(d) /\ d[j] = ChildUpdate(n)
    OBVIOUS
  <2>1. PICK j \in DOMAIN mid : mid[j] = ChildUpdate(n)
    BY <1>2 DEF ToSet
  <2> QED
    BY <2>1, <1>4
<1> QED
  BY <1>2, <1>4, <1>6, <1>7, <1>8, <1>9, <1>10 DEF PutAnswered

(* The server takes a put: what it answers comes after the news. *)
LEMMA PutTakenStep ==
    ASSUME Parts, ServerReads, Head(up).op = "put"
    PROVE  Parts'
<1> DEFINE n == Head(up).key
<1>1. /\ UNCHANGED <<waiting, subscribed, connected, outstanding, toAck, unackedListens,
                     otherListens, writes, serverCache, complete, eventCache, screens,
                     presented>>
      /\ up # <<>> /\ up' = Tail(up)
      /\ log' = log \cup {n} /\ down' = down \o News(n) \o <<PutOk(n)>>
  BY DEF ServerReads, viewVars
<1>2. /\ Typed /\ FramesTyped /\ EventsMerged /\ ServerLeads /\ ListensOnce /\ Counted
      /\ NewsInOrder /\ AcksSafe /\ PutsOnce
  BY DEF Parts, Typed
<1>3. /\ up' \in Seq(UpFrame) /\ IsInjective(up') /\ Head(up) \notin ToSet(up')
      /\ ToSet(up) = {Head(up)} \cup ToSet(up') /\ Head(up) \in UpFrame
      /\ Head(up) \in ToSet(up)
  BY <1>1, <1>2, TailFacts DEF FramesTyped, ListensOnce
<1>4. n \in Mine /\ Head(up) = PutMessage(n)
  BY <1>3, UpFrames
<1>5. n \in ToSet(outstanding) /\ PutOk(n) \notin ToSet(down)
  BY <1>2, <1>3 DEF PutsOnce
<1> HIDE DEF n
<1>6. /\ n \in Msg /\ PutOk(n) \in DownFrame /\ PutOk(n).op = "putOk" /\ PutOk(n).key = n
      /\ ChildUpdate(n).op = "child" /\ ChildUpdate(n).key = n
  BY <1>4, DownFrames DEF Msg
<1>7. /\ down' \in Seq(DownFrame) /\ CountOf(down', {"listenOk"}) = CountOf(down, {"listenOk"})
      /\ Len(down') \in DOMAIN down' /\ down'[Len(down')] = PutOk(n)
      /\ ToSet(down) \subseteq ToSet(down')
      /\ \A f \in ToSet(down') : f \in ToSet(down) \/ f = ChildUpdate(n) \/ f = PutOk(n)
      /\ \A i \in DOMAIN down :
            i \in DOMAIN down' /\ down'[i] = down[i] /\ i \in Nat /\ i < Len(down')
      /\ \A i \in DOMAIN down' :
            \/ i \in DOMAIN down
            \/ i = Len(down')
            \/ /\ down'[i] = ChildUpdate(n) /\ subscribed /\ i \in Nat
               /\ \A j \in DOMAIN down : j < i
      /\ subscribed /\ n \notin log =>
            \E j \in DOMAIN down' : j < Len(down') /\ down'[j] = ChildUpdate(n)
  <2>1. PICK mid : mid = down \o News(n)
    OBVIOUS
  <2>2. mid \in Seq(DownFrame)
    BY <2>1, <1>6, NewsFacts
  <2>3. mid \o <<PutOk(n)>> = Append(mid, PutOk(n))
    BY <2>2, <1>6, AppendIsConcat
  <2>4. down' = Append(mid, PutOk(n))
    BY <2>1, <2>3, <1>1
  <2>5. PutAnswered(down', n)
    BY <2>1, <2>4, <1>4, PutFacts
  <2> QED
    BY <2>5 DEF PutAnswered
<1>8. connected
  BY <1>1, <1>2 DEF FramesTyped
<1>9. Listening /\ (Listening' <=> Listening)
  <2>1. outstanding # <<>>
    BY <1>5 DEF ToSet
  <2> QED
    BY <2>1, <1>1, <1>2 DEF FramesTyped, Listening
<1>10. Pending' <=> Pending
  BY <1>1, <1>3 DEF Pending
<1>11. Typed'
  <2>1. FramesTyped'
    BY <1>1, <1>2, <1>3, <1>7, <1>8, <1>9 DEF FramesTyped
  <2> QED
    BY <1>1, <1>2, <1>6, <2>1 DEF Typed
<1>12. Counted'
  <2>1. CountOf(up, ListenOps) = CountOf(up', ListenOps) + 0
    BY <1>1, <1>2, CountTail DEF FramesTyped, ListenOps
  <2>2. CountOf(up', ListenOps) \in Nat
    BY <1>3, CountFacts
  <2>3. CountOf(up', ListenOps) = CountOf(up, ListenOps)
    BY <2>1, <2>2
  <2> QED
    BY <2>3, <1>1, <1>2, <1>7 DEF Counted
<1>13. EventsMerged'
  BY <1>1, <1>2 DEF EventsMerged
<1>14. ServerLeads'
  BY <1>1, <1>2, <1>6, <1>7 DEF ServerLeads
<1>15. ListensOnce'
  BY <1>1, <1>2, <1>3, <1>9, <1>10 DEF ListensOnce
<1>16. \A m : InSnap(down, m) => InSnap(down', m)
  BY <1>7 DEF InSnap
<1>17. NewsInOrder'
  <2>1. ~subscribed' => \A g \in ToSet(down') : g.op \notin {"data", "child"}
    <3> SUFFICES ASSUME ~subscribed, NEW i \in DOMAIN down'
                 PROVE  down'[i].op \notin {"data", "child"}
      BY <1>1 DEF ToSet
    <3>1. CASE i \in DOMAIN down
      BY <3>1, <1>2, <1>7 DEF NewsInOrder, ToSet
    <3>2. CASE i = Len(down')
      BY <3>2, <1>6, <1>7
    <3> QED
      BY <3>1, <3>2, <1>7
  <2>2. ASSUME NEW j \in DOMAIN down', down'[j].op = "data"
        PROVE  /\ serverCache' \subseteq down'[j].snap
               /\ \A i \in DOMAIN down' : i < j => down'[i].op \notin {"data", "child"}
               /\ \E k \in DOMAIN down' : j < k /\ down'[k].op = "listenOk"
    <3>1. j \in DOMAIN down /\ down'[j] = down[j] /\ j \in Nat /\ j < Len(down')
      BY <1>6, <1>7, <2>2
    <3>2. \A i \in DOMAIN down' : i < j => i \in DOMAIN down /\ down'[i] = down[i]
      <4>1. Len(down') \in Nat
        BY <1>7
      <4> QED
        BY <4>1, <1>7, <3>1
    <3>3. /\ serverCache \subseteq down[j].snap
          /\ \A i \in DOMAIN down : i < j => down[i].op \notin {"data", "child"}
          /\ \E k \in DOMAIN down : j < k /\ down[k].op = "listenOk"
      BY <1>2, <2>2, <3>1 DEF NewsInOrder
    <3> QED
      BY <1>1, <1>7, <3>1, <3>2, <3>3
  <2>3. subscribed' => \A m \in log' :
           m \in serverCache' \/ ChildUpdate(m) \in ToSet(down') \/ InSnap(down', m)
    <3> SUFFICES ASSUME subscribed, NEW m \in log'
                 PROVE  \/ m \in serverCache \/ ChildUpdate(m) \in ToSet(down')
                        \/ InSnap(down', m)
      BY <1>1
    <3>1. CASE m \in log
      BY <3>1, <1>2, <1>7, <1>16 DEF NewsInOrder
    <3>2. CASE m \notin log
      BY <3>2, <1>1, <1>7 DEF ToSet
    <3> QED
      BY <3>1, <3>2
  <2> QED
    BY <2>1, <2>2, <2>3 DEF NewsInOrder
<1>18. AcksSafe'
  <2>1. ASSUME NEW k \in DOMAIN down', down'[k].op = "putOk"
        PROVE  \/ down'[k].key \in serverCache'
               \/ \E j \in DOMAIN down' : j < k /\ down'[j] = ChildUpdate(down'[k].key)
               \/ InSnap(down', down'[k].key)
               \/ Pending'
    <3>1. CASE k \in DOMAIN down
      <4>1. \/ down[k].key \in serverCache
            \/ \E j \in DOMAIN down : j < k /\ down[j] = ChildUpdate(down[k].key)
            \/ InSnap(down, down[k].key)
            \/ Pending
        BY <1>2, <1>7, <2>1, <3>1 DEF AcksSafe
      <4> QED
        BY <4>1, <3>1, <1>1, <1>7, <1>10, <1>16
    <3>2. CASE k = Len(down')
      <4>1. down'[k].key = n
        BY <3>2, <1>6, <1>7
      <4>2. CASE ~subscribed
        BY <4>2, <1>2, <1>8, <1>9, <1>10 DEF ListensOnce
      <4>3. CASE subscribed /\ n \notin log
        BY <4>1, <4>3, <3>2, <1>7
      <4>4. CASE subscribed /\ n \in log
        <5>1. CASE ChildUpdate(n) \in ToSet(down)
          <6>1. PICK j \in DOMAIN down : down[j] = ChildUpdate(n)
            BY <5>1 DEF ToSet
          <6> QED
            BY <6>1, <4>1, <3>2, <1>7
        <5>2. CASE n \in serverCache \/ InSnap(down, n)
          BY <5>2, <4>1, <1>1, <1>16
        <5> QED
          BY <4>4, <5>1, <5>2, <1>2 DEF NewsInOrder
      <4> QED
        BY <4>2, <4>3, <4>4
    <3> QED
      BY <3>1, <3>2, <2>1, <1>6, <1>7
  <2>2. connected' => \A m \in ToSet(toAck') :
           m \in serverCache' \/ InSnap(down', m) \/ Pending'
    BY <1>1, <1>2, <1>10, <1>16 DEF AcksSafe
  <2> QED
    BY <2>1, <2>2 DEF AcksSafe
<1>19. PutsOnce'
  <2>1. \A f \in ToSet(up') : f.op = "put" =>
           f.key \in ToSet(outstanding') /\ PutOk(f.key) \notin ToSet(down')
    <3> SUFFICES ASSUME NEW f \in ToSet(up'), f.op = "put"
                 PROVE  f.key \in ToSet(outstanding) /\ PutOk(f.key) \notin ToSet(down')
      BY <1>1
    <3>1. f \in UpFrame /\ f \in ToSet(up) /\ f # Head(up)
      BY <1>2, <1>3, QueueTypes
    <3>2. f.key \in Mine /\ f = PutMessage(f.key)
      BY <3>1, UpFrames
    <3>3. f.key # n
      BY <3>1, <3>2, <1>4
    <3>4. /\ PutOk(f.key).op = "putOk" /\ PutOk(f.key).key = f.key
          /\ PutOk(f.key) # PutOk(n) /\ PutOk(f.key) # ChildUpdate(n)
      BY <3>2, <3>3, <1>6, DownFrames
    <3>5. f.key \in ToSet(outstanding) /\ PutOk(f.key) \notin ToSet(down)
      BY <3>1, <1>2 DEF PutsOnce
    <3> QED
      BY <3>4, <3>5, <1>7
  <2>2. \A f \in ToSet(down') : f.op = "putOk" => f.key \in ToSet(outstanding')
    BY <1>1, <1>2, <1>5, <1>6, <1>7 DEF PutsOnce
  <2>3. \A j, k \in DOMAIN down' : down'[j].op = "putOk" /\ down'[j] = down'[k] => j = k
    <3>1. \A j \in DOMAIN down' : down'[j].op = "putOk" =>
             \/ j \in DOMAIN down /\ down'[j] = down[j] /\ down'[j] # PutOk(n)
             \/ j = Len(down') /\ down'[j] = PutOk(n)
      BY <1>5, <1>6, <1>7 DEF ToSet
    <3> QED
      BY <3>1, <1>2 DEF PutsOnce
  <2>4. connected' => \A m \in ToSet(outstanding') :
           PutMessage(m) \in ToSet(up') \/ PutOk(m) \in ToSet(down')
    <3> SUFFICES ASSUME NEW m \in ToSet(outstanding)
                 PROVE  PutMessage(m) \in ToSet(up') \/ PutOk(m) \in ToSet(down')
      BY <1>1
    <3>1. PutMessage(m) \in ToSet(up) \/ PutOk(m) \in ToSet(down)
      BY <1>2, <1>8 DEF PutsOnce
    <3>2. m \in Mine
      BY <1>2 DEF Typed, ToSet
    <3>3. CASE PutMessage(m) = PutMessage(n)
      <4>1. m = n
        BY <3>2, <3>3, <1>4, UpFrames
      <4> QED
        BY <4>1, <1>7 DEF ToSet
    <3> QED
      BY <3>1, <3>3, <1>3, <1>4, <1>7
  <2> QED
    BY <1>1, <1>2, <2>1, <2>2, <2>3, <2>4 DEF PutsOnce
<1> QED
  BY <1>11, <1>12, <1>13, <1>14, <1>15, <1>17, <1>18, <1>19 DEF Parts

LEMMA ListenTakenStep ==
    ASSUME Parts, ServerReads, Head(up).op # "put"
    PROVE  Parts'
<1> DEFINE f == Head(up)
<1>1. /\ UNCHANGED <<log, down, subscribed, connected, outstanding, toAck, unackedListens,
                     otherListens, writes, serverCache, complete, eventCache, screens,
                     presented>>
      /\ up # <<>> /\ up' = Tail(up) /\ waiting' = waiting \cup {f}
  BY DEF ServerReads, viewVars
<1>2. Typed /\ FramesTyped /\ EventsMerged /\ ListensOnce /\ Counted
  BY DEF Parts, Typed
<1>3. /\ up' \in Seq(UpFrame) /\ IsInjective(up') /\ f \notin ToSet(up')
      /\ ToSet(up) = {f} \cup ToSet(up') /\ f \in UpFrame
      /\ f \in ToSet(up)
  BY <1>1, <1>2, TailFacts DEF FramesTyped, ListensOnce
<1>4. f \notin waiting /\ f.op # "put" /\ f.op \in ListenOps
  BY <1>2, <1>3, UpFrames DEF ListensOnce, ListenOps
<1>5. CountOf(up, ListenOps) = CountOf(up', ListenOps) + 1
  BY <1>1, <1>2, <1>4, CountTail DEF FramesTyped
<1>6. CountOf(up', ListenOps) \in Nat
  BY <1>3, CountFacts
<1> HIDE DEF f
<1>7. ToSet(up') \cup waiting' = ToSet(up) \cup waiting
  BY <1>1, <1>3
<1>8. Pending' <=> Pending
  BY <1>7 DEF Pending
<1>9. Listening' <=> Listening
  BY <1>1 DEF Listening
<1>10. connected
  BY <1>1, <1>2 DEF FramesTyped
<1>11. IsFiniteSet(waiting') /\ Cardinality(waiting') = Cardinality(waiting) + 1
  BY <1>1, <1>2, <1>4, FS_AddElement DEF FramesTyped
<1>12. Typed'
  <2>1. FramesTyped'
    BY <1>1, <1>2, <1>3, <1>4, <1>9, <1>10, <1>11 DEF FramesTyped
  <2> QED
    BY <1>1, <1>2, <2>1 DEF Typed
<1>13. Counted'
  BY <1>1, <1>2, <1>5, <1>6, <1>11, QueueTypes DEF Counted
<1>14. EventsMerged'
  BY <1>1, <1>2 DEF EventsMerged
<1>15. ListensOnce'
  BY <1>1, <1>2, <1>3, <1>7, <1>8, <1>9 DEF ListensOnce
<1>16. ServerLeads' /\ NewsInOrder' /\ AcksSafe'
  BY <1>1, <1>8, KeptParts
<1>17. PutsOnce'
  BY <1>1, <1>2, <1>3, <1>4, QueueTypes, PutsKept
<1> QED
  BY <1>12, <1>13, <1>14, <1>15, <1>16, <1>17 DEF Parts

(* d is what is under way after a listen was answered, with data if sent *)
Answered(d, sent, op) ==
    /\ d \in Seq(DownFrame)
    /\ CountOf(d, {"listenOk"}) = CountOf(down, {"listenOk"}) + 1
    /\ Len(d) \in DOMAIN d /\ d[Len(d)] = ListenOk(op)
    /\ ToSet(down) \subseteq ToSet(d)
    /\ \A f \in ToSet(d) : f \in ToSet(down) \/ f = ListenOk(op) \/ (sent /\ f = DataUpdate(log))
    /\ sent => DataUpdate(log) \in ToSet(d)
    /\ \A i \in DOMAIN down :
          i \in DOMAIN d /\ d[i] = down[i] /\ i \in Nat /\ i < Len(d)
    /\ \A i \in DOMAIN d :
          \/ i \in DOMAIN down
          \/ i = Len(d)
          \/ /\ sent /\ d[i] = DataUpdate(log) /\ i \in Nat /\ i < Len(d)
             /\ \A j \in DOMAIN down : j < i
             /\ \A j \in DOMAIN d : j < i => j \in DOMAIN down

LEMMA AnswerWithData ==
    ASSUME Parts, NEW op \in ListenOps, NEW mid, mid = Append(down, DataUpdate(log)),
           NEW d, d = Append(mid, ListenOk(op))
    PROVE  Answered(d, TRUE, op)
<1>1. /\ DataUpdate(log) \in DownFrame /\ DataUpdate(log).op = "data"
      /\ ListenOk(op) \in DownFrame /\ ListenOk(op).op = "listenOk"
      /\ down \in Seq(DownFrame)
  BY DownFrames DEF Parts, Typed, FramesTyped
<1>2. Grown(mid, down, DataUpdate(log))
  BY <1>1, DownAppended
<1>3. mid \in Seq(DownFrame)
  BY <1>2 DEF Grown
<1>4. Grown(d, mid, ListenOk(op))
  BY <1>1, <1>3, DownAppended
<1>5. ASSUME NEW e, NEW m, Grown(m, down, DataUpdate(log)), Grown(e, m, ListenOk(op))
      PROVE  Answered(e, TRUE, op)
  <2>7. m \in Seq(DownFrame) /\ e \in Seq(DownFrame)
    BY <1>5 DEF Grown
  <2>1. Len(m) \in Nat /\ Len(e) \in Nat
    BY <2>7, LenProperties
  <2>2. \A i \in DOMAIN down :
           i \in DOMAIN e /\ e[i] = down[i] /\ i \in Nat /\ i < Len(m) /\ i < Len(e)
    BY <1>5 DEF Grown
  <2>3. Len(m) \in DOMAIN e /\ e[Len(m)] = DataUpdate(log) /\ Len(m) < Len(e)
    BY <1>5 DEF Grown
  <2>4. \A i \in DOMAIN e : i \in DOMAIN down \/ i = Len(m) \/ i = Len(e)
    BY <1>5 DEF Grown
  <2>5. \A j \in DOMAIN e : j < Len(m) => j \in DOMAIN down
    BY <2>1, <2>3, <2>4
  <2>6. CountOf(e, {"listenOk"}) = CountOf(down, {"listenOk"}) + 1
    BY <1>1, <1>5 DEF Grown
  <2>8. /\ Len(e) \in DOMAIN e /\ e[Len(e)] = ListenOk(op)
        /\ ToSet(e) = ToSet(down) \cup {DataUpdate(log), ListenOk(op)}
    BY <1>5 DEF Grown
  <2>9. \A i \in DOMAIN e :
           \/ i \in DOMAIN down
           \/ i = Len(e)
           \/ /\ e[i] = DataUpdate(log) /\ i \in Nat /\ i < Len(e)
              /\ \A j \in DOMAIN down : j < i
              /\ \A j \in DOMAIN e : j < i => j \in DOMAIN down
    BY <2>1, <2>2, <2>3, <2>4, <2>5
  <2> QED
    BY <2>2, <2>6, <2>7, <2>8, <2>9 DEF Answered
<1> QED
  BY <1>2, <1>4, <1>5

LEMMA AnswerWithout ==
    ASSUME Parts, NEW op \in ListenOps, NEW d, d = Append(down, ListenOk(op))
    PROVE  Answered(d, FALSE, op)
<1>1. /\ ListenOk(op) \in DownFrame /\ ListenOk(op).op = "listenOk"
      /\ down \in Seq(DownFrame)
  BY DownFrames DEF Parts, Typed, FramesTyped
<1>2. Grown(d, down, ListenOk(op))
  BY <1>1, DownAppended
<1>3. ASSUME NEW e, Grown(e, down, ListenOk(op))
      PROVE  Answered(e, FALSE, op)
  BY <1>1, <1>3 DEF Grown, Answered
<1> QED
  BY <1>2, <1>3

LEMMA AnswerStep ==
    ASSUME Parts, ServerAnswers
    PROVE  Parts'
<1>1. PICK frame \in waiting :
        /\ waiting' = waiting \ {frame}
        /\ subscribed' = (subscribed \/ frame.op = "listenLog")
        /\ down' = down \o (IF frame.op = "listenLog" /\ frame.hash # log
                            THEN <<DataUpdate(log)>> ELSE <<>>)
                        \o <<ListenOk(frame.op)>>
        /\ UNCHANGED <<log, up, connected, outstanding, toAck, unackedListens,
                       otherListens, writes, serverCache, complete, eventCache, screens,
                       presented>>
  BY DEF ServerAnswers, viewVars
<1> DEFINE op == frame.op
           sent == frame.op = "listenLog" /\ frame.hash # log
<1>2. /\ Typed /\ FramesTyped /\ EventsMerged /\ ServerLeads /\ ListensOnce /\ Counted
      /\ NewsInOrder /\ AcksSafe /\ PutsOnce
  BY DEF Parts, Typed
<1>3. frame \in UpFrame /\ op \in ListenOps
  BY <1>2, UpFrames DEF FramesTyped, ListenOps
<1>4. log \in SUBSET Msg /\ down \in Seq(DownFrame)
  BY <1>2 DEF Typed, FramesTyped
<1>5. /\ DataUpdate(log) \in DownFrame /\ DataUpdate(log).op = "data"
      /\ DataUpdate(log).snap = log
      /\ ListenOk(op) \in DownFrame /\ ListenOk(op).op = "listenOk"
  BY <1>3, <1>4, DownFrames
<1>6. Answered(down', sent, op)
  <2>1. CASE sent
    <3>1. down' = down \o <<DataUpdate(log)>> \o <<ListenOk(op)>>
      BY <1>1, <2>1
    <3>2. PICK mid : mid = Append(down, DataUpdate(log))
      OBVIOUS
    <3>3. mid \in Seq(DownFrame)
      BY <3>2, <1>4, <1>5
    <3>4. mid = down \o <<DataUpdate(log)>>
      BY <3>2, <1>4, <1>5, AppendIsConcat
    <3>5. Append(mid, ListenOk(op)) = mid \o <<ListenOk(op)>>
      BY <3>3, <1>5, AppendIsConcat
    <3>6. down' = Append(mid, ListenOk(op))
      BY <3>1, <3>4, <3>5
    <3>7. Answered(down', TRUE, op)
      BY <3>2, <3>6, <1>3, AnswerWithData
    <3> QED
      BY <3>7, <2>1
  <2>2. CASE ~sent
    <3>1. down' = (down \o <<>>) \o <<ListenOk(op)>>
      BY <1>1, <2>2
    <3>2. down \o <<>> = down
      BY <1>4, ConcatEmptySeq
    <3>3. Append(down, ListenOk(op)) = down \o <<ListenOk(op)>>
      BY <1>4, <1>5, AppendIsConcat
    <3>4. down' = Append(down, ListenOk(op))
      BY <3>1, <3>2, <3>3
    <3>5. Answered(down', FALSE, op)
      BY <3>4, <1>3, AnswerWithout
    <3> QED
      BY <3>5, <2>2
  <2> QED
    BY <2>1, <2>2
<1>7. /\ UNCHANGED <<log, up, connected, outstanding, toAck, unackedListens,
                     otherListens, writes, serverCache, complete, eventCache, screens,
                     presented>>
      /\ waiting' = waiting \ {frame}
      /\ subscribed' = (subscribed \/ op = "listenLog")
  BY <1>1
<1>8. connected
  BY <1>2 DEF FramesTyped
<1>9. sent <=> op = "listenLog" /\ serverCache # log
  BY <1>2 DEF ListensOnce
<1> HIDE DEF op, sent
<1>10. Listening' <=> Listening
  BY <1>7 DEF Listening
<1>11. op = "listenLog" => /\ Pending /\ ~subscribed /\ Listening /\ ~Pending'
  <2> SUFFICES ASSUME op = "listenLog"
               PROVE  Pending /\ ~subscribed /\ Listening /\ ~Pending'
    OBVIOUS
  <2>1. frame.op = "listenLog"
    BY DEF op
  <2>2. Pending
    BY <2>1 DEF Pending
  <2>3. ~subscribed /\ Listening
    BY <2>2, <1>2 DEF ListensOnce
  <2>4. ASSUME NEW f \in ToSet(up) \cup waiting, f.op = "listenLog"
        PROVE  f = frame
    <3>1. f \in UpFrame /\ f.hash = serverCache /\ frame.hash = serverCache
      BY <1>2, <2>1, <2>4, QueueTypes DEF ListensOnce
    <3> QED
      BY <3>1, <2>1, <2>4, <1>3, UpFrames
  <2>5. frame \notin ToSet(up) /\ frame \notin waiting'
    BY <1>2, <1>7 DEF ListensOnce
  <2>6. ~Pending'
    BY <2>4, <2>5, <1>7 DEF Pending
  <2> QED
    BY <2>2, <2>3, <2>6
<1>12. op # "listenLog" => (Pending' <=> Pending)
  BY <1>7 DEF Pending, op
<1>13. Typed'
  <2>1. {connected', subscribed', complete'} \subseteq BOOLEAN
    <3>1. subscribed' \in BOOLEAN
      BY <1>7
    <3> QED
      BY <3>1, <1>2, <1>7 DEF FramesTyped
  <2>2. IsFiniteSet(waiting')
    BY <1>2, <1>7, FS_RemoveElement DEF FramesTyped
  <2>3. down' \in Seq(DownFrame)
    BY <1>6 DEF Answered
  <2>4. FramesTyped'
    BY <1>2, <1>7, <1>8, <1>10, <2>1, <2>2, <2>3 DEF FramesTyped
  <2> QED
    BY <1>2, <1>7, <2>4 DEF Typed
<1>14. Counted'
  <2>1. Cardinality(waiting') = Cardinality(waiting) - 1
    BY <1>2, <1>7, FS_RemoveElement DEF FramesTyped
  <2>2. CountOf(down', {"listenOk"}) = CountOf(down, {"listenOk"}) + 1
    BY <1>6 DEF Answered
  <2> QED
    BY <2>1, <2>2, <1>2, <1>7, QueueTypes DEF Counted
<1>15. EventsMerged'
  BY <1>2, <1>7 DEF EventsMerged
<1>16. /\ ToSet(down) \subseteq ToSet(down')
       /\ \A f \in ToSet(down') :
             \/ f \in ToSet(down)
             \/ f.op = "listenOk"
             \/ sent /\ f = DataUpdate(log)
       /\ sent => DataUpdate(log) \in ToSet(down')
       /\ \A i \in DOMAIN down :
             i \in DOMAIN down' /\ down'[i] = down[i] /\ i \in Nat /\ i < Len(down')
       /\ Len(down') \in DOMAIN down' /\ down'[Len(down')].op = "listenOk"
       /\ \A i \in DOMAIN down' :
             \/ i \in DOMAIN down
             \/ i = Len(down')
             \/ /\ sent /\ down'[i] = DataUpdate(log) /\ i \in Nat /\ i < Len(down')
                /\ \A j \in DOMAIN down : j < i
                /\ \A j \in DOMAIN down' : j < i => j \in DOMAIN down
  BY <1>5, <1>6 DEF Answered
<1>17. ServerLeads'
  BY <1>2, <1>5, <1>7, <1>16 DEF ServerLeads
<1>18. ListensOnce'
  BY <1>2, <1>7, <1>10, <1>11, <1>12 DEF ListensOnce
<1>19. \A m : InSnap(down, m) => InSnap(down', m)
  BY <1>16 DEF InSnap
<1>20. op = "listenLog" => \A m \in log : m \in serverCache \/ InSnap(down', m)
  BY <1>5, <1>9, <1>16 DEF InSnap
<1>21. NewsInOrder'
  <2>1. ~subscribed' => \A g \in ToSet(down') : g.op \notin {"data", "child"}
    BY <1>2, <1>7, <1>9, <1>16 DEF NewsInOrder
  <2>2. ASSUME NEW j \in DOMAIN down', down'[j].op = "data"
        PROVE  /\ serverCache' \subseteq down'[j].snap
               /\ \A i \in DOMAIN down' : i < j => down'[i].op \notin {"data", "child"}
               /\ \E k \in DOMAIN down' : j < k /\ down'[k].op = "listenOk"
    <3>1. CASE j \in DOMAIN down
      <4>1. down'[j] = down[j] /\ j \in Nat /\ j < Len(down') /\ Len(down') \in Nat
        BY <1>16, <3>1
      <4>2. \A i \in DOMAIN down' : i < j => i \in DOMAIN down /\ down'[i] = down[i]
        BY <1>16, <3>1, <4>1
      <4>3. /\ serverCache \subseteq down[j].snap
            /\ \A i \in DOMAIN down : i < j => down[i].op \notin {"data", "child"}
        BY <1>2, <2>2, <3>1, <4>1 DEF NewsInOrder
      <4> QED
        BY <1>7, <1>16, <4>1, <4>2, <4>3
    <3>2. CASE j \notin DOMAIN down
      <4>1. /\ sent /\ down'[j] = DataUpdate(log) /\ j < Len(down')
            /\ \A i \in DOMAIN down' : i < j => i \in DOMAIN down
        BY <1>16, <2>2, <3>2
      <4>2. ~subscribed
        BY <4>1, <1>9, <1>11
      <4>3. \A i \in DOMAIN down : down[i].op \notin {"data", "child"}
        BY <4>2, <1>2 DEF NewsInOrder, ToSet
      <4>4. serverCache \subseteq log
        BY <1>2 DEF ServerLeads
      <4> QED
        BY <4>1, <4>3, <4>4, <1>5, <1>7, <1>16
    <3> QED
      BY <3>1, <3>2
  <2>3. subscribed' => \A m \in log' :
           m \in serverCache' \/ ChildUpdate(m) \in ToSet(down') \/ InSnap(down', m)
    BY <1>2, <1>7, <1>16, <1>19, <1>20 DEF NewsInOrder
  <2> QED
    BY <2>1, <2>2, <2>3 DEF NewsInOrder
<1>22. AcksSafe'
  <2>1. ASSUME NEW k \in DOMAIN down', down'[k].op = "putOk"
        PROVE  \/ down'[k].key \in serverCache'
               \/ \E j \in DOMAIN down' : j < k /\ down'[j] = ChildUpdate(down'[k].key)
               \/ InSnap(down', down'[k].key)
               \/ Pending'
    <3>1. k \in DOMAIN down /\ down'[k] = down[k]
      BY <1>5, <1>16, <2>1
    <3>2. CASE op = "listenLog"
      <4>1. down[k].key \in log
        BY <1>2, <2>1, <3>1 DEF ServerLeads, ToSet
      <4> QED
        BY <4>1, <3>1, <3>2, <1>7, <1>20
    <3>3. CASE op # "listenLog"
      <4>1. \/ down[k].key \in serverCache
            \/ \E j \in DOMAIN down : j < k /\ down[j] = ChildUpdate(down[k].key)
            \/ InSnap(down, down[k].key)
            \/ Pending
        BY <1>2, <2>1, <3>1 DEF AcksSafe
      <4> QED
        BY <4>1, <3>1, <3>3, <1>7, <1>12, <1>16, <1>19
    <3> QED
      BY <3>2, <3>3
  <2>2. connected' => \A m \in ToSet(toAck') :
           m \in serverCache' \/ InSnap(down', m) \/ Pending'
    <3>1. \A m \in ToSet(toAck) : m \in log
      BY <1>2 DEF ServerLeads
    <3> QED
      BY <3>1, <1>2, <1>7, <1>12, <1>19, <1>20 DEF AcksSafe
  <2> QED
    BY <2>1, <2>2 DEF AcksSafe
<1>23. PutsOnce'
  <2>1. \A g \in ToSet(down') : g.op = "putOk" => g \in ToSet(down)
    BY <1>5, <1>16
  <2>2. \A k \in DOMAIN down' : down'[k].op = "putOk" =>
           k \in DOMAIN down /\ down'[k] = down[k]
    BY <1>5, <1>16
  <2>3. \A n \in Mine : PutOk(n) \in ToSet(down') => PutOk(n) \in ToSet(down)
    BY <2>1, DownFrames
  <2>4. \A g \in ToSet(up) : g.op = "put" => g.key \in Mine
    BY <1>2, QueueTypes, UpFrames
  <2> QED
    BY <1>2, <1>7, <1>16, <2>1, <2>2, <2>3, <2>4 DEF PutsOnce
<1> QED
  BY <1>13, <1>14, <1>15, <1>17, <1>18, <1>21, <1>22, <1>23 DEF Parts

-----------------------------------------------------------------------------
(* The Firebase client *)

(* d is what is still under way after the client read a frame *)
FrameRead(d) ==
    /\ 1 \in DOMAIN down /\ down[1] = Head(down)
    /\ Head(down) \in DownFrame /\ Head(down) \in ToSet(down)
    /\ d \in Seq(DownFrame) /\ ToSet(down) = {Head(down)} \cup ToSet(d)
    /\ \A i \in DOMAIN d : i \in Nat /\ i > 0 /\ i + 1 \in DOMAIN down /\ d[i] = down[i + 1]
    /\ \A i \in DOMAIN down :
          /\ i \in Nat
          /\ i = 1 \/ (i > 1 /\ i - 1 \in DOMAIN d /\ d[i - 1] = down[i])
    /\ CountOf(d, {"listenOk"}) \in Nat
    /\ Head(down).op # "listenOk" => CountOf(down, {"listenOk"}) = CountOf(d, {"listenOk"})
    /\ Head(down).op = "listenOk" => CountOf(down, {"listenOk"}) = CountOf(d, {"listenOk"}) + 1

LEMMA FrameReadFacts ==
    ASSUME Parts, down # <<>>
    PROVE  FrameRead(Tail(down))
<1> DEFINE d == Tail(down)
<1>1. down \in Seq(DownFrame)
  BY DEF Parts, Typed, FramesTyped
<1>2. /\ d \in Seq(DownFrame) /\ Head(down) = down[1] /\ Head(down) \in DownFrame
      /\ 1 \in DOMAIN down /\ Head(down) \in ToSet(down)
      /\ \A i \in DOMAIN d : i + 1 \in DOMAIN down /\ d[i] = down[i + 1]
      /\ \A i \in DOMAIN down : i = 1 \/ i - 1 \in DOMAIN d
      /\ \A i \in DOMAIN down : i \in Nat /\ i >= 1
      /\ ToSet(down) = {Head(down)} \cup ToSet(d)
  BY <1>1, TailFacts
<1>3. CountOf(down, {"listenOk"})
         = CountOf(d, {"listenOk"}) + IF Head(down).op \in {"listenOk"} THEN 1 ELSE 0
  BY <1>1, CountTail
<1>4. CountOf(d, {"listenOk"}) \in Nat
  BY <1>2, CountFacts
<1> HIDE DEF d
<1>5. \A i \in DOMAIN d : i \in Nat /\ i > 0
  BY <1>2
<1>6. \A i \in DOMAIN down :
         i = 1 \/ (i > 1 /\ i - 1 \in DOMAIN d /\ d[i - 1] = down[i])
  <2> SUFFICES ASSUME NEW i \in DOMAIN down, i # 1
               PROVE  i > 1 /\ i - 1 \in DOMAIN d /\ d[i - 1] = down[i]
    OBVIOUS
  <2>1. i \in Nat /\ i > 1 /\ i - 1 \in DOMAIN d /\ (i - 1) + 1 = i
    BY <1>2
  <2> QED
    BY <2>1, <1>2
<1>7. FrameRead(d)
  BY <1>2, <1>3, <1>4, <1>5, <1>6 DEF FrameRead
<1> QED
  BY <1>7 DEF d

(* What the order of the rest is *)
LEMMA RestInOrder ==
    ASSUME Parts, NEW d, FrameRead(d), NEW j \in DOMAIN d, d[j].op = "data"
    PROVE  /\ Head(down).op \notin {"data", "child"}
           /\ serverCache \subseteq d[j].snap
           /\ \A i \in DOMAIN d : i < j => d[i].op \notin {"data", "child"}
           /\ \E k \in DOMAIN d : j < k /\ d[k].op = "listenOk"
<1>1. j \in Nat /\ j + 1 \in DOMAIN down /\ d[j] = down[j + 1] /\ 1 < j + 1
  BY DEF FrameRead
<1>2. /\ serverCache \subseteq down[j + 1].snap
      /\ \A i \in DOMAIN down : i < j + 1 => down[i].op \notin {"data", "child"}
      /\ \E k \in DOMAIN down : j + 1 < k /\ down[k].op = "listenOk"
  BY <1>1 DEF Parts, NewsInOrder
<1>3. Head(down).op \notin {"data", "child"}
  BY <1>1, <1>2 DEF FrameRead
<1>4. \A i \in DOMAIN d : i < j => d[i].op \notin {"data", "child"}
  <2> SUFFICES ASSUME NEW i \in DOMAIN d, i < j PROVE d[i].op \notin {"data", "child"}
    OBVIOUS
  <2>1. i \in Nat /\ i + 1 \in DOMAIN down /\ d[i] = down[i + 1]
    BY DEF FrameRead
  <2> QED
    BY <2>1, <1>1, <1>2
<1>5. PICK k \in DOMAIN down : j + 1 < k /\ down[k].op = "listenOk"
  BY <1>2
<1>6. k \in Nat /\ k - 1 \in DOMAIN d /\ d[k - 1] = down[k] /\ j < k - 1
  <2>1. k \in Nat /\ (k = 1 \/ (k - 1 \in DOMAIN d /\ d[k - 1] = down[k]))
    BY DEF FrameRead
  <2> QED
    BY <2>1, <1>1, <1>5
<1> QED
  BY <1>1, <1>2, <1>3, <1>4, <1>5, <1>6

(* Why the acknowledgements in the rest are safe *)
LEMMA RestSafe ==
    ASSUME Parts, NEW d, FrameRead(d), NEW k \in DOMAIN d, d[k].op = "putOk"
    PROVE  \/ d[k].key \in serverCache
           \/ Head(down) = ChildUpdate(d[k].key)
           \/ \E j \in DOMAIN d : j < k /\ d[j] = ChildUpdate(d[k].key)
           \/ Head(down).op = "data" /\ d[k].key \in Head(down).snap
           \/ InSnap(d, d[k].key)
           \/ Pending
<1>1. k \in Nat /\ k + 1 \in DOMAIN down /\ d[k] = down[k + 1]
  BY DEF FrameRead
<1>2. \/ d[k].key \in serverCache
      \/ \E j \in DOMAIN down : j < k + 1 /\ down[j] = ChildUpdate(d[k].key)
      \/ InSnap(down, d[k].key)
      \/ Pending
  BY <1>1 DEF Parts, AcksSafe
<1>3. ASSUME NEW j \in DOMAIN down, j < k + 1, down[j] = ChildUpdate(d[k].key)
      PROVE  \/ Head(down) = ChildUpdate(d[k].key)
             \/ \E i \in DOMAIN d : i < k /\ d[i] = ChildUpdate(d[k].key)
  <2>1. j \in Nat /\ (j = 1 \/ (j - 1 \in DOMAIN d /\ d[j - 1] = down[j]))
    BY DEF FrameRead
  <2>2. CASE j = 1
    BY <2>2, <1>3 DEF FrameRead
  <2>3. CASE j # 1
    <3>1. j - 1 < k
      BY <2>1, <1>1, <1>3
    <3> QED
      BY <3>1, <2>1, <2>3, <1>3
  <2> QED
    BY <2>2, <2>3
<1>4. InSnap(down, d[k].key) =>
         \/ Head(down).op = "data" /\ d[k].key \in Head(down).snap
         \/ InSnap(d, d[k].key)
  BY DEF FrameRead, InSnap
<1> QED
  BY <1>2, <1>3, <1>4

LEMMA RestOnce ==
    ASSUME Parts, NEW d, FrameRead(d)
    PROVE  /\ \A j, k \in DOMAIN d : d[j].op = "putOk" /\ d[j] = d[k] => j = k
           /\ Head(down).op = "putOk" => Head(down) \notin ToSet(d)
<1>1. \A j, k \in DOMAIN down : down[j].op = "putOk" /\ down[j] = down[k] => j = k
  BY DEF Parts, PutsOnce
<1>2. ASSUME NEW j \in DOMAIN d, NEW k \in DOMAIN d, d[j].op = "putOk", d[j] = d[k]
      PROVE  j = k
  <2>1. /\ j \in Nat /\ j + 1 \in DOMAIN down /\ d[j] = down[j + 1]
        /\ k \in Nat /\ k + 1 \in DOMAIN down /\ d[k] = down[k + 1]
    BY DEF FrameRead
  <2>2. j + 1 = k + 1
    BY <2>1, <1>1, <1>2
  <2> QED
    BY <2>1, <2>2
<1>3. ASSUME Head(down).op = "putOk", NEW k \in DOMAIN d, d[k] = Head(down)
      PROVE  FALSE
  <2>1. /\ k \in Nat /\ k > 0 /\ k + 1 \in DOMAIN down /\ d[k] = down[k + 1]
        /\ 1 \in DOMAIN down /\ down[1] = Head(down)
    BY DEF FrameRead
  <2>2. k + 1 = 1
    BY <2>1, <1>1, <1>3
  <2> QED
    BY <2>1, <2>2
<1> QED
  BY <1>2, <1>3 DEF ToSet

(* PutsOnce after a frame that is no acknowledgement *)
LEMMA PutsOnceRead ==
    ASSUME Parts, FrameRead(down'), Head(down).op # "putOk",
           UNCHANGED <<up, connected, outstanding>>, ToSet(toAck') \subseteq ToSet(toAck)
    PROVE  PutsOnce'
<1>1. PutsOnce /\ Typed
  BY DEF Parts
<1>2. ToSet(down) = {Head(down)} \cup ToSet(down')
  BY DEF FrameRead
<1>3. \A j, k \in DOMAIN down' : down'[j].op = "putOk" /\ down'[j] = down'[k] => j = k
  BY RestOnce
<1>4. \A m \in Mine : PutOk(m) \in ToSet(down) <=> PutOk(m) \in ToSet(down')
  BY <1>2, DownFrames
<1>5. \A m \in ToSet(outstanding) : m \in Mine
  BY <1>1 DEF Typed, ToSet
<1>6. \A f \in ToSet(up) : f.op = "put" => f.key \in Mine
  BY <1>1, QueueTypes, UpFrames
<1> QED
  BY <1>1, <1>2, <1>3, <1>4, <1>5, <1>6 DEF PutsOnce

LEMMA DataStep ==
    ASSUME Parts, ClientReads, Head(down).op = "data"
    PROVE  Parts' /\ eventCache \subseteq eventCache'
<1> DEFINE snap == Head(down).snap
<1>1. /\ UNCHANGED <<log, waiting, subscribed, up, connected, outstanding, toAck,
                     unackedListens, otherListens, writes, presented>>
      /\ down # <<>> /\ down' = Tail(down)
      /\ serverCache' = snap /\ complete' = TRUE /\ RaiseEvents(snap \cup writes)
  BY DEF ClientReads, ReadDataUpdate, WithWrites, serverVars
<1>2. /\ Typed /\ FramesTyped /\ EventsMerged /\ ServerLeads /\ ListensOnce /\ Counted
      /\ NewsInOrder /\ AcksSafe /\ PutsOnce
  BY DEF Parts, Typed
<1>3. FrameRead(down')
  BY <1>1, FrameReadFacts
<1>4. /\ 1 \in DOMAIN down /\ down[1] = Head(down) /\ Head(down) \in ToSet(down)
      /\ Head(down) \in DownFrame /\ down' \in Seq(DownFrame)
      /\ ToSet(down) = {Head(down)} \cup ToSet(down')
      /\ CountOf(down', {"listenOk"}) = CountOf(down, {"listenOk"})
  BY <1>3 DEF FrameRead
<1>5. /\ snap \in SUBSET Msg /\ snap \subseteq log /\ serverCache \subseteq snap
      /\ Head(down) = DataUpdate(snap)
  BY <1>2, <1>4, DownFrames DEF ServerLeads, NewsInOrder
<1>6. subscribed /\ ~Pending /\ Listening
  BY <1>2, <1>4 DEF NewsInOrder, ListensOnce
<1>7. \A j \in DOMAIN down' : down'[j].op # "data"
  BY <1>3, RestInOrder
<1> HIDE DEF snap
<1>8. /\ eventCache' = snap \cup writes
      /\ screens' \in Seq(Seq(Msg)) /\ Len(screens') = Len(screens)
      /\ \A s \in DOMAIN screens' :
            IsInjective(screens'[s]) /\ ToSet(screens'[s]) = eventCache'
  <2>1. snap \cup writes \in SUBSET Msg
    BY <1>2, <1>5, QueueTypes
  <2>2. eventCache \subseteq snap \cup writes
    BY <1>2, <1>5 DEF EventsMerged
  <2> QED
    BY <2>1, <2>2, <1>1, <1>2, Raised
<1>9. EventsMerged'
  BY <1>1, <1>8 DEF EventsMerged
<1>10. Listening'
  BY <1>6, <1>8 DEF Listening
<1>11. Pending' <=> Pending
  BY <1>1 DEF Pending
<1>12. connected
  BY <1>1, <1>2 DEF FramesTyped
<1>13. Typed'
  <2>1. {connected', subscribed', complete'} \subseteq BOOLEAN
    BY <1>1, <1>2 DEF FramesTyped
  <2>2. FramesTyped'
    BY <1>1, <1>2, <1>4, <1>10, <1>12, <2>1 DEF FramesTyped
  <2>3. eventCache' \subseteq Msg
    BY <1>2, <1>5, <1>8, QueueTypes
  <2> QED
    BY <1>1, <1>2, <1>5, <1>8, <2>2, <2>3 DEF Typed
<1>14. Counted'
  BY <1>1, <1>2, <1>4 DEF Counted
<1>15. ServerLeads'
  BY <1>1, <1>2, <1>4, <1>5 DEF ServerLeads
<1>16. ListensOnce'
  <2>1. \A f \in ToSet(up) \cup waiting : f.op # "listenLog"
    BY <1>6 DEF Pending
  <2> QED
    BY <2>1, <1>1, <1>2, <1>6, <1>10, <1>11 DEF ListensOnce
<1>17. \A m : InSnap(down, m) => m \in snap
  <2> SUFFICES ASSUME NEW m, NEW f \in ToSet(down), f.op = "data", m \in f.snap
               PROVE  m \in snap
    BY DEF InSnap
  <2>1. f = Head(down)
    BY <1>4, <1>7 DEF ToSet
  <2> QED
    BY <2>1 DEF snap
<1>18. NewsInOrder'
  <2>1. \A m \in log : m \in snap \/ ChildUpdate(m) \in ToSet(down')
    <3> SUFFICES ASSUME NEW m \in log, m \notin snap
                 PROVE  ChildUpdate(m) \in ToSet(down')
      OBVIOUS
    <3>1. m \in Msg
      BY <1>2 DEF Typed
    <3>2. ChildUpdate(m) \in ToSet(down)
      BY <1>2, <1>5, <1>6, <1>17 DEF NewsInOrder
    <3>3. ChildUpdate(m) # Head(down)
      BY <3>1, DownFrames
    <3> QED
      BY <3>2, <3>3, <1>4
  <2> QED
    BY <2>1, <1>1, <1>6, <1>7 DEF NewsInOrder
<1>19. AcksSafe'
  <2>1. ASSUME NEW k \in DOMAIN down', down'[k].op = "putOk"
        PROVE  \/ down'[k].key \in serverCache'
               \/ \E j \in DOMAIN down' : j < k /\ down'[j] = ChildUpdate(down'[k].key)
    <3>1. \/ down'[k].key \in serverCache
          \/ Head(down) = ChildUpdate(down'[k].key)
          \/ \E j \in DOMAIN down' : j < k /\ down'[j] = ChildUpdate(down'[k].key)
          \/ Head(down).op = "data" /\ down'[k].key \in Head(down).snap
          \/ InSnap(down', down'[k].key)
          \/ Pending
      BY <1>3, <2>1, RestSafe
    <3>2. Head(down) # ChildUpdate(down'[k].key)
      <4>1. down'[k].key \in Msg
        BY <1>4, <2>1, DownFrames DEF Msg
      <4> QED
        BY <4>1, DownFrames
    <3>3. ~InSnap(down', down'[k].key)
      BY <1>7 DEF InSnap, ToSet
    <3> QED
      BY <3>1, <3>2, <3>3, <1>1, <1>5, <1>6 DEF snap
  <2>2. connected' => \A m \in ToSet(toAck') :
           m \in serverCache' \/ InSnap(down', m) \/ Pending'
    BY <1>1, <1>2, <1>5, <1>6, <1>12, <1>17 DEF AcksSafe
  <2> QED
    BY <2>1, <2>2 DEF AcksSafe
<1>20. PutsOnce'
  BY <1>1, <1>3, PutsOnceRead
<1> QED
  BY <1>2, <1>5, <1>8, <1>9, <1>13, <1>14, <1>15, <1>16, <1>18, <1>19, <1>20
     DEF Parts, EventsMerged

LEMMA ChildStep ==
    ASSUME Parts, ClientReads, Head(down).op = "child"
    PROVE  Parts' /\ eventCache \subseteq eventCache'
<1> DEFINE n == Head(down).key
<1>1. /\ UNCHANGED <<log, waiting, subscribed, up, connected, outstanding, toAck,
                     unackedListens, otherListens, writes, presented, complete>>
      /\ down # <<>> /\ down' = Tail(down)
      /\ serverCache' = serverCache \cup {n} /\ RaiseEvents(AfterServerOverwrite(n))
  BY DEF ClientReads, ReadChildUpdate, serverVars
<1>2. /\ Typed /\ FramesTyped /\ EventsMerged /\ ServerLeads /\ ListensOnce /\ Counted
      /\ NewsInOrder /\ AcksSafe /\ PutsOnce
  BY DEF Parts, Typed
<1>3. FrameRead(down')
  BY <1>1, FrameReadFacts
<1>4. /\ 1 \in DOMAIN down /\ down[1] = Head(down) /\ Head(down) \in ToSet(down)
      /\ Head(down) \in DownFrame /\ down' \in Seq(DownFrame)
      /\ ToSet(down) = {Head(down)} \cup ToSet(down')
      /\ CountOf(down', {"listenOk"}) = CountOf(down, {"listenOk"})
  BY <1>3 DEF FrameRead
<1>5. n \in Msg /\ n \in log /\ Head(down) = ChildUpdate(n)
  BY <1>2, <1>4, DownFrames DEF ServerLeads
<1>6. subscribed /\ ~Pending /\ Listening
  BY <1>2, <1>4 DEF NewsInOrder, ListensOnce
<1>7. \A j \in DOMAIN down' : down'[j].op # "data"
  BY <1>3, RestInOrder
<1> HIDE DEF n
<1>8. AfterServerOverwrite(n) = serverCache \cup {n} \cup writes
  BY <1>2 DEF AfterServerOverwrite, EventsMerged
<1>9. /\ eventCache' = serverCache' \cup writes'
      /\ screens' \in Seq(Seq(Msg)) /\ Len(screens') = Len(screens)
      /\ \A s \in DOMAIN screens' :
            IsInjective(screens'[s]) /\ ToSet(screens'[s]) = eventCache'
  <2>1. AfterServerOverwrite(n) \in SUBSET Msg
    BY <1>2, <1>5, <1>8, QueueTypes DEF Typed
  <2>2. eventCache \subseteq AfterServerOverwrite(n)
    BY <1>2, <1>8 DEF EventsMerged
  <2>3. /\ eventCache' = AfterServerOverwrite(n)
        /\ screens' \in Seq(Seq(Msg)) /\ Len(screens') = Len(screens)
        /\ \A s \in DOMAIN screens' :
              IsInjective(screens'[s]) /\ ToSet(screens'[s]) = eventCache'
    BY <2>1, <2>2, <1>1, <1>2, Raised
  <2>4. eventCache' = serverCache' \cup writes'
    BY <2>3, <1>1, <1>8
  <2> QED
    BY <2>3, <2>4
<1>10. EventsMerged'
  BY <1>9 DEF EventsMerged
<1>11. Listening'
  BY <1>6, <1>9 DEF Listening
<1>12. Pending' <=> Pending
  BY <1>1 DEF Pending
<1>13. connected
  BY <1>1, <1>2 DEF FramesTyped
<1>14. Typed'
  <2>1. {connected', subscribed', complete'} \subseteq BOOLEAN
    BY <1>1, <1>2 DEF FramesTyped
  <2>2. FramesTyped'
    BY <1>1, <1>2, <1>4, <1>11, <1>13, <2>1 DEF FramesTyped
  <2>3. serverCache' \subseteq Msg /\ eventCache' \subseteq Msg
    BY <1>1, <1>2, <1>5, <1>9, QueueTypes DEF Typed
  <2> QED
    BY <1>1, <1>2, <1>9, <2>2, <2>3 DEF Typed
<1>15. Counted'
  BY <1>1, <1>2, <1>4 DEF Counted
<1>16. ServerLeads'
  BY <1>1, <1>2, <1>4, <1>5 DEF ServerLeads
<1>17. ListensOnce'
  <2>1. \A f \in ToSet(up) \cup waiting : f.op # "listenLog"
    BY <1>6 DEF Pending
  <2> QED
    BY <2>1, <1>1, <1>2, <1>6, <1>11, <1>12 DEF ListensOnce
<1>18. \A m : ~InSnap(down, m)
  BY <1>4, <1>7 DEF InSnap, ToSet
<1>19. NewsInOrder'
  <2>1. \A m \in log : m \in serverCache' \/ ChildUpdate(m) \in ToSet(down')
    <3> SUFFICES ASSUME NEW m \in log, m \notin serverCache'
                 PROVE  ChildUpdate(m) \in ToSet(down')
      OBVIOUS
    <3>1. m \in Msg /\ m # n /\ m \notin serverCache
      BY <1>1, <1>2 DEF Typed
    <3>2. ChildUpdate(m) \in ToSet(down)
      BY <3>1, <1>2, <1>6, <1>18 DEF NewsInOrder
    <3>3. ChildUpdate(m) # Head(down)
      BY <3>1, <1>5, DownFrames
    <3> QED
      BY <3>2, <3>3, <1>4
  <2> QED
    BY <2>1, <1>1, <1>6, <1>7 DEF NewsInOrder
<1>20. AcksSafe'
  <2>1. ASSUME NEW k \in DOMAIN down', down'[k].op = "putOk"
        PROVE  \/ down'[k].key \in serverCache'
               \/ \E j \in DOMAIN down' : j < k /\ down'[j] = ChildUpdate(down'[k].key)
    <3>1. \/ down'[k].key \in serverCache
          \/ Head(down) = ChildUpdate(down'[k].key)
          \/ \E j \in DOMAIN down' : j < k /\ down'[j] = ChildUpdate(down'[k].key)
          \/ Head(down).op = "data" /\ down'[k].key \in Head(down).snap
          \/ InSnap(down', down'[k].key)
          \/ Pending
      BY <1>3, <2>1, RestSafe
    <3>2. CASE Head(down) = ChildUpdate(down'[k].key)
      <4>1. down'[k].key \in Msg
        BY <1>4, <2>1, DownFrames DEF Msg
      <4>2. down'[k].key = n
        BY <4>1, <3>2, <1>5, DownFrames
      <4> QED
        BY <4>2, <1>1
    <3>3. ~InSnap(down', down'[k].key)
      BY <1>7 DEF InSnap, ToSet
    <3> QED
      BY <3>1, <3>2, <3>3, <1>1, <1>6
  <2>2. connected' => \A m \in ToSet(toAck') :
           m \in serverCache' \/ InSnap(down', m) \/ Pending'
    BY <1>1, <1>2, <1>6, <1>13, <1>18 DEF AcksSafe
  <2> QED
    BY <2>1, <2>2 DEF AcksSafe
<1>21. PutsOnce'
  BY <1>1, <1>3, PutsOnceRead
<1> QED
  BY <1>1, <1>2, <1>9, <1>10, <1>14, <1>15, <1>16, <1>17, <1>19, <1>20, <1>21
     DEF Parts, EventsMerged

(* The response to a listen, where the acknowledgements held back may go   *)
(* through: all that is acknowledged is in the server cache by then.       *)
LEMMA ListenOkStep ==
    ASSUME Parts, ClientReads, Head(down).op = "listenOk"
    PROVE  Parts' /\ eventCache' = eventCache
<1> DEFINE last == unackedListens = 1
           acked == IF last THEN ToSet(toAck) ELSE {}
<1>1. /\ Typed /\ FramesTyped /\ EventsMerged /\ ServerLeads /\ ListensOnce /\ Counted
      /\ NewsInOrder /\ AcksSafe /\ PutsOnce
  BY DEF Parts, Typed
<1>2. WithWrites(serverCache) = eventCache
  BY <1>1 DEF WithWrites, EventsMerged
<1>3. /\ UNCHANGED <<log, waiting, subscribed, up, connected, outstanding, otherListens,
                     presented, serverCache>>
      /\ down # <<>> /\ down' = Tail(down)
      /\ complete' = (complete \/ Head(down).to = "listenLog")
      /\ unackedListens' = unackedListens - 1
      /\ toAck' = IF last THEN <<>> ELSE toAck
      /\ AckWrites(acked, eventCache, complete')
  BY <1>2 DEF ClientReads, ReadListenOk, serverVars
<1>4. FrameRead(down')
  BY <1>3, FrameReadFacts
<1>5. /\ Head(down) \in DownFrame /\ Head(down) \in ToSet(down) /\ down' \in Seq(DownFrame)
      /\ ToSet(down) = {Head(down)} \cup ToSet(down')
      /\ CountOf(down', {"listenOk"}) \in Nat
      /\ CountOf(down, {"listenOk"}) = CountOf(down', {"listenOk"}) + 1
  BY <1>4 DEF FrameRead
<1>6. connected
  BY <1>1, <1>3 DEF FramesTyped
<1>7. acked \subseteq serverCache
  <2>1. CASE last
    <3>1. ~Pending /\ \A m : ~InSnap(down, m)
      BY <2>1, <1>3, LastCounted
    <3> QED
      BY <3>1, <1>1, <1>6 DEF AcksSafe
  <2>2. CASE ~last
    BY <2>2
  <2> QED
    BY <2>1, <2>2
<1>8. ToSet(toAck') = ToSet(toAck) \ acked /\ toAck' \in Seq(Mine)
  BY <1>1, <1>3 DEF Typed, ToSet
<1>9. acked \subseteq ToSet(toAck)
  OBVIOUS
<1> HIDE DEF acked, last
<1>10. /\ eventCache' = eventCache /\ writes' = writes \ acked
       /\ screens' \in Seq(Seq(Msg)) /\ Len(screens') = Len(screens)
       /\ EventsMerged'
  <2>1. /\ Typed /\ EventsMerged /\ serverCache' = serverCache
        /\ AckWrites(acked, eventCache, complete')
    BY <1>1, <1>3
  <2> QED
    BY <1>7, <2>1, Acked
<1>11. Listening' <=> Listening
  BY <1>10 DEF Listening
<1>12. Pending' <=> Pending
  BY <1>3 DEF Pending
<1>13. Counted' /\ unackedListens' \in Nat
  <2>1. CountOf(up, ListenOps) \in Nat /\ Cardinality(waiting) \in Nat
    BY <1>1, QueueTypes
  <2>2. up' = up /\ waiting' = waiting /\ unackedListens' = unackedListens - 1
    BY <1>3
  <2>3. unackedListens = CountOf(up, ListenOps) + Cardinality(waiting)
                           + CountOf(down, {"listenOk"})
    BY <1>1 DEF Counted
  <2> QED
    BY <1>5, <2>1, <2>2, <2>3 DEF Counted
<1>14. Typed'
  <2>1. {connected', subscribed', complete'} \subseteq BOOLEAN
    BY <1>1, <1>3 DEF FramesTyped
  <2>2. ~Listening' => outstanding' = <<>> /\ toAck' = <<>>
    BY <1>1, <1>3, <1>11 DEF FramesTyped
  <2>3. FramesTyped'
    BY <1>1, <1>3, <1>5, <1>6, <1>11, <1>13, <2>1, <2>2 DEF FramesTyped
  <2>4. writes' = ToSet(outstanding') \cup ToSet(toAck')
    BY <1>1, <1>3, <1>8, <1>9, <1>10 DEF Typed, PutsOnce
  <2> QED
    BY <1>1, <1>3, <1>8, <1>10, <2>3, <2>4 DEF Typed
<1>15. ServerLeads'
  BY <1>1, <1>3, <1>5, <1>8 DEF ServerLeads
<1>16. ListensOnce'
  BY <1>1, <1>3, <1>11, <1>12 DEF ListensOnce
<1>17. \A m : InSnap(down, m) => InSnap(down', m)
  BY <1>5 DEF InSnap
<1>18. NewsInOrder'
  <2>1. \A m \in Msg : ChildUpdate(m) \in ToSet(down) => ChildUpdate(m) \in ToSet(down')
    BY <1>5, DownFrames
  <2>2. ~subscribed => \A f \in ToSet(down') : f.op \notin {"data", "child"}
    BY <1>1, <1>5 DEF NewsInOrder
  <2>3. \A j \in DOMAIN down' : down'[j].op = "data" =>
           /\ serverCache \subseteq down'[j].snap
           /\ \A i \in DOMAIN down' : i < j => down'[i].op \notin {"data", "child"}
           /\ \E k \in DOMAIN down' : j < k /\ down'[k].op = "listenOk"
    BY <1>4, RestInOrder
  <2>4. subscribed => \A m \in log :
           m \in serverCache \/ ChildUpdate(m) \in ToSet(down') \/ InSnap(down', m)
    BY <2>1, <1>1, <1>17 DEF NewsInOrder, Typed
  <2> QED
    BY <2>2, <2>3, <2>4, <1>3 DEF NewsInOrder
<1>19. AcksSafe'
  <2>1. ASSUME NEW k \in DOMAIN down', down'[k].op = "putOk"
        PROVE  \/ down'[k].key \in serverCache
               \/ \E j \in DOMAIN down' : j < k /\ down'[j] = ChildUpdate(down'[k].key)
               \/ InSnap(down', down'[k].key)
               \/ Pending
    <3>1. Head(down) # ChildUpdate(down'[k].key)
      <4>1. down'[k].key \in Msg
        BY <1>5, <2>1, DownFrames DEF Msg
      <4> QED
        BY <4>1, DownFrames
    <3> QED
      BY <3>1, <2>1, <1>4, RestSafe
  <2>2. \A m \in ToSet(toAck') : m \in serverCache \/ InSnap(down', m) \/ Pending
    BY <1>1, <1>6, <1>8, <1>17 DEF AcksSafe
  <2> QED
    BY <2>1, <2>2, <1>3, <1>12 DEF AcksSafe
<1>20. PutsOnce'
  BY <1>3, <1>4, <1>8, PutsOnceRead
<1> QED
  BY <1>10, <1>13, <1>14, <1>15, <1>16, <1>18, <1>19, <1>20 DEF Parts

(* An acknowledgement frees its put, and its write with nothing counted. *)
LEMMA PutOkStep ==
    ASSUME Parts, ClientReads, Head(down).op = "putOk"
    PROVE  Parts' /\ eventCache' = eventCache
<1> DEFINE m == Head(down).key
<1>1. /\ Typed /\ FramesTyped /\ EventsMerged /\ ServerLeads /\ ListensOnce /\ Counted
      /\ NewsInOrder /\ AcksSafe /\ PutsOnce
  BY DEF Parts, Typed
<1>2. /\ UNCHANGED <<log, waiting, subscribed, up, connected, otherListens, presented,
                     serverCache, complete, unackedListens>>
      /\ down # <<>> /\ down' = Tail(down) /\ outstanding' = RemoveFirst(outstanding, m)
      /\ \/ /\ unackedListens = 0
            /\ AckWrites({m}, eventCache, complete)
            /\ toAck' = toAck
         \/ /\ unackedListens # 0
            /\ toAck' = Append(toAck, m)
            /\ UNCHANGED <<writes, eventCache, screens>>
  BY DEF ClientReads, ReadPutOk, serverVars
<1>3. FrameRead(down')
  BY <1>2, FrameReadFacts
<1>4. /\ 1 \in DOMAIN down /\ down[1] = Head(down)
      /\ Head(down) \in DownFrame /\ Head(down) \in ToSet(down) /\ down' \in Seq(DownFrame)
      /\ ToSet(down) = {Head(down)} \cup ToSet(down')
      /\ CountOf(down, {"listenOk"}) = CountOf(down', {"listenOk"})
      /\ \A i \in DOMAIN down : i \in Nat /\ (i = 1 \/ i > 1)
  BY <1>3 DEF FrameRead
<1>5. m \in Mine /\ m \in log /\ m \in ToSet(outstanding) /\ Head(down) = PutOk(m)
  BY <1>1, <1>4, DownFrames DEF ServerLeads, PutsOnce
<1>6. Listening /\ connected
  BY <1>1, <1>2, <1>5 DEF FramesTyped, ToSet
<1>7. /\ m \in serverCache \/ InSnap(down, m) \/ Pending
      /\ m \in Msg
  BY <1>1, <1>4, <1>5 DEF AcksSafe, Msg
<1> HIDE DEF m
<1>8. /\ outstanding' \in Seq(Mine) /\ IsInjective(outstanding')
      /\ ToSet(outstanding') = ToSet(outstanding) \ {m}
  BY <1>1, <1>2, RemoveFacts DEF Typed, PutsOnce
<1>9. m \notin ToSet(toAck)
  BY <1>1, <1>5 DEF PutsOnce
(* What the two cases have in common *)
<1>10. /\ eventCache' = eventCache /\ EventsMerged'
       /\ screens' \in Seq(Seq(Msg)) /\ Len(screens') = Len(screens)
       /\ toAck' \in Seq(Mine) /\ ToSet(toAck') \subseteq ToSet(toAck) \cup {m}
       /\ writes' = ToSet(outstanding') \cup ToSet(toAck')
  <2>1. CASE /\ unackedListens = 0
             /\ AckWrites({m}, eventCache, complete)
             /\ toAck' = toAck
    <3>1. {m} \subseteq serverCache
      BY <1>7, <2>1, NothingCounted
    <3>2. /\ eventCache' = eventCache /\ writes' = writes \ {m}
          /\ screens' \in Seq(Seq(Msg)) /\ Len(screens') = Len(screens)
          /\ EventsMerged'
      BY <3>1, <2>1, <1>1, <1>2, Acked
    <3> QED
      BY <3>2, <2>1, <1>1, <1>8, <1>9 DEF Typed
  <2>2. CASE /\ unackedListens # 0
             /\ toAck' = Append(toAck, m)
             /\ UNCHANGED <<writes, eventCache, screens>>
    <3>1. toAck' \in Seq(Mine) /\ ToSet(toAck') = ToSet(toAck) \cup {m}
      BY <2>2, <1>1, <1>5, AppendFacts DEF Typed
    <3>2. EventsMerged'
      BY <2>2, <1>1, <1>2 DEF EventsMerged
    <3> QED
      BY <3>1, <3>2, <2>2, <1>1, <1>5, <1>8 DEF Typed
  <2> QED
    BY <2>1, <2>2, <1>2
<1>11. Listening'
  BY <1>6, <1>10 DEF Listening
<1>12. Pending' <=> Pending
  BY <1>2 DEF Pending
<1>13. Counted'
  BY <1>1, <1>2, <1>4 DEF Counted
<1>14. Typed'
  <2>1. {connected', subscribed', complete'} \subseteq BOOLEAN
    BY <1>1, <1>2 DEF FramesTyped
  <2>2. FramesTyped'
    BY <1>1, <1>2, <1>4, <1>6, <1>11, <2>1 DEF FramesTyped
  <2> QED
    BY <1>1, <1>2, <1>8, <1>10, <2>2 DEF Typed
<1>15. ServerLeads'
  BY <1>1, <1>2, <1>4, <1>5, <1>10 DEF ServerLeads
<1>16. ListensOnce'
  BY <1>1, <1>2, <1>6, <1>11, <1>12 DEF ListensOnce
<1>17. \A n : InSnap(down, n) => InSnap(down', n)
  BY <1>4 DEF InSnap
<1>18. NewsInOrder'
  <2>1. \A n \in Msg : ChildUpdate(n) \in ToSet(down) => ChildUpdate(n) \in ToSet(down')
    BY <1>4, DownFrames
  <2>2. ~subscribed => \A f \in ToSet(down') : f.op \notin {"data", "child"}
    BY <1>1, <1>4 DEF NewsInOrder
  <2>3. \A j \in DOMAIN down' : down'[j].op = "data" =>
           /\ serverCache \subseteq down'[j].snap
           /\ \A i \in DOMAIN down' : i < j => down'[i].op \notin {"data", "child"}
           /\ \E k \in DOMAIN down' : j < k /\ down'[k].op = "listenOk"
    BY <1>3, RestInOrder
  <2>4. subscribed => \A n \in log :
           n \in serverCache \/ ChildUpdate(n) \in ToSet(down') \/ InSnap(down', n)
    BY <2>1, <1>1, <1>17 DEF NewsInOrder, Typed
  <2> QED
    BY <2>2, <2>3, <2>4, <1>2 DEF NewsInOrder
<1>19. AcksSafe'
  <2>1. ASSUME NEW k \in DOMAIN down', down'[k].op = "putOk"
        PROVE  \/ down'[k].key \in serverCache
               \/ \E j \in DOMAIN down' : j < k /\ down'[j] = ChildUpdate(down'[k].key)
               \/ InSnap(down', down'[k].key)
               \/ Pending
    <3>1. Head(down) # ChildUpdate(down'[k].key)
      <4>1. down'[k].key \in Msg
        BY <1>4, <2>1, DownFrames DEF Msg
      <4> QED
        BY <4>1, DownFrames
    <3> QED
      BY <3>1, <2>1, <1>3, RestSafe
  <2>2. \A n \in ToSet(toAck') : n \in serverCache \/ InSnap(down', n) \/ Pending
    BY <1>1, <1>6, <1>7, <1>10, <1>17 DEF AcksSafe
  <2> QED
    BY <2>1, <2>2, <1>2, <1>12 DEF AcksSafe
<1>20. PutsOnce'
  <2>1. /\ \A j, k \in DOMAIN down' : down'[j].op = "putOk" /\ down'[j] = down'[k] => j = k
        /\ PutOk(m) \notin ToSet(down')
    BY <1>3, <1>5, RestOnce
  <2>2. \A f \in ToSet(up) : f.op = "put" => f.key # m
    BY <1>1, <1>4, <1>5 DEF PutsOnce
  <2>3. \A f \in ToSet(down') : f.op = "putOk" => f.key # m
    <3>1. \A f \in ToSet(down') : f \in DownFrame
      BY <1>4 DEF ToSet
    <3> QED
      BY <3>1, <2>1, DownFrames
  <2>4. ToSet(outstanding') \cap ToSet(toAck') = {}
    BY <1>1, <1>8, <1>10 DEF PutsOnce
  <2>5. \A n \in Mine : n # m => (PutOk(n) \in ToSet(down) <=> PutOk(n) \in ToSet(down'))
    <3>1. \A n \in Mine : n # m => PutOk(n) # Head(down)
      BY <1>5, DownFrames
    <3> QED
      BY <3>1, <1>4
  <2>6. \A n \in ToSet(outstanding) : n \in Mine
    BY <1>1 DEF Typed, ToSet
  <2>7. \A f \in ToSet(up') : f.op = "put" =>
           f.key \in ToSet(outstanding') /\ PutOk(f.key) \notin ToSet(down')
    BY <2>2, <1>1, <1>2, <1>4, <1>8 DEF PutsOnce
  <2>8. \A f \in ToSet(down') : f.op = "putOk" => f.key \in ToSet(outstanding')
    BY <2>3, <1>1, <1>4, <1>8 DEF PutsOnce
  <2>9. connected' => \A n \in ToSet(outstanding') :
           PutMessage(n) \in ToSet(up') \/ PutOk(n) \in ToSet(down')
    BY <2>5, <2>6, <1>1, <1>2, <1>8 DEF PutsOnce
  <2> QED
    BY <2>1, <2>4, <2>7, <2>8, <2>9, <1>8 DEF PutsOnce
<1> QED
  BY <1>10, <1>13, <1>14, <1>15, <1>16, <1>18, <1>19, <1>20 DEF Parts

-----------------------------------------------------------------------------
(* The connection is lost and restored *)

LEMMA EmptyCounts ==
    /\ \A O : CountOf(<<>>, O) = 0
    /\ Cardinality({}) = 0
<1>1. \A O : Ops(<<>>, O) = {}
  BY DEF Ops
<1> QED
  BY <1>1, FS_EmptySet DEF CountOf

(* Nothing under way and nothing counted: what is left is the writes, whose *)
(* puts and withheld acknowledgements the client keeps.                     *)
LEMMA DisconnectStep ==
    ASSUME Parts, OnDisconnect
    PROVE  Parts'
<1>1. /\ UNCHANGED <<log, outstanding, toAck, otherListens, writes, serverCache, complete,
                     eventCache, screens, presented>>
      /\ ~connected' /\ connected' = FALSE /\ subscribed' = FALSE /\ unackedListens' = 0
      /\ up' = <<>> /\ down' = <<>> /\ waiting' = {}
  BY DEF OnDisconnect, viewVars
<1>2. /\ Typed /\ FramesTyped /\ EventsMerged /\ ServerLeads /\ ListensOnce /\ PutsOnce
  BY DEF Parts, Typed
<1>3. up' \in Seq(UpFrame) /\ down' \in Seq(DownFrame) /\ IsFiniteSet(waiting')
  BY <1>1, FS_EmptySet
<1>4. ToSet(up') = {} /\ ToSet(down') = {} /\ DOMAIN down' = {} /\ DOMAIN up' = {}
  BY <1>1 DEF ToSet
<1>5. (Listening' <=> Listening) /\ ~Pending'
  BY <1>1, <1>4 DEF Listening, Pending
<1>6. Typed'
  <2>1. {connected', subscribed', complete'} \subseteq BOOLEAN
    BY <1>1, <1>2 DEF FramesTyped
  <2>2. FramesTyped'
    BY <1>1, <1>2, <1>3, <1>5, <2>1 DEF FramesTyped
  <2> QED
    BY <1>1, <1>2, <2>2 DEF Typed
<1>7. Counted'
  BY <1>1, EmptyCounts DEF Counted
<1>8. EventsMerged' /\ ServerLeads'
  BY <1>1, <1>2, <1>4 DEF EventsMerged, ServerLeads
<1>9. ListensOnce'
  BY <1>1, <1>2, <1>4, <1>5 DEF ListensOnce, IsInjective
<1>10. NewsInOrder' /\ AcksSafe'
  BY <1>1, <1>4 DEF NewsInOrder, AcksSafe
<1>11. PutsOnce'
  BY <1>1, <1>2, <1>4 DEF PutsOnce
<1> QED
  BY <1>6, <1>7, <1>8, <1>9, <1>10, <1>11 DEF Parts

(* Listens, then puts: each listen counts once. *)
LEMMA CountListens ==
    ASSUME NEW s \in Seq(UpFrame), NEW t \in Seq(UpFrame),
           \A i \in DOMAIN s : s[i].op \in ListenOps,
           \A i \in DOMAIN t : t[i].op \notin ListenOps
    PROVE  CountOf(s \o t, ListenOps) = Len(s)
<1>1. /\ Len(s) \in Nat /\ Len(t) \in Nat /\ DOMAIN s = 1..Len(s) /\ DOMAIN t = 1..Len(t)
      /\ DOMAIN (s \o t) = 1..(Len(s) + Len(t))
      /\ \A i \in 1..Len(s) : (s \o t)[i] = s[i]
      /\ \A i \in 1..(Len(s) + Len(t)) :
            i \notin 1..Len(s) => i - Len(s) \in 1..Len(t) /\ (s \o t)[i] = t[i - Len(s)]
  OBVIOUS
<1>2. 1..Len(s) \subseteq 1..(Len(s) + Len(t))
  BY <1>1
<1>3. Ops(s \o t, ListenOps) = 1..Len(s)
  <2>1. \A i \in 1..Len(s) : i \in Ops(s \o t, ListenOps)
    BY <1>1, <1>2 DEF Ops
  <2>2. \A i \in Ops(s \o t, ListenOps) : i \in 1..Len(s)
    BY <1>1 DEF Ops
  <2> QED
    BY <2>1, <2>2
<1>4. Cardinality(1..Len(s)) = Len(s)
  <2>1. Cardinality(1..Len(s)) = IF 1 > Len(s) THEN 0 ELSE Len(s) - 1 + 1
    BY FS_Interval, 1 \in Int, Len(s) \in Int
  <2> QED
    BY <2>1, <1>1
<1> QED
  BY <1>3, <1>4 DEF CountOf

(* What the client sends when it is connected again *)
Restored(frames) ==
    /\ frames \in Seq(UpFrame) /\ IsInjective(frames)
    /\ ToSet(frames) = (IF Listening THEN {ListenLog(serverCache)} ELSE {})
                          \cup {ListenOther(i) : i \in 1..otherListens}
                          \cup {PutMessage(m) : m \in ToSet(outstanding)}
    /\ CountOf(frames, ListenOps) = (IF Listening THEN 1 ELSE 0) + otherListens

LEMMA RestoreFacts ==
    ASSUME Parts, RestoreState
    PROVE  /\ Restored(up')
           /\ unackedListens' = unackedListens + (IF Listening THEN 1 ELSE 0) + otherListens
<1> DEFINE log1 == ListenLog(serverCache)
           mine == IF Listening THEN <<log1>> ELSE <<>>
           others == [i \in 1..otherListens |-> ListenOther(i)]
           puts == [i \in 1..Len(outstanding) |-> PutMessage(outstanding[i])]
<1>1. /\ serverCache \in SUBSET Msg /\ otherListens \in Nat /\ outstanding \in Seq(Mine)
      /\ IsInjective(outstanding) /\ unackedListens \in Nat
  BY DEF Parts, Typed, FramesTyped, PutsOnce
<1>2. /\ up' \in {mine \o others \o puts, others \o mine \o puts}
      /\ unackedListens' = unackedListens + Len(mine) + otherListens
  BY DEF RestoreState
<1>3. log1 \in UpFrame /\ log1.op = "listenLog"
  BY <1>1, UpFrames
<1> HIDE DEF log1
<1>4. /\ mine \in Seq(UpFrame) /\ IsInjective(mine)
      /\ ToSet(mine) = (IF Listening THEN {log1} ELSE {})
      /\ Len(mine) = (IF Listening THEN 1 ELSE 0)
      /\ \A f \in ToSet(mine) : f.op = "listenLog"
  <2>1. CASE Listening
    BY <2>1, <1>3 DEF ToSet, IsInjective
  <2>2. CASE ~Listening
    BY <2>2 DEF ToSet, IsInjective
  <2> QED
    BY <2>1, <2>2
<1>5. /\ others \in Seq(UpFrame) /\ Len(others) = otherListens /\ IsInjective(others)
      /\ ToSet(others) = {ListenOther(i) : i \in 1..otherListens}
      /\ \A f \in ToSet(others) : f.op = "listenOther"
  <2>1. \A i \in 1..otherListens : i \in Nat
    BY <1>1
  <2>2. others \in [1..otherListens -> UpFrame]
    BY <2>1, UpFrames
  <2>3. others \in Seq(UpFrame) /\ Len(others) = otherListens
    BY <2>2, <1>1, FunctionSeq
  <2>4. ToSet(others) = {ListenOther(i) : i \in 1..otherListens}
    BY DEF ToSet
  <2>5. IsInjective(others)
    BY <2>1, UpFrames DEF IsInjective
  <2>6. \A i \in 1..otherListens : ListenOther(i).op = "listenOther"
    BY <2>1, UpFrames
  <2>7. \A f \in ToSet(others) : f.op = "listenOther"
    BY <2>4, <2>6
  <2> QED
    BY <2>3, <2>4, <2>5, <2>7
<1>6. /\ puts \in Seq(UpFrame) /\ IsInjective(puts)
      /\ ToSet(puts) = {PutMessage(m) : m \in ToSet(outstanding)}
      /\ \A f \in ToSet(puts) : f.op = "put"
  <2>1. /\ Len(outstanding) \in Nat /\ DOMAIN outstanding = 1..Len(outstanding)
        /\ \A i \in 1..Len(outstanding) : outstanding[i] \in Mine
    BY <1>1
  <2>2. puts \in [1..Len(outstanding) -> UpFrame]
    BY <2>1, UpFrames
  <2>3. puts \in Seq(UpFrame)
    BY <2>1, <2>2, FunctionSeq
  <2>4. ToSet(puts) = {PutMessage(m) : m \in ToSet(outstanding)}
    BY <2>1 DEF ToSet
  <2>5. IsInjective(puts)
    <3> SUFFICES ASSUME NEW i \in DOMAIN puts, NEW j \in DOMAIN puts, puts[i] = puts[j]
                 PROVE  i = j
      BY DEF IsInjective
    <3>1. PutMessage(outstanding[i]) = PutMessage(outstanding[j])
      OBVIOUS
    <3>2. outstanding[i] = outstanding[j]
      BY <3>1, <2>1, UpFrames
    <3> QED
      BY <3>2, <2>1, <1>1 DEF IsInjective
  <2>6. \A m \in ToSet(outstanding) : m \in Mine
    BY <2>1 DEF ToSet
  <2> QED
    BY <2>3, <2>4, <2>5, <2>6, UpFrames
<1> HIDE DEF mine, others, puts
<1>7. PICK listens \in {mine \o others, others \o mine} : up' = listens \o puts
  BY <1>2
<1>8. /\ ToSet(mine) \cap ToSet(others) = {}
      /\ mine \in Seq(UpFrame) /\ IsInjective(mine) /\ Len(mine) \in Nat
      /\ others \in Seq(UpFrame) /\ IsInjective(others)
      /\ Len(others) = otherListens /\ otherListens \in Nat
  <2>1. \A f \in ToSet(mine) : f \notin ToSet(others)
    BY <1>4, <1>5
  <2> QED
    BY <2>1, <1>1, <1>4, <1>5
<1>9. /\ listens \in Seq(UpFrame) /\ IsInjective(listens)
      /\ ToSet(listens) = ToSet(mine) \cup ToSet(others)
      /\ Len(listens) = Len(mine) + otherListens
  <2>1. ASSUME NEW s \in Seq(UpFrame), NEW t \in Seq(UpFrame),
               IsInjective(s), IsInjective(t), ToSet(s) \cap ToSet(t) = {}
        PROVE  \A u \in {s \o t, t \o s} :
                  /\ u \in Seq(UpFrame) /\ IsInjective(u)
                  /\ ToSet(u) = ToSet(s) \cup ToSet(t) /\ Len(u) = Len(s) + Len(t)
    <3>1. /\ s \o t \in Seq(UpFrame) /\ IsInjective(s \o t)
          /\ ToSet(s \o t) = ToSet(s) \cup ToSet(t) /\ Len(s \o t) = Len(s) + Len(t)
      BY <2>1, ConcatFacts
    <3>2. /\ t \o s \in Seq(UpFrame) /\ IsInjective(t \o s)
          /\ ToSet(t \o s) = ToSet(s) \cup ToSet(t) /\ Len(t \o s) = Len(s) + Len(t)
      BY <2>1, ConcatSwapped
    <3> QED
      BY <3>1, <3>2, Zenon
  <2>2. /\ mine \in Seq(UpFrame) /\ IsInjective(mine)
        /\ others \in Seq(UpFrame) /\ IsInjective(others)
        /\ ToSet(mine) \cap ToSet(others) = {}
    BY <1>8
  <2>3. /\ listens \in Seq(UpFrame) /\ IsInjective(listens)
        /\ ToSet(listens) = ToSet(mine) \cup ToSet(others)
        /\ Len(listens) = Len(mine) + Len(others)
    BY <2>1, <2>2, Zenon
  <2> QED
    BY <1>8, <2>3
<1>10. ToSet(listens) \cap ToSet(puts) = {}
  BY <1>4, <1>5, <1>6, <1>9
<1>11. /\ up' \in Seq(UpFrame) /\ IsInjective(up')
       /\ ToSet(up') = ToSet(listens) \cup ToSet(puts)
  BY <1>6, <1>7, <1>9, <1>10, ConcatFacts
<1>12. CountOf(up', ListenOps) = Len(listens)
  <2>1. \A i \in DOMAIN listens : listens[i].op \in ListenOps
    BY <1>4, <1>5, <1>9 DEF ToSet, ListenOps
  <2>2. \A i \in DOMAIN puts : puts[i].op \notin ListenOps
    BY <1>6 DEF ToSet, ListenOps
  <2> QED
    BY <2>1, <2>2, <1>6, <1>7, <1>9, CountListens
<1>13. CountOf(up', ListenOps) = (IF Listening THEN 1 ELSE 0) + otherListens
  BY <1>4, <1>9, <1>12
<1>14. ToSet(up') = (IF Listening THEN {log1} ELSE {})
                      \cup {ListenOther(i) : i \in 1..otherListens}
                      \cup {PutMessage(m) : m \in ToSet(outstanding)}
  BY <1>4, <1>5, <1>6, <1>9, <1>11
<1>15. Restored(up')
  BY <1>11, <1>13, <1>14 DEF Restored, log1
<1>16. unackedListens' = unackedListens + (IF Listening THEN 1 ELSE 0) + otherListens
  BY <1>2, <1>4
<1> QED
  BY <1>15, <1>16

LEMMA RestoreStep ==
    ASSUME Parts, RestoreState
    PROVE  Parts'
<1>1. /\ UNCHANGED <<log, waiting, subscribed, down, outstanding, toAck, otherListens,
                     writes, serverCache, complete, eventCache, screens, presented>>
      /\ ~connected /\ connected' = TRUE
  BY DEF RestoreState, serverVars, viewVars
<1>2. /\ Typed /\ FramesTyped /\ EventsMerged /\ ServerLeads /\ ListensOnce /\ Counted
      /\ PutsOnce
  BY DEF Parts, Typed
<1>3. up = <<>> /\ down = <<>> /\ waiting = {} /\ ~subscribed
  BY <1>1, <1>2 DEF FramesTyped
<1>4. unackedListens = 0
  BY <1>2, <1>3, EmptyCounts DEF Counted
<1>5. /\ Restored(up')
      /\ unackedListens' = unackedListens + (IF Listening THEN 1 ELSE 0) + otherListens
  BY RestoreFacts
<1>6. /\ serverCache \in SUBSET Msg /\ otherListens \in Nat /\ outstanding \in Seq(Mine)
      /\ \A m \in ToSet(outstanding) : m \in Mine
      /\ \A i \in 1..otherListens : i \in Nat
  BY <1>2 DEF Typed, FramesTyped, ToSet
<1>7. /\ unackedListens' \in Nat /\ unackedListens' = CountOf(up', ListenOps)
      /\ up' \in Seq(UpFrame) /\ IsInjective(up')
  BY <1>4, <1>5, <1>6 DEF Restored
<1>8. \A f \in ToSet(up') :
         \/ Listening /\ f.op = "listenLog" /\ f.hash = serverCache
         \/ f.op = "listenOther" /\ f.no \in 1..otherListens
         \/ f.op = "put" /\ f.key \in ToSet(outstanding)
  BY <1>5, <1>6, UpFrames DEF Restored
<1>9. Listening' <=> Listening
  BY <1>1 DEF Listening
<1>10. Pending' <=> Listening
  <2>1. Listening => ListenLog(serverCache) \in ToSet(up')
                       /\ ListenLog(serverCache).op = "listenLog"
    BY <1>5, <1>6, UpFrames DEF Restored
  <2> QED
    BY <2>1, <1>1, <1>3, <1>8 DEF Pending
<1>11. Typed'
  <2>1. {connected', subscribed', complete'} \subseteq BOOLEAN
    BY <1>1, <1>2 DEF FramesTyped
  <2>2. FramesTyped'
    BY <1>1, <1>2, <1>7, <1>9, <2>1 DEF FramesTyped
  <2> QED
    BY <1>1, <1>2, <2>2 DEF Typed
<1>12. Counted'
  <2>1. Cardinality(waiting') = 0 /\ CountOf(down', {"listenOk"}) = 0
    BY <1>1, <1>3, EmptyCounts
  <2> QED
    BY <2>1, <1>7 DEF Counted
<1>13. ToSet(down') = {} /\ DOMAIN down' = {}
  BY <1>1, <1>3 DEF ToSet
<1>14. EventsMerged' /\ ServerLeads'
  BY <1>1, <1>2, <1>13 DEF EventsMerged, ServerLeads
<1>15. ListensOnce'
  BY <1>1, <1>3, <1>7, <1>8, <1>9, <1>10 DEF ListensOnce
<1>16. NewsInOrder'
  BY <1>1, <1>3, <1>13 DEF NewsInOrder
<1>17. AcksSafe'
  <2>1. Listening \/ toAck' = <<>>
    BY <1>1, <1>2 DEF FramesTyped
  <2> QED
    BY <2>1, <1>10, <1>13 DEF AcksSafe, ToSet
<1>18. PutsOnce'
  <2>1. \A m \in ToSet(outstanding) : PutMessage(m) \in ToSet(up')
    BY <1>5 DEF Restored
  <2> QED
    BY <2>1, <1>1, <1>2, <1>8, <1>13 DEF PutsOnce
<1> QED
  BY <1>11, <1>12, <1>14, <1>15, <1>16, <1>17, <1>18 DEF Parts

-----------------------------------------------------------------------------
(* The theorems *)

LEMMA ReadStep ==
    ASSUME Parts, ClientReads
    PROVE  Parts' /\ eventCache \subseteq eventCache'
<1>1. Head(down).op \in {"data", "child", "listenOk", "putOk"}
  BY DEF ClientReads
<1> QED
  BY <1>1, DataStep, ChildStep, ListenOkStep, PutOkStep

LEMMA NextInv ==
    ASSUME ScreenInv, [Next]_vars
    PROVE  ScreenInv'
<1>1. Parts
  BY InvIsParts
<1>2. CASE OpenScreen
  BY <1>1, <1>2, OpenStep, InvIsParts
<1>3. CASE CloseScreen
  BY <1>1, <1>3, CloseStep, InvIsParts
<1>4. CASE \E m \in Mine : SendButtonTapped(m)
  BY <1>1, <1>4, SendStep, InvIsParts
<1>5. CASE ListenElsewhere
  BY <1>1, <1>5, ElsewhereStep, InvIsParts
<1>6. CASE \E m \in Theirs : FriendSends(m)
  BY <1>1, <1>6, FriendStep, InvIsParts
<1>7. CASE ServerReads
  <2>1. up # <<>>
    BY <1>7 DEF ServerReads
  <2>2. CASE Head(up).op = "put"
    BY <1>1, <1>7, <2>1, <2>2, PutTakenStep, InvIsParts
  <2>3. CASE Head(up).op # "put"
    BY <1>1, <1>7, <2>1, <2>3, ListenTakenStep, InvIsParts
  <2> QED
    BY <2>2, <2>3
<1>8. CASE ServerAnswers
  BY <1>1, <1>8, AnswerStep, InvIsParts
<1>9. CASE ClientReads
  BY <1>1, <1>9, ReadStep, InvIsParts
<1>10. CASE OnDisconnect
  BY <1>1, <1>10, DisconnectStep, InvIsParts
<1>11. CASE RestoreState
  BY <1>1, <1>11, RestoreStep, InvIsParts
<1>12. CASE UNCHANGED vars
  BY <1>1, <1>12, CloseStep, InvIsParts
<1> QED
  BY <1>2, <1>3, <1>4, <1>5, <1>6, <1>7, <1>8, <1>9, <1>10, <1>11, <1>12 DEF Next

(* What the client has is what the server told it with the pending writes  *)
(* on top, every screen shows just that, and no acknowledgement can take a *)
(* write off before its message is in the server cache.                    *)
THEOREM ScreenInvariance == Spec => []ScreenInv
<1> QED
  BY InitInv, NextInv, PTL DEF Spec

(* The client's bookkeeping fits together in every reachable state: the    *)
(* write tree holds exactly the writes whose put is kept or whose          *)
(* acknowledgement is held back, and unackedListensCount counts the        *)
(* listens that have no response.                                          *)
THEOREM ScreenTypes == Spec => []TypeOK
<1>1. ScreenInv => TypeOK
  BY DEF ScreenInv
<1> QED
  BY <1>1, ScreenInvariance, PTL

(* No screen, presented or dismissed, ever shows a message twice, although *)
(* the childAdded closure appends blindly and puts are sent again after    *)
(* every lost connection.                                                  *)
THEOREM OneBubblePerMessage == Spec => []NoDuplicateBubbles
<1>1. ScreenInv => NoDuplicateBubbles
  BY DEF ScreenInv, EventsMerged, NoDuplicateBubbles
<1> QED
  BY <1>1, ScreenInvariance, PTL

(* A message of mine is on every screen of the conversation for as long as *)
(* its write is pending.                                                   *)
THEOREM OwnMessagesStay == Spec => []OwnMessagesShown
<1>1. ScreenInv => OwnMessagesShown
  BY DEF ScreenInv, EventsMerged, OwnMessagesShown
<1> QED
  BY <1>1, ScreenInvariance, PTL

(* With nothing under way there is nothing pending either, and the server  *)
(* cache is what the server stores.                                        *)
LEMMA RestShowsLog == ScreenInv => ScreensShowLogAtRest
<1> SUFFICES ASSUME Parts, AtRest, NEW s \in DOMAIN screens
             PROVE  ToSet(screens[s]) = log
  BY InvIsParts DEF ScreensShowLogAtRest
<1>1. /\ Typed /\ FramesTyped /\ EventsMerged /\ ServerLeads /\ ListensOnce
      /\ NewsInOrder /\ AcksSafe /\ PutsOnce
  BY DEF Parts, Typed
<1>2. /\ connected /\ ToSet(up) = {} /\ ToSet(down) = {} /\ waiting = {}
  BY DEF AtRest, ToSet
<1>3. Listening
  BY <1>1 DEF Listening, Typed
<1>4. ~Pending /\ subscribed /\ \A m : ~InSnap(down, m)
  BY <1>1, <1>2, <1>3 DEF Pending, ListensOnce, InSnap
<1>5. ToSet(outstanding) = {} /\ ToSet(toAck) \subseteq serverCache
  BY <1>1, <1>2, <1>4 DEF PutsOnce, AcksSafe
<1>6. log \subseteq serverCache
  BY <1>1, <1>2, <1>4 DEF NewsInOrder
<1>7. writes \subseteq serverCache /\ serverCache = log
  BY <1>1, <1>5, <1>6 DEF Typed, ServerLeads
<1> QED
  BY <1>1, <1>7 DEF EventsMerged

(* With nothing under way every screen, whenever it was opened, shows      *)
(* exactly the messages the server stores at the node.                     *)
THEOREM ScreensAgreeWithServer == Spec => []ScreensShowLogAtRest
<1> QED
  BY RestShowsLog, ScreenInvariance, PTL

(* Only what the client reads and what I send change the event cache.      *)
LEMMA NothingRetracted ==
    ASSUME ScreenInv, [Next]_vars
    PROVE  eventCache \subseteq eventCache'
<1>1. Parts
  BY InvIsParts
<1>2. CASE ClientReads
  BY <1>1, <1>2, ReadStep
<1>3. CASE \E m \in Mine : SendButtonTapped(m)
  BY <1>3 DEF SendButtonTapped, RaiseEvents
<1>4. CASE \/ CloseScreen \/ ListenElsewhere \/ ServerReads \/ ServerAnswers
           \/ (\E m \in Theirs : FriendSends(m))
           \/ OnDisconnect \/ RestoreState \/ UNCHANGED vars
  BY <1>4 DEF CloseScreen, ListenElsewhere, ServerReads, ServerAnswers, FriendSends,
              OnDisconnect, RestoreState, viewVars, vars
<1>5. CASE OpenScreen
  BY <1>5 DEF OpenScreen
<1> QED
  BY <1>2, <1>3, <1>4, <1>5 DEF Next

(* What an observer was told of is never taken back by the client: an      *)
(* acknowledgement that came before the message itself would do that, and  *)
(* the screen would then get the message a second time.                    *)
THEOREM NothingTakenBack == Spec => NeverRetracted
<1>1. ScreenInv /\ [Next]_vars => [eventCache \subseteq eventCache']_vars
  BY NothingRetracted
<1> QED
  BY <1>1, ScreenInvariance, PTL DEF Spec, NeverRetracted
=============================================================================
