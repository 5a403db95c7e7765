------------------------- MODULE FriendLookupProofs -------------------------
(***************************************************************************)
(* Theorems about FriendLookup, for any ids, accounts and bounds.          *)
(*                                                                         *)
(* A conversation that there was when it was asked for is one the client   *)
(* finds whenever it is told of that entry, for entries are never removed; *)
(* so no call for such a closure writes the placeholder.                   *)
(***************************************************************************)
EXTENDS FriendLookup, SequenceFacts

Box == {"none", "placeholder", "message"}
Creation == [pair : Pair, existed : BOOLEAN]
Event == [at : {"users", "chatbox"}, closure : Nat, value : BOOLEAN]

Typed ==
    /\ user \in Account
    /\ registered \in SUBSET Id
    /\ known \in SUBSET Id
    /\ told \in SUBSET Account
    /\ lookups \in Seq(Id)
    /\ asked \in SUBSET Id
    /\ switches \in Nat /\ received \in Nat

BoxTyped == chatbox \in [Pair -> Box]

CreationsTyped == creations \in Seq(Creation)

EventsTyped == events \in Seq(Event)

(* A call is for a closure that was registered, at a place whose value the *)
(* client has; and one for a conversation that there was has found it.     *)
ForLookup(e) ==
    /\ e.at = "users" /\ e.closure \in DOMAIN lookups
    /\ lookups[e.closure] \in known

ForCreation(e) ==
    /\ e.at = "chatbox" /\ e.closure \in DOMAIN creations
    /\ creations[e.closure].pair[1] \in told
    /\ creations[e.closure].existed => e.value = TRUE

Meant(e) == ForLookup(e) \/ ForCreation(e)

EventsMeant == \A e \in ToSet(events) : Meant(e)

(* The conversations that there were are still there. *)
OldOnesThere == \A i \in DOMAIN creations :
                    creations[i].existed => chatbox[creations[i].pair] # "none"

LookupInv ==
    /\ Typed /\ BoxTyped /\ CreationsTyped /\ EventsTyped
    /\ EventsMeant /\ OldOnesThere

-----------------------------------------------------------------------------
(* The calls that an event raises *)

LEMMA RecordEventsFacts ==
    ASSUME lookups \in Seq(Id), NEW id \in Id, NEW v \in BOOLEAN
    PROVE  /\ RecordEvents(id, v) \in Seq(Event)
           /\ \A e \in ToSet(RecordEvents(id, v)) :
                 /\ e.at = "users" /\ e.closure \in DOMAIN lookups
                 /\ lookups[e.closure] = id
<1> DEFINE F == {i \in DOMAIN lookups : lookups[i] = id}
           own == InOrder(F)
           r == RecordEvents(id, v)
<1>1. Len(lookups) \in Nat /\ F \in SUBSET (1..Len(lookups))
  OBVIOUS
<1>2. own \in Seq(F)
  BY <1>1, InOrderFacts
<1>3. r = [k \in DOMAIN own |-> [at |-> "users", closure |-> own[k], value |-> v]]
  BY DEF RecordEvents
<1>4. \A i \in F : i \in DOMAIN lookups /\ lookups[i] = id /\ i \in Nat
  BY <1>1
<1> HIDE DEF F, own, r
<1>5. /\ Len(own) \in Nat /\ DOMAIN own = 1..Len(own)
      /\ \A k \in 1..Len(own) : own[k] \in F
  BY <1>2
<1>6. r \in [1..Len(own) -> Event]
  BY <1>3, <1>4, <1>5 DEF Event
<1>7. r \in Seq(Event)
  BY <1>5, <1>6, FunctionSeq
<1>8. \A k \in DOMAIN r : /\ r[k].at = "users" /\ r[k].closure \in DOMAIN lookups
                          /\ lookups[r[k].closure] = id
  BY <1>3, <1>4, <1>5
<1>9. QED
  BY <1>7, <1>8 DEF r, ToSet

LEMMA EntryEventsFacts ==
    ASSUME creations \in Seq(Creation), NEW pairs, NEW box
    PROVE  /\ EntryEvents(pairs, box) \in Seq(Event)
           /\ \A e \in ToSet(EntryEvents(pairs, box)) :
                 /\ e.at = "chatbox" /\ e.closure \in DOMAIN creations
                 /\ creations[e.closure].pair \in pairs
                 /\ e.value = (box[creations[e.closure].pair] # "none")
<1> DEFINE F == {i \in DOMAIN creations : creations[i].pair \in pairs}
           own == InOrder(F)
           found(i) == box[creations[i].pair] # "none"
           r == EntryEvents(pairs, box)
<1>1. Len(creations) \in Nat /\ F \in SUBSET (1..Len(creations))
  OBVIOUS
<1>2. own \in Seq(F)
  BY <1>1, InOrderFacts
<1>3. r = [k \in DOMAIN own |->
              [at |-> "chatbox", closure |-> own[k], value |-> found(own[k])]]
  BY DEF EntryEvents
<1>4. \A i \in F : i \in DOMAIN creations /\ creations[i].pair \in pairs /\ i \in Nat
  BY <1>1
<1>5. \A i : found(i) \in BOOLEAN
  OBVIOUS
<1> HIDE DEF F, own, r, found
<1>6. /\ Len(own) \in Nat /\ DOMAIN own = 1..Len(own)
      /\ \A k \in 1..Len(own) : own[k] \in F
  BY <1>2
<1>7. r \in [1..Len(own) -> Event]
  BY <1>3, <1>4, <1>5, <1>6 DEF Event
<1>8. r \in Seq(Event)
  BY <1>6, <1>7, FunctionSeq
<1>9. \A k \in DOMAIN r : /\ r[k].at = "chatbox" /\ r[k].closure \in DOMAIN creations
                          /\ creations[r[k].closure].pair \in pairs
                          /\ r[k].value = found(r[k].closure)
  BY <1>3, <1>4, <1>6
<1>10. QED
  BY <1>8, <1>9 DEF r, ToSet, found

-----------------------------------------------------------------------------
(* The main queue *)

(* Closures stay registered, and the client keeps what it has. *)
NothingForgotten ==
    /\ \A i \in DOMAIN lookups : i \in DOMAIN lookups' /\ lookups'[i] = lookups[i]
    /\ \A i \in DOMAIN creations : i \in DOMAIN creations' /\ creations'[i] = creations[i]
    /\ known \subseteq known' /\ told \subseteq told'

LEMMA MeantStays ==
    ASSUME NothingForgotten, NEW e, Meant(e)
    PROVE  Meant(e)'
BY DEF NothingForgotten, Meant, ForLookup, ForCreation

LEMMA RestFacts ==
    ASSUME NEW S, NEW s \in Seq(S),
           NEW r, \/ r = s
                  \/ s # <<>> /\ r = Tail(s)
    PROVE  r \in Seq(S) /\ ToSet(r) \subseteq ToSet(s)
<1>1. CASE r = s
  BY <1>1
<1>2. CASE s # <<>> /\ r = Tail(s)
  <2>1. Tail(s) \in Seq(S) /\ ToSet(s) = {Head(s)} \cup ToSet(Tail(s))
    BY <1>2, TailFacts
  <2>2. QED
    BY <2>1, <1>2
<1>3. QED
  BY <1>1, <1>2

(* What is left of the queue by a step, and calls behind it *)
LEMMA QueuedMore ==
    ASSUME EventsTyped, EventsMeant, NothingForgotten,
           NEW rest, \/ rest = events
                     \/ events # <<>> /\ rest = Tail(events),
           NEW new \in Seq(Event), \A e \in ToSet(new) : Meant(e)',
           events' = rest \o new
    PROVE  EventsTyped' /\ EventsMeant'
<1>1. rest \in Seq(Event) /\ ToSet(rest) \subseteq ToSet(events)
  BY RestFacts DEF EventsTyped
<1>2. rest \o new \in Seq(Event) /\ ToSet(rest \o new) = ToSet(rest) \cup ToSet(new)
  BY <1>1, ConcatFacts
<1>3. \A e \in ToSet(rest) : Meant(e)'
  BY <1>1, MeantStays DEF EventsMeant
<1>4. QED
  BY <1>2, <1>3 DEF EventsTyped, EventsMeant

LEMMA QueuedOne ==
    ASSUME EventsTyped, EventsMeant, NothingForgotten,
           NEW rest, \/ rest = events
                     \/ events # <<>> /\ rest = Tail(events),
           NEW new \in Event, Meant(new)',
           events' = Append(rest, new)
    PROVE  EventsTyped' /\ EventsMeant'
<1>1. rest \in Seq(Event) /\ ToSet(rest) \subseteq ToSet(events)
  BY RestFacts DEF EventsTyped
<1>2. Append(rest, new) \in Seq(Event) /\ ToSet(Append(rest, new)) = ToSet(rest) \cup {new}
  BY <1>1, AppendFacts
<1>3. \A e \in ToSet(rest) : Meant(e)'
  BY <1>1, MeantStays DEF EventsMeant
<1>4. QED
  BY <1>2, <1>3 DEF EventsTyped, EventsMeant

LEMMA QueuedNone ==
    ASSUME EventsTyped, EventsMeant, NothingForgotten,
           \/ events' = events
           \/ events # <<>> /\ events' = Tail(events)
    PROVE  EventsTyped' /\ EventsMeant'
<1>1. events' \in Seq(Event) /\ ToSet(events') \subseteq ToSet(events)
  BY RestFacts DEF EventsTyped
<1>2. \A e \in ToSet(events') : Meant(e)'
  BY <1>1, MeantStays DEF EventsMeant
<1>3. QED
  BY <1>1, <1>2 DEF EventsTyped, EventsMeant

(* Entries are changed, never removed. *)
LEMMA BoxStays ==
    ASSUME BoxTyped, CreationsTyped, OldOnesThere, NEW pair \in Pair,
           NEW new \in {"placeholder", "message"},
           chatbox' = [chatbox EXCEPT ![pair] = new], UNCHANGED creations
    PROVE  BoxTyped' /\ CreationsTyped' /\ OldOnesThere'
<1>1. \A i \in DOMAIN creations : creations[i].pair \in Pair
  <2>1. \A i \in DOMAIN creations : creations[i] \in Creation
    BY DEF CreationsTyped
  <2>2. QED
    BY <2>1 DEF Creation
<1>2. \A p \in Pair : chatbox[p] # "none" => chatbox'[p] # "none"
  BY DEF BoxTyped
<1>3. BoxTyped'
  BY DEF BoxTyped, Box
<1>4. OldOnesThere'
  BY <1>1, <1>2 DEF OldOnesThere
<1>5. QED
  BY <1>3, <1>4 DEF CreationsTyped

LEMMA NoneForgotten ==
    ASSUME UNCHANGED <<lookups, creations>>, known \subseteq known', told \subseteq told'
    PROVE  NothingForgotten
BY DEF NothingForgotten

-----------------------------------------------------------------------------
(* Init, and every action *)

LEMMA LookupInit == Init => LookupInv
<1> SUFFICES ASSUME Init PROVE LookupInv
  OBVIOUS
<1>1. /\ lookups = <<>> /\ creations = <<>> /\ events = <<>>
      /\ DOMAIN <<>> = {} /\ \A S : <<>> \in Seq(S)
  BY DEF Init
<1>2. Typed
  BY <1>1 DEF Init, Typed
<1>3. BoxTyped
  BY DEF Init, BoxTyped, Box
<1>4. CreationsTyped /\ EventsTyped
  BY <1>1 DEF CreationsTyped, EventsTyped
<1>5. EventsMeant /\ OldOnesThere
  BY <1>1 DEF EventsMeant, OldOnesThere, ToSet
<1>6. QED
  BY <1>2, <1>3, <1>4, <1>5 DEF LookupInv

LEMMA LookupConfirm ==
    ASSUME LookupInv, NEW id \in Id, Confirm(id)
    PROVE  LookupInv'
<1>1. UNCHANGED <<user, registered, known, chatbox, told, creations, switches, received>>
  BY DEF Confirm
<1>2. lookups' = Append(lookups, id) /\ lookups \in Seq(Id)
  BY DEF Confirm, LookupInv, Typed
<1>3. /\ lookups' \in Seq(Id) /\ Len(lookups') \in Nat
      /\ Len(lookups') \in DOMAIN lookups' /\ lookups'[Len(lookups')] = id
      /\ \A i \in DOMAIN lookups : i \in DOMAIN lookups' /\ lookups'[i] = lookups[i]
  BY <1>2
<1>4. NothingForgotten
  BY <1>1, <1>3 DEF NothingForgotten
<1>5. asked' \in SUBSET Id
  BY DEF Confirm, LookupInv, Typed
<1>6. Typed'
  BY <1>1, <1>3, <1>5 DEF LookupInv, Typed
<1>7. EventsTyped' /\ EventsMeant'
  <2>1. CASE id \in known
    <3>1. PICK new : new = [at |-> "users", closure |-> Len(lookups'),
                            value |-> id \in registered]
      OBVIOUS
    <3>2. new \in Event
      BY <3>1, <1>3 DEF Event
    <3>3. new.at = "users" /\ new.closure = Len(lookups')
      BY <3>1
    <3>4. events' = Append(events, new)
      BY <3>1, <2>1 DEF Confirm
    <3>5. Meant(new)'
      BY <2>1, <3>3, <1>1, <1>3 DEF Meant, ForLookup
    <3>6. QED
      BY <3>2, <3>4, <3>5, <1>4, QueuedOne DEF LookupInv
  <2>2. CASE id \notin known
    <3>1. events' = events
      BY <2>2 DEF Confirm
    <3>2. QED
      BY <3>1, <1>4, QueuedNone DEF LookupInv
  <2>3. QED
    BY <2>1, <2>2
<1>8. BoxTyped' /\ CreationsTyped' /\ OldOnesThere'
  BY <1>1 DEF LookupInv, BoxTyped, CreationsTyped, OldOnesThere
<1>9. QED
  BY <1>6, <1>7, <1>8 DEF LookupInv

(* The closure at the record asks for the conversation. *)
LEMMA LookupCreates ==
    ASSUME LookupInv, events # <<>>, NEW u \in Account, NEW id \in Id,
           CreateNewChatBox(u, id),
           UNCHANGED <<user, registered, known, chatbox, told, lookups, asked, switches,
                       received>>
    PROVE  LookupInv'
<1> DEFINE pair == <<u, id>>
           new == [pair |-> pair, existed |-> chatbox[pair] # "none"]
<1>1. new \in Creation /\ pair \in Pair
  BY DEF Creation, Pair
<1>2. new.pair = pair /\ new.existed = (chatbox[pair] # "none") /\ pair[1] = u
  OBVIOUS
<1>3. /\ creations' = Append(creations, new)
      /\ events' = IF u \in told
                   THEN Append(Tail(events),
                               [at |-> "chatbox", closure |-> Len(creations'),
                                value |-> new.existed])
                   ELSE Tail(events)
  BY DEF CreateNewChatBox
<1>4. creations \in Seq(Creation)
  BY DEF LookupInv, CreationsTyped
<1> HIDE DEF new, pair
<1>5. /\ creations' \in Seq(Creation) /\ Len(creations') \in Nat
      /\ Len(creations') \in DOMAIN creations' /\ creations'[Len(creations')] = new
      /\ \A i \in DOMAIN creations : i \in DOMAIN creations' /\ creations'[i] = creations[i]
      /\ \A i \in DOMAIN creations' : i \in DOMAIN creations \/ creations'[i] = new
  BY <1>1, <1>3, <1>4
<1>6. NothingForgotten
  BY <1>5 DEF NothingForgotten
<1>7. EventsTyped' /\ EventsMeant'
  <2>1. CASE u \in told
    <3>1. PICK e : e = [at |-> "chatbox", closure |-> Len(creations'),
                        value |-> new.existed]
      OBVIOUS
    <3>2. new.existed \in BOOLEAN
      BY <1>1 DEF Creation
    <3>3. e \in Event
      BY <3>1, <3>2, <1>5 DEF Event
    <3>4. e.at = "chatbox" /\ e.closure = Len(creations') /\ e.value = new.existed
      BY <3>1
    <3>5. events' = Append(Tail(events), e)
      BY <2>1, <1>3, <3>1
    <3>6. Meant(e)'
      <4>1. creations'[e.closure].pair[1] \in told'
        BY <3>4, <1>5, <1>2, <2>1
      <4>2. creations'[e.closure].existed => e.value = TRUE
        BY <3>4, <1>5, <3>2
      <4>3. QED
        BY <4>1, <4>2, <3>4, <1>5 DEF Meant, ForCreation
    <3>7. QED
      BY <3>3, <3>5, <3>6, <1>6, QueuedOne DEF LookupInv
  <2>2. CASE u \notin told
    BY <2>2, <1>3, <1>6, QueuedNone DEF LookupInv
  <2>3. QED
    BY <2>1, <2>2
<1>8. OldOnesThere'
  BY <1>5, <1>2 DEF LookupInv, OldOnesThere
<1>9. Typed' /\ BoxTyped' /\ CreationsTyped'
  BY <1>5 DEF LookupInv, Typed, BoxTyped, CreationsTyped
<1>10. QED
  BY <1>7, <1>8, <1>9 DEF LookupInv

LEMMA LookupCallLookup ==
    ASSUME LookupInv, CallLookup
    PROVE  LookupInv'
<1>1. UNCHANGED <<user, registered, known, chatbox, told, lookups, asked, switches, received>>
  BY DEF CallLookup
<1>2. events # <<>> /\ Head(events).at = "users"
  BY DEF CallLookup
<1>3. Head(events) \in ToSet(events)
  BY <1>2, TailFacts DEF LookupInv, EventsTyped
<1>4. Head(events).closure \in DOMAIN lookups
  BY <1>2, <1>3 DEF LookupInv, EventsMeant, Meant, ForLookup, ForCreation
<1>5. CASE Head(events).value
  <2>1. lookups[Head(events).closure] \in Id /\ user \in Account
    BY <1>4 DEF LookupInv, Typed
  <2>2. CreateNewChatBox(user, lookups[Head(events).closure])
    BY <1>5 DEF CallLookup
  <2>3. QED
    BY <1>1, <1>2, <2>1, <2>2, LookupCreates
<1>6. CASE ~Head(events).value
  <2>1. events' = Tail(events) /\ UNCHANGED creations
    BY <1>6 DEF CallLookup
  <2>2. EventsTyped' /\ EventsMeant'
    BY <1>1, <1>2, <2>1, NoneForgotten, QueuedNone DEF LookupInv
  <2>3. QED
    BY <1>1, <2>1, <2>2
       DEF LookupInv, Typed, BoxTyped, CreationsTyped, OldOnesThere
<1>7. QED
  BY <1>5, <1>6

(* An entry is written, and its closures are called. *)
LEMMA LookupEntryChanges ==
    ASSUME LookupInv, NEW pair \in Pair, NEW new \in {"placeholder", "message"},
           chatbox' = [chatbox EXCEPT ![pair] = new],
           NEW rest, \/ rest = events
                     \/ events # <<>> /\ rest = Tail(events),
           pair[1] \in told, events' = rest \o EntryEvents({pair}, chatbox'),
           UNCHANGED <<user, registered, known, told, lookups, creations, asked>>,
           switches' \in Nat, received' \in Nat
    PROVE  LookupInv'
<1>1. BoxTyped' /\ CreationsTyped' /\ OldOnesThere'
  BY BoxStays DEF LookupInv
<1>2. Typed'
  BY DEF LookupInv, Typed
<1>3. /\ EntryEvents({pair}, chatbox') \in Seq(Event)
      /\ \A e \in ToSet(EntryEvents({pair}, chatbox')) :
            /\ e.at = "chatbox" /\ e.closure \in DOMAIN creations
            /\ creations[e.closure].pair \in {pair}
            /\ e.value = (chatbox'[creations[e.closure].pair] # "none")
  <2>1. creations \in Seq(Creation)
    BY DEF LookupInv, CreationsTyped
  <2>2. PICK box : box = chatbox'
    OBVIOUS
  <2>3. /\ EntryEvents({pair}, box) \in Seq(Event)
        /\ \A e \in ToSet(EntryEvents({pair}, box)) :
              /\ e.at = "chatbox" /\ e.closure \in DOMAIN creations
              /\ creations[e.closure].pair \in {pair}
              /\ e.value = (box[creations[e.closure].pair] # "none")
    BY <2>1, EntryEventsFacts
  <2>4. EntryEvents({pair}, box) = EntryEvents({pair}, chatbox')
    BY <2>2 DEF EntryEvents
  <2>5. QED
    BY <2>2, <2>3, <2>4
<1>4. chatbox'[pair] # "none"
  BY DEF LookupInv, BoxTyped
<1>5. \A e \in ToSet(EntryEvents({pair}, chatbox')) : Meant(e)'
  BY <1>3, <1>4 DEF Meant, ForCreation
<1>6. EventsTyped' /\ EventsMeant'
  BY <1>3, <1>5, NoneForgotten, QueuedMore DEF LookupInv
<1>7. QED
  BY <1>1, <1>2, <1>6 DEF LookupInv

LEMMA LookupCallCreation ==
    ASSUME LookupInv, CallCreation
    PROVE  LookupInv'
<1>1. UNCHANGED <<user, registered, known, told, lookups, creations, asked, switches, received>>
  BY DEF CallCreation
<1>2. events # <<>> /\ Head(events).at = "chatbox"
  BY DEF CallCreation
<1>3. Head(events) \in ToSet(events)
  BY <1>2, TailFacts DEF LookupInv, EventsTyped
<1>4. ForCreation(Head(events))
  BY <1>2, <1>3 DEF LookupInv, EventsMeant, Meant, ForLookup
<1> DEFINE pair == creations[Head(events).closure].pair
<1>5. pair \in Pair /\ pair[1] \in told
  <2>1. creations[Head(events).closure] \in Creation
    BY <1>4 DEF ForCreation, LookupInv, CreationsTyped
  <2>2. QED
    BY <2>1, <1>4 DEF ForCreation, Creation
<1>6. \/ EntryChanges(pair, "placeholder")
      \/ events' = Tail(events) /\ UNCHANGED chatbox
  BY DEF CallCreation
<1> HIDE DEF pair
<1>7. CASE EntryChanges(pair, "placeholder")
  <2>1. /\ chatbox' = [chatbox EXCEPT ![pair] = "placeholder"]
        /\ events' = Tail(events) \o EntryEvents({pair}, chatbox')
    BY <1>7 DEF EntryChanges
  <2>2. switches' \in Nat /\ received' \in Nat
    BY <1>1 DEF LookupInv, Typed
  <2>3. QED
    BY <1>1, <1>2, <1>5, <2>1, <2>2, LookupEntryChanges
<1>8. CASE events' = Tail(events) /\ UNCHANGED chatbox
  <2>1. EventsTyped' /\ EventsMeant'
    BY <1>1, <1>2, <1>8, NoneForgotten, QueuedNone DEF LookupInv
  <2>2. QED
    BY <1>1, <1>8, <2>1
       DEF LookupInv, Typed, BoxTyped, CreationsTyped, OldOnesThere
<1>9. QED
  BY <1>6, <1>7, <1>8

(* What comes from the server *)
LEMMA LookupRecord ==
    ASSUME LookupInv, NEW id \in Id, RecordArrives(id) \/ Registers(id)
    PROVE  LookupInv'
<1>1. /\ UNCHANGED <<user, chatbox, told, lookups, creations, asked, switches, received>>
      /\ known \subseteq known' /\ known' \in SUBSET Id /\ registered' \in SUBSET Id
  BY DEF RecordArrives, Registers, LookupInv, Typed
<1>2. Typed'
  BY <1>1 DEF LookupInv, Typed
<1>3. \/ events' = events
      \/ \E v \in BOOLEAN : events' = events \o RecordEvents(id, v) /\ id \in known'
  <2>1. CASE RecordArrives(id)
    <3>1. id \in known' /\ (id \in registered) \in BOOLEAN
      BY <2>1 DEF RecordArrives
    <3>2. events' = events \o RecordEvents(id, id \in registered)
      BY <2>1 DEF RecordArrives
    <3>3. QED
      BY <3>1, <3>2
  <2>2. CASE Registers(id)
    <3>1. TRUE \in BOOLEAN /\ known' = known
      BY <2>2 DEF Registers
    <3>2. \/ events' = events
          \/ events' = events \o RecordEvents(id, TRUE) /\ id \in known
      BY <2>2 DEF Registers
    <3>3. QED
      BY <3>1, <3>2
  <2>3. QED
    BY <2>1, <2>2
<1>4. EventsTyped' /\ EventsMeant'
  <2>1. CASE events' = events
    BY <1>1, <2>1, NoneForgotten, QueuedNone DEF LookupInv
  <2>2. CASE \E v \in BOOLEAN : events' = events \o RecordEvents(id, v) /\ id \in known'
    <3>1. PICK v \in BOOLEAN : events' = events \o RecordEvents(id, v) /\ id \in known'
      BY <2>2
    <3>2. /\ RecordEvents(id, v) \in Seq(Event)
          /\ \A e \in ToSet(RecordEvents(id, v)) :
                /\ e.at = "users" /\ e.closure \in DOMAIN lookups
                /\ lookups[e.closure] = id
      BY RecordEventsFacts DEF LookupInv, Typed
    <3>3. \A e \in ToSet(RecordEvents(id, v)) : Meant(e)'
      BY <3>1, <3>2, <1>1 DEF Meant, ForLookup
    <3>4. QED
      BY <3>1, <3>2, <3>3, <1>1, NoneForgotten, QueuedMore DEF LookupInv
  <2>3. QED
    BY <1>3, <2>1, <2>2
<1>5. BoxTyped' /\ CreationsTyped' /\ OldOnesThere'
  BY <1>1 DEF LookupInv, BoxTyped, CreationsTyped, OldOnesThere
<1>6. QED
  BY <1>2, <1>4, <1>5 DEF LookupInv

LEMMA LookupEntriesArrive ==
    ASSUME LookupInv, NEW u \in Account, EntriesArrive(u)
    PROVE  LookupInv'
<1>1. /\ UNCHANGED <<user, registered, known, chatbox, lookups, creations, asked,
                      switches, received>>
      /\ told' = told \cup {u}
      /\ events' = events \o EntryEvents({u} \X Id, chatbox)
  BY DEF EntriesArrive
<1>2. Typed' /\ BoxTyped' /\ CreationsTyped' /\ OldOnesThere'
  BY <1>1 DEF LookupInv, Typed, BoxTyped, CreationsTyped, OldOnesThere
<1>3. /\ EntryEvents({u} \X Id, chatbox) \in Seq(Event)
      /\ \A e \in ToSet(EntryEvents({u} \X Id, chatbox)) :
            /\ e.at = "chatbox" /\ e.closure \in DOMAIN creations
            /\ creations[e.closure].pair \in {u} \X Id
            /\ e.value = (chatbox[creations[e.closure].pair] # "none")
  BY EntryEventsFacts DEF LookupInv, CreationsTyped
<1>4. \A e \in ToSet(EntryEvents({u} \X Id, chatbox)) : Meant(e)'
  <2> SUFFICES ASSUME NEW e \in ToSet(EntryEvents({u} \X Id, chatbox))
               PROVE  Meant(e)'
    OBVIOUS
  <2>1. e.at = "chatbox" /\ e.closure \in DOMAIN creations'
    BY <1>1, <1>3
  <2>2. creations'[e.closure].pair[1] \in told'
    BY <1>1, <1>3
  <2>3. creations'[e.closure].existed => e.value = TRUE
    BY <1>1, <1>3 DEF LookupInv, OldOnesThere
  <2>4. QED
    BY <2>1, <2>2, <2>3 DEF Meant, ForCreation
<1>5. EventsTyped' /\ EventsMeant'
  BY <1>1, <1>3, <1>4, NoneForgotten, QueuedMore DEF LookupInv
<1>6. QED
  BY <1>2, <1>5 DEF LookupInv

LEMMA LookupMessage ==
    ASSUME LookupInv, NEW pair \in Pair, MessageArrives(pair)
    PROVE  LookupInv'
<1>1. /\ UNCHANGED <<user, registered, known, told, lookups, creations, asked, switches>>
      /\ chatbox' = [chatbox EXCEPT ![pair] = "message"]
      /\ switches' \in Nat /\ received' \in Nat
  BY DEF MessageArrives, LookupInv, Typed
<1>2. CASE pair[1] \in told
  <2>1. events' = events \o EntryEvents({pair}, chatbox')
    BY <1>2 DEF MessageArrives
  <2>2. QED
    BY <1>1, <1>2, <2>1, LookupEntryChanges
<1>3. CASE pair[1] \notin told
  <2>1. events' = events
    BY <1>3 DEF MessageArrives
  <2>2. EventsTyped' /\ EventsMeant'
    BY <1>1, <2>1, NoneForgotten, QueuedNone DEF LookupInv
  <2>3. BoxTyped' /\ CreationsTyped' /\ OldOnesThere'
    BY <1>1, BoxStays DEF LookupInv
  <2>4. QED
    BY <1>1, <2>2, <2>3 DEF LookupInv, Typed
<1>4. QED
  BY <1>2, <1>3

LEMMA LookupSwitch ==
    ASSUME LookupInv,
           \/ \E u \in Account : SwitchUser(u)
           \/ UNCHANGED vars
    PROVE  LookupInv'
<1>1. /\ UNCHANGED <<registered, known, chatbox, told, lookups, creations, events, received>>
      /\ user' \in Account /\ asked' \in SUBSET Id /\ switches' \in Nat
  BY DEF SwitchUser, vars, LookupInv, Typed
<1>2. EventsTyped' /\ EventsMeant'
  BY <1>1, NoneForgotten, QueuedNone DEF LookupInv
<1>3. QED
  BY <1>1, <1>2 DEF LookupInv, Typed, BoxTyped, CreationsTyped, OldOnesThere

LEMMA LookupStep == LookupInv /\ [Next]_vars => LookupInv'
<1> SUFFICES ASSUME LookupInv, [Next]_vars PROVE LookupInv'
  OBVIOUS
<1>1. CASE \E id \in Id : Confirm(id)
  BY <1>1, LookupConfirm
<1>2. CASE \E id \in Id : RecordArrives(id) \/ Registers(id)
  BY <1>2, LookupRecord
<1>3. CASE CallLookup
  BY <1>3, LookupCallLookup
<1>4. CASE CallCreation
  BY <1>4, LookupCallCreation
<1>5. CASE \E u \in Account : EntriesArrive(u)
  BY <1>5, LookupEntriesArrive
<1>6. CASE \E pair \in Pair : MessageArrives(pair)
  BY <1>6, LookupMessage
<1>7. CASE (\E u \in Account : SwitchUser(u)) \/ UNCHANGED vars
  BY <1>7, LookupSwitch
<1>8. QED
  BY <1>1, <1>2, <1>3, <1>4, <1>5, <1>6, <1>7 DEF Next

-----------------------------------------------------------------------------
(* The inductive invariant of adding a friend: types, calls that are meant *)
(* for a closure that is registered at a place whose value the client has, *)
(* and conversations that were there staying there.                        *)
THEOREM LookupInvariance == Spec => []LookupInv
BY LookupInit, LookupStep, PTL DEF Spec

(* Types; in particular every call is for a closure that was registered    *)
(* (FriendViewController, createNewChatBox), however look-ups, users and   *)
(* what the server sends follow each other.                                *)
THEOREM LookupTypes == Spec => []TypeOK
<1>1. LookupInv => TypeOK
  <2> SUFFICES ASSUME LookupInv PROVE TypeOK
    OBVIOUS
  <2>1. \A k \in DOMAIN events : events[k] \in Event /\ Meant(events[k])
    BY DEF LookupInv, EventsTyped, EventsMeant, ToSet
  <2>2. \A k \in DOMAIN events :
           LET e == events[k] IN
           /\ e.value \in BOOLEAN
           /\ \/ e.at = "users" /\ e.closure \in DOMAIN lookups
                 /\ lookups[e.closure] \in known
              \/ e.at = "chatbox" /\ e.closure \in DOMAIN creations
                 /\ creations[e.closure].pair[1] \in told
    BY <2>1 DEF Event, Meant, ForLookup, ForCreation
  <2>3. QED
    BY <2>2 DEF LookupInv, Typed, BoxTyped, CreationsTyped, Box, Creation, TypeOK
<1>2. QED
  BY <1>1, LookupInvariance, PTL

(* For any number of look-ups, closures, users and messages: asking for a  *)
(* conversation that there already is never replaces its last message by   *)
(* the placeholder (ChatBusiness.createNewChatBox).                        *)
THEOREM OldConversationsKept == Spec => OldConversationKept
<1> DEFINE Kept == \A pair \in Pair :
                      chatbox[pair] = "message" /\ chatbox'[pair] = "placeholder"
                         => ~creations[Head(events).closure].existed
<1>1. LookupInv /\ [Next]_vars => [Kept]_vars
  <2> SUFFICES ASSUME LookupInv, Next, NEW pair \in Pair,
                      chatbox[pair] = "message", chatbox'[pair] = "placeholder"
               PROVE  ~creations[Head(events).closure].existed
    OBVIOUS
  <2>1. CallCreation
    <3>1. chatbox' # chatbox
      OBVIOUS
    <3>2. ASSUME NEW p \in Pair, MessageArrives(p)
          PROVE  FALSE
      <4>1. chatbox' = [chatbox EXCEPT ![p] = "message"]
        BY <3>2 DEF MessageArrives
      <4>2. chatbox'[pair] = "message"
        BY <4>1 DEF LookupInv, BoxTyped
      <4>3. QED
        BY <4>2
    <3>3. QED
      BY <3>1, <3>2 DEF Next, Confirm, RecordArrives, Registers, CallLookup,
                        EntriesArrive, SwitchUser
  <2>2. events # <<>> /\ Head(events).at = "chatbox" /\ ~Head(events).value
    BY <2>1 DEF CallCreation
  <2>3. Head(events) \in ToSet(events)
    BY <2>2, TailFacts DEF LookupInv, EventsTyped
  <2>4. QED
    BY <2>2, <2>3 DEF LookupInv, EventsMeant, Meant, ForLookup, ForCreation
<1>2. QED
  BY <1>1, LookupInvariance, PTL DEF Spec, OldConversationKept
=============================================================================
