---------------------------- MODULE SessionProofs ----------------------------
(***************************************************************************)
(* Theorems about Session, for any accounts and any number of sign-ins and *)
(* launches: where sign-in screens are on the stack, that the home screen  *)
(* does not come up for nobody, and that who sees it is registered.        *)
(***************************************************************************)
EXTENDS Session, SequenceTheorems, FiniteSetTheorems, TLAPS

-----------------------------------------------------------------------------
(* The navigation stack *)

StackOK(s) ==
    /\ s \in Seq(Screen) /\ s # <<>> /\ s[1] = LogIn(1)
    /\ \A i \in DOMAIN s : s[i].kind = "LogIn" => i \in {1, Len(s)}

LEMMA ScreenKinds ==
    /\ \A n \in Nat : LogIn(n) \in Screen /\ LogIn(n).kind = "LogIn"
    /\ \A u \in User : /\ TabBar(u) \in Screen /\ TabBar(u).kind = "TabBar"
                       /\ TabBar(u).user = u
    /\ Profile \in Screen /\ Profile.kind = "Profile"
    /\ \A c \in Screen : c.kind = "TabBar" => c.user \in User
BY DEF LogIn, TabBar, Profile, Screen

(* What is left below the top holds no sign-in screen but the root. *)
LEMMA PopLeaves ==
    ASSUME NEW s, StackOK(s)
    PROVE  /\ Pop(s) \in Seq(Screen) /\ Pop(s) # <<>> /\ Pop(s)[1] = LogIn(1)
           /\ Len(Pop(s)) <= Len(s)
           /\ \A i \in DOMAIN Pop(s) : Pop(s)[i] = s[i] /\ i \in DOMAIN s
           /\ \A i \in DOMAIN Pop(s) : Pop(s)[i].kind = "LogIn" => i = 1
<1>1. s \in Seq(Screen) /\ s # <<>> /\ s[1] = LogIn(1)
  BY DEF StackOK
<1>2. Len(s) \in Nat /\ Len(s) > 0 /\ DOMAIN s = 1..Len(s)
  BY <1>1
<1>3. CASE Len(s) = 1
  <2>1. Pop(s) = s
    BY <1>3 DEF Pop
  <2>2. \A i \in DOMAIN s : s[i].kind = "LogIn" => i = 1
    BY <1>3 DEF StackOK
  <2> QED
    BY <2>1, <2>2, <1>1, <1>2
<1>4. CASE Len(s) # 1
  <2>1. Pop(s) = SubSeq(s, 1, Len(s) - 1)
    BY <1>4 DEF Pop, Front
  <2>2. /\ Pop(s) \in Seq(Screen) /\ Len(Pop(s)) = Len(s) - 1
        /\ \A i \in 1..(Len(s) - 1) : Pop(s)[i] = s[i]
    BY <2>1, <1>1, <1>2, <1>4
  <2>3. DOMAIN Pop(s) = 1..(Len(s) - 1)
    BY <2>2
  <2>4. \A i \in DOMAIN Pop(s) : Pop(s)[i].kind = "LogIn" => i = 1
    BY <2>2, <2>3, <1>2 DEF StackOK
  <2>5. 1 \in 1..(Len(s) - 1) /\ Len(s) - 1 <= Len(s)
    BY <1>2, <1>4
  <2>6. Pop(s) # <<>> /\ Pop(s)[1] = LogIn(1) /\ Len(Pop(s)) <= Len(s)
    BY <2>2, <2>5, <1>1
  <2>7. \A i \in DOMAIN Pop(s) : Pop(s)[i] = s[i] /\ i \in DOMAIN s
    BY <2>2, <2>3, <1>2
  <2> QED
    BY <2>2, <2>4, <2>6, <2>7
<1> QED
  BY <1>3, <1>4

LEMMA PushOK ==
    ASSUME NEW s \in Seq(Screen), s # <<>>, s[1] = LogIn(1), NEW c \in Screen,
           \A i \in DOMAIN s : s[i].kind = "LogIn" => i = 1
    PROVE  /\ StackOK(Append(s, c)) /\ Last(Append(s, c)) = c
           /\ \A i \in DOMAIN Append(s, c) :
                 Append(s, c)[i] = c \/ \E j \in DOMAIN s : Append(s, c)[i] = s[j]
<1> DEFINE t == Append(s, c)
<1>1. /\ t \in Seq(Screen) /\ Len(t) = Len(s) + 1 /\ Len(s) \in Nat /\ Len(s) > 0
      /\ t[Len(t)] = c /\ \A i \in 1..Len(s) : t[i] = s[i]
  OBVIOUS
<1>2. DOMAIN t = 1..Len(t) /\ DOMAIN s = 1..Len(s)
  BY <1>1
<1>3. \A i \in DOMAIN t : i = Len(t) \/ i \in DOMAIN s
  BY <1>1, <1>2
<1>4. Last(t) = c
  BY <1>1 DEF Last
<1> HIDE DEF t
<1>5. StackOK(t)
  BY <1>1, <1>2, <1>3 DEF StackOK
<1>6. \A i \in DOMAIN t : t[i] = c \/ \E j \in DOMAIN s : t[i] = s[j]
  BY <1>1, <1>2, <1>3
<1> QED
  BY <1>4, <1>5, <1>6 DEF t

(* viewWillAppear keeps the stack in order, adds no home screen and leaves *)
(* none on top with nobody signed in.                                      *)
LEMMA ShownOK ==
    ASSUME NEW s, StackOK(s), NEW tok, listener \in Nat
    PROVE  /\ StackOK(Shown(s, tok).nav) /\ Shown(s, tok).listener \in Nat
           /\ \A i \in DOMAIN Shown(s, tok).nav :
                 Shown(s, tok).nav[i].kind = "TabBar"
                     => \E j \in DOMAIN s : Shown(s, tok).nav[i] = s[j]
           /\ Last(Shown(s, tok).nav).kind = "TabBar" => tok # NoAccount
<1>1. CASE Last(s).kind = "TabBar" /\ tok = NoAccount
  <2> DEFINE t == Append(Pop(s), LogIn(listener + 1))
  <2>1. Shown(s, tok).nav = t /\ Shown(s, tok).listener = listener + 1
    BY <1>1 DEF Shown
  <2>2. /\ StackOK(t) /\ Last(t) = LogIn(listener + 1)
        /\ \A i \in DOMAIN t :
              t[i] = LogIn(listener + 1) \/ \E j \in DOMAIN Pop(s) : t[i] = Pop(s)[j]
    <3>1. /\ Pop(s) \in Seq(Screen) /\ Pop(s) # <<>> /\ Pop(s)[1] = LogIn(1)
          /\ \A i \in DOMAIN Pop(s) : Pop(s)[i].kind = "LogIn" => i = 1
      BY PopLeaves
    <3>2. LogIn(listener + 1) \in Screen
      BY ScreenKinds
    <3> QED
      BY <3>1, <3>2, PushOK
  <2>3. LogIn(listener + 1).kind = "LogIn"
    BY DEF LogIn
  <2> HIDE DEF t
  <2>5. listener + 1 \in Nat
    OBVIOUS
  <2>4. \A i \in DOMAIN t : t[i].kind = "TabBar" => \E j \in DOMAIN s : t[i] = s[j]
    BY <2>2, <2>3, PopLeaves
  <2> QED
    BY <2>1, <2>2, <2>3, <2>4, <2>5
<1>2. CASE ~(Last(s).kind = "TabBar" /\ tok = NoAccount)
  <2>1. Shown(s, tok).nav = s /\ Shown(s, tok).listener = listener
    BY <1>2 DEF Shown
  <2> QED
    BY <2>1, <1>2
<1> QED
  BY <1>1, <1>2

(* The same of the way home, which adds one home screen *)
LEMMA HomeOK ==
    ASSUME StackOK(nav), listener \in Nat, NEW u \in User
    PROVE  /\ StackOK(Home(u).nav) /\ Home(u).listener \in Nat
           /\ \A i \in DOMAIN Home(u).nav :
                 Home(u).nav[i].kind = "TabBar"
                     => \/ Home(u).nav[i] = TabBar(u)
                        \/ \E j \in DOMAIN nav : Home(u).nav[i] = nav[j]
           /\ Last(Home(u).nav).kind = "TabBar" => token # NoAccount
<1> DEFINE s == Append(Pop(nav), TabBar(u))
<1>1. /\ StackOK(s)
      /\ \A i \in DOMAIN s : s[i] = TabBar(u) \/ \E j \in DOMAIN Pop(nav) : s[i] = Pop(nav)[j]
  <2>1. /\ Pop(nav) \in Seq(Screen) /\ Pop(nav) # <<>> /\ Pop(nav)[1] = LogIn(1)
        /\ \A i \in DOMAIN Pop(nav) : Pop(nav)[i].kind = "LogIn" => i = 1
    BY PopLeaves
  <2>2. TabBar(u) \in Screen
    BY ScreenKinds
  <2> QED
    BY <2>1, <2>2, PushOK
<1>2. Home(u) = Shown(s, token)
  BY DEF Home
<1>3. \A i \in DOMAIN s : s[i] = TabBar(u) \/ \E j \in DOMAIN nav : s[i] = nav[j]
  BY <1>1, PopLeaves
<1> HIDE DEF s
<1> QED
  BY <1>1, <1>2, <1>3, ShownOK

(* Going back from a screen *)
LEMMA BackOK ==
    ASSUME StackOK(nav), listener \in Nat, NEW tok
    PROVE  /\ StackOK(Shown(Pop(nav), tok).nav)
           /\ Shown(Pop(nav), tok).listener \in Nat
           /\ \A i \in DOMAIN Shown(Pop(nav), tok).nav :
                 Shown(Pop(nav), tok).nav[i].kind = "TabBar"
                     => \E j \in DOMAIN nav : Shown(Pop(nav), tok).nav[i] = nav[j]
           /\ Last(Shown(Pop(nav), tok).nav).kind = "TabBar" => tok # NoAccount
<1>1. StackOK(Pop(nav))
  BY PopLeaves DEF StackOK
<1>2. \A j \in DOMAIN Pop(nav) : j \in DOMAIN nav /\ Pop(nav)[j] = nav[j]
  BY PopLeaves
<1> HIDE DEF Pop
<1> QED
  BY <1>1, <1>2, ShownOK

-----------------------------------------------------------------------------
(* What is in a sequence *)

LEMMA InAppend ==
    ASSUME NEW S, NEW s \in Seq(S), NEW c \in S
    PROVE  ToSet(Append(s, c)) = ToSet(s) \cup {c}
<1> DEFINE t == Append(s, c)
<1>1. /\ Len(t) = Len(s) + 1 /\ Len(s) \in Nat /\ DOMAIN t = 1..Len(t)
      /\ DOMAIN s = 1..Len(s)
      /\ t[Len(t)] = c /\ \A i \in 1..Len(s) : t[i] = s[i]
  OBVIOUS
<1> HIDE DEF t
<1>2. \A i \in DOMAIN t : i = Len(t) \/ i \in DOMAIN s
  BY <1>1
<1>3. Len(t) \in DOMAIN t /\ \A i \in DOMAIN s : i \in DOMAIN t
  BY <1>1
<1>4. ToSet(t) = ToSet(s) \cup {c}
  BY <1>1, <1>2, <1>3 DEF ToSet
<1> QED
  BY <1>4 DEF t

LEMMA InConcat ==
    ASSUME NEW S, NEW s \in Seq(S), NEW t \in Seq(S)
    PROVE  ToSet(s \o t) = ToSet(s) \cup ToSet(t)
<1> DEFINE u == s \o t
<1>1. /\ Len(s) \in Nat /\ Len(t) \in Nat /\ Len(u) = Len(s) + Len(t)
      /\ DOMAIN s = 1..Len(s) /\ DOMAIN t = 1..Len(t) /\ DOMAIN u = 1..Len(u)
      /\ \A i \in 1..Len(s) : u[i] = s[i]
      /\ \A i \in (Len(s) + 1)..(Len(s) + Len(t)) : u[i] = t[i - Len(s)]
  OBVIOUS
<1> HIDE DEF u
<1>2. \A i \in DOMAIN u :
         i \in DOMAIN s \/ (i \in (Len(s) + 1)..(Len(s) + Len(t)) /\ i - Len(s) \in DOMAIN t)
  <2>1. ASSUME NEW m \in Nat, NEW n \in Nat
        PROVE  \A i \in 1..(m + n) : i \in 1..m \/ (i \in (m + 1)..(m + n) /\ i - m \in 1..n)
    OBVIOUS
  <2> QED
    BY <2>1, <1>1
<1>3. /\ \A i \in DOMAIN s : i \in DOMAIN u
      /\ \A i \in DOMAIN t : /\ Len(s) + i \in DOMAIN u
                             /\ Len(s) + i \in (Len(s) + 1)..(Len(s) + Len(t))
                             /\ (Len(s) + i) - Len(s) = i
  BY <1>1
<1>4. \A i \in DOMAIN t : u[Len(s) + i] = t[i]
  BY <1>1, <1>3
<1>5. ToSet(u) \subseteq ToSet(s) \cup ToSet(t)
  BY <1>1, <1>2 DEF ToSet
<1>6. ToSet(s) \cup ToSet(t) \subseteq ToSet(u)
  BY <1>1, <1>3, <1>4 DEF ToSet
<1> QED
  BY <1>5, <1>6 DEF u

LEMMA InTail ==
    ASSUME NEW S, NEW s \in Seq(S), s # <<>>
    PROVE  /\ Head(s) \in ToSet(s) /\ Head(s) \in S
           /\ Tail(s) \in Seq(S)
           /\ ToSet(s) = {Head(s)} \cup ToSet(Tail(s))
<1>1. /\ Len(s) \in Nat /\ Len(s) > 0 /\ DOMAIN s = 1..Len(s) /\ Head(s) = s[1]
      /\ Tail(s) \in Seq(S) /\ Len(Tail(s)) = Len(s) - 1
      /\ DOMAIN Tail(s) = 1..Len(Tail(s))
      /\ \A i \in 1..Len(Tail(s)) : Tail(s)[i] = s[i + 1]
  OBVIOUS
<1>2. /\ 1 \in DOMAIN s
      /\ \A i \in DOMAIN Tail(s) : i + 1 \in DOMAIN s
      /\ \A i \in DOMAIN s : i = 1 \/ (i - 1 \in DOMAIN Tail(s) /\ (i - 1) + 1 = i)
  <2>4. ASSUME NEW n \in Nat
        PROVE  \A i \in 1..n : i = 1 \/ (i - 1 \in 1..(n - 1) /\ (i - 1) + 1 = i)
    OBVIOUS
  <2>1. \A i \in 1..Len(s) : i = 1 \/ (i - 1 \in 1..(Len(s) - 1) /\ (i - 1) + 1 = i)
    BY <2>4, <1>1
  <2>2. \A i \in 1..(Len(s) - 1) : i + 1 \in 1..Len(s)
    BY <1>1
  <2>3. 1 \in 1..Len(s) /\ DOMAIN Tail(s) = 1..(Len(s) - 1)
    BY <1>1
  <2> QED
    BY <2>1, <2>2, <2>3, <1>1
<1>3. ToSet(Tail(s)) \subseteq ToSet(s)
  BY <1>1, <1>2 DEF ToSet
<1>4. \A i \in DOMAIN s : s[i] \in {Head(s)} \cup ToSet(Tail(s))
  BY <1>1, <1>2 DEF ToSet
<1>5. Head(s) \in ToSet(s) /\ Head(s) \in S
  BY <1>1, <1>2 DEF ToSet
<1> QED
  BY <1>1, <1>3, <1>4, <1>5 DEF ToSet

LEMMA RemovedTyped ==
    ASSUME NEW S, NEW s \in Seq(S), NEW i \in DOMAIN s
    PROVE  RemoveAt(s, i) \in Seq(S)
BY DEF RemoveAt

(* A value event at users/<id> goes to each of its observers and to nobody *)
(* else.                                                                   *)
Event == [observer : Nat, value : Account \cup {NoAccount}]

LEMMA CallsAre ==
    ASSUME NEW id, NEW value \in Account \cup {NoAccount},
           observers \in Seq([login : Nat, user : User]),
           NEW calls \in ValueEvents(id, value)
    PROVE  /\ calls \in Seq(Event)
           /\ ToSet(calls) = {Told(i, value) :
                                 i \in {j \in DOMAIN observers : observers[j].user.id = id}}
<1> DEFINE on == {i \in DOMAIN observers : observers[i].user.id = id}
<1>1. PICK s \in [1..Cardinality(on) -> on] :
         ToSet(s) = on /\ calls = [k \in DOMAIN s |-> Told(s[k], value)]
  BY DEF ValueEvents
<1>2. IsFiniteSet(on) /\ on \subseteq Nat
  <2>1. DOMAIN observers = 1..Len(observers) /\ Len(observers) \in Nat
    OBVIOUS
  <2>2. IsFiniteSet(1..Len(observers))
    BY <2>1, FS_Interval
  <2> QED
    BY <2>1, <2>2, FS_Subset
<1>3. Cardinality(on) \in Nat
  BY <1>2, FS_CardinalityType
<1> HIDE DEF on
<1>4. DOMAIN s = 1..Cardinality(on) /\ \A k \in DOMAIN s : s[k] \in on /\ s[k] \in Nat
  BY <1>1, <1>2
<1>5. calls \in [1..Cardinality(on) -> Event]
  BY <1>1, <1>4 DEF Told, Event
<1>6. calls \in Seq(Event)
  BY <1>3, <1>5, SeqDef
<1>7. ToSet(calls) = {Told(i, value) : i \in on}
  <2>1. DOMAIN calls = DOMAIN s /\ \A k \in DOMAIN s : calls[k] = Told(s[k], value)
    BY <1>1
  <2>2. \A i \in on : \E k \in DOMAIN s : s[k] = i
    BY <1>1 DEF ToSet
  <2> HIDE DEF Told
  <2> QED
    BY <2>1, <2>2, <1>4 DEF ToSet
<1> QED
  BY <1>6, <1>7 DEF on

-----------------------------------------------------------------------------
(* The parts of the inductive invariant *)

Observer == [login : Nat, user : User]

StackInv == StackOK(nav) /\ listener \in Nat

PlainInv ==
    /\ token \in Account \cup {NoAccount}
    /\ requests \in Seq(Account)
    /\ sheet \in Sheet \cup {NoSheet}
    /\ {white, alert, failed} \subseteq BOOLEAN
    /\ alert => sheet = NoSheet /\ token # NoAccount

RecordInv ==
    /\ users \in [Account -> Account \cup {NoAccount}]
    /\ currentUser \in User \cup {NoUser}
    /\ observers \in Seq(Observer)
    /\ loaded \subseteq Account
    /\ events \in Seq(Event)
    /\ \A e \in ToSet(events) :
          /\ e.observer \in DOMAIN observers
          /\ e.value # NoAccount => users[observers[e.observer].user.id] # NoAccount
    /\ observers # <<>> => currentUser \in User /\ WillBeRegistered(currentUser.id)

HomeInv ==
    \A c \in ToSet(nav) : c.kind = "TabBar" => WillBeRegistered(c.user.id)

LEMMA InvParts ==
    /\ SessionInv <=> StackInv /\ PlainInv /\ RecordInv /\ HomeInv
    /\ SessionInv' <=> StackInv' /\ PlainInv' /\ RecordInv' /\ HomeInv'
BY DEF SessionInv, TypeOK, SignInAtTheEnds, StackInv, StackOK, PlainInv, RecordInv,
       HomeInv, Observer, Event

(* A stack with no home screen that was not there before *)
LEMMA HomeKept ==
    ASSUME HomeInv, UNCHANGED <<users, observers, loaded, events>>,
           \A i \in DOMAIN nav' :
               nav'[i].kind = "TabBar" => \E j \in DOMAIN nav : nav'[i] = nav[j]
    PROVE  HomeInv'
BY DEF HomeInv, ToSet, WillBeRegistered

LEMMA RecordsKept ==
    ASSUME RecordInv, UNCHANGED <<users, currentUser, observers, loaded, events>>
    PROVE  RecordInv'
BY DEF RecordInv, WillBeRegistered

LEMMA ScreensKept ==
    ASSUME StackInv, UNCHANGED <<nav, listener>>
    PROVE  StackInv'
BY DEF StackInv, StackOK

LEMMA TopIsScreen ==
    ASSUME StackInv
    PROVE  Top \in Screen /\ nav \in Seq(Screen) /\ nav # <<>>
<1>1. nav \in Seq(Screen) /\ nav # <<>> /\ Len(nav) \in 1..Len(nav)
  BY DEF StackInv, StackOK
<1> QED
  BY <1>1 DEF Top, Last

-----------------------------------------------------------------------------
(* At first, and after a launch, one sign-in screen is the whole stack. *)
LEMMA FreshStack ==
    ASSUME nav = <<LogIn(1)>>, listener = 1
    PROVE  StackInv /\ \A c \in ToSet(nav) : c.kind # "TabBar"
<1>1. LogIn(1) \in Screen
  BY DEF LogIn, Screen
<1>2. nav \in Seq(Screen) /\ nav # <<>> /\ Len(nav) = 1 /\ DOMAIN nav = {1}
  BY <1>1
<1>3. StackInv
  BY <1>2 DEF StackInv, StackOK
<1>4. \A c \in ToSet(nav) : c = LogIn(1)
  BY <1>2 DEF ToSet
<1> QED
  BY <1>3, <1>4 DEF LogIn

LEMMA InitInv == Init => SessionInv
<1> SUFFICES ASSUME Init PROVE SessionInv
  OBVIOUS
<1>1. StackInv /\ HomeInv
  BY FreshStack DEF Init, HomeInv
<1>2. PlainInv
  <2>1. token \in Account \cup {NoAccount} /\ requests \in Seq(Account)
    BY DEF Init, FirstRequests
  <2>2. white \in BOOLEAN /\ alert \in BOOLEAN /\ failed \in BOOLEAN
    BY Zenon DEF Init
  <2>3. ~alert /\ sheet = NoSheet
    BY DEF Init
  <2> QED
    BY <2>1, <2>2, <2>3 DEF PlainInv
<1>3. RecordInv
  <2>1. ToSet(events) = {}
    BY DEF Init, ToSet
  <2> QED
    BY <2>1 DEF Init, RecordInv
<1> QED
  BY <1>1, <1>2, <1>3, InvParts

LEMMA LaunchedInv ==
    ASSUME SessionInv, Launched, UNCHANGED <<token, users>>
    PROVE  SessionInv'
<1>1. StackInv' /\ \A c \in ToSet(nav') : c.kind # "TabBar"
  <2>1. nav' = <<LogIn(1)>> /\ listener' = 1
    BY DEF Launched
  <2>2. LogIn(1) \in Screen
    BY DEF LogIn, Screen
  <2>3. nav' \in Seq(Screen) /\ nav' # <<>> /\ Len(nav') = 1 /\ DOMAIN nav' = {1}
    BY <2>1, <2>2
  <2>4. \A c \in ToSet(nav') : c = LogIn(1)
    BY <2>3, <2>1 DEF ToSet
  <2> QED
    BY <2>1, <2>3, <2>4 DEF StackInv, StackOK, LogIn
<1>2. HomeInv'
  BY <1>1 DEF HomeInv
<1>3. PlainInv'
  <2>1. token' \in Account \cup {NoAccount} /\ requests' \in Seq(Account)
    BY InvParts DEF PlainInv, Launched, FirstRequests
  <2>2. white' \in BOOLEAN /\ alert' \in BOOLEAN /\ failed' \in BOOLEAN
    BY Zenon DEF Launched
  <2>3. ~alert' /\ sheet' = NoSheet
    BY DEF Launched
  <2> QED
    BY <2>1, <2>2, <2>3 DEF PlainInv
<1>4. RecordInv'
  <2>1. ToSet(events') = {} /\ observers' = <<>> /\ events' = <<>> /\ loaded' = {}
    BY DEF Launched, ToSet
  <2>2. users' \in [Account -> Account \cup {NoAccount}] /\ currentUser' = NoUser
    BY InvParts DEF RecordInv, Launched
  <2> QED
    BY <2>1, <2>2 DEF RecordInv
<1> QED
  BY <1>1, <1>2, <1>3, <1>4, InvParts

-----------------------------------------------------------------------------
(* The user's steps, and those of Facebook *)

(* Nothing but what PlainInv speaks of *)
LEMMA PlainStep ==
    ASSUME SessionInv, PlainInv',
           UNCHANGED <<nav, listener, users, currentUser, observers, loaded, events>>
    PROVE  SessionInv'
<1>1. StackInv' /\ RecordInv'
  BY InvParts, ScreensKept, RecordsKept
<1>2. HomeInv'
  BY InvParts DEF HomeInv, WillBeRegistered
<1> QED
  BY <1>1, <1>2, InvParts

LEMMA SheetStep ==
    ASSUME SessionInv,
           \/ LogInButtonTapped \/ FBLoginButtonTapped \/ SheetCancelled
           \/ LogOutButtonTapped
    PROVE  SessionInv'
<1>1. PlainInv /\ Top \in Screen
  BY InvParts, TopIsScreen
<1>2. sheet' \in Sheet \cup {NoSheet}
  BY <1>1 DEF LogInButtonTapped, FBLoginButtonTapped, SheetCancelled,
              LogOutButtonTapped, Tappable, Sheet, Screen
<1>3. /\ UNCHANGED <<token, requests, white, alert, failed>>
      /\ alert => sheet' = NoSheet
  BY DEF LogInButtonTapped, FBLoginButtonTapped, SheetCancelled, LogOutButtonTapped,
         Tappable, Free, memory
<1>4. PlainInv'
  BY <1>1, <1>2, <1>3 DEF PlainInv
<1>5. UNCHANGED <<nav, listener, users, currentUser, observers, loaded, events>>
  BY DEF LogInButtonTapped, FBLoginButtonTapped, SheetCancelled, LogOutButtonTapped,
         memory
<1> QED
  BY <1>4, <1>5, PlainStep

LEMMA SignInStep ==
    ASSUME SessionInv, NEW a \in Account, SignedIn(a)
    PROVE  SessionInv'
<1>1. PlainInv /\ NobodyAssumption
  BY InvParts, NobodyAssumption
<1>2. alert' \in BOOLEAN
  BY Zenon DEF SignedIn
<1>3. /\ token' = a /\ sheet' = NoSheet /\ UNCHANGED <<requests, white, failed>>
  BY DEF SignedIn, memory
<1>4. PlainInv'
  BY <1>1, <1>2, <1>3, NobodyAssumption DEF PlainInv
<1>5. UNCHANGED <<nav, listener, users, currentUser, observers, loaded, events>>
  BY DEF SignedIn, memory
<1> QED
  BY <1>4, <1>5, PlainStep

LEMMA RequestStep ==
    ASSUME SessionInv, AlertOK \/ \E i \in DOMAIN requests : ProfileFails(i)
    PROVE  SessionInv'
<1>1. PlainInv
  BY InvParts
<1>2. CASE AlertOK
  <2>1. token \in Account
    BY <1>1, <1>2 DEF PlainInv, AlertOK
  <2>2. requests' \in Seq(Account)
    BY <1>1, <1>2, <2>1 DEF PlainInv, AlertOK
  <2>3. PlainInv'
    BY <1>1, <1>2, <2>2 DEF PlainInv, AlertOK
  <2> QED
    BY <1>2, <2>3, PlainStep DEF AlertOK
<1>3. ASSUME NEW i \in DOMAIN requests, ProfileFails(i)
      PROVE  SessionInv'
  <2>1. requests' \in Seq(Account)
    BY <1>1, <1>3, RemovedTyped DEF PlainInv, ProfileFails
  <2>2. PlainInv'
    BY <1>1, <1>3, <2>1 DEF PlainInv, ProfileFails, screens
  <2> QED
    BY <1>3, <2>2, PlainStep DEF ProfileFails, screens
<1> QED
  BY <1>2, <1>3

(* The steps that only move between screens *)
LEMMA MoveStep ==
    ASSUME SessionInv, AvatarTapped \/ BackButtonTapped \/ LogOutConfirmed
    PROVE  SessionInv'
<1>1. StackInv /\ PlainInv /\ RecordInv /\ HomeInv
  BY InvParts
<1>2. /\ PlainInv' /\ UNCHANGED <<users, currentUser, observers, loaded, events>>
  BY <1>1 DEF PlainInv, AvatarTapped, BackButtonTapped, LogOutConfirmed, memory, Free,
              Sheet, NoSheet
<1>3. RecordInv'
  BY <1>1, <1>2, RecordsKept
<1>4. /\ StackInv'
      /\ \A i \in DOMAIN nav' :
            nav'[i].kind = "TabBar" => \E j \in DOMAIN nav : nav'[i] = nav[j]
  <2>1. CASE AvatarTapped
    <3>1. nav' = Append(nav, Profile) /\ listener' = listener /\ Top.kind = "TabBar"
      BY <2>1 DEF AvatarTapped
    <3>2. /\ nav \in Seq(Screen) /\ nav # <<>> /\ nav[1] = LogIn(1)
          /\ \A i \in DOMAIN nav : nav[i].kind = "LogIn" => i = 1
      BY <1>1, <3>1 DEF StackInv, StackOK, Top, Last
    <3>3. Profile \in Screen /\ Profile.kind = "Profile"
      BY ScreenKinds
    <3>4. /\ StackOK(nav')
          /\ \A i \in DOMAIN nav' : nav'[i] = Profile \/ \E j \in DOMAIN nav : nav'[i] = nav[j]
      BY <3>1, <3>2, <3>3, PushOK
    <3> QED
      BY <1>1, <3>1, <3>3, <3>4 DEF StackInv
  <2>2. CASE nav' = nav /\ listener' = listener
    BY <2>2, <1>1, ScreensKept
  <2>3. CASE \E tok : /\ nav' = Shown(Pop(nav), tok).nav
                      /\ listener' = Shown(Pop(nav), tok).listener
    <3>1. PICK tok : /\ nav' = Shown(Pop(nav), tok).nav
                     /\ listener' = Shown(Pop(nav), tok).listener
      BY <2>3
    <3> QED
      BY <1>1, <3>1, BackOK DEF StackInv
  <2> QED
    BY <2>1, <2>2, <2>3 DEF BackButtonTapped, LogOutConfirmed
<1>5. HomeInv'
  BY <1>1, <1>2, <1>4, HomeKept
<1> QED
  BY <1>2, <1>3, <1>4, <1>5, InvParts

-----------------------------------------------------------------------------
(* The answers.  A record never goes, and whoever waits for the closure of *)
(* an observer still does, unless the answer brings its call or the call   *)
(* makes the record.                                                       *)

LEMMA ProfileStep ==
    ASSUME SessionInv, NEW i \in DOMAIN requests, ProfileArrives(i)
    PROVE  SessionInv'
<1> DEFINE user == [id |-> token, name |-> requests[i]]
<1>1. StackInv /\ PlainInv /\ RecordInv /\ HomeInv
  BY InvParts
<1>2. token \in Account /\ requests[i] \in Account /\ user \in User
  BY <1>1 DEF PlainInv, ProfileArrives, User
<1>3. /\ currentUser' = user /\ UNCHANGED <<users, loaded, token, failed, screens>>
      /\ observers' = Append(observers, [login |-> listener, user |-> user])
      /\ events' = IF token \in loaded
                   THEN Append(events, Told(Len(observers'), users[token]))
                   ELSE events
      /\ requests' = RemoveAt(requests, i)
  BY DEF ProfileArrives
<1> HIDE DEF user
<1>4. StackInv' /\ nav' = nav
  BY <1>1, <1>3, ScreensKept DEF screens
<1>5. PlainInv'
  <2>1. requests' \in Seq(Account)
    BY <1>1, <1>3, RemovedTyped DEF PlainInv
  <2> QED
    BY <1>1, <1>3, <2>1 DEF PlainInv, screens
<1>6. [login |-> listener, user |-> user] \in Observer
  BY <1>1, <1>2 DEF StackInv, Observer
<1>7. /\ observers' \in Seq(Observer) /\ Len(observers') \in Nat
      /\ Len(observers') \in DOMAIN observers'
      /\ observers'[Len(observers')].user = user
      /\ \A j \in DOMAIN observers : j \in DOMAIN observers' /\ observers'[j] = observers[j]
  <2>1. observers \in Seq(Observer)
    BY <1>1 DEF RecordInv
  <2>2. \A o \in Observer :
           /\ Append(observers, o) \in Seq(Observer)
           /\ Len(Append(observers, o)) = Len(observers) + 1
           /\ Append(observers, o)[Len(observers) + 1] = o
           /\ \A j \in 1..Len(observers) : Append(observers, o)[j] = observers[j]
           /\ DOMAIN observers = 1..Len(observers) /\ Len(observers) \in Nat
           /\ DOMAIN Append(observers, o) = 1..(Len(observers) + 1)
    BY <2>1
  <2> QED
    BY <2>2, <1>3, <1>6
<1>8. Told(Len(observers'), users[token]) \in Event
  BY <1>7, <1>1, <1>2 DEF RecordInv, Told, Event
<1>9. /\ events' \in Seq(Event) /\ ToSet(events) \subseteq ToSet(events')
      /\ \A e \in ToSet(events') :
            \/ e \in ToSet(events)
            \/ e = Told(Len(observers'), users[token])
      /\ token \in loaded => Told(Len(observers'), users[token]) \in ToSet(events')
  <2>1. CASE token \in loaded
    <3>1. events' = Append(events, Told(Len(observers'), users[token]))
      BY <2>1, <1>3
    <3>2. events \in Seq(Event)
      BY <1>1 DEF RecordInv
    <3>3. ToSet(events') = ToSet(events) \cup {Told(Len(observers'), users[token])}
      BY <3>1, <3>2, <1>8, InAppend
    <3> QED
      BY <3>1, <3>2, <3>3, <1>8
  <2>2. CASE token \notin loaded
    BY <2>2, <1>1, <1>3 DEF RecordInv
  <2> QED
    BY <2>1, <2>2
<1>10. \A id : WillBeRegistered(id) => WillBeRegistered(id)'
  <2> SUFFICES ASSUME NEW id, WillBeRegistered(id) PROVE WillBeRegistered(id)'
    OBVIOUS
  <2>1. CASE users[id] # NoAccount
    BY <2>1, <1>3 DEF WillBeRegistered
  <2>2. CASE \E o \in DOMAIN observers :
                /\ observers[o].user.id = id
                /\ id \notin loaded \/ \E e \in ToSet(events) : e.observer = o
    <3>1. PICK o \in DOMAIN observers :
             /\ observers[o].user.id = id
             /\ id \notin loaded \/ \E e \in ToSet(events) : e.observer = o
      BY <2>2
    <3>2. o \in DOMAIN observers' /\ observers'[o] = observers[o]
      BY <1>7
    <3>3. id \notin loaded' \/ \E e \in ToSet(events') : e.observer = o
      BY <3>1, <1>3, <1>9
    <3> QED
      BY <3>1, <3>2, <3>3 DEF WillBeRegistered
  <2> QED
    BY <2>1, <2>2 DEF WillBeRegistered
<1>11. WillBeRegistered(token)'
  <2> DEFINE last == Len(observers')
             told == Told(last, users[token])
  <2>1. last \in DOMAIN observers' /\ observers'[last].user.id = token
    BY <1>7 DEF user
  <2>2. told.observer = last
    BY DEF Told
  <2>3. token \notin loaded' \/ told \in ToSet(events')
    BY <1>3, <1>9
  <2>4. token' = token
    BY <1>3
  <2> HIDE DEF last, told
  <2> QED
    BY <2>1, <2>2, <2>3, <2>4 DEF WillBeRegistered
<1>12. HomeInv'
  BY <1>1, <1>4, <1>10 DEF HomeInv
<1>13. RecordInv'
  <2>1. \A e \in ToSet(events') :
           /\ e.observer \in DOMAIN observers'
           /\ e.value # NoAccount => users'[observers'[e.observer].user.id] # NoAccount
    <3> SUFFICES ASSUME NEW e \in ToSet(events')
                 PROVE /\ e.observer \in DOMAIN observers'
                       /\ e.value # NoAccount
                             => users'[observers'[e.observer].user.id] # NoAccount
      OBVIOUS
    <3>1. CASE e \in ToSet(events)
      BY <3>1, <1>1, <1>3, <1>7 DEF RecordInv
    <3>2. CASE e = Told(Len(observers'), users[token])
      BY <3>2, <1>3, <1>7 DEF Told, user
    <3> QED
      BY <3>1, <3>2, <1>9
  <2>2. currentUser' \in User /\ currentUser'.id = token
    BY <1>2, <1>3 DEF user
  <2> QED
    BY <2>1, <2>2, <1>1, <1>3, <1>7, <1>9, <1>11 DEF RecordInv
<1> QED
  BY <1>4, <1>5, <1>12, <1>13, InvParts

(* The database's first answer, or another device's writing the record     *)
LEMMA AnswerStep ==
    ASSUME SessionInv, NEW id \in Account,
           DatabaseAnswers(id) \/ RegisteredElsewhere(id)
    PROVE  SessionInv'
<1>1. StackInv /\ PlainInv /\ RecordInv /\ HomeInv
  BY InvParts
<1>2. /\ UNCHANGED <<nav, listener, currentUser, observers>>
      /\ UNCHANGED <<token, requests, white, sheet, alert, failed>>
  BY DEF DatabaseAnswers, RegisteredElsewhere, screens
<1>3. StackInv' /\ PlainInv'
  BY <1>1, <1>2, ScreensKept DEF PlainInv
<1>4. /\ users' \in [Account -> Account \cup {NoAccount}]
      /\ \A a \in Account : users[a] # NoAccount => users'[a] # NoAccount
      /\ loaded' \subseteq Account
      /\ loaded \subseteq loaded' /\ loaded' \subseteq loaded \cup {id}
  BY <1>1 DEF RecordInv, DatabaseAnswers, RegisteredElsewhere
<1> DEFINE watching == {j \in DOMAIN observers : observers[j].user.id = id}
<1>5. \/ events' = events /\ loaded' = loaded
      \/ \E value \in Account \cup {NoAccount} : \E calls \in ValueEvents(id, value) :
            events' = events \o calls /\ (value # NoAccount => users'[id] # NoAccount)
  <2>1. CASE DatabaseAnswers(id)
    <3>1. users[id] \in Account \cup {NoAccount}
      BY <1>1 DEF RecordInv
    <3> QED
      BY <2>1, <3>1 DEF DatabaseAnswers
  <2>2. CASE RegisteredElsewhere(id)
    <3>1. users'[id] # NoAccount
      BY <2>2, <1>1, NobodyAssumption DEF RecordInv, RegisteredElsewhere
    <3> QED
      BY <2>2, <3>1 DEF RegisteredElsewhere
  <2> QED
    BY <2>1, <2>2
<1> DEFINE Called ==
        /\ events' \in Seq(Event) /\ ToSet(events) \subseteq ToSet(events')
        /\ \A e \in ToSet(events') :
              \/ e \in ToSet(events)
              \/ e.observer \in watching /\ (e.value # NoAccount => users'[id] # NoAccount)
        /\ \/ loaded' = loaded
           \/ \A j \in watching : \E e \in ToSet(events') : e.observer = j
<1>6. Called
  <2>1. events \in Seq(Event)
    BY <1>1 DEF RecordInv
  <2>2. CASE events' = events /\ loaded' = loaded
    BY <2>1, <2>2
  <2>3. ASSUME NEW value \in Account \cup {NoAccount}, NEW calls \in ValueEvents(id, value),
               events' = events \o calls, value # NoAccount => users'[id] # NoAccount
        PROVE  Called
    <3>1. calls \in Seq(Event) /\ ToSet(calls) = {Told(j, value) : j \in watching}
      BY <2>3, <1>1, CallsAre DEF RecordInv, Observer
    <3>2. ToSet(events') = ToSet(events) \cup {Told(j, value) : j \in watching}
      BY <2>1, <2>3, <3>1, InConcat
    <3>3. \A j : Told(j, value).observer = j /\ Told(j, value).value = value
      BY DEF Told
    <3>4. events' \in Seq(Event)
      BY <2>1, <2>3, <3>1
    <3> HIDE DEF watching
    <3> QED
      BY <3>2, <3>3, <3>4, <2>3
  <2> QED
    BY <2>2, <2>3, <1>5
<1>7. \A a \in Account : WillBeRegistered(a) => WillBeRegistered(a)'
  <2> SUFFICES ASSUME NEW a \in Account, WillBeRegistered(a), users[a] = NoAccount
               PROVE  WillBeRegistered(a)'
    BY <1>4 DEF WillBeRegistered
  <2>1. PICK j \in DOMAIN observers :
           /\ observers[j].user.id = a
           /\ a \notin loaded \/ \E e \in ToSet(events) : e.observer = j
    BY DEF WillBeRegistered
  <2>2. a \notin loaded' \/ \E e \in ToSet(events') : e.observer = j
    BY <2>1, <1>4, <1>6
  <2> QED
    BY <2>1, <2>2, <1>2 DEF WillBeRegistered
<1>8. HomeInv'
  <2>1. \A c \in ToSet(nav) : c.kind = "TabBar" => c.user.id \in Account
    BY <1>1 DEF StackInv, StackOK, ToSet, Screen, User
  <2> QED
    BY <2>1, <1>1, <1>2, <1>7 DEF HomeInv
<1>9. RecordInv'
  <2>1. \A e \in ToSet(events') :
           /\ e.observer \in DOMAIN observers'
           /\ e.value # NoAccount => users'[observers'[e.observer].user.id] # NoAccount
    <3> SUFFICES ASSUME NEW e \in ToSet(events')
                 PROVE /\ e.observer \in DOMAIN observers
                       /\ e.value # NoAccount
                             => users'[observers[e.observer].user.id] # NoAccount
      BY <1>2
    <3>1. CASE e \in ToSet(events)
      <4>1. e.observer \in DOMAIN observers
        BY <3>1, <1>1 DEF RecordInv
      <4>2. observers[e.observer].user.id \in Account
        <5>1. observers \in Seq(Observer)
          BY <1>1 DEF RecordInv
        <5>2. observers[e.observer] \in Observer
          BY <4>1, <5>1
        <5> QED
          BY <5>2 DEF Observer, User
      <4>3. e.value # NoAccount => users[observers[e.observer].user.id] # NoAccount
        BY <3>1, <1>1 DEF RecordInv
      <4> QED
        BY <4>1, <4>2, <4>3, <1>4
    <3>2. CASE e.observer \in watching /\ (e.value # NoAccount => users'[id] # NoAccount)
      BY <3>2
    <3> QED
      BY <3>1, <3>2, <1>6
  <2>2. currentUser \in User => currentUser.id \in Account
    BY DEF User
  <2> QED
    BY <2>1, <2>2, <1>1, <1>2, <1>4, <1>6, <1>7 DEF RecordInv
<1> QED
  BY <1>3, <1>8, <1>9, InvParts

(* A closure is called. *)
LEMMA CalledStep ==
    ASSUME SessionInv, ObserverCalled
    PROVE  SessionInv'
<1> DEFINE event == Head(events)
           o == observers[event.observer]
           user == IF event.value = NoAccount THEN currentUser ELSE o.user
           record == users'[o.user.id]
<1>1. StackInv /\ PlainInv /\ RecordInv /\ HomeInv
  BY InvParts
<1>2. /\ events # <<>> /\ currentUser' = user
      /\ users' = Registered(o, event.value)
      /\ \/ users' = users /\ events' = Tail(events)
         \/ \E calls \in ValueEvents(o.user.id, record) : events' = Tail(events) \o calls
      /\ white' = (white /\ o.login # 1)
      /\ \/ nav' = Home(user).nav /\ listener' = Home(user).listener
         \/ nav' = nav /\ listener' = listener
      /\ UNCHANGED <<token, requests, observers, loaded, failed, sheet, alert>>
  BY DEF ObserverCalled
<1>3. /\ events \in Seq(Event) /\ event \in ToSet(events) /\ event \in Event
      /\ Tail(events) \in Seq(Event) /\ ToSet(events) = {event} \cup ToSet(Tail(events))
  BY <1>1, <1>2, InTail DEF RecordInv
<1> HIDE DEF event
<1>4. /\ event.observer \in DOMAIN observers /\ o \in Observer
      /\ o.user \in User /\ o.user.id \in Account /\ o.user.name \in Account
      /\ event.value # NoAccount => users[o.user.id] # NoAccount
  <2>1. observers \in Seq(Observer) /\ event.observer \in DOMAIN observers
    BY <1>1, <1>3 DEF RecordInv
  <2>2. o \in Observer
    BY <2>1
  <2>3. event.value # NoAccount => users[o.user.id] # NoAccount
    BY <1>1, <1>3 DEF RecordInv
  <2> QED
    BY <2>1, <2>2, <2>3 DEF Observer, User
<1>5. currentUser \in User /\ user \in User /\ (user = o.user \/ user = currentUser)
  <2>1. observers # <<>>
    BY <1>4
  <2> QED
    BY <2>1, <1>1, <1>4 DEF RecordInv
<1> HIDE DEF o, user
<1>u. PICK u, id : u = user /\ id = o.user.id
  OBVIOUS
<1>6. /\ users' \in [Account -> Account \cup {NoAccount}]
      /\ \A a \in Account : users[a] # NoAccount => users'[a] # NoAccount
      /\ users'[o.user.id] # NoAccount
  BY <1>1, <1>2, <1>4, NobodyAssumption DEF RecordInv, Registered
<1>7. /\ events' \in Seq(Event) /\ ToSet(Tail(events)) \subseteq ToSet(events')
      /\ \A e \in ToSet(events') :
            \/ e \in ToSet(events)
            \/ e.observer \in DOMAIN observers /\ observers[e.observer].user.id = o.user.id
  <2>1. CASE events' = Tail(events)
    BY <2>1, <1>3
  <2>2. ASSUME NEW calls \in ValueEvents(o.user.id, record),
               events' = Tail(events) \o calls
        PROVE  /\ events' \in Seq(Event) /\ ToSet(Tail(events)) \subseteq ToSet(events')
               /\ \A e \in ToSet(events') :
                    \/ e \in ToSet(events)
                    \/ /\ e.observer \in DOMAIN observers
                       /\ observers[e.observer].user.id = o.user.id
    <3>0. PICK v : v = record
      OBVIOUS
    <3>1. v \in Account \cup {NoAccount} /\ calls \in ValueEvents(id, v)
      BY <1>4, <1>6, <1>u, <2>2, <3>0
    <3>2. /\ calls \in Seq(Event)
          /\ ToSet(calls) = {Told(i, v) :
                 i \in {j \in DOMAIN observers : observers[j].user.id = id}}
      BY <3>1, <1>1, CallsAre DEF RecordInv, Observer
    <3>3. ToSet(events') = ToSet(Tail(events)) \cup ToSet(calls)
      <4>1. Tail(events) \in Seq(Event) /\ calls \in Seq(Event)
        BY <3>2, <1>3
      <4>0. ASSUME NEW p \in Seq(Event), NEW q \in Seq(Event)
            PROVE  ToSet(p \o q) = ToSet(p) \cup ToSet(q)
        BY InConcat
      <4>2. ToSet(Tail(events) \o calls) = ToSet(Tail(events)) \cup ToSet(calls)
        BY <4>0, <4>1, Zenon
      <4> QED
        BY <4>2, <2>2
    <3>4. \A e \in ToSet(calls) :
             e.observer \in DOMAIN observers /\ observers[e.observer].user.id = o.user.id
      BY <3>2, <1>u DEF Told
    <3>5. events' \in Seq(Event)
      BY <2>2, <3>2, <1>3
    <3> QED
      BY <3>3, <3>4, <3>5, <1>3
  <2> QED
    BY <2>1, <2>2, <1>2
<1>8. \A a \in Account : WillBeRegistered(a) => WillBeRegistered(a)'
  <2> SUFFICES ASSUME NEW a \in Account, WillBeRegistered(a), users'[a] = NoAccount
               PROVE  WillBeRegistered(a)'
    BY DEF WillBeRegistered
  <2>1. PICK j \in DOMAIN observers :
           /\ observers[j].user.id = a
           /\ a \notin loaded \/ \E e \in ToSet(events) : e.observer = j
    BY <1>6 DEF WillBeRegistered
  <2>2. \A e \in ToSet(events) : e.observer = j => e \in ToSet(Tail(events))
    BY <2>1, <1>3, <1>6 DEF o
  <2>3. a \notin loaded' \/ \E e \in ToSet(events') : e.observer = j
    BY <2>1, <2>2, <1>2, <1>7
  <2> QED
    BY <2>1, <2>3, <1>2 DEF WillBeRegistered
<1>9. WillBeRegistered(u.id)'
  <2>1. CASE user = o.user
    BY <2>1, <1>6, <1>u DEF WillBeRegistered
  <2>2. CASE user = currentUser
    <3>1. observers # <<>>
      BY <1>4
    <3>2. WillBeRegistered(currentUser.id) /\ currentUser.id \in Account
      BY <3>1, <1>1, <1>5 DEF RecordInv, User
    <3> QED
      BY <3>2, <2>2, <1>8, <1>u
  <2> QED
    BY <2>1, <2>2, <1>5
<1>10. StackInv' /\ HomeInv'
  <2>1. \A c \in ToSet(nav) : c.kind = "TabBar" => c.user.id \in Account
    BY <1>1 DEF StackInv, StackOK, ToSet, Screen, User
  <2>2. \A c \in ToSet(nav) : c.kind = "TabBar" => WillBeRegistered(c.user.id)'
    BY <2>1, <1>1, <1>8 DEF HomeInv
  <2>3. CASE nav' = nav /\ listener' = listener
    BY <2>2, <2>3, <1>1, ScreensKept DEF HomeInv
  <2>4. CASE nav' = Home(user).nav /\ listener' = Home(user).listener
    <3>1. /\ StackOK(nav') /\ listener' \in Nat
          /\ \A i \in DOMAIN nav' :
                nav'[i].kind = "TabBar"
                    => nav'[i] = TabBar(u) \/ \E j \in DOMAIN nav : nav'[i] = nav[j]
      BY <2>4, <1>1, <1>5, <1>u, HomeOK DEF StackInv
    <3>2. TabBar(u).user = u
      BY DEF TabBar
    <3> QED
      BY <3>1, <3>2, <2>2, <1>9 DEF StackInv, HomeInv, ToSet
  <2> QED
    BY <2>3, <2>4, <1>2
<1>11. PlainInv'
  <2>1. white' \in BOOLEAN
    BY <1>2, Zenon
  <2> QED
    BY <2>1, <1>1, <1>2 DEF PlainInv
<1>12. RecordInv'
  <2>1. \A e \in ToSet(events') :
           /\ e.observer \in DOMAIN observers'
           /\ e.value # NoAccount => users'[observers'[e.observer].user.id] # NoAccount
    <3> SUFFICES ASSUME NEW e \in ToSet(events')
                 PROVE /\ e.observer \in DOMAIN observers
                       /\ e.value # NoAccount
                             => users'[observers[e.observer].user.id] # NoAccount
      BY <1>2
    <3>1. CASE e \in ToSet(events)
      <4>1. e.observer \in DOMAIN observers
        BY <3>1, <1>1 DEF RecordInv
      <4>2. observers[e.observer].user.id \in Account
        <5>1. observers \in Seq(Observer)
          BY <1>1 DEF RecordInv
        <5>2. observers[e.observer] \in Observer
          BY <4>1, <5>1
        <5> QED
          BY <5>2 DEF Observer, User
      <4>3. e.value # NoAccount => users[observers[e.observer].user.id] # NoAccount
        BY <3>1, <1>1 DEF RecordInv
      <4> QED
        BY <4>1, <4>2, <4>3, <1>6
    <3>2. CASE /\ e.observer \in DOMAIN observers
               /\ observers[e.observer].user.id = o.user.id
      BY <3>2, <1>6
    <3> QED
      BY <3>1, <3>2, <1>7
  <2> QED
    BY <2>1, <1>1, <1>2, <1>5, <1>6, <1>7, <1>9, <1>u DEF RecordInv
<1> QED
  BY <1>10, <1>11, <1>12, InvParts

-----------------------------------------------------------------------------
LEMMA NextInv == SessionInv /\ [Next]_vars => SessionInv'
<1> SUFFICES ASSUME SessionInv, [Next]_vars PROVE SessionInv'
  OBVIOUS
<1>1. ASSUME Relaunch PROVE SessionInv'
  BY <1>1, LaunchedInv DEF Relaunch
<1>2. CASE ProfileArrivesTooLate
  BY <1>1, <1>2 DEF ProfileArrivesTooLate
<1>3. CASE LogInButtonTapped \/ FBLoginButtonTapped \/ SheetCancelled \/ LogOutButtonTapped
  BY <1>3, SheetStep
<1>4. CASE \E a \in Account : SignedIn(a)
  BY <1>4, SignInStep
<1>5. CASE AlertOK
  BY <1>5, RequestStep
<1>6. CASE FetchEnds
  BY <1>6, ProfileStep, RequestStep DEF FetchEnds
<1>7. CASE \E id \in Account : DatabaseAnswers(id) \/ RegisteredElsewhere(id)
  BY <1>7, AnswerStep
<1>8. CASE ObserverCalled
  BY <1>8, CalledStep
<1>9. CASE AvatarTapped \/ BackButtonTapped \/ LogOutConfirmed
  BY <1>9, MoveStep
<1>10. CASE UNCHANGED vars
  <2>1. PlainInv'
    BY <1>10, InvParts DEF PlainInv, vars, memory, screens
  <2> QED
    BY <1>10, <2>1, PlainStep DEF vars, memory, screens
<1> QED
  BY <1>1, <1>2, <1>3, <1>4, <1>5, <1>6, <1>7, <1>8, <1>9, <1>10 DEF Next

(* The session's inductive invariant: the screens are in order, and every  *)
(* account that is the current user or has a home screen has a record or   *)
(* waits for a closure that will see to it (LogInViewController.swift:     *)
(* 96-129).                                                                *)
THEOREM SessionInvariance == Spec => []SessionInv
<1> QED
  BY InitInv, NextInv, PTL DEF Spec

(* The variables keep their types; in particular an id that is unwrapped   *)
(* is one, and every queued call is of a closure there is.                 *)
THEOREM SessionTypes == Spec => []TypeOK
<1>1. SessionInv => TypeOK
  BY DEF SessionInv
<1> QED
  BY <1>1, SessionInvariance, PTL

(* A sign-in screen is the root or on top, whatever closures popped        *)
(* (LogInViewController.swift:121-125, TabBarController.swift:32).         *)
THEOREM SignInStaysAtTheEnds == Spec => []SignInAtTheEnds
<1>1. SessionInv => SignInAtTheEnds
  BY DEF SessionInv
<1> QED
  BY <1>1, SessionInvariance, PTL

(* With every answer in, whoever the home screen is shown for has a record *)
(* in the database: no change of account between the answers skips it.     *)
THEOREM HomeIsRegistered == Spec => []HomeRegisteredAtRest
<1>1. SessionInv => HomeRegisteredAtRest
  <2> SUFFICES ASSUME SessionInv, AtRest, Top.kind = "TabBar"
               PROVE  users[Top.user.id] # NoAccount
    BY DEF HomeRegisteredAtRest
  <2>1. nav \in Seq(Screen) /\ nav # <<>> /\ Len(nav) \in DOMAIN nav
    BY InvParts DEF StackInv, StackOK
  <2>2. Top \in ToSet(nav)
    BY <2>1 DEF Top, Last, ToSet
  <2>3. WillBeRegistered(Top.user.id)
    BY <2>2 DEF SessionInv
  <2>4. ToSet(events) = {}
    BY DEF AtRest, ToSet
  <2> QED
    BY <2>3, <2>4 DEF WillBeRegistered, AtRest
<1> QED
  BY <1>1, SessionInvariance, PTL

(* The home screen never comes up with nobody signed in, though closures   *)
(* of earlier sign-ins push it at any time (TabBarController.swift:32).    *)
THEOREM HomeComesWithToken == Spec => HomeNeedsToken
<1>1. SessionInv /\ [Next]_vars
         => [nav' # nav /\ Last(nav').kind = "TabBar" => token' # NoAccount]_vars
  <2> SUFFICES ASSUME SessionInv, Next, nav' # nav, Last(nav').kind = "TabBar"
               PROVE  token' # NoAccount
    OBVIOUS
  <2>1. StackOK(nav) /\ listener \in Nat
    BY InvParts DEF StackInv
  <2>2. ASSUME Relaunch PROVE FALSE
    <3>1. nav' = <<LogIn(1)>>
      BY <2>2 DEF Relaunch, Launched
    <3>2. Last(nav') = LogIn(1)
      BY <3>1 DEF Last
    <3> QED
      BY <3>2 DEF LogIn
  <2>3. CASE AvatarTapped
    <3>1. nav' = Append(nav, Profile) /\ nav \in Seq(Screen) /\ Profile \in Screen
      BY <2>1, <2>3, ScreenKinds DEF AvatarTapped, StackOK
    <3>2. Last(nav') = Profile
      <4>1. \A c \in Screen : /\ Len(Append(nav, c)) = Len(nav) + 1
                              /\ Append(nav, c)[Len(nav) + 1] = c
        BY <3>1
      <4> QED
        BY <4>1, <3>1 DEF Last
    <3> QED
      BY <3>2, ScreenKinds
  <2>4. CASE BackButtonTapped
    <3>1. nav' = Shown(Pop(nav), token).nav /\ token' = token
      BY <2>4 DEF BackButtonTapped
    <3> QED
      BY <3>1, <2>1, BackOK
  <2>5. CASE LogOutConfirmed
    <3>1. nav' = Shown(Pop(nav), token').nav
      BY <2>5 DEF LogOutConfirmed
    <3> QED
      BY <3>1, <2>1, BackOK
  <2>6. CASE ObserverCalled
    <3>1. PICK u : nav' = Home(u).nav /\ token' = token
                   /\ u = IF Head(events).value = NoAccount THEN currentUser
                          ELSE observers[Head(events).observer].user
      BY <2>6 DEF ObserverCalled
    <3>2. u \in User
      <4>1. RecordInv /\ events # <<>>
        BY <2>6, InvParts DEF ObserverCalled
      <4>2. Head(events) \in ToSet(events)
        BY <4>1, InTail DEF RecordInv
      <4>3. observers \in Seq(Observer) /\ Head(events).observer \in DOMAIN observers
        BY <4>1, <4>2 DEF RecordInv
      <4>4. observers[Head(events).observer] \in Observer /\ observers # <<>>
        BY <4>3
      <4> QED
        BY <4>1, <4>4, <3>1 DEF RecordInv, Observer
    <3> QED
      BY <3>1, <3>2, <2>1, HomeOK
  <2>7. CASE nav' = nav
    BY <2>7
  <2> QED
    BY <2>2, <2>3, <2>4, <2>5, <2>6, <2>7
    DEF Next, ProfileArrivesTooLate, LogInButtonTapped, FBLoginButtonTapped,
        SheetCancelled, LogOutButtonTapped, SignedIn, AlertOK, FetchEnds, ProfileArrives,
        ProfileFails, DatabaseAnswers, RegisteredElsewhere, screens
<1> QED
  BY <1>1, SessionInvariance, PTL DEF Spec, HomeNeedsToken
=============================================================================
