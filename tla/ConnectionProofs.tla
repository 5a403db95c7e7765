-------------------------- MODULE ConnectionProofs --------------------------
(***************************************************************************)
(* ConnectionInv is inductive, and Connection implements WriteLink, for    *)
(* any bounds and with or without FirebaseAuth.                            *)
(***************************************************************************)
EXTENDS ConnectionProps, SequenceTheorems, TLAPS

(***************************************************************************)
(* Closing and interrupting                                                *)
(***************************************************************************)

(* onDisconnect, by whatever handler it is called, leaves a state of the   *)
(* invariant: down, with a retry unless interrupted.                       *)
LEMMA DisconnectInv ==
    ASSUME ConnectionInv,
           realtime # "none",
           NEW force \in BOOLEAN,
           OnDisconnect(interruptReasons', force),
           interruptReasons' \in SUBSET Reason,
           authToken' \in BOOLEAN, distrusted' \in BOOLEAN,
           faults' \in Nat, offline' \in Nat,
           UNCHANGED <<attempt, fetches, writes>>
    PROVE  ConnectionInv'
<1> USE DEF ConnectionInv
<1>1. TypeOK'
  <2>1. retries' \in {<<>>, <<TRUE>>, <<FALSE>>} /\ forceRefresh' \in BOOLEAN
    <3>1. CASE interruptReasons' = {}
      <4>1. retries' = <<force>> /\ forceRefresh' = FALSE
        BY <3>1 DEF OnDisconnect, TryScheduleReconnect
      <4>2. force = TRUE \/ force = FALSE
        OBVIOUS
      <4> QED
        BY <4>1, <4>2, Zenon
    <3>2. CASE interruptReasons' # {}
      <4>1. retries' = retries /\ forceRefresh' = force
        BY <3>2 DEF OnDisconnect, TryScheduleReconnect
      <4> QED
        BY <4>1, Zenon DEF TypeOK
    <3> QED
      BY <3>1, <3>2
  <2>2. /\ connectionState' \in ConnectionState
        /\ realtime' \in {"none", "connecting", "connected"}
        /\ socket' \in {"none", "opening", "lost", "open", "closing"}
        /\ authRequests' \in Seq(BOOLEAN) /\ putRequests' \in Seq(Nat)
    BY DEF OnDisconnect, ConnectionState
  <2>3. /\ puts' \in Seq(Nat) /\ nextPut' \in Nat /\ attempt' \in Nat
        /\ fetches' \in SUBSET [no : Nat, forced : BOOLEAN]
    BY DEF TypeOK, writes
  <2> QED
    BY <2>1, <2>2, <2>3 DEF TypeOK
<1>2. StatesAgree'
  BY DEF StatesAgree, OnDisconnect, MayTalk
<1>3. RetryOnlyWhenDown' /\ OutstandingUnderWay' /\ RestoresOnce'
  BY DEF RetryOnlyWhenDown, OutstandingUnderWay, RestoresOnce, OnDisconnect, MayWrite
<1>4. QuietWhenInterrupted' /\ AlwaysTrying'
  <2>1. connectionState' = "Disconnected"
    BY DEF OnDisconnect
  <2>2. connectionState # "Disconnected"
    BY DEF StatesAgree, MayTalk, TypeOK
  <2>3. interruptReasons' # {} => retries' = <<>>
    BY <2>2 DEF OnDisconnect, TryScheduleReconnect, RetryOnlyWhenDown
  <2>4. interruptReasons' = {} => retries' # <<>>
    BY DEF OnDisconnect, TryScheduleReconnect
  <2> QED
    BY <2>1, <2>3, <2>4 DEF QuietWhenInterrupted, AlwaysTrying
<1>5. LatestFetchAwaited'
  BY DEF LatestFetchAwaited, OnDisconnect
<1> QED
  BY <1>1, <1>2, <1>3, <1>4, <1>5 DEF OnDisconnect

(* interruptForReason: down and quiet, whether it closes a connection or   *)
(* calls a retry off.                                                      *)
LEMMA InterruptInv ==
    ASSUME ConnectionInv,
           NEW reason \in Reason,
           InterruptForReason(reason),
           faults' \in Nat, offline' \in Nat,
           UNCHANGED <<tokens, writes>>
    PROVE  ConnectionInv'
<1> USE DEF ConnectionInv
<1>1. CASE realtime # "none"
  <2>1. OnDisconnect(interruptReasons', forceRefresh)
    BY <1>1 DEF InterruptForReason
  <2>2. interruptReasons' \in SUBSET Reason /\ forceRefresh \in BOOLEAN
    BY DEF InterruptForReason, TypeOK
  <2>3. /\ authToken' \in BOOLEAN /\ distrusted' \in BOOLEAN
        /\ UNCHANGED <<attempt, fetches, writes>>
    BY DEF TypeOK, tokens
  <2> QED
    BY <1>1, <2>1, <2>2, <2>3, DisconnectInv
<1>2. CASE realtime = "none"
  <2>1. /\ interruptReasons' = interruptReasons \cup {reason}
        /\ retries' = <<>>
        /\ connectionState' = "Disconnected"
        /\ UNCHANGED <<realtime, socket, authRequests, putRequests, forceRefresh>>
    BY <1>2 DEF InterruptForReason, link
  <2>2. UNCHANGED <<attempt, fetches, authToken, distrusted, puts, nextPut>>
    BY DEF tokens, writes
  <2>3. authRequests = <<>> /\ putRequests = <<>>
    BY <1>2 DEF StatesAgree
  <2>4. TypeOK'
    BY <2>1, <2>2 DEF TypeOK, ConnectionState
  <2>5. StatesAgree' /\ RetryOnlyWhenDown' /\ OutstandingUnderWay' /\ RestoresOnce'
    BY <1>2, <2>1, <2>2, <2>3
       DEF StatesAgree, RetryOnlyWhenDown, OutstandingUnderWay, RestoresOnce, MayTalk,
           MayWrite
  <2>6. QuietWhenInterrupted' /\ AlwaysTrying'
    BY <2>1 DEF QuietWhenInterrupted, AlwaysTrying
  <2>7. LatestFetchAwaited'
    BY <2>1, <2>2 DEF LatestFetchAwaited
  <2> QED
    BY <2>1, <2>2, <2>4, <2>5, <2>6, <2>7
<1> QED
  BY <1>1, <1>2

(***************************************************************************)
(* Trying again                                                            *)
(***************************************************************************)

(* A retry scheduled while disconnected, whatever was scheduled before *)
LEMMA ScheduleInv ==
    ASSUME ConnectionInv,
           connectionState' = "Disconnected",
           connectionState \in {"Disconnected", "GettingToken"},
           TryScheduleReconnect(interruptReasons', forceRefresh),
           interruptReasons' \in SUBSET interruptReasons,
           fetches' \in SUBSET fetches,
           faults' \in Nat,
           UNCHANGED <<attempt, authToken, distrusted, link, writes, offline>>
    PROVE  ConnectionInv'
<1> USE DEF ConnectionInv
<1>1. UNCHANGED <<realtime, socket, authRequests, putRequests, puts, nextPut>>
  BY DEF link, writes
<1>2. /\ retries' \in {<<>>, <<TRUE>>, <<FALSE>>} /\ forceRefresh' \in BOOLEAN
      /\ interruptReasons' # {} => retries' = <<>>
      /\ interruptReasons' = {} => retries' # <<>>
  <2>1. CASE interruptReasons' = {}
    <3>1. retries' = <<forceRefresh>> /\ forceRefresh' = FALSE
      BY <2>1 DEF TryScheduleReconnect
    <3>2. forceRefresh = TRUE \/ forceRefresh = FALSE
      BY DEF TypeOK
    <3>3. retries' \in {<<>>, <<TRUE>>, <<FALSE>>}
      BY <3>1, <3>2, Zenon
    <3> QED
      BY <2>1, <3>1, <3>3
  <2>2. CASE interruptReasons' # {}
    <3>1. retries' = retries /\ forceRefresh' = forceRefresh
      BY <2>2 DEF TryScheduleReconnect
    <3>2. retries = <<>>
      BY <2>2 DEF QuietWhenInterrupted
    <3> QED
      BY <2>2, <3>1, <3>2 DEF TypeOK
  <2> QED
    BY <2>1, <2>2
<1>3. TypeOK'
  BY <1>1, <1>2 DEF TypeOK, ConnectionState
<1>4. realtime = "none" /\ authRequests = <<>> /\ putRequests = <<>>
  BY DEF StatesAgree, MayTalk, TypeOK
<1>5. StatesAgree' /\ OutstandingUnderWay' /\ RestoresOnce'
  BY <1>1, <1>4 DEF StatesAgree, OutstandingUnderWay, RestoresOnce, MayTalk, MayWrite
<1>6. RetryOnlyWhenDown' /\ QuietWhenInterrupted' /\ AlwaysTrying'
  BY <1>2 DEF RetryOnlyWhenDown, QuietWhenInterrupted, AlwaysTrying
<1>7. LatestFetchAwaited'
  BY DEF LatestFetchAwaited
<1> QED
  BY <1>3, <1>5, <1>6, <1>7

LEMMA ResumeInv ==
    ASSUME ConnectionInv, NEW reason \in Reason, ResumeForReason(reason)
    PROVE  ConnectionInv'
<1> USE DEF ConnectionInv
<1>1. /\ interruptReasons' = interruptReasons \ {reason}
      /\ UNCHANGED <<connectionState, attempt, fetches, authToken, distrusted,
                     link, writes, faults, offline>>
  BY DEF ResumeForReason, tokens, bounds
<1>2. CASE connectionState = "Disconnected"
  <2>1. TryScheduleReconnect(interruptReasons', forceRefresh)
    BY <1>2 DEF ResumeForReason
  <2>2. faults' \in Nat
    BY <1>1 DEF TypeOK
  <2> QED
    BY <1>1, <1>2, <2>1, <2>2, ScheduleInv
<1>3. CASE connectionState # "Disconnected"
  <2>1. UNCHANGED <<retries, forceRefresh>>
    BY <1>3 DEF ResumeForReason
  <2>2. interruptReasons = {} /\ interruptReasons' = {} /\ retries = <<>>
    BY <1>1, <1>3 DEF QuietWhenInterrupted, RetryOnlyWhenDown
  <2>3. UNCHANGED <<realtime, socket, authRequests, putRequests, puts, nextPut>>
    BY <1>1 DEF link, writes
  <2>4. TypeOK'
    BY <1>1, <2>1, <2>2, <2>3 DEF TypeOK
  <2>5. StatesAgree' /\ OutstandingUnderWay' /\ RestoresOnce' /\ LatestFetchAwaited'
    BY <1>1, <2>3 DEF StatesAgree, OutstandingUnderWay, RestoresOnce, LatestFetchAwaited,
                      MayTalk, MayWrite
  <2>6. RetryOnlyWhenDown' /\ QuietWhenInterrupted' /\ AlwaysTrying'
    BY <1>1, <1>3, <2>1, <2>2 DEF RetryOnlyWhenDown, QuietWhenInterrupted, AlwaysTrying
  <2> QED
    BY <1>1, <2>3, <2>4, <2>5, <2>6
<1> QED
  BY <1>2, <1>3

LEMMA ForegroundInv ==
    ASSUME ConnectionInv, EnteringForeground
    PROVE  ConnectionInv'
<1>1. UNCHANGED <<attempt, fetches, authToken, distrusted, link, writes, offline,
                  faults, interruptReasons, connectionState>>
  BY DEF EnteringForeground, tokens, bounds
<1>2. interruptReasons' = interruptReasons /\ fetches' = fetches /\ faults' \in Nat
  BY <1>1 DEF ConnectionInv, TypeOK
<1>3. connectionState = "Disconnected" /\ connectionState' = "Disconnected"
  BY <1>1 DEF EnteringForeground
<1>4. TryScheduleReconnect(interruptReasons', forceRefresh)
  BY <1>2 DEF EnteringForeground
<1> QED
  BY <1>1, <1>2, <1>3, <1>4, ScheduleInv

(***************************************************************************)
(* The token                                                               *)
(***************************************************************************)

(* A connection opened for a client that waits for its token, or (without  *)
(* FirebaseAuth) by the retry itself: no other retry is scheduled.         *)
LEMMA OpenNetworkInv ==
    ASSUME ConnectionInv,
           NEW token \in BOOLEAN,
           OpenNetworkConnection(token),
           connectionState \in {"Disconnected", "GettingToken"},
           interruptReasons = {},
           retries' = <<>>,
           fetches' \in SUBSET fetches,
           \A f \in fetches' : f.no # attempt,
           distrusted' \in BOOLEAN,
           UNCHANGED <<interruptReasons, forceRefresh, attempt, writes, bounds>>
    PROVE  ConnectionInv'
<1> USE DEF ConnectionInv
<1>1. /\ connectionState' = "Connecting" /\ realtime' = "connecting"
      /\ socket' = "opening" /\ authToken' = token
      /\ UNCHANGED <<authRequests, putRequests, puts, nextPut, faults, offline>>
  BY DEF OpenNetworkConnection, writes, bounds
<1>2. authRequests = <<>> /\ putRequests = <<>>
  BY DEF StatesAgree, MayTalk
<1>3. TypeOK'
  BY <1>1 DEF TypeOK, ConnectionState
<1>4. StatesAgree' /\ OutstandingUnderWay' /\ RestoresOnce'
  BY <1>1, <1>2 DEF StatesAgree, OutstandingUnderWay, RestoresOnce, MayTalk, MayWrite
<1>5. RetryOnlyWhenDown' /\ QuietWhenInterrupted' /\ AlwaysTrying'
  BY <1>1 DEF RetryOnlyWhenDown, QuietWhenInterrupted, AlwaysTrying
<1>6. LatestFetchAwaited'
  BY DEF LatestFetchAwaited
<1> QED
  BY <1>1, <1>3, <1>4, <1>5, <1>6

LEMMA Single ==
    ASSUME NEW x
    PROVE  Head(<<x>>) = x /\ Tail(<<x>>) = <<>>
OBVIOUS

LEMMA RetryFiresInv ==
    ASSUME ConnectionInv, RetryFires
    PROVE  ConnectionInv'
<1> USE DEF ConnectionInv
<1>1. /\ retries # <<>> /\ retries' = Tail(retries)
      /\ UNCHANGED <<interruptReasons, forceRefresh, distrusted, writes, bounds>>
  BY DEF RetryFires
<1>2. connectionState = "Disconnected" /\ interruptReasons = {}
  BY <1>1 DEF RetryOnlyWhenDown, QuietWhenInterrupted
<1>3. retries' = <<>> /\ Head(retries) \in BOOLEAN
  <2>1. retries = <<TRUE>> \/ retries = <<FALSE>>
    BY <1>1 DEF TypeOK
  <2>2. /\ Head(<<TRUE>>) = TRUE /\ Tail(<<TRUE>>) = <<>>
        /\ Head(<<FALSE>>) = FALSE /\ Tail(<<FALSE>>) = <<>>
    BY Single, Zenon
  <2>3. TRUE \in BOOLEAN /\ FALSE \in BOOLEAN
    OBVIOUS
  <2> QED
    BY <1>1, <2>1, <2>2, <2>3, Zenon
<1>4. CASE AuthLinked
  <2>1. /\ connectionState' = "GettingToken" /\ attempt' = attempt + 1
        /\ fetches' = fetches \cup {[no |-> attempt', forced |-> Head(retries)]}
        /\ UNCHANGED <<authToken, link>>
    BY <1>4 DEF RetryFires
  <2>2. UNCHANGED <<realtime, socket, authRequests, putRequests, puts, nextPut, faults,
                    offline>>
    BY <1>1, <2>1 DEF link, writes, bounds
  <2>3. TypeOK'
    <3>1. [no |-> attempt', forced |-> Head(retries)] \in [no : Nat, forced : BOOLEAN]
      BY <1>3, <2>1 DEF TypeOK
    <3>2. fetches' \in SUBSET [no : Nat, forced : BOOLEAN]
      BY <2>1, <3>1 DEF TypeOK
    <3> QED
      BY <1>1, <1>3, <2>1, <2>2, <3>2 DEF TypeOK, ConnectionState
  <2>4. StatesAgree' /\ OutstandingUnderWay' /\ RestoresOnce'
    BY <1>2, <2>1, <2>2 DEF StatesAgree, OutstandingUnderWay, RestoresOnce, MayTalk,
                            MayWrite
  <2>5. RetryOnlyWhenDown' /\ QuietWhenInterrupted' /\ AlwaysTrying'
    <3>1. \E f \in fetches' : f.no = attempt'
      <4>1. [no |-> attempt', forced |-> Head(retries)].no = attempt'
        OBVIOUS
      <4> QED
        BY <2>1, <4>1, Zenon
    <3> QED
      BY <1>1, <1>2, <1>3, <2>1, <3>1
         DEF RetryOnlyWhenDown, QuietWhenInterrupted, AlwaysTrying
  <2>6. LatestFetchAwaited'
    BY <2>1 DEF LatestFetchAwaited, TypeOK
  <2> QED
    BY <1>4, <2>1, <2>3, <2>4, <2>5, <2>6
<1>5. CASE ~AuthLinked
  <2>1. OpenNetworkConnection(FALSE) /\ UNCHANGED <<attempt, fetches>>
    BY <1>5 DEF RetryFires
  <2>2. fetches = {} /\ distrusted' \in BOOLEAN
    BY <1>1, <1>5 DEF TypeOK
  <2> QED
    BY <1>1, <1>2, <1>3, <2>1, <2>2, OpenNetworkInv
<1> QED
  BY <1>4, <1>5

LEMMA TokenTooLateInv ==
    ASSUME ConnectionInv, NEW f \in fetches, TokenTooLate(f)
    PROVE  ConnectionInv'
<1> USE DEF ConnectionInv
<1>1. /\ f.no # attempt /\ fetches' = fetches \ {f}
      /\ UNCHANGED <<connectionState, interruptReasons, retries, forceRefresh, attempt,
                     authToken, distrusted, realtime, socket, authRequests,
                     putRequests, puts, nextPut, faults, offline>>
  BY DEF TokenTooLate, trying, link, writes, bounds
<1>2. TypeOK'
  BY <1>1 DEF TypeOK
<1>3. /\ StatesAgree' /\ OutstandingUnderWay' /\ RestoresOnce'
      /\ RetryOnlyWhenDown' /\ QuietWhenInterrupted'
  BY <1>1 DEF StatesAgree, OutstandingUnderWay, RestoresOnce, MayTalk, MayWrite,
              RetryOnlyWhenDown, QuietWhenInterrupted
<1>4. AlwaysTrying' /\ LatestFetchAwaited'
  BY <1>1 DEF AlwaysTrying, LatestFetchAwaited
<1> QED
  BY <1>1, <1>2, <1>3, <1>4

LEMMA TokenErrorInv ==
    ASSUME ConnectionInv, NEW f \in fetches, TokenError(f)
    PROVE  ConnectionInv'
<1>1. /\ connectionState' = "Disconnected" /\ fetches' \in SUBSET fetches
      /\ interruptReasons' = interruptReasons /\ faults' = faults + 1
      /\ UNCHANGED <<attempt, authToken, distrusted, link, writes, offline>>
  BY DEF TokenError
<1>2. connectionState \in {"Disconnected", "GettingToken"}
  BY DEF TokenError, ConnectionInv, LatestFetchAwaited
<1>3. TryScheduleReconnect(interruptReasons', forceRefresh) /\ faults' \in Nat
  BY <1>1 DEF TokenError, ConnectionInv, TypeOK
<1> QED
  BY <1>1, <1>2, <1>3, ScheduleInv

LEMMA TokenArrivesInv ==
    ASSUME ConnectionInv, NEW f \in fetches, TokenArrives(f)
    PROVE  ConnectionInv'
<1> USE DEF ConnectionInv
<1>1. /\ f.no = attempt /\ fetches' = fetches \ {f}
      /\ UNCHANGED <<interruptReasons, retries, forceRefresh, attempt, writes, bounds>>
  BY DEF TokenArrives
<1>2. CASE connectionState = "GettingToken"
  <2>1. PICK token \in BOOLEAN : /\ OpenNetworkConnection(token)
                                 /\ distrusted' = (distrusted /\ ~f.forced)
    BY <1>2 DEF TokenArrives
  <2>2. interruptReasons = {} /\ retries' = <<>>
    BY <1>1, <1>2 DEF QuietWhenInterrupted, RetryOnlyWhenDown
  <2>3. \A g \in fetches' : g.no # attempt
    BY <1>1 DEF LatestFetchAwaited
  <2>4. distrusted' \in BOOLEAN
    BY <2>1
  <2> QED
    BY <1>1, <1>2, <2>1, <2>2, <2>3, <2>4, OpenNetworkInv
<1>3. CASE connectionState # "GettingToken"
  <2>1. UNCHANGED <<connectionState, authToken, distrusted, realtime, socket,
                    authRequests, putRequests, puts, nextPut, faults, offline>>
    BY <1>1, <1>3 DEF TokenArrives, link, writes, bounds
  <2>2. TypeOK'
    BY <1>1, <2>1 DEF TypeOK
  <2>3. /\ StatesAgree' /\ OutstandingUnderWay' /\ RestoresOnce'
        /\ RetryOnlyWhenDown' /\ QuietWhenInterrupted'
    BY <1>1, <2>1 DEF StatesAgree, OutstandingUnderWay, RestoresOnce, MayTalk, MayWrite,
                RetryOnlyWhenDown, QuietWhenInterrupted
  <2>4. AlwaysTrying' /\ LatestFetchAwaited'
    BY <1>1, <1>3, <2>1 DEF AlwaysTrying, LatestFetchAwaited
  <2> QED
    BY <1>1, <2>1, <2>2, <2>3, <2>4
<1> QED
  BY <1>2, <1>3

(***************************************************************************)
(* The socket and the requests on it                                       *)
(***************************************************************************)

(* What changes the socket, and nothing else the invariant speaks of *)
LEMMA SocketInv ==
    ASSUME ConnectionInv,
           socket \in {"opening", "lost"},
           socket' \in {"lost", "open", "closing"},
           faults' \in Nat,
           UNCHANGED <<trying, tokens, realtime, authRequests, putRequests, writes,
                       offline>>
    PROVE  ConnectionInv'
<1> USE DEF ConnectionInv
<1>1. UNCHANGED <<connectionState, interruptReasons, retries, forceRefresh, attempt,
                  fetches, authToken, distrusted, puts, nextPut>>
  BY DEF trying, tokens, writes
<1>2. TypeOK'
  BY <1>1 DEF TypeOK
<1>3. /\ StatesAgree' /\ OutstandingUnderWay' /\ RestoresOnce' /\ AlwaysTrying'
      /\ RetryOnlyWhenDown' /\ QuietWhenInterrupted' /\ LatestFetchAwaited'
  BY <1>1 DEF StatesAgree, OutstandingUnderWay, RestoresOnce, MayTalk, MayWrite,
              RetryOnlyWhenDown, QuietWhenInterrupted, LatestFetchAwaited, AlwaysTrying
<1> QED
  BY <1>1, <1>2, <1>3

(* The handlers that end in onDisconnect *)
LEMMA ClosedInv ==
    ASSUME ConnectionInv, WebSocketClosed \/ OnReset
    PROVE  ConnectionInv'
<1> USE DEF ConnectionInv
<1>1. /\ socket # "none" /\ faults' \in Nat
      /\ interruptReasons' = interruptReasons
      /\ OnDisconnect(interruptReasons, forceRefresh)
      /\ UNCHANGED <<attempt, fetches, authToken, distrusted, writes, offline>>
  <2>1. faults' = faults \/ faults' = faults + 1
    BY DEF WebSocketClosed, OnReset
  <2>2. faults' \in Nat
    BY <2>1 DEF TypeOK
  <2>3. socket # "none" /\ UNCHANGED <<interruptReasons, tokens, writes, offline>>
    BY DEF WebSocketClosed, OnReset
  <2>4. OnDisconnect(interruptReasons, forceRefresh)
    BY DEF WebSocketClosed, OnReset
  <2> QED
    BY <2>2, <2>3, <2>4 DEF tokens
<1>2. OnDisconnect(interruptReasons', forceRefresh)
  BY <1>1
<1>3. /\ realtime # "none" /\ forceRefresh \in BOOLEAN
      /\ interruptReasons' \in SUBSET Reason
      /\ authToken' \in BOOLEAN /\ distrusted' \in BOOLEAN /\ offline' \in Nat
  BY <1>1 DEF StatesAgree, TypeOK
<1> QED
  BY <1>1, <1>2, <1>3, DisconnectInv

LEMMA DroppedInv ==
    ASSUME ConnectionInv, TokenDropped, realtime # "none"
    PROVE  ConnectionInv'
<1> USE DEF ConnectionInv
<1>1. /\ faults' \in Nat
      /\ interruptReasons' = interruptReasons
      /\ OnDisconnect(interruptReasons, TRUE)
      /\ authToken' = FALSE /\ distrusted' = TRUE
      /\ UNCHANGED <<attempt, fetches, writes, offline>>
  <2>1. faults' \in Nat
    BY DEF TokenDropped, TypeOK
  <2> QED
    BY <2>1 DEF TokenDropped
<1>2. OnDisconnect(interruptReasons', TRUE)
  BY <1>1
<1>3. /\ interruptReasons' \in SUBSET Reason
      /\ authToken' \in BOOLEAN /\ distrusted' \in BOOLEAN /\ offline' \in Nat
  BY <1>1 DEF TypeOK
<1> QED
  BY <1>1, <1>2, <1>3, DisconnectInv

(* What changes connectionState and the requests on a live connection *)
LEMMA TalkInv ==
    ASSUME ConnectionInv,
           connectionState \in {"Connecting", "Authenticating", "Connected"},
           connectionState' \in {"Authenticating", "Connected"},
           realtime' = "connected",
           socket \in {"open", "closing"}, socket' = socket,
           authRequests' \in Seq(BOOLEAN),
           OutstandingUnderWay', RestoresOnce',
           connectionState' = "Authenticating" => authRequests' # <<>>,
           puts' \in Seq(Nat), nextPut' \in Nat,
           authToken' \in BOOLEAN, distrusted' \in BOOLEAN, faults' \in Nat,
           UNCHANGED <<interruptReasons, retries, forceRefresh, attempt, fetches,
                       offline>>
    PROVE  ConnectionInv'
<1> USE DEF ConnectionInv
<1>1. putRequests' \in Seq(Nat)
  BY DEF OutstandingUnderWay
<1>2. TypeOK'
  BY <1>1 DEF TypeOK, ConnectionState
<1>3. StatesAgree'
  BY DEF StatesAgree, MayTalk
<1>4. interruptReasons = {} /\ retries = <<>>
  BY DEF QuietWhenInterrupted, RetryOnlyWhenDown
<1>5. RetryOnlyWhenDown' /\ QuietWhenInterrupted' /\ AlwaysTrying'
  BY <1>4 DEF RetryOnlyWhenDown, QuietWhenInterrupted, AlwaysTrying
<1>6. LatestFetchAwaited'
  BY DEF LatestFetchAwaited
<1> QED
  BY <1>2, <1>3, <1>5, <1>6

LEMMA HelloInv ==
    ASSUME ConnectionInv, Hello
    PROVE  ConnectionInv'
<1> USE DEF ConnectionInv
<1>1. /\ realtime' = "connected" /\ connectionState = "Connecting"
      /\ socket \in {"open", "closing"}
      /\ authRequests = <<>> /\ putRequests = <<>>
  BY DEF Hello, StatesAgree, MayTalk
<1>2. UNCHANGED <<interruptReasons, retries, forceRefresh, attempt, fetches, authToken,
                  distrusted, socket, puts, nextPut, faults, offline>>
  BY DEF Hello, tokens, writes, bounds
<1>3. /\ puts' \in Seq(Nat) /\ nextPut' \in Nat
      /\ authToken' \in BOOLEAN /\ distrusted' \in BOOLEAN /\ faults' \in Nat
  BY <1>2 DEF TypeOK
<1>4. CASE authToken
  <2>1. /\ connectionState' = "Authenticating" /\ putRequests' = putRequests
        /\ authRequests' = Append(authRequests, TRUE)
    BY <1>4 DEF Hello
  <2>2. authRequests' = <<TRUE>>
    BY <1>1, <2>1
  <2>3. OutstandingUnderWay' /\ RestoresOnce' /\ authRequests' \in Seq(BOOLEAN)
    <3>1. OutstandingUnderWay'
      BY <1>1, <2>1 DEF OutstandingUnderWay, MayWrite
    <3>2. DOMAIN authRequests' = {1} /\ authRequests'[1] = TRUE
      BY <2>2
    <3>3. RestoresOnce'
      BY <2>1, <3>2 DEF RestoresOnce
    <3>4. authRequests' \in Seq(BOOLEAN)
      BY <2>1 DEF TypeOK
    <3> QED
      BY <3>1, <3>3, <3>4
  <2>4. authRequests' # <<>>
    BY <2>2
  <2> QED
    BY <1>1, <1>2, <1>3, <2>1, <2>3, <2>4, TalkInv
<1>5. CASE ~authToken
  <2>1. /\ connectionState' = "Connected" /\ putRequests' = <<>> \o puts
        /\ authRequests' = <<>>
    BY <1>1, <1>5 DEF Hello, RestoreState
  <2>2. putRequests' = puts'
    BY <1>2, <2>1 DEF TypeOK
  <2>3. OutstandingUnderWay' /\ RestoresOnce' /\ authRequests' \in Seq(BOOLEAN)
    BY <2>1, <2>2 DEF OutstandingUnderWay, RestoresOnce, MayWrite
  <2> QED
    BY <1>1, <1>2, <1>3, <2>1, <2>3, TalkInv
<1> QED
  BY <1>4, <1>5

LEMMA AuthAcceptedInv ==
    ASSUME ConnectionInv, AuthAccepted
    PROVE  ConnectionInv'
<1> USE DEF ConnectionInv
<1>1. /\ authRequests # <<>> /\ authRequests' = Tail(authRequests)
      /\ connectionState' = "Connected"
      /\ UNCHANGED <<interruptReasons, retries, forceRefresh, attempt, fetches,
                     authToken, distrusted, realtime, socket, puts, nextPut, faults,
                     offline>>
  BY DEF AuthAccepted, tokens, writes, bounds
<1>2. /\ connectionState \in {"Authenticating", "Connected"} /\ realtime' = "connected"
      /\ socket \in {"open", "closing"}
  BY <1>1 DEF StatesAgree, MayTalk
<1>3. /\ authRequests' \in Seq(BOOLEAN) /\ puts' \in Seq(Nat) /\ nextPut' \in Nat
      /\ authToken' \in BOOLEAN /\ distrusted' \in BOOLEAN /\ faults' \in Nat
  BY <1>1 DEF TypeOK
<1>4. 1 \in DOMAIN authRequests /\ Head(authRequests) = authRequests[1]
  BY <1>1 DEF TypeOK
<1>5. OutstandingUnderWay'
  <2>1. CASE Head(authRequests)
    <3>1. connectionState = "Authenticating"
      BY <1>4, <2>1 DEF RestoresOnce
    <3>2. putRequests = <<>>
      BY <3>1 DEF OutstandingUnderWay, MayWrite
    <3>3. putRequests' = <<>> \o puts
      BY <2>1, <3>2 DEF AuthAccepted, RestoreState
    <3> QED
      BY <1>1, <3>3 DEF OutstandingUnderWay, MayWrite, TypeOK
  <2>2. CASE ~Head(authRequests)
    <3>1. connectionState = "Connected"
      BY <1>2, <1>4, <2>2 DEF RestoresOnce
    <3>2. putRequests' = putRequests
      BY <2>2 DEF AuthAccepted
    <3> QED
      BY <1>1, <3>1, <3>2 DEF OutstandingUnderWay, MayWrite
  <2> QED
    BY <2>1, <2>2
<1>6. RestoresOnce'
  <2>1. ASSUME NEW i \in DOMAIN authRequests'
        PROVE  ~authRequests'[i]
    <3>1. i \in Nat \ {0} /\ i + 1 \in DOMAIN authRequests
      BY <1>1 DEF TypeOK
    <3>2. authRequests'[i] = authRequests[i + 1]
      BY <1>1 DEF TypeOK
    <3>3. i + 1 # 1
      BY <3>1
    <3>4. ~authRequests[i + 1]
      BY <3>1, <3>3 DEF RestoresOnce
    <3> QED
      BY <3>2, <3>4
  <2> QED
    BY <1>1, <2>1 DEF RestoresOnce
<1> QED
  BY <1>1, <1>2, <1>3, <1>5, <1>6, TalkInv

LEMMA AppendOne ==
    ASSUME NEW S, NEW s \in Seq(S), NEW x \in S
    PROVE  /\ Append(s, x) \in Seq(S) /\ Append(s, x) # <<>>
           /\ \A i \in DOMAIN s : Append(s, x)[i] = s[i]
           /\ \A i \in DOMAIN Append(s, x) \ DOMAIN s :
                 i = Len(s) + 1 /\ Append(s, x)[i] = x
OBVIOUS

LEMMA RefreshInv ==
    ASSUME ConnectionInv, NEW token \in BOOLEAN, RefreshAuthToken(token)
    PROVE  ConnectionInv'
<1> USE DEF ConnectionInv
<1>1. /\ authToken' = token /\ faults' = faults + 1 /\ AuthLinked
      /\ distrusted' = (distrusted /\ ~token)
      /\ UNCHANGED <<connectionState, interruptReasons, retries, forceRefresh, attempt,
                     fetches, realtime, socket, putRequests, puts, nextPut, offline>>
  BY DEF RefreshAuthToken, trying, writes
<1>2. OutstandingUnderWay'
  BY <1>1 DEF OutstandingUnderWay, MayWrite
<1>3. /\ puts' \in Seq(Nat) /\ nextPut' \in Nat
      /\ authToken' \in BOOLEAN /\ distrusted' \in BOOLEAN /\ faults' \in Nat
  BY <1>1 DEF TypeOK
<1>4. CASE MayTalk /\ token
  <2>1. authRequests' = Append(authRequests, FALSE)
    BY <1>4 DEF RefreshAuthToken
  <2> DEFINE longer == Append(authRequests, FALSE)
  <2>0. /\ longer \in Seq(BOOLEAN) /\ longer # <<>>
        /\ \A i \in DOMAIN authRequests : longer[i] = authRequests[i]
        /\ \A i \in DOMAIN longer \ DOMAIN authRequests :
              i = Len(authRequests) + 1 /\ longer[i] = FALSE
    <3>1. authRequests \in Seq(BOOLEAN) /\ FALSE \in BOOLEAN
      BY DEF TypeOK
    <3> QED
      BY <3>1, AppendOne, Zenon
  <2> HIDE DEF longer
  <2>2. authRequests' = longer /\ authRequests' \in Seq(BOOLEAN) /\ authRequests' # <<>>
    BY <2>0, <2>1, Zenon DEF longer
  <2>3. RestoresOnce'
    <3>1. ASSUME NEW i \in DOMAIN authRequests'
          PROVE  authRequests'[i] <=> i = 1 /\ connectionState' = "Authenticating"
      <4>1. CASE i \in DOMAIN authRequests
        <5>1. authRequests'[i] = authRequests[i]
          BY <2>0, <2>2, <4>1, Zenon
        <5>2. authRequests[i] <=> i = 1 /\ connectionState = "Authenticating"
          BY <4>1 DEF RestoresOnce
        <5> QED
          BY <1>1, <5>1, <5>2, Zenon
      <4>2. CASE i \notin DOMAIN authRequests
        <5>1. i = Len(authRequests) + 1 /\ authRequests'[i] = FALSE
          BY <2>0, <2>2, <4>2, Zenon
        <5>2. i = 1 => authRequests = <<>>
          BY <5>1 DEF TypeOK
        <5>3. connectionState = "Authenticating" => authRequests # <<>>
          OBVIOUS
        <5> QED
          BY <1>1, <5>1, <5>2, <5>3, Zenon
      <4> QED
        BY <4>1, <4>2
    <3> QED
      BY <3>1 DEF RestoresOnce
  <2>4. /\ connectionState \in {"Authenticating", "Connected"} /\ realtime' = "connected"
        /\ socket \in {"open", "closing"}
    BY <1>1, <1>4 DEF StatesAgree, MayTalk
  <2> QED
    BY <1>1, <1>2, <1>3, <2>2, <2>3, <2>4, TalkInv
<1>5. CASE ~(MayTalk /\ token)
  <2>1. authRequests' = authRequests
    BY <1>5 DEF RefreshAuthToken
  <2>2. TypeOK'
    BY <1>1, <1>3, <2>1 DEF TypeOK
  <2>3. /\ StatesAgree' /\ RestoresOnce' /\ AlwaysTrying'
        /\ RetryOnlyWhenDown' /\ QuietWhenInterrupted' /\ LatestFetchAwaited'
    BY <1>1, <2>1 DEF StatesAgree, RestoresOnce, MayTalk, RetryOnlyWhenDown,
                      QuietWhenInterrupted, LatestFetchAwaited, AlwaysTrying
  <2> QED
    BY <1>1, <1>2, <2>1, <2>2, <2>3
<1> QED
  BY <1>4, <1>5

(* A write handed over, or answered: connectionState stays. *)
LEMMA WritesInv ==
    ASSUME ConnectionInv,
           puts' \in Seq(Nat), nextPut' \in Nat,
           putRequests' = IF MayWrite THEN puts' ELSE <<>>,
           UNCHANGED <<trying, tokens, realtime, socket, authRequests, bounds>>
    PROVE  ConnectionInv'
<1> USE DEF ConnectionInv
<1>1. UNCHANGED <<connectionState, interruptReasons, retries, forceRefresh, attempt,
                  fetches, authToken, distrusted, faults, offline>>
  BY DEF trying, tokens, bounds
<1>2. putRequests' \in Seq(Nat)
  OBVIOUS
<1>3. TypeOK'
  BY <1>1, <1>2 DEF TypeOK
<1>4. OutstandingUnderWay'
  BY <1>1 DEF OutstandingUnderWay, MayWrite
<1>5. StatesAgree'
  BY <1>1 DEF StatesAgree, MayTalk, MayWrite
<1>6. /\ RestoresOnce' /\ AlwaysTrying' /\ RetryOnlyWhenDown'
      /\ QuietWhenInterrupted' /\ LatestFetchAwaited'
  BY <1>1 DEF RestoresOnce, AlwaysTrying, RetryOnlyWhenDown, QuietWhenInterrupted,
              LatestFetchAwaited
<1> QED
  BY <1>1, <1>3, <1>4, <1>5, <1>6

LEMMA PutInternalInv ==
    ASSUME ConnectionInv, PutInternal
    PROVE  ConnectionInv'
<1> USE DEF ConnectionInv
<1>1. /\ puts' = Append(puts, nextPut) /\ nextPut' = nextPut + 1
      /\ putRequests' = IF MayWrite THEN Append(putRequests, nextPut) ELSE putRequests
      /\ UNCHANGED <<trying, tokens, realtime, socket, authRequests, bounds>>
  BY DEF PutInternal
<1>2. puts' \in Seq(Nat) /\ nextPut' \in Nat
  BY <1>1 DEF TypeOK
<1>3. putRequests' = IF MayWrite THEN puts' ELSE <<>>
  BY <1>1 DEF OutstandingUnderWay
<1> QED
  BY <1>1, <1>2, <1>3, WritesInv

(* The answer is to the oldest outstanding write. *)
LEMMA OldestAnswered ==
    ASSUME ConnectionInv, PutAnswered
    PROVE  /\ MayWrite /\ puts # <<>> /\ putRequests = puts
           /\ puts' = Tail(puts) /\ putRequests' = Tail(puts)
BY DEF PutAnswered, ConnectionInv, OutstandingUnderWay

LEMMA PutAnsweredInv ==
    ASSUME ConnectionInv, PutAnswered
    PROVE  ConnectionInv'
<1>1. /\ MayWrite /\ puts # <<>>
      /\ puts' = Tail(puts) /\ putRequests' = Tail(puts)
  BY OldestAnswered
<1>2. /\ nextPut' = nextPut
      /\ UNCHANGED <<trying, tokens, realtime, socket, authRequests, bounds>>
  BY DEF PutAnswered
<1>3. puts' \in Seq(Nat) /\ nextPut' \in Nat
  BY <1>1, <1>2 DEF ConnectionInv, TypeOK
<1> QED
  BY <1>1, <1>2, <1>3, WritesInv

(***************************************************************************)
(* The theorems                                                            *)
(***************************************************************************)

LEMMA InitInv == Init => ConnectionInv
<1> SUFFICES ASSUME Init PROVE ConnectionInv
  OBVIOUS
<1>1. retries \in {<<>>, <<TRUE>>, <<FALSE>>}
  BY Zenon DEF Init
<1>2. authRequests \in Seq(BOOLEAN) /\ putRequests \in Seq(Nat) /\ puts \in Seq(Nat)
  <2>1. \A S : <<>> \in Seq(S)
    OBVIOUS
  <2> QED
    BY <2>1, Zenon DEF Init
<1>3. /\ connectionState \in ConnectionState /\ interruptReasons \in SUBSET Reason
      /\ fetches \in SUBSET [no : Nat, forced : BOOLEAN]
      /\ authToken \in BOOLEAN /\ forceRefresh \in BOOLEAN /\ distrusted \in BOOLEAN
  BY Zenon DEF Init, ConnectionState, Reason
<1>4. /\ attempt \in Nat /\ nextPut \in Nat /\ faults \in Nat /\ offline \in Nat
      /\ realtime \in {"none", "connecting", "connected"}
      /\ socket \in {"none", "opening", "lost", "open", "closing"}
  BY DEF Init
<1>5. TypeOK
  BY <1>1, <1>2, <1>3, <1>4, Zenon DEF TypeOK
<1> QED
  BY <1>5 DEF Init, ConnectionInv, StatesAgree, RetryOnlyWhenDown, QuietWhenInterrupted,
     AlwaysTrying, OutstandingUnderWay, RestoresOnce, LatestFetchAwaited, MayTalk,
     MayWrite

LEMMA NextInv == ConnectionInv /\ [Next]_vars => ConnectionInv'
<1> SUFFICES ASSUME ConnectionInv, [Next]_vars PROVE ConnectionInv'
  OBVIOUS
<1>1. CASE Open \/ GoOnline
  BY <1>1, ResumeInv DEF Open, GoOnline, Reason
<1>2. CASE GoOffline
  <2>1. /\ InterruptForReason("repo_interrupt") /\ UNCHANGED <<tokens, writes>>
        /\ faults' = faults /\ offline' = offline + 1
    BY <1>2 DEF GoOffline
  <2>2. faults' \in Nat /\ offline' \in Nat
    BY <2>1 DEF ConnectionInv, TypeOK
  <2> QED
    BY <2>1, <2>2, InterruptInv DEF Reason
<1>3. CASE OnKill
  <2>1. /\ InterruptForReason("server_kill") /\ UNCHANGED <<tokens, writes>>
        /\ faults' = faults /\ offline' = offline
    BY <1>3 DEF OnKill, bounds
  <2>2. faults' \in Nat /\ offline' \in Nat
    BY <2>1 DEF ConnectionInv, TypeOK
  <2> QED
    BY <2>1, <2>2, InterruptInv DEF Reason
<1>4. CASE EnteringForeground
  BY <1>4, ForegroundInv
<1>5. CASE RetryFires
  BY <1>5, RetryFiresInv
<1>6. CASE TokenAnswered
  <2>1. PICK f \in fetches : TokenTooLate(f) \/ TokenError(f) \/ TokenArrives(f)
    BY <1>6 DEF TokenAnswered
  <2>2. CASE TokenTooLate(f)
    BY <2>2, TokenTooLateInv
  <2>3. CASE TokenError(f)
    BY <2>3, TokenErrorInv
  <2>4. CASE TokenArrives(f)
    BY <2>4, TokenArrivesInv
  <2> QED
    BY <2>1, <2>2, <2>3, <2>4
<1>7. CASE WebSocketDidOpen \/ AttemptLost \/ ConnectTimeout
  <2>1. /\ socket \in {"opening", "lost"} /\ socket' \in {"lost", "open", "closing"}
        /\ UNCHANGED <<trying, tokens, realtime, authRequests, putRequests, writes,
                       offline>>
    BY <1>7 DEF WebSocketDidOpen, AttemptLost, ConnectTimeout, bounds
  <2>2. faults' = faults \/ faults' = faults + 1
    BY <1>7 DEF WebSocketDidOpen, AttemptLost, ConnectTimeout, bounds
  <2>3. faults' \in Nat
    BY <2>2 DEF ConnectionInv, TypeOK
  <2> QED
    BY <2>1, <2>3, SocketInv
<1>8. CASE WebSocketClosed \/ OnReset
  BY <1>8, ClosedInv
<1>9. CASE Hello
  BY <1>9, HelloInv
<1>10. CASE AuthAnswered \/ OnAuthRevoked
  <2>1. CASE AuthAccepted
    BY <2>1, AuthAcceptedInv
  <2>2. CASE AuthRefused \/ OnAuthRevoked
    <3>1. realtime # "none"
      BY <2>2 DEF AuthRefused, OnAuthRevoked, ConnectionInv, StatesAgree, MayTalk
    <3> QED
      BY <2>2, <3>1, DroppedInv DEF AuthRefused, OnAuthRevoked
  <2> QED
    BY <1>10, <2>1, <2>2 DEF AuthAnswered
<1>11. CASE \E token \in BOOLEAN : RefreshAuthToken(token)
  BY <1>11, RefreshInv
<1>12. CASE PutInternal \/ PutAnswered
  BY <1>12, PutInternalInv, PutAnsweredInv
<1>13. CASE UNCHANGED vars
  <2>1. UNCHANGED <<trying, tokens, realtime, socket, authRequests, putRequests, puts,
                    nextPut, bounds>>
    BY <1>13 DEF vars, link, writes
  <2>2. puts' \in Seq(Nat) /\ nextPut' \in Nat
    BY <2>1 DEF ConnectionInv, TypeOK
  <2>3. putRequests' = IF MayWrite THEN puts' ELSE <<>>
    BY <2>1 DEF ConnectionInv, OutstandingUnderWay
  <2> QED
    BY <2>1, <2>2, <2>3, WritesInv
<1> QED
  BY <1>1, <1>2, <1>3, <1>4, <1>5, <1>6, <1>7, <1>8, <1>9, <1>10, <1>11, <1>12, <1>13
     DEF Next

(* The inductive invariant holds of every run of the client, however the   *)
(* handlers interleave (FPersistentConnection.m).                          *)
THEOREM ConnectionInvariance == Spec => []ConnectionInv
<1>1. Init => ConnectionInv
  BY InitInv
<1>2. ConnectionInv /\ [Next]_vars => ConnectionInv'
  BY NextInv
<1> QED
  BY <1>1, <1>2, PTL DEF Spec

(* Nothing is sent on an FConnection that would throw, and no connection   *)
(* is opened over a live one (FConnection.m sendData).                     *)
THEOREM StatesAlwaysAgree == Spec => []StatesAgree
<1>1. ConnectionInv => StatesAgree
  BY DEF ConnectionInv
<1> QED
  BY <1>1, ConnectionInvariance, PTL

(* An interrupted client stays down with no retry scheduled, whatever      *)
(* answer, timeout or event comes late (interruptForReason).               *)
THEOREM InterruptedStaysQuiet == Spec => []QuietWhenInterrupted
<1>1. ConnectionInv => QuietWhenInterrupted
  BY DEF ConnectionInv
<1> QED
  BY <1>1, ConnectionInvariance, PTL

(* No wake-up is lost: a client that is down and not interrupted has       *)
(* scheduled a retry (tryScheduleReconnect).                               *)
THEOREM NeverStranded == Spec => []AlwaysTrying
<1>1. ConnectionInv => AlwaysTrying
  BY DEF ConnectionInv
<1> QED
  BY <1>1, ConnectionInvariance, PTL

(* A write is under way exactly when it is outstanding and the connection  *)
(* may write, once and in order (restoreState, putInternal).               *)
THEOREM WritesUnderWay == Spec => []OutstandingUnderWay
<1>1. ConnectionInv => OutstandingUnderWay
  BY DEF ConnectionInv
<1> QED
  BY <1>1, ConnectionInvariance, PTL

-----------------------------------------------------------------------------
(* The refinement *)

(* What WriteLink calls added is the one write put. *)
LEMMA AddedOne ==
    ASSUME NEW s \in Seq(Nat), NEW x \in Nat
    PROVE  SubSeq(Append(s, x), Len(s) + 1, Len(Append(s, x))) = <<x>>
<1> DEFINE t == Append(s, x)
           m == Len(s) + 1
<1>1. t \in Seq(Nat) /\ Len(t) = m /\ t[m] = x /\ m \in Int
  OBVIOUS
<1> HIDE DEF t, m
<1>2. \A i \in m..m : t[i] \in Nat
  BY <1>1
<1>3. /\ SubSeq(t, m, m) \in Seq(Nat)
      /\ Len(SubSeq(t, m, m)) = IF m <= m THEN m - m + 1 ELSE 0
      /\ \A i \in 1..(m - m + 1) : SubSeq(t, m, m)[i] = t[m + i - 1]
  BY ONLY <1>1, <1>2, SubSeqProperties, SMTT(30)
<1> DEFINE u == SubSeq(t, m, m)
<1>4. u \in Seq(Nat) /\ Len(u) = 1 /\ u[1] = x
  BY <1>1, <1>3
<1> HIDE DEF u
<1>5. u = <<x>>
  BY <1>4
<1> QED
  BY <1>1, <1>5 DEF u, t, m

LEMMA PutSubmits ==
    ASSUME ConnectionInv, PutInternal
    PROVE  WL!Next
<1> DEFINE c == "this device"
<1>1. puts \in Seq(Nat) /\ putRequests \in Seq(Nat) /\ nextPut \in Nat
  BY DEF ConnectionInv, TypeOK
<1>2. /\ puts' = Append(puts, nextPut) /\ MayWrite' = MayWrite
      /\ putRequests' = IF MayWrite THEN Append(putRequests, nextPut) ELSE putRequests
  BY DEF PutInternal, trying, MayWrite
<1>3. c \in Device
  BY DEF Device
<1>4. WL!Added(c) = <<nextPut>>
  BY <1>1, <1>2, <1>3, AddedOne DEF WL!Added
<1>5. puts' \in Seq(Nat) /\ puts' = puts \o <<nextPut>>
  BY <1>1, <1>2
<1>6. putRequests' = IF MayWrite THEN putRequests \o <<nextPut>> ELSE putRequests
  <2>1. Append(putRequests, nextPut) = putRequests \o <<nextPut>>
    BY <1>1
  <2> QED
    BY <1>2, <2>1
<1>7. WL!Submit(c, <<nextPut>>)
  <2>1. /\ [d \in Device |-> puts][c] = puts
        /\ [[d \in Device |-> puts] EXCEPT ![c] = puts']
             = [d \in Device |-> puts']
    BY <1>3 DEF Device
  <2>2. /\ [d \in Device |-> putRequests][c] = putRequests
        /\ [[d \in Device |-> putRequests] EXCEPT ![c] = putRequests']
             = [d \in Device |-> putRequests']
    BY <1>3 DEF Device
  <2>3. [d \in Device |-> MayWrite][c] = MayWrite
    BY <1>3 DEF Device
  <2> QED
    BY <1>2, <1>5, <1>6, <2>1, <2>2, <2>3 DEF WL!Submit
<1>8. [d \in Device |-> puts'][c] \in Seq(Nat)
  BY <1>3, <1>5
<1> QED
  BY <1>3, <1>4, <1>7, <1>8 DEF WL!Next

(* Only a put and an answer change the outstanding writes. *)
LEMMA OthersKeepWrites ==
    ASSUME Next, ~PutInternal, ~PutAnswered
    PROVE  puts' = puts
BY DEF Next, Open, ResumeForReason, GoOffline, GoOnline, EnteringForeground, RetryFires,
   TokenAnswered, TokenTooLate, TokenError, TokenArrives, WebSocketDidOpen, AttemptLost,
   ConnectTimeout, WebSocketClosed, OnReset, OnKill, Hello, AuthAnswered, AuthAccepted,
   AuthRefused, OnAuthRevoked, TokenDropped, RefreshAuthToken, writes

LEMMA StepRefines ==
    ASSUME ConnectionInv, ConnectionInv', [Next]_vars
    PROVE  [WL!Next]_(WL!vars)
<1> DEFINE c == "this device"
<1>1. /\ putRequests = IF MayWrite THEN puts ELSE <<>>
      /\ putRequests' = IF MayWrite' THEN puts' ELSE <<>>
  BY DEF ConnectionInv, OutstandingUnderWay
<1>2. MayWrite \in BOOLEAN /\ MayWrite' \in BOOLEAN /\ c \in Device
  BY DEF MayWrite, Device
<1>3. /\ [d \in Device |-> puts][c] = puts
      /\ [d \in Device |-> MayWrite][c] = MayWrite
      /\ [d \in Device |-> putRequests][c] = putRequests
  BY <1>2 DEF Device
<1>4. /\ [[d \in Device |-> puts] EXCEPT ![c] = puts'] = [d \in Device |-> puts']
      /\ [[d \in Device |-> MayWrite] EXCEPT ![c] = MayWrite']
           = [d \in Device |-> MayWrite']
      /\ [[d \in Device |-> putRequests] EXCEPT ![c] = putRequests']
           = [d \in Device |-> putRequests']
  BY <1>2 DEF Device
<1>5. CASE PutInternal
  BY <1>5, PutSubmits
<1>6. CASE PutAnswered
  <2>1. MayWrite' = MayWrite
    BY <1>6 DEF PutAnswered, trying, MayWrite
  <2>2. WL!Acknowledge(c)
    BY <1>3, <1>4, <1>6, <2>1, OldestAnswered DEF WL!Acknowledge
  <2> QED
    BY <1>2, <2>2 DEF WL!Next
<1>7. CASE puts' = puts
  <2>1. CASE MayWrite' = MayWrite
    BY <1>1, <1>7, <2>1 DEF WL!vars
  <2>2. CASE MayWrite' /\ ~MayWrite
    <3>1. WL!Establish(c)
      BY <1>1, <1>2, <1>3, <1>4, <1>7, <2>2 DEF WL!Establish
    <3> QED
      BY <1>2, <3>1 DEF WL!Next
  <2>3. CASE ~MayWrite' /\ MayWrite
    <3>1. WL!Lose(c)
      BY <1>1, <1>2, <1>3, <1>4, <1>7, <2>3 DEF WL!Lose
    <3> QED
      BY <1>2, <3>1 DEF WL!Next
  <2> QED
    BY <1>2, <2>1, <2>2, <2>3
<1>8. CASE UNCHANGED vars
  BY <1>7, <1>8 DEF vars, writes
<1> QED
  BY <1>5, <1>6, <1>7, <1>8, OthersKeepWrites

(* The client implements WriteLink: however the connection comes and goes, *)
(* writes wait in order while it is down, all that are outstanding go out  *)
(* again, in that order, on every new one (restoreState), and only an      *)
(* answer takes one out of the queue.                                      *)
THEOREM ConnectionIsWriteLink == Spec => ImplementsWriteLink
<1>1. Init => WL!Init
  BY DEF Init, WL!Init, MayWrite
<1>2. ConnectionInv /\ ConnectionInv' /\ [Next]_vars => [WL!Next]_(WL!vars)
  BY StepRefines
<1> QED
  BY <1>1, <1>2, ConnectionInvariance, PTL DEF Spec, ImplementsWriteLink, WL!Spec
=============================================================================
