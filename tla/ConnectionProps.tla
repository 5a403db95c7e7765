--------------------------- MODULE ConnectionProps ---------------------------
(***************************************************************************)
(* What the client's connection promises.                                  *)
(***************************************************************************)
EXTENDS Connection

(* The variables have their types; in particular at most one retry block   *)
(* is live, since FIRRetryHelper cancels the one before (FIRRetryHelper.m  *)
(* retry).                                                                 *)
TypeOK ==
    /\ connectionState \in ConnectionState
    /\ interruptReasons \in SUBSET Reason
    /\ retries \in {<<>>, <<TRUE>>, <<FALSE>>}
    /\ attempt \in Nat
    /\ fetches \in SUBSET [no : Nat, forced : BOOLEAN]
    /\ authToken \in BOOLEAN
    /\ forceRefresh \in BOOLEAN
    /\ realtime \in {"none", "connecting", "connected"}
    /\ socket \in {"none", "opening", "lost", "open", "closing"}
    /\ authRequests \in Seq(BOOLEAN)
    /\ putRequests \in Seq(Nat)
    /\ puts \in Seq(Nat)
    /\ distrusted \in BOOLEAN
    /\ nextPut \in Nat /\ faults \in Nat /\ offline \in Nat

(* connectionState, the FConnection and its socket tell the same story, so *)
(* that nothing is sent on an FConnection that would throw                 *)
(* (FConnection.m sendData) and no second connection is opened over a      *)
(* live one, however late a token, an interruption or a retry comes.       *)
StatesAgree ==
    /\ connectionState = "Connecting" <=> realtime = "connecting"
    /\ MayTalk <=> realtime = "connected"
    /\ realtime = "none" <=> socket = "none"
    /\ realtime = "connected" => socket \in {"open", "closing"}
    /\ authRequests # <<>> \/ putRequests # <<>> => MayTalk

(* A retry is scheduled only while disconnected, as tryScheduleReconnect   *)
(* and its block assert (FPersistentConnection.m:448, 456), and never      *)
(* while interrupted.  An interrupted connection is quiet: nothing late    *)
(* brings it up.                                                           *)
RetryOnlyWhenDown == retries # <<>> => connectionState = "Disconnected"
QuietWhenInterrupted ==
    interruptReasons # {} => connectionState = "Disconnected" /\ retries = <<>>

(* No wake-up is lost: a connection that is down and not interrupted has a *)
(* retry scheduled, and one that waits for its token has asked for it.     *)
AlwaysTrying ==
    /\ connectionState = "Disconnected" /\ interruptReasons = {} => retries # <<>>
    /\ connectionState = "GettingToken" => \E f \in fetches : f.no = attempt

(* The writes under way on a connection that may write are the outstanding *)
(* ones, each once and in order (restoreState, putInternal); before the    *)
(* server has accepted the token there are none.                           *)
OutstandingUnderWay == putRequests = IF MayWrite THEN puts ELSE <<>>

(* The server's verdict on the token it was first given restores the state *)
(* exactly once: it is awaited just while authenticating, ahead of the     *)
(* verdicts on renewed tokens.                                             *)
RestoresOnce ==
    \A i \in DOMAIN authRequests :
        authRequests[i] <=> i = 1 /\ connectionState = "Authenticating"

(* Requests for a token are numbered, the latest with attempt, and an      *)
(* answer to the latest finds the client still waiting or disconnected     *)
(* (FPersistentConnection.m:469-487 asserts so).                           *)
LatestFetchAwaited ==
    \A f \in fetches :
        /\ f.no <= attempt
        /\ f.no = attempt => connectionState \in {"GettingToken", "Disconnected"}
        /\ \A g \in fetches : f.no = g.no => f = g

(* The inductive invariant *)
ConnectionInv ==
    /\ TypeOK
    /\ StatesAgree
    /\ RetryOnlyWhenDown
    /\ QuietWhenInterrupted
    /\ AlwaysTrying
    /\ OutstandingUnderWay
    /\ RestoresOnce
    /\ LatestFetchAwaited
    /\ connectionState = "Authenticating" => authRequests # <<>>
    /\ AuthLinked \/ fetches = {}

(* The client is a WriteLink: writes wait while there is no connection,    *)
(* all of them go out again, in order, on every new one, and none is       *)
(* dropped before it is answered (onDisconnect, restoreState).             *)
Device == {"this device"}
WL == INSTANCE WriteLink
        WITH Client <- Device, Write <- Nat,
             queue <- [d \in Device |-> puts],
             up <- [d \in Device |-> MayWrite],
             wire <- [d \in Device |-> putRequests]
ImplementsWriteLink == WL!Spec

(* Once the faults are over the connection comes up and stays, unless the  *)
(* server has killed it or the app went offline and stayed there.          *)
ComesUpForGood == <>[](interruptReasons = {} => connectionState = "Connected")

(* Every write is answered unless the connection is interrupted. *)
PutsAnswered ==
    \A k \in 0..(MaxPuts - 1) :
        (\E i \in DOMAIN puts : puts[i] = k)
            ~> (interruptReasons # {} \/ \A i \in DOMAIN puts : puts[i] # k)

(* "we will refresh the token later on reconnect"                          *)
(* (FPersistentConnection.m:626): after the server has refused or revoked  *)
(* a token, the one fetched to reconnect is a refreshed one.               *)
RefreshedAfterRevocation ==
    distrusted /\ connectionState = "GettingToken" =>
        \E f \in fetches : f.no = attempt /\ f.forced
=============================================================================
