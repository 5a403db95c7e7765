----------------------------- MODULE Connection -----------------------------
(***************************************************************************)
(* How the Firebase client gets, loses and regains its connection, and     *)
(* what becomes of the writes it keeps meanwhile: FPersistentConnection    *)
(* with its FIRRetryHelper, FConnection and FWebSocketConnection.          *)
(*                                                                         *)
(* Everything runs on one serial queue, so a handler is a step; between    *)
(* two steps anything may happen: the token a retry asked for arrives      *)
(* after the connection was interrupted and resumed, the app comes to the  *)
(* foreground between a disconnect and its retry, the connect timeout      *)
(* fires while the socket's opening is on its way.                         *)
(*                                                                         *)
(* A dropped FConnection is deallocated and its socket holds it weakly, so *)
(* nothing more is heard of it.  The length of delays is left out.  The    *)
(* server is outside the repository: it answers writes in order.           *)
(***************************************************************************)
EXTENDS Naturals, Sequences

CONSTANTS
    AuthLinked,  \* is FirebaseAuth linked?  (My Chat does not link it)
    MaxPuts,     \* bound: writes
    MaxFaults,   \* bound: sockets failing, tokens refused, renewed or revoked
    MaxOffline   \* bound: calls of goOffline (My Chat makes none)

ASSUME AuthAssumption == AuthLinked \in BOOLEAN
ASSUME ConnectionBoundAssumption ==
    MaxPuts \in Nat /\ MaxFaults \in Nat /\ MaxOffline \in Nat

ConnectionState == {"Disconnected", "GettingToken", "Connecting",
                    "Authenticating", "Connected"}
Reason == {"waiting_for_open", "server_kill", "repo_interrupt"}

VARIABLES
    connectionState,
    interruptReasons,
    retries,       \* scheduled retry blocks not cancelled: force a refresh?
    attempt,       \* currentFetchTokenAttempt
    fetches,       \* requests for a token under way
    authToken,     \* is there one?
    forceRefresh,  \* forceAuthTokenRefresh
    realtime,      \* self.realtime and the state of that FConnection
    socket,        \* its web socket
    authRequests,  \* requestCBHash: authentications, do they restore the state?
    putRequests,   \* requestCBHash: writes sent on this connection
    puts,          \* outstandingPuts in index order
    distrusted,    \* history: the server refused a token, none new came since
    nextPut, faults, offline  \* putCounter; counters for the bounds

trying == <<connectionState, interruptReasons, retries, forceRefresh>>
tokens == <<attempt, fetches, authToken, distrusted>>
link == <<realtime, socket, authRequests, putRequests>>
writes == <<puts, nextPut>>
bounds == <<faults, offline>>
vars == <<trying, tokens, link, writes, bounds>>

(* initWithRepoInfo interrupts the connection until open is called *)
Init ==
    /\ connectionState = "Disconnected"
    /\ interruptReasons = {"waiting_for_open"}
    /\ retries = <<>>
    /\ attempt = 0
    /\ fetches = {}
    /\ authToken = FALSE
    /\ forceRefresh = FALSE
    /\ realtime = "none"
    /\ socket = "none"
    /\ authRequests = <<>>
    /\ putRequests = <<>>
    /\ puts = <<>>
    /\ distrusted = FALSE
    /\ nextPut = 0
    /\ faults = 0
    /\ offline = 0

-----------------------------------------------------------------------------
(* Trying again *)

(* tryScheduleReconnect: at most one retry block is live, and it takes the *)
(* wish to force a refresh with it.                                        *)
TryScheduleReconnect(reasons, force) ==
    IF reasons = {}
    THEN retries' = <<force>> /\ forceRefresh' = FALSE
    ELSE forceRefresh' = force /\ UNCHANGED retries

(* onDisconnect, told by an FConnection that closes: from whatever cause *)
OnDisconnect(reasons, force) ==
    /\ connectionState' = "Disconnected"
    /\ realtime' = "none"
    /\ socket' = "none"
    /\ authRequests' = <<>>
    /\ putRequests' = <<>>
    /\ TryScheduleReconnect(reasons, force)

InterruptLeavingRetry(reason) ==                                  \* mutant
    /\ interruptReasons' = interruptReasons \cup {reason}
    /\ IF realtime # "none"
       THEN OnDisconnect(interruptReasons', forceRefresh)
       ELSE /\ connectionState' = "Disconnected"
            /\ UNCHANGED <<link, retries, forceRefresh>>
InterruptForReason(reason) ==
    /\ interruptReasons' = interruptReasons \cup {reason}
    /\ IF realtime # "none"
       THEN OnDisconnect(interruptReasons', forceRefresh)
       ELSE /\ retries' = <<>>
            /\ connectionState' = "Disconnected"
            /\ UNCHANGED <<link, forceRefresh>>

ResumeForReason(reason) ==
    /\ interruptReasons' = interruptReasons \ {reason}
    /\ IF connectionState = "Disconnected"
       THEN TryScheduleReconnect(interruptReasons', forceRefresh)
       ELSE UNCHANGED <<retries, forceRefresh>>
    /\ UNCHANGED <<connectionState, tokens, link, writes, bounds>>

Open == "waiting_for_open" \in interruptReasons /\ ResumeForReason("waiting_for_open")

GoOffline ==
    /\ offline < MaxOffline
    /\ offline' = offline + 1
    /\ InterruptForReason("repo_interrupt")
    /\ UNCHANGED <<tokens, writes, faults>>

GoOnline == "repo_interrupt" \in interruptReasons /\ ResumeForReason("repo_interrupt")

(* The app comes to the foreground, or the network becomes reachable. *)
EnteringForeground ==
    /\ connectionState = "Disconnected"
    /\ TryScheduleReconnect(interruptReasons, forceRefresh)
    /\ UNCHANGED <<connectionState, interruptReasons, tokens, link, writes, bounds>>

-----------------------------------------------------------------------------
(* The token *)

OpenNetworkConnection(token) ==
    /\ authToken' = token
    /\ connectionState' = "Connecting"
    /\ realtime' = "connecting"
    /\ socket' = "opening"
    /\ UNCHANGED <<authRequests, putRequests>>

(* The retry block.  Without FirebaseAuth the answer "no token" comes      *)
(* within the call.                                                        *)
RetryFires ==
    /\ retries # <<>>
    /\ retries' = Tail(retries)
    /\ IF AuthLinked
       THEN /\ connectionState' = "GettingToken"
            /\ attempt' = attempt + 1
            /\ fetches' = fetches \cup {[no |-> attempt', forced |-> Head(retries)]}
            /\ UNCHANGED <<authToken, link>>
       ELSE /\ OpenNetworkConnection(FALSE)
            /\ UNCHANGED <<attempt, fetches>>
    /\ UNCHANGED <<interruptReasons, forceRefresh, distrusted, writes, bounds>>

(* An answer to any but the latest request is ignored. *)
TokenTooLate(f) ==
    /\ f.no # attempt
    /\ fetches' = fetches \ {f}
    /\ UNCHANGED <<trying, attempt, authToken, distrusted, link, writes, bounds>>

TokenErrorDropped(f) ==                                           \* mutant
    /\ f.no = attempt
    /\ faults < MaxFaults
    /\ faults' = faults + 1
    /\ fetches' = fetches \ {f}
    /\ connectionState' = "Disconnected"
    /\ UNCHANGED <<interruptReasons, retries, forceRefresh, attempt, authToken,
                   distrusted, link, writes, offline>>
TokenError(f) ==
    /\ f.no = attempt
    /\ faults < MaxFaults
    /\ faults' = faults + 1
    /\ fetches' = fetches \ {f}
    /\ connectionState' = "Disconnected"
    /\ TryScheduleReconnect(interruptReasons, forceRefresh)
    /\ UNCHANGED <<interruptReasons, attempt, authToken, distrusted, link, writes,
                   offline>>

(* The token is used unless the connection was interrupted meanwhile; nil  *)
(* when nobody is signed in.                                               *)
TokenArrivesUnchecked(f) ==                                       \* mutant
    /\ f.no = attempt
    /\ fetches' = fetches \ {f}
    /\ \E token \in BOOLEAN :
          /\ OpenNetworkConnection(token)
          /\ distrusted' = (distrusted /\ ~f.forced)
    /\ UNCHANGED <<interruptReasons, retries, forceRefresh, attempt, writes, bounds>>
TokenArrives(f) ==
    /\ f.no = attempt
    /\ fetches' = fetches \ {f}
    /\ IF connectionState = "GettingToken"
       THEN \E token \in BOOLEAN :
               /\ OpenNetworkConnection(token)
               /\ distrusted' = (distrusted /\ ~f.forced)
       ELSE UNCHANGED <<connectionState, authToken, distrusted, link>>
    /\ UNCHANGED <<interruptReasons, retries, forceRefresh, attempt, writes, bounds>>

-----------------------------------------------------------------------------
(* The socket *)

WebSocketDidOpen ==
    /\ socket = "opening"
    /\ socket' = "open"
    /\ UNCHANGED <<trying, tokens, realtime, authRequests, putRequests, writes,
                   bounds>>

(* The attempt gets no answer from the network at all. *)
AttemptLost ==
    /\ socket = "opening"
    /\ faults < MaxFaults
    /\ faults' = faults + 1
    /\ socket' = "lost"
    /\ UNCHANGED <<trying, tokens, realtime, authRequests, putRequests, writes,
                   offline>>

(* closeIfNeverConnected asks the socket to close, whether it is lost or   *)
(* only slow: in that case what it had already passed on still comes.      *)
ConnectTimeoutOfTheSlow ==                                        \* mutant
    /\ socket = "opening"
    /\ faults < MaxFaults
    /\ faults' = faults + 1
    /\ socket' = "closing"
    /\ UNCHANGED <<trying, tokens, realtime, authRequests, putRequests, writes,
                   offline>>
ConnectTimeout ==
    /\ \/ socket = "lost" /\ UNCHANGED faults
       \/ socket = "opening" /\ faults < MaxFaults /\ faults' = faults + 1
    /\ socket' = "closing"
    /\ UNCHANGED <<trying, tokens, realtime, authRequests, putRequests, writes,
                   offline>>

(* The socket is closed: it failed, or it was asked to close. *)
WebSocketClosedDroppingPuts ==                                     \* mutant
    /\ socket # "none"
    /\ IF socket = "closing" THEN UNCHANGED faults
       ELSE faults < MaxFaults /\ faults' = faults + 1
    /\ OnDisconnect(interruptReasons, forceRefresh)
    /\ puts' = <<>>
    /\ UNCHANGED <<interruptReasons, tokens, nextPut, offline>>
WebSocketClosed ==
    /\ socket # "none"
    /\ IF socket = "closing" THEN UNCHANGED faults
       ELSE faults < MaxFaults /\ faults' = faults + 1
    /\ OnDisconnect(interruptReasons, forceRefresh)
    /\ UNCHANGED <<interruptReasons, tokens, writes, offline>>

(* The server asks the client to connect to another host. *)
OnReset ==
    /\ socket \in {"open", "closing"}
    /\ faults < MaxFaults
    /\ faults' = faults + 1
    /\ OnDisconnect(interruptReasons, forceRefresh)
    /\ UNCHANGED <<interruptReasons, tokens, writes, offline>>

(* The server shuts the connection down for good. *)
OnKill ==
    /\ socket \in {"open", "closing"}
    /\ InterruptForReason("server_kill")
    /\ UNCHANGED <<tokens, writes, bounds>>

-----------------------------------------------------------------------------
(* Sending.  FConnection.sendData throws unless it is connected. *)

RestoreNothing == UNCHANGED putRequests                           \* mutant
RestoreState == putRequests' = putRequests \o puts

(* The server's hello: onReady and restoreAuth *)
Hello ==
    /\ socket \in {"open", "closing"}
    /\ realtime = "connecting"
    /\ realtime' = "connected"
    /\ IF authToken
       THEN /\ connectionState' = "Authenticating"
            /\ authRequests' = Append(authRequests, TRUE)
            /\ UNCHANGED putRequests
       ELSE /\ connectionState' = "Connected"
            /\ RestoreState
            /\ UNCHANGED authRequests
    /\ UNCHANGED <<interruptReasons, retries, forceRefresh, tokens, socket, writes,
                   bounds>>

(* sendAuth's answer.  Refused, the token is dropped and a new one asked   *)
(* for; the state is Connected only until the close that follows.          *)
AuthAccepted ==
    /\ authRequests # <<>>
    /\ authRequests' = Tail(authRequests)
    /\ connectionState' = "Connected"
    /\ IF Head(authRequests) THEN RestoreState ELSE UNCHANGED putRequests
    /\ UNCHANGED <<interruptReasons, retries, forceRefresh, tokens, realtime, socket,
                   writes, bounds>>

TokenDropped ==
    /\ faults < MaxFaults
    /\ faults' = faults + 1
    /\ authToken' = FALSE
    /\ distrusted' = TRUE
    /\ OnDisconnect(interruptReasons, TRUE)
    /\ UNCHANGED <<interruptReasons, attempt, fetches, writes, offline>>

AuthRefused == authRequests # <<>> /\ TokenDropped

(* The server revokes the token of a connection in use. *)
OnAuthRevoked == AuthLinked /\ realtime = "connected" /\ TokenDropped

MayWrite == connectionState = "Connected"
MayTalk == connectionState \in {"Authenticating", "Connected"}

(* FirebaseAuth announces another token, or none. *)
RefreshAuthToken(token) ==
    /\ AuthLinked
    /\ faults < MaxFaults
    /\ faults' = faults + 1
    /\ authToken' = token
    /\ distrusted' = (distrusted /\ ~token)
    /\ authRequests' = IF MayTalk /\ token THEN Append(authRequests, FALSE)
                       ELSE authRequests
    /\ UNCHANGED <<trying, attempt, fetches, realtime, socket, putRequests, writes,
                   offline>>

PutInternal ==
    /\ nextPut < MaxPuts
    /\ nextPut' = nextPut + 1
    /\ puts' = Append(puts, nextPut)
    /\ putRequests' = IF MayWrite THEN Append(putRequests, nextPut) ELSE putRequests
    /\ UNCHANGED <<trying, tokens, realtime, socket, authRequests, bounds>>

(* The answer to the oldest write on the connection takes that write off   *)
(* the outstanding ones.                                                   *)
PutAnswered ==
    /\ putRequests # <<>>
    /\ putRequests' = Tail(putRequests)
    /\ puts' = IF puts # <<>> /\ Head(puts) = Head(putRequests) THEN Tail(puts)
               ELSE puts
    /\ UNCHANGED <<trying, tokens, realtime, socket, authRequests, nextPut, bounds>>

-----------------------------------------------------------------------------
TokenAnswered == \E f \in fetches : TokenTooLate(f) \/ TokenError(f) \/ TokenArrives(f)
AuthAnswered == AuthAccepted \/ AuthRefused

Next == \/ Open \/ GoOffline \/ GoOnline \/ EnteringForeground
        \/ RetryFires \/ TokenAnswered
        \/ WebSocketDidOpen \/ AttemptLost \/ ConnectTimeout \/ WebSocketClosed
        \/ OnReset \/ OnKill
        \/ Hello \/ AuthAnswered \/ OnAuthRevoked
        \/ \E token \in BOOLEAN : RefreshAuthToken(token)
        \/ PutInternal \/ PutAnswered

Spec == Init /\ [][Next]_vars

(* FRepo opens the connection.  The queue runs what is due on it: retries, *)
(* timeouts, answers.  A socket that nothing is wrong with opens, the      *)
(* server greets and answers; with MaxFaults finite the network is         *)
(* eventually good.  Nobody has to go online again.                        *)
Fairness ==
    /\ WF_vars(Open)
    /\ WF_vars(RetryFires)
    /\ WF_vars(TokenAnswered)
    /\ WF_vars(WebSocketDidOpen)
    /\ WF_vars(ConnectTimeout)
    /\ WF_vars(WebSocketClosed)
    /\ WF_vars(Hello)
    /\ WF_vars(AuthAnswered)
    /\ WF_vars(PutAnswered)

FairSpec == Spec /\ Fairness
=============================================================================
