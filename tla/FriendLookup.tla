---------------------------- MODULE FriendLookup ----------------------------
(***************************************************************************)
(* Adding a friend: FriendViewController and ChatBusiness.createNewChatBox.*)
(*                                                                         *)
(* A confirmed id is looked up at users/<id>; when there is such an        *)
(* account, the entry chatbox/<user>/<user>_<id> is looked up, and when    *)
(* there is none a placeholder is written to it.  Both look-ups are        *)
(* observers that nobody removes: an account that registers later, another *)
(* message, and the placeholder itself call the closures again.  They run  *)
(* on the main queue, with the value the client had when the event was     *)
(* raised; the user is the one signed in when they run.                    *)
(*                                                                         *)
(* The client has an account's entries once they have come for its home    *)
(* list, which observes their parent.                                      *)
(***************************************************************************)
EXTENDS Naturals, Sequences, Increasing

CONSTANTS
    Id,           \* ids that are typed
    Account,      \* those who sign in on this device
    MaxLookups,   \* bound: ids confirmed
    MaxSwitches,  \* bound: times another user signs in
    MaxMessages   \* bound: messages that come to an entry

ASSUME FriendLookupAssumption ==
    MaxLookups \in Nat /\ MaxSwitches \in Nat /\ MaxMessages \in Nat

Pair == Account \X Id

VARIABLES
    user,        \* getCurrentUser()
    registered,  \* the ids with a record at users/<id>
    known,       \* the ids whose record, or its absence, the client has
    chatbox,     \* the client's view of the entries
    told,        \* the accounts whose entries the client has
    lookups,     \* the closures at users/<id>: their ids
    creations,   \* the closures at entries, and: was there one when asked for?
    events,      \* the main queue: closures to call, each with its snapshot
    asked,       \* history: the ids confirmed since the user signed in
    switches, received  \* counters for the bounds

vars == <<user, registered, known, chatbox, told, lookups, creations, events,
          asked, switches, received>>

Init ==
    /\ user \in Account
    /\ registered \in SUBSET Id /\ Account \cap Id \subseteq registered
    /\ known = {}
    /\ chatbox \in [Pair -> {"none", "message"}]
    /\ told = {}
    /\ lookups = <<>>
    /\ creations = <<>>
    /\ events = <<>>
    /\ asked = {}
    /\ switches = 0
    /\ received = 0

-----------------------------------------------------------------------------
(* Value events, for the closures in order of registration *)

RecordEvents(id, exists) ==
    LET own == InOrder({i \in DOMAIN lookups : lookups[i] = id})
    IN  [k \in DOMAIN own |-> [at |-> "users", closure |-> own[k], value |-> exists]]

EntryEvents(pairs, box) ==
    LET own == InOrder({i \in DOMAIN creations : creations[i].pair \in pairs})
    IN  [k \in DOMAIN own |-> [at |-> "chatbox", closure |-> own[k],
                               value |-> box[creations[own[k]].pair] # "none"]]

(* An entry the client has is written, here or elsewhere. *)
EntryChanges(pair, new) ==
    /\ chatbox' = [chatbox EXCEPT ![pair] = new]
    /\ events' = Tail(events) \o EntryEvents({pair}, chatbox')

-----------------------------------------------------------------------------
(* addFriendButtonTapped, confirmed *)
ConfirmUnknownOnly(id) ==                                         \* mutant
    /\ Len(lookups) < MaxLookups
    /\ lookups' = Append(lookups, id)
    /\ asked' = asked \cup {id}
    /\ UNCHANGED <<user, registered, known, chatbox, told, creations, events,
                   switches, received>>
Confirm(id) ==
    /\ Len(lookups) < MaxLookups
    /\ lookups' = Append(lookups, id)
    /\ asked' = asked \cup {id}
    /\ events' = IF id \in known
                 THEN Append(events, [at |-> "users", closure |-> Len(lookups'),
                                      value |-> id \in registered])
                 ELSE events
    /\ UNCHANGED <<user, registered, known, chatbox, told, creations, switches,
                   received>>

(* createNewChatBox *)
CreateAtOnce(u, id) ==                                            \* mutant
    LET pair == <<u, id>>
        new == [pair |-> pair, existed |-> chatbox[pair] # "none"]
    IN  /\ creations' = Append(creations, new)
        /\ events' = Append(Tail(events),
                            [at |-> "chatbox", closure |-> Len(creations'),
                             value |-> u \in told /\ new.existed])
CreateNewChatBox(u, id) ==
    LET pair == <<u, id>>
        new == [pair |-> pair, existed |-> chatbox[pair] # "none"]
    IN  /\ creations' = Append(creations, new)
        /\ events' = IF u \in told
                     THEN Append(Tail(events),
                                 [at |-> "chatbox", closure |-> Len(creations'),
                                  value |-> new.existed])
                     ELSE Tail(events)

(* The closure at users/<id>.  Without a record it shows a dialog. *)
CallLookup ==
    /\ events # <<>>
    /\ Head(events).at = "users"
    /\ IF Head(events).value
       THEN CreateNewChatBox(user, lookups[Head(events).closure])
       ELSE events' = Tail(events) /\ UNCHANGED creations
    /\ UNCHANGED <<user, registered, known, chatbox, told, lookups, asked, switches,
                   received>>

(* The closure at the entry.  Having found one it shows a dialog.  Writing *)
(* the same placeholder again, within a second, changes nothing.           *)
CallCreationUnchecked ==                                          \* mutant
    /\ events # <<>>
    /\ Head(events).at = "chatbox"
    /\ EntryChanges(creations[Head(events).closure].pair, "placeholder")
    /\ UNCHANGED <<user, registered, known, told, lookups, creations, asked, switches,
                   received>>
CallCreation ==
    /\ events # <<>>
    /\ Head(events).at = "chatbox"
    /\ LET pair == creations[Head(events).closure].pair
       IN  \/ ~Head(events).value /\ EntryChanges(pair, "placeholder")
           \/ /\ Head(events).value \/ chatbox[pair] = "placeholder"
              /\ events' = Tail(events)
              /\ UNCHANGED chatbox
    /\ UNCHANGED <<user, registered, known, told, lookups, creations, asked, switches,
                   received>>

-----------------------------------------------------------------------------
(* What comes from the server, and the user *)

RecordArrives(id) ==
    /\ \E i \in DOMAIN lookups : lookups[i] = id
    /\ id \notin known
    /\ known' = known \cup {id}
    /\ events' = events \o RecordEvents(id, id \in registered)
    /\ UNCHANGED <<user, registered, chatbox, told, lookups, creations, asked,
                   switches, received>>

Registers(id) ==
    /\ id \notin registered
    /\ registered' = registered \cup {id}
    /\ events' = IF id \in known THEN events \o RecordEvents(id, TRUE) ELSE events
    /\ UNCHANGED <<user, known, chatbox, told, lookups, creations, asked, switches,
                   received>>

EntriesArrive(u) ==
    /\ u \notin told
    /\ told' = told \cup {u}
    /\ events' = events \o EntryEvents({u} \X Id, chatbox)
    /\ UNCHANGED <<user, registered, known, chatbox, lookups, creations, asked,
                   switches, received>>

MessageArrives(pair) ==
    /\ received < MaxMessages
    /\ received' = received + 1
    /\ chatbox' = [chatbox EXCEPT ![pair] = "message"]
    /\ events' = IF pair[1] \in told
                 THEN events \o EntryEvents({pair}, chatbox')
                 ELSE events
    /\ UNCHANGED <<user, registered, known, told, lookups, creations, asked, switches>>

SwitchUser(u) ==
    /\ switches < MaxSwitches
    /\ switches' = switches + 1
    /\ user' = u
    /\ asked' = {}
    /\ UNCHANGED <<registered, known, chatbox, told, lookups, creations, events,
                   received>>

-----------------------------------------------------------------------------
Next ==
    \/ \E id \in Id : Confirm(id) \/ RecordArrives(id) \/ Registers(id)
    \/ CallLookup \/ CallCreation
    \/ \E u \in Account : EntriesArrive(u) \/ SwitchUser(u)
    \/ \E pair \in Pair : MessageArrives(pair)

Spec == Init /\ [][Next]_vars

(* The main queue runs and the server answers listens. *)
Fairness ==
    /\ WF_vars(CallLookup)
    /\ WF_vars(CallCreation)
    /\ \A id \in Id : WF_vars(RecordArrives(id))
    /\ \A u \in Account : WF_vars(EntriesArrive(u))

FairSpec == Spec /\ Fairness

-----------------------------------------------------------------------------
(* Properties *)

(* The variables have their types; in particular every event in the queue  *)
(* is for a closure that was registered, and a closure at an entry is      *)
(* called only once the client has its owner's entries.                    *)
TypeOK ==
    /\ user \in Account
    /\ registered \in SUBSET Id
    /\ known \in SUBSET Id
    /\ chatbox \in [Pair -> {"none", "placeholder", "message"}]
    /\ told \in SUBSET Account
    /\ lookups \in Seq(Id)
    /\ creations \in Seq([pair : Pair, existed : BOOLEAN])
    /\ \A k \in DOMAIN events :
          LET e == events[k] IN
          /\ e.value \in BOOLEAN
          /\ \/ e.at = "users" /\ e.closure \in DOMAIN lookups
                /\ lookups[e.closure] \in known
             \/ e.at = "chatbox" /\ e.closure \in DOMAIN creations
                /\ creations[e.closure].pair[1] \in told
    /\ asked \in SUBSET Id
    /\ switches \in Nat /\ received \in Nat

(* The placeholder can replace a message, one that came while the event    *)
(* that found no entry waited to be handled.  But asking for a             *)
(* conversation that there already is never costs it its last message,     *)
(* whether or not the client had been told of it (createNewChatBox).       *)
OldConversationKept ==
    [][\A pair \in Pair :
          chatbox[pair] = "message" /\ chatbox'[pair] = "placeholder"
              => ~creations[Head(events).closure].existed]_vars

(* The closures call themselves and each other by what they write, but not *)
(* for ever.                                                               *)
Quiet == []<>(events = <<>>)

(* Who is asked for and registered, before or after that, gets a           *)
(* conversation with the user who asked, unless that user leaves first: in *)
(* that case it may be with whoever is signed in next.                     *)
LookupAnswered ==
    \A id \in Id :
        id \in asked /\ id \in registered
            ~> (id \notin asked \/ chatbox[<<user, id>>] # "none")
=============================================================================
