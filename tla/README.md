# My Chat: TLA+ models, checks and proofs

My Chat is an iOS chat application in Swift (`src/iOS/My Chat`). It has no
server code of its own: it keeps everything in a Firebase Realtime Database,
and people sign in with Facebook. This directory holds TLA+ models of the
application together with the parts of the vendored Firebase client
(`src/iOS/Pods/FirebaseDatabase`) that its correctness leans on, the TLC
configurations that check them on small instances, and TLAPS proofs that hold
for every instance.

The repository documents next to nothing: `src/iOS/README.md` is a title and
the two test targets are the IDE's templates. The models are therefore read
from the code, and the properties are what a user of a chat program would
expect of it and what the code's few comments say.

Contents: [inventory](#inventory), [the modules](#the-modules),
[the runs](#the-runs), [fairness](#fairness), [proofs](#proofs),
[findings](#findings), [what is not modelled](#what-is-not-modelled),
[plan](#plan).

## Inventory

### The database

Shared by all devices; there are no security rules in the repository.

| node | holds | written by |
|---|---|---|
| `users/<id>` | name, avatar, state, friend list of an account | `LogInViewController.fetchFacebookDataDidEnd`, once |
| `messages/<x>_<y>/<message id>` | x's copy of the conversation of x with y | `sendButtonTapped` of x and of y |
| `chatbox/<x>/<x>_<y>` | the row about y in x's list: chatId, name, last message, its state | `sendButtonTapped` of x and of y, `createNewChatBox` of x |

### Components

**Conversation store and sending** (`ChatBoxViewController.sendButtonTapped`,
`Message`, `Chat`, `StringHelper`).
*State:* the Chat object a screen shares with the row it was opened from; the
client's outstanding writes. *Operations:* send (four `setValue` calls: two
copies of the message, two list entries), open, dismiss. *Interacts with* the
Firebase client by `setValue`, with the home list by the shared object.
*Hard:* four writes and no transaction, over a connection that may go at any
point, by two users at once; a process that may be killed between them; one
object edited for two users.
*Correct when:* the friend's copy holds nothing the sender's lacks; an entry
announces only what opening it would show; a message that no kill caught reaches
both copies; at rest an entry shows the latest message of one of the two users.

**Chat screen** (`ChatBoxViewController.viewDidLoad`).
*State:* the `messages` array of every screen ever presented; its observers,
never removed. *Operations:* open, dismiss, send, one closure per `.childAdded`
event. *Hard:* the closure appends blindly, so one bubble per message rests on
the client raising each event once, through pending writes, late
acknowledgements, lost connections and reopened screens.
*Correct when:* no bubble twice, none taken back, an own message shown at once,
every screen equal to the server's copy at rest.

**Firebase client: connection** (vendored: `FPersistentConnection`,
`FIRRetryHelper`, `FConnection`, `FWebSocketConnection`).
*State:* the connection's state and the reasons to keep it down, the retry
scheduled, requests for a token, the socket, requests without an answer, the
outstanding puts. *Operations:* open, interrupt, resume, come to the foreground,
retry; what a token provider, a socket and the server answer. *Hard:* each step
leaves a callback behind that finds the state changed: a token that comes after
an interruption and a second attempt, a timeout as the socket opens.
*Correct when:* no wake-up is lost, an interrupted client is quiet, two
connections are never open at once, and whenever it may write exactly the
outstanding writes are under way, in order.

**Firebase client: views of one node** (vendored: `FView`, `FViewProcessor`,
`FWriteTree`, and the listens and acknowledgements of `FPersistentConnection`).
*State:* pending writes, one cache per observed node, withheld acknowledgements.
*Hard:* an acknowledgement that overtakes the data.
*Correct when:* a child once raised never silently leaves the view.

**Firebase client: repo and sync tree** (vendored: `FRepo`, `FSyncTree`,
`FSyncPoint`, `FListenProvider`). *State:* a view for every observed place, the
listens at the server. *Operations:* observe, remove an observer; data, answers
and refusals; lose and restore the connection. *Hard:* the application observes
`chatbox/<me>` and single entries under it, so listens are handed over between a
node and its children while answers to them are on their way, and a listen whose
hash matches is answered without data. *Correct when:* exactly the places no
observed place covers are listened to, and at rest every view holds what the
server holds.

**Home list** (`HomeViewController`, `ChatBusiness.fetchListOfChatBox`,
`ChatTableRow`). *State:* the list of each fetch closure, which grows by a full
copy at every event; the table's cells in order of creation. *Operations:*
appear (a fetch more), event, scroll, reload, tap, a change of account.
*Hard:* a cell's position in `rowList` is taken for its row; closures of an
account that signed out go on delivering. *Correct when:* a tap opens the
conversation on the row, and the list ends in the present entries.

**Adding a friend** (`FriendViewController`, `ChatBusiness.createNewChatBox`).
*State:* observers on `users/<id>` and on the own entry, never removed.
*Operations:* confirm an id, the two answers. *Hard:* both closures run again at
later changes, each for whoever is signed in then; the decision to write the
placeholder rests on an old snapshot. *Correct when:* who asks for somebody
registered gets a conversation, one that exists keeps its last message, and the
closures do not call each other for ever.

**Sign-in, session and navigation** (`LogInViewController`, `ProfileBusiness`,
`ProfileViewController`, `TabBarController`, `SceneDelegate`).
*State:* Facebook's access token, the current user, profile requests under way,
closures on `users/<id>`, the navigation stack. *Operations:* sign in (two
buttons), sign out (two ways), the answers of Facebook and of the database.
*Hard:* the account may change between the answers, and the last closure is
called again later. *Correct when:* the home screen never comes up signed out,
no sign-in screen is buried in the stack, whoever sees the home screen is
registered, and signing in ends.

**Photo loading** (`PhotoHelper`). One function without state of its own.
*Hard:* two loads into one image view finish in any order; a failed one is
unwrapped.

**Everything else**: layout (`LayoutHelper`, `LoadingHelper`, `HeaderLabel`,
`BaseCell`), `AppDelegate`, the HTTP stub `src/Server/index.js` that answers a
constant and is never called, and test templates.

The list of hazards, each at its line and with the properties that cover it, is
in `PROJECT.json`.

## The modules

| module | what it is |
|---|---|
| `Messaging` | two or more users, their clients' queues of writes, the server, the network |
| `MessagingProps` | its invariants, the inductive one, the refinement of `SharedLog`, liveness |
| `SharedLog` | abstract: what somebody who only reads the database sees |
| `WriteLink` | abstract: what the Firebase client of each user promises of the writes handed to it |
| `LinkedMessaging` | `Messaging` over such links: the server sees only what is on them |
| `MessagingProofs` | theorems about `Messaging` and `LinkedMessaging` |
| `MCMessaging`, `MCLinkedMessaging` | small instances of `Messaging` and `LinkedMessaging`: who adds whom, and the symmetry of `messaging_core` |
| `Connection` | one client's connection, down to tokens, timeouts and the socket |
| `ConnectionProps`, `ConnectionProofs` | its properties, and theorems about it |
| `ChatScreen`, `ChatScreenProofs` | one device, one conversation: the client's view and every screen of it; theorems |
| `SyncTree`, `SyncTreeProofs` | one client's views of nested places and its listens; theorems |
| `HomeList`, `HomeListProofs` | one device: fetch closures, their lists, the table and its cells; theorems |
| `FriendLookup`, `FriendLookupProofs` | one device: the two observers behind "add friend"; theorems |
| `Session`, `SessionProofs` | one device: token, current user, observers on `users/<id>`, navigation stack; theorems |
| `Increasing` | a set of numbers as the sequence that counts it upwards: closures in order of registration |
| `SequenceFacts` | lemmas on sequences, used as queues, lists and orders, and on finite sets; most of the proofs rest on it |

How they fit together:

* `WriteLink` is the seam between application and connection. `Messaging` takes
  it for granted that a client's writes are kept in order, that all of them go
  out again on a new connection, and so that the server may read them off the
  client's queue. `LinkedMessaging` does not: its server applies what is on a
  user's link, which only `WriteLink` says the contents of, and
  `ImplementsMessaging` says that whatever then happens is `Messaging`: links
  that keep to `WriteLink` are all it needs. `ImplementsWriteLink` says that
  `Connection`, with its twenty-one kinds of step, keeps to it. Both are proved.
* `SharedLog` is the seam towards the reader of the database: everything that
  happens in `Messaging` is one of its four steps or a stutter.
* `HomeList` and `FriendLookup` start from what the client's view of
  `chatbox/<user>` and its entries holds. That nested observers of that place
  get the server's data, and the same data, is what `SyncTree` checks.

`Messaging` and `ChatScreen` look at the same send from two sides. `Messaging`
follows all four writes of all users to the database and does not look inside
the client's view; `ChatScreen` follows one of the writes through one client's
caches to the screen. `ChatScreen` takes the node a screen observes to be the
log of its friend; that this is so unless the row was opened from an entry left
by a second send is `HeaderIsFriend` of `Messaging` (see Findings).

### Messaging

`messages[<<x,y>>]` and `chatbox[<<x,y>>]` are the nodes of the table above.
`outstanding[u]` is `FPersistentConnection.outstandingPuts` in the order of its
keys, `processed[u]` how many of them the server has applied on the present
connection (it acknowledges in order, so those are the first ones), `late[u]`
what was sent on a connection now closed and may still be applied.
`cached[u]` is what the server last told u's client of `chatbox/u`, which the
home list shows; u's own newest outstanding write hides it (`Seen`).

* `Send` is the whole of `sendButtonTapped`: `SendPuts` are its four writes in
  order. `EditedForMe` and `EditedForFriend` are the two edits of the one Chat
  object; because `let chatBox = currentChatBox` copies a reference, the screen
  is left with the object as edited for the friend.
* `OpenScreen` is `cellTouchDownHandle`: the friend is read off the entry's
  chatId, not off the row.
* `CreateNewChatBox` is the closure of `createNewChatBox` that found no entry;
  having found one it only shows a dialog.
* `ServerProcess`, `AckPut`, `OnDisconnect`, `Connect` are the life of a put:
  applied, acknowledged, sent again in index order on every new connection.
* `Kill` ends a process. Persistence is off (`AppDelegate`), so its queue goes;
  the history variable `lost` records the messages that had a write in it.

Messages are records of id, sender and addressee; the text is identified with
the message. The avatar, the time stamp and the online flag are left out:
nothing branches on them. Ids are taken to be unique (20 random characters of
62). Older copies of a row that a growing home list still shows are covered by
`cached`, whose news may arrive arbitrarily late (`EntryArrives`), and are the
subject of `HomeList`.

Assumed of the server: it applies the writes of a connection in order,
acknowledges in order, tells a client what changed before it acknowledges the
client's own write, and rejects nothing.

### SharedLog

Four steps: a message enters its sender's copy (`Post`), the friend's copy takes
one the sender's copy has (`Deliver`), an entry announces a message its owner's
copy has (`Announce`), or is the placeholder (`Greet`). `Messaging` implements
it with `log <- messages` and `entry` the last message of each Chat record:
queues, screens, connections and resending are gone. A resent write is a
stutter, or for an entry an `Announce` of a message announced before.

### WriteLink and Connection

`WriteLink` has, for each client, a queue, a link that is up or down, and what
is on the link: `Submit`, `Establish` (all of the queue goes out), `Lose` (the
queue stays) and `Acknowledge` (the oldest is done with). No step of a link
drops a write. `Forget`, for the end of the process that kept them, is not one:
`LinkedMessaging` uses it in `LinkedKill`, where iOS ends the process, and
`Connection`, which has no such step, may not.

`LinkedMessaging` has the actions of `Messaging`, with the part about the link
replaced by the link's own step: `LinkedSend` hands over (`Submit`),
`LinkedConnect` is `Establish`, `LinkedDisconnect` is `Lose`, `LinkedAck` is
`Acknowledge`; `LinkedProcess` applies the next write of `wire`.

`Connection` is the code behind it. `connectionState` and `interruptReasons` are
the fields of that name; `retries` holds the retry block that is scheduled (a
sequence, so that a second one would show), `fetches` the requests for a token
with the attempt each belongs to, `realtime` and `socket` the `FConnection` and
its web socket as seen by the client. Every handler is an action, and the ones
it calls synchronously are part of it: `InterruptForReason` closes the
connection, whose `onDisconnect` schedules a retry or does not. `ConnectTimeout`
is `closeIfNeverConnected`, which may find a socket that is only slow and whose
opening, or hello, or kill has been passed on already; hence `socket =
"closing"`. `AuthLinked` is whether FirebaseAuth provides tokens: if not, as in
My Chat, the token `nil` is there at once, within the retry block.
`distrusted` is a history variable, for the finding about refreshed tokens.
Left out: the length of delays, the idle time-out and the time stamps of
established connections, `onDisconnect` operations, statistics, listens (which
are in `SyncTree`).

### ChatScreen

`screens[s]` is the `messages` array of the s-th screen presented; dismissed
screens stay, as their observers do. `writes`, `serverCache`, `complete` and
`eventCache` are the pending writes and the view cache of the observed node;
`RaiseEvents` gives every screen a `.childAdded` for each child the event cache
gains. `ReadDataUpdate`, `ReadChildUpdate`, `ReadListenOk` and `ReadPutOk` are
the four things a client reads; `ReadPutOk` withholds the acknowledgement while
`unackedListens` is not zero, and the last `ReadListenOk` lets all through.
`ListenElsewhere` stands for the application's other `observe` calls, which
matter only as listens without an answer. Keys are numbers in key order, as the
client enumerates children by key. The header's observer sets a label and a
picture and is left out.

### SyncTree

`Root` is `chatbox/<user>`, `Child` its entries; `observers`, `cache` and
`complete` are the views (`FView` with its server cache and
`isFullyInitialized`), `listens` the outstanding listens at the server, `started`
the identity of a listen, since an answer acts only if the listen it belongs to
has not been replaced. `AddEventRegistration` seeds a new view from what others
have, and listens unless the parent is observed; observing the parent stops the
children's listens. `RemoveEventRegistration` hands the listens back, and a
refusal (`OnListenResponse`, `denied`) does the same without anybody's asking.
`ApplyServerOverwrite` sends data to every view it overlaps. `RestoreState`
sends every listen again, with the hash of what its view has now. The order in
which a dictionary of listens is gone through is a choice (`Orders`). The server
sends no data for a matching hash, except that an empty place hashes to the
empty string, which matches nothing.
The client's own writes on top of server data are in `ChatScreen` and
`Messaging`; filtered queries are left out, as the application has none.

### HomeList

`chatbox[a][f]` is the version of an entry the client has. `fetches` are the
closures of `fetchListOfChatBox`, each with the list it appends to; `events` is
the main queue; `user` is who is signed in and `owner` whose closure has set
`chatList` last (each at most one, hence sets). `Appear` is `viewWillAppear`,
`LoadHome` a new home screen after a change of account, with the old closures
still there. `rowList` has the row of every cell in order of creation; `LayOut`
is a reload, `ScrollDown` and `ScrollUp` move the table by a row, making the
cell that comes into sight anew. `cellTouchDownHandle` takes a cell's place in
`rowList` for its row (`Opened`), while the cell shows the entry at its row
(`Showing`). `skewed` becomes true when those two may differ: the table was
scrolled up, or reloaded scrolled down.
No cell is used again, as the code never asks for one; assumed of UIKit: a reload
makes the rows on show anew, from the top down, and scrolling makes those that
come into sight.

### FriendLookup

`lookups` are the closures at `users/<id>`, `creations` those at an entry; all
remain. `events` is the main queue, each event with the snapshot it was raised
with. `CallLookup` and `CallCreation` are the closures, whole; `CallCreation`'s
own `setValue` raises the next events. `Registers` and `MessageArrives` are
other people's doing, `SwitchUser` a sign-out and sign-in, after which a closure
acts for the new user.

### Session

`token` is `AccessToken.current`, kept in the keychain and so by `Relaunch`.
`requests` are the profile requests under way, by the account whose token they
captured. `ProfileArrives` is `fetchFacebookDataDidEnd` up to `observe`: the
name of the account that asked, the id of the account signed in now.
`ObserverCalled` is the whole closure: it makes its user the current one or
writes the record, uncovers its sign-in screen, pops and pushes if that screen
is still on the stack, and is called again by its own write. `Home` and `Shown`
are the stack after the push and after `TabBarController.viewWillAppear`.
`sheet` is the sheet to sign in or to confirm a sign-out: while it is on show
every answer still arrives.
A record is an id and a name. The alerts of a cancelled or failed sign-in are
left out; they change nothing. Assumed of UIKit: a controller never pops its
root, and of several unanimated changes in one turn of the main queue only the
final screen appears.

## The runs

All runs use two workers. Bounds are constants named in the modules. A run
checks safety and liveness together where the fair instance is small enough.

| run | bounds | distinct states | shows |
|---|---|---|---|
| `messaging_core` | `Messaging`: 2 users, 2 messages, 1 drop, 1 kill, late delivery | 561,322 | `SenderCopyLeads`, `EntryIsLogged`, `EntryTellsWhoSpoke`, `CopiesAgreeAtRest`; the refinement `ImplementsSharedLog` |
| `messaging_live` | `LinkedMessaging`: 2 users, 2 messages, 1 drop, 1 kill, fair | 112,696 | `EntryIsSomeonesLatest`, `Delivered`; the refinement `ImplementsMessaging` |
| `messaging_header` | 2 messages, nothing fails | stops at the violation | finding `HeaderIsFriend` |
| `connection` | 2 writes, 3 faults, 2 interruptions, tokens, fair | 40,086 | `StatesAgree`, `QuietWhenInterrupted`, `AlwaysTrying`; the refinement `ImplementsWriteLink`; `ComesUpForGood`, `PutsAnswered` |
| `connection_refresh` | a smaller instance | stops at the violation | finding `RefreshedAfterRevocation` |
| `chatscreen` | 2 screens, 2 own messages, 1 of the friend, 1 other listen, 1 drop, fair | 99,762 | `NoDuplicateBubbles`, `OwnMessagesShown`, `ScreensShowLogAtRest`, `NeverRetracted`, `EventuallyShown`, `EventuallyAcked` |
| `synctree` | 1 entry, 2 values, 3 observers added and 2 removed, 2 changes, 1 drop, 1 refusal, fair | 664,321 | `ListensCover`, `ViewsAgree`, `CurrentAtRest`, `ListenedCurrentAtRest`, `FirstValueIsHeld`, `FirstValueComes` |
| `synctree_covered` | a smaller instance | stops at the violation | finding `ToldIsHeld` |
| `homelist` | 2 accounts, 2 friends, 2 rows on show, 2 changes, 2 fetches, 3 cells, fair | 962,144 | `TapOpensItsRow`, `EndsInSnapshot`, `OwnListComes` |
| `friendlookup` | 2 accounts, 2 ids, 2 look-ups, 1 change of user, 2 messages, fair | 548,744 | `OldConversationKept`, `Quiet`, `LookupAnswered` |
| `session` | 2 accounts, 2 sign-ins, 2 launches, fair | 97,360 | `SignInAtTheEnds`, `HomeRegisteredAtRest`, `HomeNeedsToken`, `SignInEnds` |
| `session_observer` | 1 sign-in, 1 launch | stops at the violation | finding `ObserverRemoved` |

The type invariants of `ChatScreen`, `Session`, `HomeList` and `FriendLookup`
are checked in their runs; those of `ChatScreen`, `Session`, `Messaging`,
`Connection` and `SyncTree` are proved.

Why these bounds are enough for the cases of interest:

* Two users are all a conversation has, and two messages let both send at once,
  let one user send twice from one screen, and let a resend of the first be
  overtaken by the second. One drop at any point of the eight writes gives every
  prefix applied or not and acknowledged or not, and with late delivery applied
  by the old connection after the new one; one kill likewise. Only one of the
  users adds the other; the second gets the row from the first's message.
  `EntryIsSomeonesLatest` is checked without late delivery: a write applied after
  its connection is gone may put an old entry back. `messaging_live` therefore
  has none; `ImplementsMessaging` holds of the instance with it as well (561,322
  states without fairness), and is proved for all.
* `Connection`: two writes are one before and one after any event, and make an
  order; three faults are a token refused, a reconnection that fails and a
  renewed token in any order; two interruptions let the answer of an attempt come
  after the connection was interrupted, resumed and interrupted again. The run
  has tokens; without them, as in My Chat, a retry goes from down to connecting
  in one step, which is a request answered at once.
* Two screens of the conversation are what it takes for one to be dismissed and
  still listening; an own message below and one above the friend's key make the
  order of keys differ from the order of sending; one listen elsewhere is what
  withholds acknowledgements when the own listen is answered; the initial log
  may be any set of messages.
* `SyncTree`: one entry with two values may change and change back, which is
  what a hash may be deceived by; three observers and two removals let the list
  and the entry be observed together and one of them be left and observed
  again, so that a listen is handed over and taken back while earlier requests,
  answers and hashes of it are still on their way, or lost with the connection.
  Two entries, of which one is observed and the other not, make the instance
  too large beside all that. With one value, and one removal (611,733 states),
  they satisfy the same properties; so does `ListenedCurrentAtRest` with four
  observers on one entry (2,721,053 states). The four invariants are proved for
  any number of entries, values and observers.
* `HomeList`: two fetches are two closures with lists of different length, or of
  different accounts; two rows on show with lists of two to six entries let the
  table scroll; three cells are one more than are on show.
* `FriendLookup`: two look-ups are twice the same id or two ids, one of which may
  be the user's own other account; one change of user between any two steps.
* Two sign-ins after a launch that may find a token give three successive
  accounts; a second launch starts over with the token and records left.

`CHECK_DEADLOCK FALSE` is set because each system may stop: nobody has to type,
the bounds run out, and in `Session` a failed profile request leaves the white
view over the sign-in screen for good (`ProfileBusiness.swift:52`). Message ids
are a symmetry set in `messaging_core`; no run with a liveness property uses
symmetry.

What the less obvious properties say:

* `EntryTellsWhoSpoke`: in spite of the shared object, the state and the message
  of an entry always match, and an entry received from the friend names the
  friend and carries the row's own id. It says nothing of the name in one's own
  entry, which is wrong from the second send on (a consequence of the finding).
* `CopiesAgreeAtRest`: once a user's own queue is empty, both copies hold every
  message of his not in `lost`, even while late writes are still on their way.
* `NeverRetracted`: the client's event cache never loses a child. A child that
  left it silently would be a second bubble when it came back.
* `ViewsAgree` and `CurrentAtRest` are claimed as long as no observer is removed,
  which is how the application uses the client (it calls `removeAllObservers` on
  the wrong reference only); with removals the finding `ToldIsHeld` breaks them.
  `ListensCover` and `FirstValueIsHeld` hold with removals as well.
* `ListenedCurrentAtRest` holds with removals: each listen that is handed over is
  sent before the listen it replaces is stopped, so that no change falls between
  the two, and its hash is that of what the view has at that moment. With
  refusals only the first half is claimed, that nothing listened to stays without
  its data: a refusal hands over without a listen that still covers, and an entry
  changed and changed back while a request is on its way then matches a hash that
  is older than the view.
* `EndsInSnapshot`: the list on the screen grows by a full copy at each event,
  but always ends in the present entries of some account; `OwnListComes`: that
  account comes to be the user. Afterwards a closure left by an account that
  signed out may put its own list back, as nothing unregisters it.
* `OldConversationKept`: the placeholder may replace a message that came while
  the event that found nothing waited; never one that was there when the
  conversation was asked for.
* `LookupAnswered` excepts a change of user: the closure reads the current user
  when it runs, so the conversation may be the next user's.
* `HomeRegisteredAtRest`: with every answer in, the account on the home screen
  has a record, although a closure may register another account than the one
  whose request came last.
* `HomeNeedsToken` speaks of the step that brings the home screen up. The state
  "home screen on top and nobody signed in" is reachable: the confirmation of a
  sign-out may be on show when a closure pushes the home screen, and nothing
  looks at the token again after it.

Each property of a passing run has a mutant, a definition of the module changed
the way a bug would change it (marked *mutant*), that
makes the run fail.

## Fairness

* `LinkedMessaging`: the server applies what a live connection has sent and
  acknowledges it (the socket is read in a loop), and a client without a
  connection connects in the end (`FIRRetryHelper` schedules an attempt after
  every failure). Drops are finitely many, so the network is eventually up for
  good. `EntryArrives`, late writes and the users are not fair.
* `Connection`: `FRepo` opens the connection; the client's queue runs what is due
  (retries, timeouts, answers); a socket nothing is wrong with opens and the
  server says hello and answers. Interrupting, going on line again and coming to
  the foreground are not fair. Faults are finitely many.
* `SyncTree`: the connection is retried until it is up (what `ComesUpForGood`
  shows of `Connection`), and the two ends of it read what they are sent.
* `HomeList` and `FriendLookup`: the server answers listens and the main queue
  runs (and, in `HomeList`, lays the table out).
* `ChatScreen`: the server reads and answers, the client reads, and the retry
  helper reconnects.
* `Session`: Facebook ends each request with a result or an error, the database
  gives an observer its first value, and the main queue runs. A failed request
  is an answer too, which `SignInEnds` excepts through the history variable
  `failed`. The user is never obliged to tap.

Weak fairness suffices everywhere: each fair action stays enabled until it
happens or the thing it waits for is gone.

## Proofs

All theorems hold for any values of the constants that satisfy the assumptions
named in the modules: `SentinelAssumption` (the three sentinels are not records)
and `BoundAssumption` of `Messaging`, `AuthAssumption` and
`ConnectionBoundAssumption`, `NobodyAssumption` (nobody is no account) and
`SessionBoundAssumption`, `KeyAssumption` (a node's keys are finitely many
numbers, and no message is sent by both) and `ScreenBoundAssumption`,
`SyncTreeAssumption` (finitely many entries; the root is none of them),
`HomeListAssumption` (an entry changes at least once: it may come to exist) and
`FriendLookupAssumption`.

| module | theorem | states |
|---|---|---|
| `MessagingProofs` | `Invariance` | `Spec => []IInv` |
| | `TypeCorrect` | `Spec => []TypeOK` |
| | `SenderCopyAlwaysLeads` | `Spec => []SenderCopyLeads` |
| | `EntriesAlwaysLogged` | `Spec => []EntryIsLogged` |
| | `Refinement` | `Spec => ImplementsSharedLog` |
| | `LinksSuffice` | `LinkedSpec => ImplementsMessaging` |
| | `CopiesAgree` | `Spec => []CopiesAgreeAtRest` |
| | `EntriesTellWhoSpoke` | `Spec => []EntryTellsWhoSpoke` |
| | `EntriesAreSomeonesLatest` | `~LateDelivery => (Spec => []EntryIsSomeonesLatest)` |
| `ConnectionProofs` | `ConnectionInvariance` | `Spec => []ConnectionInv` |
| | `StatesAlwaysAgree` | `Spec => []StatesAgree` |
| | `InterruptedStaysQuiet` | `Spec => []QuietWhenInterrupted` |
| | `NeverStranded` | `Spec => []AlwaysTrying` |
| | `WritesUnderWay` | `Spec => []OutstandingUnderWay` |
| | `ConnectionIsWriteLink` | `Spec => ImplementsWriteLink` |
| `ChatScreenProofs` | `ScreenInvariance` | `Spec => []ScreenInv` |
| | `ScreenTypes` | `Spec => []TypeOK` |
| | `OneBubblePerMessage` | `Spec => []NoDuplicateBubbles` |
| | `OwnMessagesStay` | `Spec => []OwnMessagesShown` |
| | `ScreensAgreeWithServer` | `Spec => []ScreensShowLogAtRest` |
| | `NothingTakenBack` | `Spec => NeverRetracted` |
| `SessionProofs` | `SessionInvariance` | `Spec => []SessionInv` |
| | `SessionTypes` | `Spec => []TypeOK` |
| | `SignInStaysAtTheEnds` | `Spec => []SignInAtTheEnds` |
| | `HomeIsRegistered` | `Spec => []HomeRegisteredAtRest` |
| | `HomeComesWithToken` | `Spec => HomeNeedsToken` |
| `SyncTreeProofs` | `TypeInvariance` | `Spec => []TypeOK` |
| | `ListensAlwaysCover` | `Spec => []ListensCover` |
| | `FirstValuesAreHeld` | `Spec => FirstValueIsHeld` |
| | `ViewsAlwaysAgree` | `Spec => []ViewsAgree` |
| | `ListenedUpToDateAtRest` | `Spec => []ListenedCurrentAtRest` |
| | `AllUpToDateAtRest` | `Spec => []CurrentAtRest` |
| `HomeListProofs` | `HomeInvariance` | `Spec => []HomeInv` |
| | `HomeTypes` | `Spec => []TypeOK` |
| | `TapsOpenTheirRows` | `Spec => []TapOpensItsRow` |
| | `ListEndsInSnapshot` | `Spec => []EndsInSnapshot` |
| `FriendLookupProofs` | `LookupInvariance` | `Spec => []LookupInv` |
| | `LookupTypes` | `Spec => []TypeOK` |
| | `OldConversationsKept` | `Spec => OldConversationKept` |

*`Messaging`, safety.* `SenderCopyLeads` is not inductive: nothing in it keeps a queue
from holding the friend's copy of a message alone. A write *rests on* another
(`RestsOn`) when applying it first would break a property: the friend's copy on
the sender's, an entry on the owner's copy of the message it announces. `IInv`
says that in every queue (outstanding or late) whatever a write rests on is
stored or stands before it (`QueueOK`), and that the writes counted as processed
are stored (`AppliedOK`). Logs never lose a message, so `QueueOK` survives every
write (`QueueMonotone`); a send appends four writes that are in order by
themselves (`SendPutsOK`, `QueueConcat`); the head of a queue, or the first
unprocessed write, may be applied (`ApplyStep`); an acknowledgement, or a
connection that goes, cuts off only applied writes (`QueueTail`,
`QueueSuffix`). This is also why sending again from the start of the queue is
harmless and sending in another order would not be. One lemma per action gives
`NextIInv`; the refinement needs `IInv` to see that an applied entry is an
`Announce` and an applied friend's copy a `Deliver`.

*`Messaging`, at rest.* `CopiesAgreeAtRest` speaks of the moment when the
sender's queue is empty and says nothing before it. `KeptInv` says where each half of a
message is at any time: stored, or in its sender's queue, unless `lost`. A send
puts both into the queue; an acknowledgement takes away only what is stored,
by `IInv`; a kill enters what it takes into `lost`. `EntryTellsWhoSpoke` needs
only that every record in a queue, or on its way, is as truthful as those
stored (`HonestInv`), whatever the shared object holds.

*`Messaging`, whose words an entry ends with.* At rest an entry shows somebody's
latest message, but on the way there it may show an old one, put back by a
resend. `LatestInv` says why it does not stay. The newest write of an entry in
a user's queue carries that user's latest message (`LatestQueued`); a stored
message is its author's latest, or its author has another write of the entry
queued (`EntryLatest`). An acknowledgement may take away that other write only if
it has been applied, and then it is what is stored, unless another user wrote
after it (`AppliedShown`), whose words are then judged by that user's queue. An
acknowledgement is where the three are needed together (`SpokenAck`). A late
write would break `AppliedShown`, so `LateDelivery` is false in the theorem as it
is in the run; a kill takes queued writes away, so the property and `SpokenInv` ask
for none.

*`LinkedMessaging`.* The server of `LinkedMessaging` reads `wire`, that of
`Messaging` the queue, so a step of the one is a step of the other only because
the wire of a link that is up holds what the queue does (`WireCarriesQueue`): a
submission goes to both, a new link starts with all of the queue, an
acknowledgement is of the head of both, a lost link carries nothing. If
`Establish` sent anything but the whole queue, in its order, `LinkedProcess` would
apply what `Messaging` does not. Together with `ConnectionIsWriteLink` this leaves
one thing unproved: that the server's own part, applying each link's writes in
order, is as modelled.

*`Connection`.* `AlwaysTrying` depends on every handler: a connection that is
down has a retry scheduled *because* whatever brought it down scheduled one, and
waiting for a token is safe *because* the answer to the latest request is only
ignored when the state has moved on. `ConnectionInv` adds to the properties that
a retry exists only while down, that an answer to the latest request finds the
client waiting or down, that the verdict that restores the state is the first of
the pending ones exactly while authenticating, and that the writes under way are
the outstanding ones. Handlers share `onDisconnect` and the retry, so the lemmas
are about those (`DisconnectInv`, `ScheduleInv`, `TalkInv`, `WritesInv`) and one
short lemma per action cites them.

*`ChatScreen`.* No bubble comes twice because the event cache never loses a
child, and it never does because a write is taken off the pending ones only when
its message is in the server cache (`Acked`). That takes the whole invariant
`ScreenInv`: the event cache is the server cache with the pending writes, and
every screen shows just that (`EventsMerged`); an acknowledgement under way has
its child in the server cache already, or before it in the queue, or in data
under way, or else the listen at the node is still unanswered (`AcksSafe`); data
under way are newer than the server cache, come before all news of children and
are followed by a response to a listen (`NewsInOrder`). The last two would not
suffice, as an acknowledgement may overtake the answer to a listen. What closes
the gap is `unackedListens`: it counts exactly the listens not yet read, those
the server holds and the responses under way, so at zero there is neither an
unanswered listen nor data under way (`NothingCounted`), and at the last
response likewise (`LastCounted`). `ServerLeads`, `ListensOnce` and `PutsOnce`
are what the steps of the server and a new connection need of the queues: each
listen and each put at most once, each put or its acknowledgement under way
while its write is kept. There is one lemma per action, and one per kind of
frame for the three that read one. The lemmas on `Append`, `Tail`,
concatenation and counting are in `SequenceFacts`.

*`Session`.* Every way the stack changes is a pop of the top, a push of one
screen, or both, followed by what the new top does when it appears; `PopLeaves`
and its companions say that below the top only the root is a sign-in screen, so
any push and pop keeps `SignInAtTheEnds`, whichever closure causes it.
`HomeRegisteredAtRest` speaks of the moment when everything is answered.
`SessionInv` says what holds before: the current user, and whoever has a home
screen anywhere on the stack, is registered or has an observer whose closure is
still to be called, because the database has not answered or the call is queued
(`WillBeRegistered`). A closure that is called either finds the record or writes
it, and a record never goes; a call that carries a record implies that it is
stored.

*`SyncTree`.* `ListensCover` is inductive together with the shape of `listens`
and `observers` only: adding an observer of the root takes the children's
listens over, removing its last one hands them back to exactly the children that
are observed, and a refusal does the same.

*`SyncTree`, first values.* A listen is known by its turn. `HeldInv` says of the
listen a place has now: while it is on its way, the view holds what its hash
tells, or values the server has held since; and ahead of its answer there comes
the data, unless what the view holds was held. A mismatch is what makes the
server send data, so the second follows from the first when the listen is
served. An answer with an older turn says nothing, and does nothing.

*`SyncTree`, agreement.* An entry and the list may have a view each, filled by
different frames, and one that comes between two frames is filled from the
other's. `AgreeInv` is about the order of what is on its way, while no observer
is removed. `Sending`: between two listens of a place the first is stopped, what
is not observed is not asked for, and the list, once listened to, stays so until
it is refused. `Answers`: what is refused is asked for no longer, and data of an
entry without a view comes because of the list and behind what completes it.
`Same`, the only part about data: views agree whether complete or not; a list
that is not complete has nothing of an entry without a view; an entry that is not
complete has nothing; and a complete list completes all entries. `Answers` is
what the second of these needs: data of an entry whose view a refusal took away
would give the incomplete list a value that a new view of the entry does not get.
The invariant rests on `ListensCover` and on the turns of `HeldInv`.

*`SyncTree`, all views at rest.* `CurrentAtRest` speaks of a moment and says
nothing before it. `UpToDate` does, while no observer is removed and nothing
refused: of an entry the server sends changes of, the last frame on its way carries what the server holds, or none
does and all views have that; of one it does not send, nothing is on its way and
every listen in the queue carries the hash of what the views have (so that when
it is served, either the data is sent or the views have it already). Besides,
every listen in the queue is the last of its place, every listened place is asked
for (`Everyone`), and complete or about to be (`AllComing`). A listen of an entry
is stopped only behind the list's (`RootFirst`), so no change falls between the
two.

*`SyncTree`, listened views at rest.* With removals a listen goes from the list to
an entry and back any number of times, and `UpToDate` breaks: an entry may be
listened to twice on the way, with hashes of different ages. `Coming` says that
a listened view is complete, or the listen it has now, or the answer to that, is
on its way. `Fed` says of a listened entry that there is a place in the queue of
requests from which on the server sends its changes without a gap, whether by its
own listen or by the list's (`From`: a hand-over lists before it stops). That
place is now, and then what is on its way ends in what the server holds or the
views have it (`Fresh`); or it is a listen that tells of no data of the entry,
which is right only if the server has none; or it is the first listen for an entry
of which nothing is sent and nothing on its way, and tells of just what the view
has (`Matching`), as after a new connection. Any older hash stands in front of that
place and is judged by the listens behind it. A view that is handed the entry has
none of it or what the list's view has (`Together`), and what the server has not it
never had (`Never`). A refusal hands over behind the place, which is why `FedInv`
asks for none.

*`HomeList`.* `TapOpensItsRow` needs that the cells stand for rows 1, 2, ... in
this order, down to the last in sight, until the table is scrolled up or reloaded
further down (`RowsInOrder`), and that no list is set without a reload.
`EndsInSnapshot` holds when no closure waits; what holds before is `UpToDate`:
the last of the calls that wait for a closure carries what the client has now for
its account, and without calls the closure's own list ends in that. The list on
the screen is that of a closure of its owner (`OwnerShown`).

*`FriendLookup`.* A call for an entry is raised with the snapshot the client has
then. A conversation that existed when it was asked for is never removed, so each
call for that closure has found it (`EventsMeant`, `OldOnesThere`), and only a
call that found nothing writes the placeholder.

*Counting upwards.* That a finite set of numbers can be counted upwards
(`InOrder`) is an induction over data, and the library's induction theorems take
an operator for a parameter, which the provers here cannot instantiate.
`SequenceFacts` states induction for a set instead (`SetInduction`: a set of
numbers with zero and the successor of each of its members is all of them),
proves it from the well-foundedness of the order, and applies it to the set of
the bounds up to which counting works (`UpwardsExists`).

`IInv`, `SpokenInv`, `ConnectionInv`, `ScreenInv`, `SessionInv` and `FedInv` were invariants of
a TLC run before they were proved.

Every safety property a passing run checks is stated by a theorem.

*Model-checked only:* liveness (`Delivered`, `ComesUpForGood`, `PutsAnswered`,
`EventuallyShown`, `EventuallyAcked`, `FirstValueComes`, `OwnListComes`, `Quiet`,
`LookupAnswered`, `SignInEnds`), which is out of the prover's reach.

## Findings

* **`HeaderIsFriend`** (`ChatBoxViewController.swift:130-135`). After a second
  send from one screen the sender's own entry carries the friend's chatId. The
  row then opens as a conversation with oneself: the header is that of
  `users/<me>`, while the comment at line 43 speaks of the friend; the messages on
  show are the friend's copy, `messages/<friend>_<me>`; and what is sent goes to
  `messages/<me>_<me>`.
* **`ObserverRemoved`** (`LogInViewController.swift:126-127`). "Remove observer"
  removes observers of the root reference, of which there are none. A new
  account's closure is called again by its own write, and every closure again
  at any later change of the record.
* **`RefreshedAfterRevocation`** (`FPersistentConnection.m:450`). When a token is
  revoked, `onAuthRevoked` promises a refreshed one at the next connection. The
  wish moves into the scheduled retry block and is cleared; if the app comes to
  the foreground before the block runs, the block is cancelled and the next one
  does not know. My Chat has no tokens.
* **`ToldIsHeld`** (`FSyncTree.m:515`, `333`). Observe an entry until it is there;
  observe its parent, whose listen carries the hash of that entry; before the
  answer, remove the entry's observer and observe the entry again. The new view
  gets no data (the parent is not complete) and no listen (the parent covers it);
  the server finds the hash right and sends none either; the answer completes the
  empty view, and the observer is told there is nothing. The application removes
  no observer, so it is not exposed.

Seen on the way, without a line that promises otherwise:

* A closure left by an account that signed out keeps handing its list to the
  home screen of the next (`ChatBusiness.swift:55`).
* A look-up answered after a change of user makes a conversation for the new
  user (`FriendViewController.swift:63`).
* A tap may open another conversation than the row shows, or none, once the table
  was scrolled up or was reloaded while scrolled down: a cell's place in `rowList`
  is then not its row (`HomeViewController.swift:119`). `TapOpensItsRow` is claimed
  until then, and `skewed` marks the moment.
* An entry that the friend's first message makes between the look-up of a
  conversation and the placeholder's `setValue` is replaced by the placeholder
  (`ChatBusiness.swift:69-76`).
* The home screen can be on top with nobody signed in (see `HomeNeedsToken`).
* `ChatTableRow.swift:52-61` compares an entry's state with texts the application
  never stores, so a row never shows its mark.

## What is not modelled

* Photo loading: a function without state. Only the chat's header can load twice
  into one view, and both loads are of pictures of the same friend.
* Scrolling by more than a row at a time, which makes cells in the same orders.
* Parts of the Firebase client the application does not reach: transactions,
  merges, filtered queries, `onDisconnect` operations, persistence, tokens.
* Rejected writes: the repository has no security rules, and no write passes a
  completion block.
* Layout, texts, animation, the header observer, avatars, time stamps.
* Data races: observers and taps all run on the main queue.

## Plan

Done: `Messaging`, `SharedLog`, `ChatScreen`, `Session`, their runs, and the
safety theorems of `Messaging`; then `WriteLink`, `Connection` and the
composition of `Messaging` with the links (`LinkedMessaging`), `HomeList`, `FriendLookup`, `SyncTree`, and the theorems
about every safety property of these modules.

Left, in this order:

1. Composition: `Messaging` with `ChatScreen`'s view in place of `Seen`, at least
   for one user, to check that what a screen shows is what `SharedLog` holds.
2. Own writes in `SyncTree`'s views, so that the placeholder of `FriendLookup`
   and its observers can be followed into the sync tree.
