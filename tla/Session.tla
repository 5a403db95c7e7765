------------------------------- MODULE Session -------------------------------
(***************************************************************************)
(* Signing in and out on one device: who is signed in with Facebook, whom  *)
(* the app takes for the current user, and which screens are on the        *)
(* navigation stack.                                                       *)
(*                                                                         *)
(* Between a tap and the home screen lie three answers, those of the       *)
(* sign-in sheet, of Facebook with the profile and of the database with    *)
(* users/<id>, and everything else may happen in between.  The closure     *)
(* that awaits the last runs again at every change of users/<id>: it is    *)
(* never removed.                                                          *)
(*                                                                         *)
(* Facebook's SDK, UIKit and the database are outside the repository.      *)
(* Assumed of them: a navigation controller never pops its root; a screen  *)
(* that left the stack has no navigation controller; of several changes to *)
(* the stack in one turn of the main queue only the last screen appears; a *)
(* screen that is not on top cannot present an alert; a write counts as    *)
(* made when it is issued.                                                 *)
(***************************************************************************)
EXTENDS Naturals, Sequences, SequencesExt, FiniteSets

CONSTANTS
    Account,      \* Facebook accounts
    NoAccount,    \* nobody
    MaxSignIns,   \* bound: successful sign-ins
    MaxLaunches   \* bound: launches of the app

ASSUME NobodyAssumption == NoAccount \notin Account
ASSUME SessionBoundAssumption == MaxSignIns \in Nat /\ MaxLaunches \in Nat

(* A user record: the id of one account with the name of (maybe) another *)
User == [id : Account, name : Account]
NoUser == [id |-> NoAccount, name |-> NoAccount]

LogIn(n) == [kind |-> "LogIn", no |-> n]
TabBar(u) == [kind |-> "TabBar", user |-> u]
Profile == [kind |-> "Profile"]

(* A sheet to sign in or confirm a sign-out: opened by which button, over  *)
(* which LogInViewController (0: over a profile)                           *)
Sheet == [by : {"app", "facebook", "logout", "profile"}, over : Nat]
NoSheet == [by |-> "nobody", over |-> 0]

VARIABLES
    token,        \* AccessToken.current, kept in the keychain
    users,        \* database: the name stored at users/<id>
    currentUser,  \* ProfileBusiness.currentUser
    requests,     \* profile requests under way, by the account that asked
    observers,    \* closures observing users/<id>, oldest first
    loaded,       \* ids the database has answered for in this launch
    events,       \* main queue: calls of observers, with what they are told
    nav,          \* the navigation stack, root first
    listener,     \* number of the LogInViewController last loaded
    white,        \* the root, a LogInViewController, is under its white view
    sheet,        \* the sheet on show
    alert,        \* the "signed in" alert is on show
    failed,       \* history: a profile request failed in this launch
    signIns, launches  \* counters for the bounds

memory == <<currentUser, requests, observers, loaded, events, failed>>
screens == <<nav, listener, white, sheet, alert>>
vars == <<token, users, memory, screens, signIns, launches>>

Top == Last(nav)
Free == ~alert /\ sheet = NoSheet

(* The first LogInViewController appears: with somebody signed in already  *)
(* it covers itself and asks for the profile.                              *)
FirstRequests == IF token = NoAccount THEN <<>> ELSE <<token>>

(* scene(_:willConnectTo:): a new LogInViewController is the root. *)
Launched ==
    /\ currentUser' = NoUser
    /\ requests' = FirstRequests /\ white' = (token # NoAccount)
    /\ observers' = <<>> /\ loaded' = {} /\ events' = <<>>
    /\ nav' = <<LogIn(1)>> /\ listener' = 1
    /\ sheet' = NoSheet /\ alert' = FALSE /\ failed' = FALSE

Init ==
    /\ token \in Account \cup {NoAccount}
    /\ users \in {[a \in Account |-> IF a \in S THEN a ELSE NoAccount] :
                     S \in SUBSET Account}
    /\ currentUser = NoUser
    /\ requests = FirstRequests /\ white = (token # NoAccount)
    /\ observers = <<>> /\ loaded = {} /\ events = <<>>
    /\ nav = <<LogIn(1)>> /\ listener = 1
    /\ sheet = NoSheet /\ alert = FALSE /\ failed = FALSE
    /\ signIns = 0 /\ launches = 1

(* The process ends, by the user's hand or on an unwrapped nil, and the    *)
(* app is launched again.                                                  *)
Relaunch ==
    /\ launches < MaxLaunches
    /\ launches' = launches + 1
    /\ Launched
    /\ UNCHANGED <<token, users, signIns>>

-----------------------------------------------------------------------------
(* The sign-in screen *)

Tappable == Top.kind = "LogIn" /\ Free /\ ~(white /\ Top.no = 1)

LogInButtonTapped ==
    /\ Tappable
    /\ sheet' = [by |-> "app", over |-> Top.no]
    /\ UNCHANGED <<token, users, memory, nav, listener, white, alert, signIns, launches>>

(* Facebook's own button on the same screen asks to sign out whoever is    *)
(* signed in, and otherwise opens the same sheet.                          *)
FBLoginButtonTapped ==
    /\ Tappable
    /\ sheet' = [by |-> IF token = NoAccount THEN "facebook" ELSE "logout",
                 over |-> Top.no]
    /\ UNCHANGED <<token, users, memory, nav, listener, white, alert, signIns, launches>>

SheetCancelled ==
    /\ sheet # NoSheet
    /\ sheet' = NoSheet
    /\ UNCHANGED <<token, users, memory, nav, listener, white, alert, signIns, launches>>

(* loginManagerDidComplete presents an alert, over its own screen only;    *)
(* Facebook's own button has no delegate to tell.                          *)
SignedIn(a) ==
    /\ sheet.by \in {"app", "facebook"}
    /\ signIns < MaxSignIns
    /\ signIns' = signIns + 1
    /\ token' = a
    /\ sheet' = NoSheet
    /\ alert' = (sheet.by = "app" /\ Top = LogIn(sheet.over))
    /\ UNCHANGED <<users, memory, nav, listener, white, launches>>

(* OK in that alert: fetchFacebookData *)
AlertOK ==
    /\ alert
    /\ alert' = FALSE
    /\ requests' = Append(requests, token)
    /\ UNCHANGED <<token, users, currentUser, observers, loaded, events, failed,
                   nav, listener, white, sheet, signIns, launches>>

-----------------------------------------------------------------------------
(* The answers of Facebook and of the database *)

Told(observer, value) == [observer |-> observer, value |-> value]

(* .value events at users/<id>, for its observers in order of registration:*)
(* a set of one sequence                                                   *)
ValueEvents(id, value) ==
    LET on == {i \in DOMAIN observers : observers[i].user.id = id}
        orders == {s \in [1..Cardinality(on) -> on] :
                      ToSet(s) = on /\ \A j, k \in DOMAIN s : j < k => s[j] < s[k]}
    IN  {[k \in DOMAIN s |-> Told(s[k], value)] : s \in orders}

ProfileArrivesUnwrapped(i) ==                                     \* mutant
    LET user == [id |-> token, name |-> requests[i]]
    IN  /\ requests' = RemoveAt(requests, i)
        /\ currentUser' = user
        /\ observers' = Append(observers, [login |-> listener, user |-> user])
        /\ UNCHANGED <<token, users, loaded, events, failed, screens, signIns, launches>>
ProfileArrivesSilently(i) ==                                      \* mutant
    LET user == [id |-> token, name |-> requests[i]]
    IN  /\ token # NoAccount
        /\ requests' = RemoveAt(requests, i)
        /\ currentUser' = user
        /\ observers' = Append(observers, [login |-> listener, user |-> user])
        /\ UNCHANGED <<token, users, loaded, events, failed, screens, signIns, launches>>
(* fetchFacebookDataDidEnd: the current user gets the name Facebook sent   *)
(* and the id of whoever is signed in by now.                              *)
ProfileArrives(i) ==
    LET user == [id |-> token, name |-> requests[i]]
    IN  /\ token # NoAccount
        /\ requests' = RemoveAt(requests, i)
        /\ currentUser' = user
        /\ observers' = Append(observers, [login |-> listener, user |-> user])
        /\ events' = IF token \in loaded
                     THEN Append(events, Told(Len(observers'), users[token]))
                     ELSE events
        /\ UNCHANGED <<token, users, loaded, failed, screens, signIns, launches>>

(* With nobody signed in the id is nil, and unwrapping it ends the app. *)
ProfileArrivesTooLate ==
    /\ token = NoAccount
    /\ requests # <<>>
    /\ Relaunch

(* fetchFacebookData: an error is logged and that is all. *)
ProfileFails(i) ==
    /\ requests' = RemoveAt(requests, i)
    /\ failed' = TRUE
    /\ UNCHANGED <<token, users, currentUser, observers, loaded, events, screens,
                   signIns, launches>>

FetchEnds == \E i \in DOMAIN requests : ProfileArrives(i) \/ ProfileFails(i)

DatabaseAnswers(id) ==
    /\ id \notin loaded
    /\ \E i \in DOMAIN observers : observers[i].user.id = id
    /\ loaded' = loaded \cup {id}
    /\ \E calls \in ValueEvents(id, users[id]) : events' = events \o calls
    /\ UNCHANGED <<token, users, currentUser, requests, observers, failed, screens,
                   signIns, launches>>

(* The account's other device registers it first. *)
RegisteredElsewhere(id) ==
    /\ users[id] = NoAccount
    /\ users' = [users EXCEPT ![id] = id]
    /\ \/ /\ id \in loaded
          /\ \E calls \in ValueEvents(id, id) : events' = events \o calls
       \/ id \notin loaded /\ UNCHANGED events
    /\ UNCHANGED <<token, currentUser, requests, observers, loaded, failed, screens,
                   signIns, launches>>

-----------------------------------------------------------------------------
(* Navigation *)

Pop(stack) == IF Len(stack) = 1 THEN stack ELSE Front(stack)

ShownUnchecked(stack, tok) ==                                     \* mutant
    [nav |-> stack, listener |-> listener]
(* TabBarController.viewWillAppear: nobody signed in, back to a new        *)
(* sign-in screen.                                                         *)
Shown(stack, tok) ==
    IF Last(stack).kind = "TabBar" /\ tok = NoAccount
    THEN [nav |-> Append(Pop(stack), LogIn(listener + 1)), listener |-> listener + 1]
    ELSE [nav |-> stack, listener |-> listener]

HomeOnTop(user) ==                                                \* mutant
    Shown(Append(nav, TabBar(user)), token)
(* Where the closure of fetchFacebookDataDidEnd leads *)
Home(user) == Shown(Append(Pop(nav), TabBar(user)), token)

RegisteredNever(o, value) ==                                      \* mutant
    users
(* What it writes: a record for whom the database has none *)
Registered(o, value) ==
    IF value = NoAccount THEN [users EXCEPT ![o.user.id] = o.user.name] ELSE users

(* The closure of fetchFacebookDataDidEnd is called.  A write it makes     *)
(* calls every closure at users/<id>, itself included.                     *)
ObserverCalled ==
    LET event == Head(events)
        o == observers[event.observer]
        user == IF event.value = NoAccount THEN currentUser ELSE o.user
        home == Home(user)
    IN  /\ events # <<>>
        /\ currentUser' = user
        /\ users' = Registered(o, event.value)
        /\ \/ users' = users /\ events' = Tail(events)
           \/ /\ users' # users
              /\ \E calls \in ValueEvents(o.user.id, users'[o.user.id]) :
                     events' = Tail(events) \o calls
        /\ white' = (white /\ o.login # 1)
        /\ IF LogIn(o.login) \in ToSet(nav)
           THEN nav' = home.nav /\ listener' = home.listener
           ELSE UNCHANGED <<nav, listener>>
        /\ UNCHANGED <<token, requests, observers, loaded, failed, sheet, alert,
                       signIns, launches>>

AvatarTapped ==
    /\ Top.kind = "TabBar" /\ Free
    /\ nav' = Append(nav, Profile)
    /\ UNCHANGED <<token, users, memory, listener, white, sheet, alert, signIns, launches>>

BackButtonTapped ==
    /\ Top.kind = "Profile" /\ Free
    /\ LET after == Shown(Pop(nav), token)
       IN  nav' = after.nav /\ listener' = after.listener
    /\ UNCHANGED <<token, users, memory, white, sheet, alert, signIns,
                   launches>>

LogOutButtonTapped ==
    /\ Top.kind = "Profile" /\ Free
    /\ sheet' = [by |-> "profile", over |-> 0]
    /\ UNCHANGED <<token, users, memory, nav, listener, white, alert, signIns, launches>>

(* The sign-out confirmed, of the profile or of Facebook's own button; the *)
(* profile then goes back, if no closure has popped it meanwhile.          *)
LogOutConfirmed ==
    /\ sheet.by \in {"logout", "profile"}
    /\ sheet' = NoSheet
    /\ token' = NoAccount
    /\ LET after == IF sheet.by = "profile" /\ Top.kind = "Profile"
                    THEN Shown(Pop(nav), token')
                    ELSE [nav |-> nav, listener |-> listener]
       IN  nav' = after.nav /\ listener' = after.listener
    /\ UNCHANGED <<users, memory, white, alert, signIns, launches>>

Next ==
    \/ Relaunch
    \/ LogInButtonTapped
    \/ FBLoginButtonTapped
    \/ SheetCancelled
    \/ \E a \in Account : SignedIn(a)
    \/ AlertOK
    \/ FetchEnds
    \/ ProfileArrivesTooLate
    \/ \E id \in Account : DatabaseAnswers(id) \/ RegisteredElsewhere(id)
    \/ ObserverCalled
    \/ AvatarTapped
    \/ BackButtonTapped
    \/ LogOutButtonTapped
    \/ LogOutConfirmed

Spec == Init /\ [][Next]_vars

(* Facebook and the database answer, and the main queue runs. *)
Fairness == /\ WF_vars(FetchEnds)
            /\ \A id \in Account : WF_vars(DatabaseAnswers(id))
            /\ WF_vars(ObserverCalled)
FairSpec == Spec /\ Fairness

-----------------------------------------------------------------------------
(* Properties *)

(* Types: an id that is unwrapped is one, every event on the main queue is *)
(* for an observer there is, and the first sign-in screen stays the root.  *)
TypeOK ==
    /\ token \in Account \cup {NoAccount}
    /\ users \in [Account -> Account \cup {NoAccount}]
    /\ currentUser \in User \cup {NoUser}
    /\ requests \in Seq(Account)
    /\ observers \in Seq([login : Nat, user : User])
    /\ loaded \subseteq Account
    /\ \A e \in ToSet(events) : e.observer \in DOMAIN observers
    /\ nav # <<>> /\ nav[1] = LogIn(1)
    /\ sheet \in Sheet \cup {NoSheet}
    /\ {white, alert, failed} \subseteq BOOLEAN

(* The home screen never comes up with nobody signed in, though a closure  *)
(* of an earlier sign-in may push it at any moment after the sign-out      *)
(* (LogInViewController.swift:124).  It may stay up: a sign-out may be      *)
(* confirmed in a sheet that was opened before a closure pushed it.        *)
HomeNeedsToken ==
    [][nav' # nav /\ Last(nav').kind = "TabBar" => token' # NoAccount]_vars

(* A sign-in screen is the root or on top: going back never leads from the *)
(* home screen to a second sign-in screen, whatever closures popped.       *)
SignInAtTheEnds ==
    \A i \in DOMAIN nav : nav[i].kind = "LogIn" => i \in {1, Len(nav)}

AtRest ==
    /\ requests = <<>> /\ events = <<>>
    /\ \A i \in DOMAIN observers : observers[i].user.id \in loaded

(* With every answer in, whoever the home screen is shown for has a record *)
(* under users, where friends look him up: registering cannot be skipped   *)
(* by changes of account between the answers.                              *)
HomeRegisteredAtRest ==
    AtRest /\ Top.kind = "TabBar" => users[Top.user.id] # NoAccount

(* The record of an account is there, or a closure that will see to it is  *)
(* to be called: the database has not answered, or the call is queued.     *)
WillBeRegistered(id) ==
    \/ users[id] # NoAccount
    \/ \E i \in DOMAIN observers :
          /\ observers[i].user.id = id
          /\ id \notin loaded \/ \E e \in ToSet(events) : e.observer = i

Screen == [kind : {"LogIn"}, no : Nat] \cup [kind : {"TabBar"}, user : User]
              \cup [kind : {"Profile"}]

(* The inductive invariant *)
SessionInv ==
    /\ TypeOK
    /\ SignInAtTheEnds
    /\ nav \in Seq(Screen) /\ listener \in Nat
    /\ events \in Seq([observer : Nat, value : Account \cup {NoAccount}])
    /\ \A e \in ToSet(events) :
          e.value # NoAccount => users[observers[e.observer].user.id] # NoAccount
    /\ alert => sheet = NoSheet /\ token # NoAccount
    /\ observers # <<>> => currentUser \in User /\ WillBeRegistered(currentUser.id)
    /\ \A c \in ToSet(nav) : c.kind = "TabBar" => WillBeRegistered(c.user.id)

(* A profile request that does not fail takes the user off the sign-in     *)
(* screen in the end, at the first sign-in and at every later one, unless  *)
(* he signs out first.                                                     *)
SignInEnds ==
    (requests # <<>> /\ token # NoAccount)
        ~> (Top.kind # "LogIn" \/ token = NoAccount \/ failed)

(* "Remove observer" (LogInViewController.swift:126): a closure that has   *)
(* been called is not called again by what it wrote itself.                *)
ObserverRemoved ==
    [][ObserverCalled =>
          \A k \in DOMAIN events' : events'[k].observer # Head(events).observer]_vars
=============================================================================
