------------------------------ MODULE HomeList ------------------------------
(***************************************************************************)
(* The list of conversations on the home screen: HomeViewController and    *)
(* ChatBusiness.fetchListOfChatBox.                                        *)
(*                                                                         *)
(* Every time the screen appears it fetches its user's list, that is, it   *)
(* adds one more closure observing chatbox/<user>.  No closure is ever     *)
(* removed (removeAllObservers is called on the root, where none is        *)
(* registered); each keeps a list of its own, appends a full copy at every *)
(* change, and hands it to whichever home screen was loaded last.  The     *)
(* closures run on the main queue, some time after the client saw the      *)
(* change.  The list that a cell belongs to is found by the cell's place   *)
(* among the cells made since the list last came.                          *)
(*                                                                         *)
(* The client's view of chatbox/<user> is taken for granted here.          *)
(***************************************************************************)
EXTENDS Naturals, Sequences, Increasing

CONSTANTS
    Account,     \* who signs in on this device
    NumFriends,  \* friends are numbered in the order of their keys
    Height,      \* rows the table shows at once
    MaxNews,     \* bound: versions of an entry
    MaxFetches,  \* bound: times a home screen appears
    MaxCells     \* bound: cells made by scrolling a list

ASSUME HomeListAssumption ==
    /\ NumFriends \in Nat /\ Height \in Nat \ {0}
    /\ MaxNews \in Nat \ {0} /\ MaxFetches \in Nat /\ MaxCells \in Nat

Friend == 1..NumFriends

VARIABLES
    chatbox,   \* the client's view of chatbox/<account>: versions, 0 for none
    complete,  \* the accounts whose list the server has sent
    fetches,   \* the closures in order of registration: user, list
    events,    \* the main queue: closures to call, each with its snapshot
    user,      \* currentUser of the home screen loaded last, a set of one
    chatList,  \* what that screen shows
    owner,     \* history: whose closure handed it over, a set of at most one
    rowList,   \* the row of each cell made since then, in order of creation
    visible,   \* the places in rowList of the cells on the screen
    top,       \* the first row on the screen
    reloading, \* has the table been told to reload and not laid out since?
    skewed     \* history: were cells made in another order than rows?

list == <<fetches, events>>
screen == <<user, chatList, owner>>
table == <<rowList, visible, top, reloading, skewed>>
vars == <<chatbox, complete, list, screen, table>>

Init ==
    /\ chatbox \in [Account -> [Friend -> {0, 1}]]
    /\ complete = {}
    /\ fetches = <<>>
    /\ events = <<>>
    /\ user = {}
    /\ chatList = <<>>
    /\ owner = {}
    /\ rowList = <<>>
    /\ visible = {}
    /\ top = 1
    /\ reloading = FALSE
    /\ skewed = FALSE

-----------------------------------------------------------------------------
(* The client *)

(* A snapshot: the entries there are, in the order of their keys *)
Snapshot(a, box) ==
    LET there == InOrder({f \in Friend : box[f] > 0})
    IN  [k \in DOMAIN there |->
            [account |-> a, friend |-> there[k], version |-> box[there[k]]]]

(* A value event for every closure observing chatbox/<a>, in order *)
ValueEventsOnce(a, snapshot) ==                                   \* mutant
    LET own == InOrder({i \in DOMAIN fetches :
                           fetches[i].user = a /\ fetches[i].list = <<>>})
    IN  [k \in DOMAIN own |-> [fetch |-> own[k], snapshot |-> snapshot]]
ValueEvents(a, snapshot) ==
    LET own == InOrder({i \in DOMAIN fetches : fetches[i].user = a})
    IN  [k \in DOMAIN own |-> [fetch |-> own[k], snapshot |-> snapshot]]

FirstValue(a) ==
    /\ \E i \in DOMAIN fetches : fetches[i].user = a
    /\ a \notin complete
    /\ complete' = complete \cup {a}
    /\ events' = events \o ValueEvents(a, Snapshot(a, chatbox[a]))
    /\ UNCHANGED <<chatbox, fetches, screen, table>>

(* An entry comes or changes, by a send on either side. *)
News(a, f) ==
    /\ a \in complete
    /\ chatbox[a][f] < MaxNews
    /\ chatbox' = [chatbox EXCEPT ![a][f] = @ + 1]
    /\ events' = events \o ValueEvents(a, Snapshot(a, chatbox'[a]))
    /\ UNCHANGED <<complete, fetches, screen, table>>

-----------------------------------------------------------------------------
(* The screen *)

(* fetchListOfChatBox: a closure that comes to a list the client already   *)
(* has is called with it, in its turn.                                     *)
FetchNothingYet(a) ==                                             \* mutant
    /\ Len(fetches) < MaxFetches
    /\ fetches' = Append(fetches, [user |-> a, list |-> <<>>])
    /\ UNCHANGED events
FetchListOfChatBox(a) ==
    /\ Len(fetches) < MaxFetches
    /\ fetches' = Append(fetches, [user |-> a, list |-> <<>>])
    /\ events' = IF a \in complete
                 THEN Append(events, [fetch |-> Len(fetches'),
                                      snapshot |-> Snapshot(a, chatbox[a])])
                 ELSE events

(* viewDidLoad and viewWillAppear of a home screen after a sign-in *)
LoadHome(a) ==
    /\ user' = {a}
    /\ chatList' = <<>>
    /\ owner' = {}
    /\ rowList' = <<>>
    /\ visible' = {}
    /\ top' = 1
    /\ reloading' = TRUE
    /\ skewed' = FALSE
    /\ FetchListOfChatBox(a)
    /\ UNCHANGED <<chatbox, complete>>

(* viewWillAppear, on coming back from another screen or tab *)
Appear ==
    /\ \E a \in user : FetchListOfChatBox(a)
    /\ UNCHANGED <<chatbox, complete, screen, table>>

(* The closure, and fetchListOfChatBoxDidEnd *)
DidEndKeepingCells(a, whole) ==                                   \* mutant
    /\ chatList' = whole
    /\ owner' = {a}
    /\ visible' = {}
    /\ reloading' = TRUE
    /\ UNCHANGED <<user, rowList, top, skewed>>
DidEnd(a, whole) ==
    /\ chatList' = whole
    /\ owner' = {a}
    /\ rowList' = <<>>
    /\ visible' = {}
    /\ reloading' = TRUE
    /\ UNCHANGED <<user, top, skewed>>

CallFetch ==
    /\ events # <<>>
    /\ events' = Tail(events)
    /\ LET i == Head(events).fetch
           whole == fetches[i].list \o Head(events).snapshot
       IN  /\ fetches' = [fetches EXCEPT ![i].list = whole]
           /\ DidEnd(fetches[i].user, whole)
    /\ UNCHANGED <<chatbox, complete>>

(* cellForRowAt, for some rows one after the other: a cell is never used   *)
(* again, for its identifier is never asked for.                           *)
MakeCells(from, to) ==
    rowList' = rowList \o [k \in 1..(to + 1 - from) |-> from + k - 1]

Least(m, n) == IF m < n THEN m ELSE n
LastTop == IF Len(chatList) > Height THEN Len(chatList) + 1 - Height ELSE 1

(* The table is laid out where it was scrolled to, as far as the list goes.*)
LayOut ==
    /\ reloading
    /\ reloading' = FALSE
    /\ top' = Least(top, LastTop)
    /\ MakeCells(top', Least(top' + Height - 1, Len(chatList)))
    /\ visible' = (Len(rowList) + 1)..Len(rowList')
    /\ skewed' = (top' > 1)
    /\ UNCHANGED <<chatbox, complete, list, screen>>

(* Scrolling by a row makes the cell that comes into sight. *)
ScrollDown ==
    /\ ~reloading
    /\ top < LastTop
    /\ Len(rowList) < MaxCells
    /\ top' = top + 1
    /\ MakeCells(top + Height, top + Height)
    /\ visible' = {i \in visible : rowList[i] # top} \cup {Len(rowList')}
    /\ skewed' = (skewed \/ \E i \in DOMAIN rowList : rowList[i] >= top + Height)
    /\ UNCHANGED <<chatbox, complete, list, screen, reloading>>

ScrollUp ==
    /\ ~reloading
    /\ top > 1
    /\ Len(rowList) < MaxCells
    /\ top' = top - 1
    /\ MakeCells(top - 1, top - 1)
    /\ visible' = {i \in visible : rowList[i] # top + Height - 1} \cup {Len(rowList')}
    /\ skewed' = TRUE
    /\ UNCHANGED <<chatbox, complete, list, screen, reloading>>

(* cellTouchDownHandle opens the conversation at the cell's place, if the  *)
(* list is that long; the cell shows the one at its row.                   *)
Opened(i) == IF i <= Len(chatList) THEN {chatList[i]} ELSE {}
Showing(i) == chatList[rowList[i]]

Next ==
    \/ \E a \in Account : FirstValue(a) \/ LoadHome(a)
    \/ \E a \in Account, f \in Friend : News(a, f)
    \/ Appear \/ CallFetch
    \/ LayOut \/ ScrollDown \/ ScrollUp

Spec == Init /\ [][Next]_vars

(* The server answers a listen; the main queue runs. *)
Fairness ==
    /\ \A a \in Account : WF_vars(FirstValue(a))
    /\ WF_vars(CallFetch)
    /\ WF_vars(LayOut)

FairSpec == Spec /\ Fairness

-----------------------------------------------------------------------------
(* Properties *)

Entry == [account : Account, friend : Friend, version : 1..MaxNews]

(* The variables have their types; in particular the cells in rowList and  *)
(* on the screen stand for rows there are (cellForRowAt indexes chatList   *)
(* with them).                                                             *)
TypeOK ==
    /\ chatbox \in [Account -> [Friend -> 0..MaxNews]]
    /\ complete \in SUBSET Account
    /\ fetches \in Seq([user : Account, list : Seq(Entry)])
    /\ events \in Seq([fetch : DOMAIN fetches, snapshot : Seq(Entry)])
    /\ user \in {{}} \cup {{a} : a \in Account}
    /\ owner \in {{}} \cup {{a} : a \in Account}
    /\ chatList \in Seq(Entry)
    /\ rowList \in Seq(DOMAIN chatList)
    /\ visible \in SUBSET DOMAIN rowList
    /\ top \in Nat \ {0}
    /\ reloading \in BOOLEAN /\ skewed \in BOOLEAN

(* A tap opens the conversation its row shows, in spite of the growing     *)
(* lists and of reloads, until the table is scrolled up or reloaded        *)
(* scrolled down (cellTouchDownHandle).                                    *)
TapOpensItsRow == ~skewed => \A i \in visible : Opened(i) = {Showing(i)}

EndsIn(l, s) == Len(s) <= Len(l) /\ SubSeq(l, Len(l) + 1 - Len(s), Len(l)) = s

(* Once every closure has been called the list on the screen ends in the   *)
(* present entries of the account whose closure came last, however many    *)
(* older copies precede them and whoever is signed in                      *)
(* (fetchListOfChatBox).                                                   *)
EndsInSnapshot ==
    events = <<>> => \A a \in owner : EndsIn(chatList, Snapshot(a, chatbox[a]))

(* The closures left behind by an account that signed out go on handing    *)
(* its list to the present home screen.  Still, every home screen comes to *)
(* show its own user's list.                                               *)
OwnListComes ==
    \A a \in Account : user = {a} /\ owner = {} ~> (user # {a} \/ owner = {a})
=============================================================================
