--------------------------- MODULE HomeListProofs ---------------------------
(***************************************************************************)
(* Theorems about HomeList, for any accounts, number of friends, height of *)
(* the table and bounds.                                                   *)
(*                                                                         *)
(* The table: as long as cells are made in the order of rows, cell i is    *)
(* the cell of row i, so its place is the place of its conversation; and   *)
(* the list never changes under a table that is laid out, for taking over  *)
(* a list tells the table to reload.                                       *)
(*                                                                         *)
(* The list: the last call that waits for a closure brings what the client *)
(* has for its account, and when none waits the closure's own list ends in *)
(* that; what the screen shows is the list of a closure of the account.    *)
(***************************************************************************)
EXTENDS HomeList, SequenceFacts

FetchOf == [user : Account, list : Seq(Entry)]
CallOf(closures) == [fetch : closures, snapshot : Seq(Entry)]

-----------------------------------------------------------------------------
(* The operators *)

LEMMA SnapshotType ==
    ASSUME NEW a \in Account, NEW box \in [Friend -> 0..MaxNews]
    PROVE  Snapshot(a, box) \in Seq(Entry)
<1> DEFINE F == {f \in Friend : box[f] > 0}
           there == InOrder(F)
<1>1. NumFriends \in Nat /\ F \in SUBSET (1..NumFriends) /\ MaxNews \in Nat
  BY HomeListAssumption DEF Friend
<1>2. there \in Seq(F)
  BY <1>1, InOrderFacts
<1> HIDE DEF F
<1>3. /\ Len(there) \in Nat /\ DOMAIN there = 1..Len(there)
      /\ \A k \in 1..Len(there) : there[k] \in F
  BY <1>2
<1> HIDE DEF there
<1> DEFINE s == [k \in 1..Len(there) |->
                    [account |-> a, friend |-> there[k], version |-> box[there[k]]]]
<1>4. \A f \in F : f \in Friend /\ box[f] \in 1..MaxNews
  BY <1>1 DEF F
<1>5. s \in [1..Len(there) -> Entry]
  BY <1>3, <1>4 DEF Entry
<1>6. s \in Seq(Entry)
  BY <1>3, <1>5, FunctionSeq
<1>7. Snapshot(a, box) = s
  BY <1>3 DEF Snapshot, there, F
<1>8. QED
  BY <1>6, <1>7

(* Every closure at the account's list is called, and no other. *)
LEMMA ValueEventsFacts ==
    ASSUME NEW a \in Account, NEW s \in Seq(Entry), fetches \in Seq(FetchOf)
    PROVE  /\ ValueEvents(a, s) \in Seq(CallOf(DOMAIN fetches))
           /\ \A k \in DOMAIN ValueEvents(a, s) :
                 /\ fetches[ValueEvents(a, s)[k].fetch].user = a
                 /\ ValueEvents(a, s)[k].snapshot = s
           /\ \A i \in DOMAIN fetches : fetches[i].user = a =>
                 \E k \in DOMAIN ValueEvents(a, s) : ValueEvents(a, s)[k].fetch = i
<1> DEFINE F == {i \in DOMAIN fetches : fetches[i].user = a}
           own == InOrder(F)
           v == ValueEvents(a, s)
<1>1. Len(fetches) \in Nat /\ F \in SUBSET (1..Len(fetches))
  OBVIOUS
<1>2. own \in Seq(F) /\ \A i \in F : \E k \in DOMAIN own : own[k] = i
  BY <1>1, InOrderFacts
<1>3. v = [k \in DOMAIN own |-> [fetch |-> own[k], snapshot |-> s]]
  BY DEF ValueEvents
<1>4. \A i \in F : i \in DOMAIN fetches /\ fetches[i].user = a
  OBVIOUS
<1>5. \A i \in DOMAIN fetches : fetches[i].user = a => i \in F
  OBVIOUS
<1> HIDE DEF F, own, v
<1>6. /\ Len(own) \in Nat /\ DOMAIN own = 1..Len(own)
      /\ \A k \in 1..Len(own) : own[k] \in F
  BY <1>2
<1>7. v \in [1..Len(own) -> CallOf(DOMAIN fetches)]
  BY <1>3, <1>4, <1>6 DEF CallOf
<1>8. v \in Seq(CallOf(DOMAIN fetches))
  BY <1>6, <1>7, FunctionSeq
<1>9. \A k \in DOMAIN v : fetches[v[k].fetch].user = a /\ v[k].snapshot = s
  BY <1>3, <1>4, <1>6
<1>10. \A i \in DOMAIN fetches : fetches[i].user = a => \E k \in DOMAIN v : v[k].fetch = i
  BY <1>2, <1>3, <1>5
<1>11. QED
  BY <1>8, <1>9, <1>10 DEF v

LEMMA EndsInConcat ==
    ASSUME NEW S, NEW l \in Seq(S), NEW s \in Seq(S)
    PROVE  EndsIn(l \o s, s)
<1> DEFINE u == l \o s
           m == Len(l) + 1
           n == Len(l) + Len(s)
<1>1. /\ Len(u) = n /\ Len(l) \in Nat /\ Len(s) \in Nat /\ u \in Seq(S)
      /\ \A i \in m..n : u[i] \in S /\ u[i] = s[i - Len(l)]
  OBVIOUS
<1> HIDE DEF u
<1>2. Len(s) <= Len(u) /\ Len(u) + 1 - Len(s) = m /\ m \in Int /\ n \in Int
  BY <1>1
<1>3. /\ SubSeq(u, m, n) \in Seq(S)
      /\ Len(SubSeq(u, m, n)) = IF m <= n THEN n - m + 1 ELSE 0
      /\ \A i \in 1..(n - m + 1) : SubSeq(u, m, n)[i] = u[m + i - 1]
  BY <1>1, <1>2, SubSeqProperties
<1> DEFINE w == SubSeq(u, m, n)
<1> HIDE DEF w
<1>4. /\ (IF m <= n THEN n - m + 1 ELSE 0) = Len(s) /\ n - m + 1 = Len(s)
      /\ \A i \in 1..Len(s) : /\ m + i - 1 \in m..n
                              /\ (m + i - 1) - Len(l) = i
  BY <1>1
<1>5. Len(w) = Len(s) /\ w \in Seq(S)
  BY <1>3, <1>4 DEF w
<1>6. \A i \in 1..Len(s) : w[i] = s[i]
  BY <1>1, <1>3, <1>4 DEF w
<1>7. w = s
  BY <1>5, <1>6
<1>8. QED
  BY <1>1, <1>2, <1>7 DEF EndsIn, w, u

-----------------------------------------------------------------------------
(* Types, and the rows *)

ClientTyped ==
    /\ chatbox \in [Account -> [Friend -> 0..MaxNews]]
    /\ complete \in SUBSET Account
    /\ fetches \in Seq(FetchOf)
    /\ events \in Seq(CallOf(DOMAIN fetches))

ScreenTyped ==
    /\ user \in {{}} \cup {{a} : a \in Account}
    /\ owner \in {{}} \cup {{a} : a \in Account}
    /\ chatList \in Seq(Entry)

TableTyped ==
    /\ rowList \in Seq(DOMAIN chatList)
    /\ visible \in SUBSET DOMAIN rowList
    /\ top \in Nat \ {0}
    /\ reloading \in BOOLEAN /\ skewed \in BOOLEAN

(* Cells are thrown away when the table is told to reload; a table that is *)
(* laid out stands where its list allows; and unless cells were made in    *)
(* another order, there is one for every row down to the last in sight.    *)
RowsInOrder ==
    /\ reloading => rowList = <<>>
    /\ ~reloading => top <= LastTop
    /\ ~skewed => \A i \in DOMAIN rowList : rowList[i] = i
    /\ ~skewed /\ ~reloading => Len(rowList) >= Least(top + Height - 1, Len(chatList))

(* What the last call for closure i brings, or else the end of its list,   *)
(* is what the client has for its account.                                 *)
Calls(i) == {k \in DOMAIN events : events[k].fetch = i}
Present(i) == Snapshot(fetches[i].user, chatbox[fetches[i].user])
UpToDate(i) ==
    /\ Calls(i) = {} => EndsIn(fetches[i].list, Present(i))
    /\ \A k \in Calls(i) : (\A j \in Calls(i) : j <= k) => events[k].snapshot = Present(i)

ListsUpToDate ==
    /\ \A i \in DOMAIN fetches : fetches[i].user \in complete => UpToDate(i)
    /\ \A k \in DOMAIN events : fetches[events[k].fetch].user \in complete

(* The list on the screen is that of a closure that has been called. *)
OwnerShown ==
    \A a \in owner :
        /\ a \in complete
        /\ \E i \in DOMAIN fetches : fetches[i].user = a /\ chatList = fetches[i].list

HomeInv ==
    /\ ClientTyped
    /\ ScreenTyped
    /\ TableTyped
    /\ RowsInOrder
    /\ ListsUpToDate
    /\ OwnerShown

-----------------------------------------------------------------------------
(* Making cells *)

LEMMA MakeCellsFacts ==
    ASSUME TableTyped, NEW from \in Nat \ {0}, NEW to \in Nat,
           from <= to + 1, to <= Len(chatList), chatList \in Seq(Entry),
           MakeCells(from, to)
    PROVE  /\ rowList' \in Seq(DOMAIN chatList)
           /\ Len(rowList') = Len(rowList) + (to + 1 - from)
           /\ \A i \in DOMAIN rowList : i \in DOMAIN rowList' /\ rowList'[i] = rowList[i]
           /\ \A i \in DOMAIN rowList' : i \notin DOMAIN rowList =>
                 rowList'[i] = from + (i - Len(rowList)) - 1
<1> DEFINE n == to + 1 - from
           cells == [k \in 1..n |-> from + k - 1]
           D == DOMAIN chatList
<1>1. n \in Nat /\ D = 1..Len(chatList) /\ Len(chatList) \in Nat
  OBVIOUS
<1>2. \A k \in 1..n : from + k - 1 \in 1..Len(chatList)
  BY <1>1
<1>3. cells \in [1..n -> D]
  BY <1>1, <1>2
<1>4. rowList \in Seq(D)
  BY DEF TableTyped
<1>5. \A k \in 1..n : cells[k] = from + k - 1
  OBVIOUS
<1> HIDE DEF cells, D, n
<1>6. cells \in Seq(D) /\ Len(cells) = n /\ DOMAIN cells = 1..n
  BY <1>1, <1>3, FunctionSeq
<1>7. /\ rowList \o cells \in Seq(D) /\ Len(rowList \o cells) = Len(rowList) + n
      /\ \A i \in DOMAIN rowList :
            i \in DOMAIN (rowList \o cells) /\ (rowList \o cells)[i] = rowList[i]
      /\ \A i \in DOMAIN (rowList \o cells) :
            \/ i \in DOMAIN rowList
            \/ /\ i - Len(rowList) \in 1..n
               /\ (rowList \o cells)[i] = cells[i - Len(rowList)]
  <2>1. /\ rowList \o cells \in Seq(D) /\ Len(rowList \o cells) = Len(rowList) + Len(cells)
        /\ \A i \in DOMAIN rowList :
              i \in DOMAIN (rowList \o cells) /\ (rowList \o cells)[i] = rowList[i]
        /\ \A i \in DOMAIN (rowList \o cells) :
              \/ i \in DOMAIN rowList
              \/ /\ i - Len(rowList) \in DOMAIN cells
                 /\ (rowList \o cells)[i] = cells[i - Len(rowList)]
    <3>1. ASSUME NEW S, NEW s \in Seq(S), NEW u \in Seq(S)
          PROVE  /\ s \o u \in Seq(S) /\ Len(s \o u) = Len(s) + Len(u)
                 /\ \A i \in DOMAIN s : i \in DOMAIN (s \o u) /\ (s \o u)[i] = s[i]
                 /\ \A i \in DOMAIN (s \o u) :
                       \/ i \in DOMAIN s
                       \/ /\ i - Len(s) \in DOMAIN u /\ (s \o u)[i] = u[i - Len(s)]
      BY ConcatPlaces
    <3>2. rowList \in Seq(D) /\ cells \in Seq(D)
      BY <1>4, <1>6
    <3>3. QED
      BY <3>1, <3>2
  <2>2. QED
    BY <2>1, <1>6
<1>8. rowList' = rowList \o cells
  BY DEF MakeCells, cells, n
<1>9. QED
  BY <1>5, <1>7, <1>8 DEF n, D

(* The table is laid out anew: cells from the first row in sight on. *)
LEMMA LayOutRows ==
    ASSUME TableTyped, ScreenTyped, RowsInOrder, LayOut
    PROVE  TableTyped' /\ RowsInOrder'
<1> USE HomeListAssumption
<1> DEFINE n == Len(chatList)
           to == Least(top' + Height - 1, n)
<1>1. /\ rowList = <<>> /\ chatList \in Seq(Entry) /\ n \in Nat /\ Height \in Nat \ {0}
      /\ top \in Nat \ {0} /\ Len(rowList) = 0
  BY DEF LayOut, RowsInOrder, TableTyped, ScreenTyped
<1>2. /\ top' = Least(top, LastTop) /\ MakeCells(top', to) /\ chatList' = chatList
      /\ visible' = 1..Len(rowList') /\ skewed' = (top' > 1) /\ reloading' = FALSE
  BY <1>1 DEF LayOut, screen
<1>3. LastTop \in Nat \ {0} /\ LastTop <= n + 1
  BY <1>1 DEF LastTop
<1>4. top' \in Nat \ {0} /\ top' <= LastTop
  BY <1>1, <1>2, <1>3 DEF Least
<1> HIDE DEF n
<1>5. to \in Nat /\ top' <= to + 1 /\ to <= n
  <2>1. ASSUME NEW x \in Nat \ {0}, NEW h \in Nat \ {0}, NEW m \in Nat, x <= m + 1
        PROVE  /\ Least(x + h - 1, m) \in Nat /\ x <= Least(x + h - 1, m) + 1
               /\ Least(x + h - 1, m) <= m
    BY <2>1 DEF Least
  <2>2. n \in Nat /\ Height \in Nat \ {0} /\ top' <= n + 1
    BY <1>1, <1>3, <1>4
  <2>3. QED
    BY <2>1, <2>2, <1>4
<1> HIDE DEF to
<1>6. /\ rowList' \in Seq(DOMAIN chatList)
      /\ Len(rowList') = 0 + (to + 1 - top')
      /\ \A i \in DOMAIN rowList' : i \notin DOMAIN rowList => rowList'[i] = top' + (i - 0) - 1
  BY <1>1, <1>2, <1>4, <1>5, MakeCellsFacts DEF n
<1>7. /\ DOMAIN rowList = {} /\ DOMAIN rowList' = 1..Len(rowList') /\ Len(rowList') \in Nat
  BY <1>1, <1>6
<1>8. TableTyped'
  <2>1. skewed' \in BOOLEAN
    BY <1>2
  <2>2. rowList' \in Seq(DOMAIN chatList')
    BY <1>2, <1>6
  <2>3. visible' \in SUBSET DOMAIN rowList'
    BY <1>2, <1>7
  <2>4. QED
    BY <1>2, <1>4, <2>1, <2>2, <2>3 DEF TableTyped
<1>9. ASSUME ~skewed'
      PROVE  /\ \A i \in DOMAIN rowList' : rowList'[i] = i
             /\ Len(rowList') = to /\ top' = 1
  <2>1. top' = 1
    <3>1. ~(top' > 1)
      BY <1>2, <1>9
    <3>2. QED
      BY <3>1, <1>4
  <2>2. \A i \in DOMAIN rowList' : rowList'[i] = 1 + (i - 0) - 1
    BY <1>6, <1>7, <2>1
  <2>3. \A i \in DOMAIN rowList' : i \in Nat
    BY <1>7
  <2>4. \A i \in DOMAIN rowList' : rowList'[i] = i
    BY <2>2, <2>3
  <2>5. Len(rowList') = to
    BY <1>5, <1>6, <2>1
  <2>6. QED
    BY <2>1, <2>4, <2>5
<1>10. LastTop' = LastTop
  BY <1>2 DEF LastTop
<1>11. ~skewed' => Len(rowList') >= Least(top + Height - 1, Len(chatList))'
  BY <1>2, <1>5, <1>9 DEF Least, to, n
<1>12. RowsInOrder'
  BY <1>2, <1>4, <1>9, <1>10, <1>11 DEF RowsInOrder
<1>13. QED
  BY <1>8, <1>12

(* The row that comes into sight below gets a cell. *)
LEMMA ScrollDownRows ==
    ASSUME TableTyped, ScreenTyped, RowsInOrder, ScrollDown
    PROVE  TableTyped' /\ RowsInOrder'
<1> USE HomeListAssumption
<1> DEFINE n == Len(chatList)
           r == Len(rowList)
           row == top + Height
<1>1. /\ chatList \in Seq(Entry) /\ n \in Nat /\ Height \in Nat \ {0}
      /\ top \in Nat \ {0} /\ r \in Nat /\ DOMAIN rowList = 1..r
      /\ skewed \in BOOLEAN
  BY DEF TableTyped, ScreenTyped
<1>2. /\ top < LastTop /\ top' = top + 1 /\ MakeCells(row, row) /\ ~reloading
      /\ chatList' = chatList /\ reloading' = reloading
      /\ visible' = {i \in visible : rowList[i] # top} \cup {Len(rowList')}
      /\ skewed' = (skewed \/ \E i \in DOMAIN rowList : rowList[i] >= row)
  BY DEF ScrollDown, screen
<1>3. row <= n /\ row \in Nat \ {0} /\ row + 1 - row = 1 /\ LastTop \in Nat
  BY <1>1, <1>2 DEF LastTop
<1> HIDE DEF n, r, row
<1>4. /\ rowList' \in Seq(DOMAIN chatList)
      /\ Len(rowList') = r + 1
      /\ \A i \in DOMAIN rowList : i \in DOMAIN rowList' /\ rowList'[i] = rowList[i]
      /\ \A i \in DOMAIN rowList' : i \notin DOMAIN rowList => rowList'[i] = row + (i - r) - 1
  <2>1. /\ row \in Nat /\ row <= row + 1 /\ row <= Len(chatList)
    BY <1>3 DEF n
  <2>2. /\ rowList' \in Seq(DOMAIN chatList)
        /\ Len(rowList') = Len(rowList) + (row + 1 - row)
        /\ \A i \in DOMAIN rowList : i \in DOMAIN rowList' /\ rowList'[i] = rowList[i]
        /\ \A i \in DOMAIN rowList' : i \notin DOMAIN rowList =>
              rowList'[i] = row + (i - Len(rowList)) - 1
    BY <1>1, <1>2, <1>3, <2>1, MakeCellsFacts
  <2>3. QED
    BY <2>2, <1>3 DEF r
<1>5. DOMAIN rowList' = 1..(r + 1) /\ r + 1 \in DOMAIN rowList'
  BY <1>1, <1>4
<1>6. TableTyped'
  <2>1. visible' \in SUBSET DOMAIN rowList'
    BY <1>2, <1>4, <1>5 DEF TableTyped
  <2>2. top' \in Nat \ {0}
    BY <1>1, <1>2
  <2>3. skewed' \in BOOLEAN
    BY <1>2
  <2>4. QED
    BY <1>2, <1>4, <2>1, <2>2, <2>3 DEF TableTyped
<1>7. ASSUME ~skewed'
      PROVE  /\ \A i \in DOMAIN rowList' : rowList'[i] = i
             /\ Len(rowList') >= row
  <2>1. /\ ~skewed /\ \A i \in DOMAIN rowList : rowList[i] = i /\ ~(i >= row)
        /\ r >= Least(top + Height - 1, n)
    BY <1>2, <1>7 DEF RowsInOrder, r, n
  <2>2. r >= row - 1
    BY <2>1, <1>1, <1>3 DEF Least, row
  <2>3. r < row
    <3>1. CASE r = 0
      BY <3>1, <1>3
    <3>2. CASE r # 0
      <4>1. r \in DOMAIN rowList
        BY <1>1, <3>2
      <4>2. QED
        BY <4>1, <2>1, <1>1, <1>3
    <3>3. QED
      BY <3>1, <3>2
  <2>4. r + 1 = row
    BY <2>2, <2>3, <1>1, <1>3
  <2>5. ASSUME NEW i \in DOMAIN rowList', i \notin DOMAIN rowList
        PROVE  rowList'[i] = i
    <3>1. i = r + 1
      BY <2>5, <1>1, <1>5
    <3>2. row + (i - r) - 1 = i
      BY <3>1, <2>4, <1>1
    <3>3. QED
      BY <3>2, <2>5, <1>4
  <2>6. QED
    BY <1>1, <1>3, <1>4, <2>1, <2>4, <2>5
<1>8. LastTop' = LastTop /\ top' <= LastTop
  BY <1>1, <1>2, <1>3 DEF LastTop
<1>9. Least(top + Height - 1, Len(chatList))' = row
  <2>1. top' + Height - 1 = row /\ Len(chatList') = n
    BY <1>1, <1>2 DEF row, n
  <2>2. Least(row, n) = row
    BY <1>1, <1>3 DEF Least
  <2>3. QED
    BY <2>1, <2>2
<1>10. RowsInOrder'
  BY <1>2, <1>7, <1>8, <1>9 DEF RowsInOrder
<1>11. QED
  BY <1>6, <1>10

(* The row that comes into sight above gets a cell, out of order. *)
LEMMA ScrollUpRows ==
    ASSUME TableTyped, ScreenTyped, RowsInOrder, ScrollUp
    PROVE  TableTyped' /\ RowsInOrder'
<1> USE HomeListAssumption
<1> DEFINE n == Len(chatList)
           r == Len(rowList)
           row == top - 1
<1>1. /\ chatList \in Seq(Entry) /\ n \in Nat /\ Height \in Nat \ {0}
      /\ top \in Nat \ {0} /\ r \in Nat /\ DOMAIN rowList = 1..r
  BY DEF TableTyped, ScreenTyped
<1>2. /\ top > 1 /\ top' = row /\ MakeCells(row, row) /\ ~reloading
      /\ chatList' = chatList /\ reloading' = reloading /\ skewed' = TRUE
      /\ visible' = {i \in visible : rowList[i] # top + Height - 1} \cup {Len(rowList')}
  BY DEF ScrollUp, screen
<1>3. top <= LastTop
  BY <1>2 DEF RowsInOrder
<1>4. /\ row <= n /\ row \in Nat \ {0} /\ row + 1 - row = 1 /\ LastTop \in Nat
      /\ row <= LastTop
  BY <1>1, <1>2, <1>3 DEF LastTop
<1> HIDE DEF n, r, row
<1>5. /\ rowList' \in Seq(DOMAIN chatList)
      /\ Len(rowList') = r + 1
      /\ \A i \in DOMAIN rowList : i \in DOMAIN rowList'
  <2>1. /\ row \in Nat /\ row <= row + 1 /\ row <= Len(chatList)
    BY <1>4 DEF n
  <2>2. /\ rowList' \in Seq(DOMAIN chatList)
        /\ Len(rowList') = Len(rowList) + (row + 1 - row)
        /\ \A i \in DOMAIN rowList : i \in DOMAIN rowList' /\ rowList'[i] = rowList[i]
    BY <1>1, <1>2, <1>4, <2>1, MakeCellsFacts
  <2>3. QED
    BY <2>2, <1>4 DEF r
<1>6. DOMAIN rowList' = 1..(r + 1) /\ r + 1 \in DOMAIN rowList'
  BY <1>1, <1>5
<1>7. TableTyped'
  <2>1. visible' \in SUBSET DOMAIN rowList'
    BY <1>2, <1>5, <1>6 DEF TableTyped
  <2>2. QED
    BY <1>2, <1>4, <1>5, <2>1 DEF TableTyped
<1>8. LastTop' = LastTop
  BY <1>2 DEF LastTop
<1>9. RowsInOrder'
  BY <1>2, <1>4, <1>8 DEF RowsInOrder
<1>10. QED
  BY <1>7, <1>9

(* A list is taken over, or a home screen loaded: no cells, and a reload. *)
LEMMA ReloadRows ==
    ASSUME NEW l \in Seq(Entry), chatList' = l, rowList' = <<>>, visible' = {},
           top' \in Nat \ {0}, reloading' = TRUE, skewed' \in BOOLEAN
    PROVE  TableTyped' /\ RowsInOrder'
<1>1. <<>> \in Seq(DOMAIN l) /\ DOMAIN <<>> = {}
  OBVIOUS
<1>2. QED
  BY <1>1 DEF TableTyped, RowsInOrder

-----------------------------------------------------------------------------
(* The lists *)

(* The client has news of an account: every closure of the account gets a  *)
(* call with them, behind those that wait.                                 *)
LEMMA ValuesRaised ==
    ASSUME ClientTyped, ListsUpToDate, NEW a \in Account,
           chatbox' \in [Account -> [Friend -> 0..MaxNews]],
           \A b \in Account : b # a => chatbox'[b] = chatbox[b],
           events' = events \o ValueEvents(a, Snapshot(a, chatbox'[a])),
           fetches' = fetches, complete' = complete \cup {a}
    PROVE  ClientTyped' /\ ListsUpToDate'
<1> DEFINE s == Snapshot(a, chatbox'[a])
           v == ValueEvents(a, s)
           C == CallOf(DOMAIN fetches)
           n == Len(events)
<1>1. fetches \in Seq(FetchOf) /\ events \in Seq(C) /\ complete \in SUBSET Account
  BY DEF ClientTyped
<1>2. s \in Seq(Entry)
  BY SnapshotType
<1>3. events' = events \o v
  OBVIOUS
<1> HIDE DEF s
<1>4. /\ v \in Seq(C)
      /\ \A k \in DOMAIN v : fetches[v[k].fetch].user = a /\ v[k].snapshot = s
      /\ \A i \in DOMAIN fetches : fetches[i].user = a => \E k \in DOMAIN v : v[k].fetch = i
  BY <1>1, <1>2, ValueEventsFacts
<1> HIDE DEF v, C, n
<1>5. /\ events \o v \in Seq(C) /\ n \in Nat
      /\ \A k \in DOMAIN events : k \in Nat /\ k <= n
      /\ \A k \in DOMAIN v : k \in Nat /\ k > 0
      /\ \A k \in DOMAIN events : k \in DOMAIN (events \o v) /\ (events \o v)[k] = events[k]
      /\ \A k \in DOMAIN v : n + k \in DOMAIN (events \o v) /\ (events \o v)[n + k] = v[k]
      /\ \A k \in DOMAIN (events \o v) :
            \/ k \in DOMAIN events
            \/ k - n \in DOMAIN v /\ (events \o v)[k] = v[k - n]
  BY <1>1, <1>4, ConcatPlaces DEF n
<1>6. ClientTyped'
  <2>1. events' \in Seq(C) /\ C = CallOf(DOMAIN fetches')
    BY <1>3, <1>5 DEF C
  <2>2. complete' \in SUBSET Account
    BY <1>1
  <2>3. QED
    BY <1>1, <2>1, <2>2 DEF ClientTyped
<1>7. \A k \in DOMAIN events' : fetches'[events'[k].fetch].user \in complete'
  BY <1>3, <1>4, <1>5 DEF ListsUpToDate
<1>8. ASSUME NEW i \in DOMAIN fetches, fetches[i].user = a
      PROVE  UpToDate(i)'
  <2>1. Present(i)' = s
    BY <1>8 DEF Present, s
  <2>2. PICK k0 \in DOMAIN v : v[k0].fetch = i
    BY <1>4, <1>8
  <2>3. n + k0 \in Calls(i)' /\ n + k0 > n
    BY <2>2, <1>3, <1>5 DEF Calls
  <2>4. ASSUME NEW k \in Calls(i)', \A j \in Calls(i)' : j <= k
        PROVE  events'[k].snapshot = s
    <3>1. n + k0 <= k /\ k \in DOMAIN events'
      BY <2>3, <2>4 DEF Calls
    <3>2. k \notin DOMAIN events
      BY <3>1, <2>2, <1>5
    <3>3. k - n \in DOMAIN v /\ events'[k] = v[k - n]
      BY <3>1, <3>2, <1>3, <1>5
    <3>4. QED
      BY <3>3, <1>4
  <2>5. QED
    BY <2>1, <2>3, <2>4 DEF UpToDate
<1>9. ASSUME NEW i \in DOMAIN fetches, fetches[i].user # a, fetches[i].user \in complete
      PROVE  UpToDate(i)'
  <2>1. fetches[i].user \in Account
    BY <1>1, <1>9
  <2>2. Present(i)' = Present(i)
    BY <2>1, <1>9 DEF Present
  <2>3. \A k \in Calls(i)' : k \in Calls(i) /\ events'[k] = events[k]
    BY <1>3, <1>4, <1>5, <1>9 DEF Calls
  <2>4. \A k \in Calls(i) : k \in Calls(i)'
    BY <1>3, <1>5 DEF Calls
  <2>5. UpToDate(i)
    BY <1>9 DEF ListsUpToDate
  <2>6. Calls(i)' = Calls(i)
    BY <2>3, <2>4
  <2>7. QED
    BY <2>2, <2>3, <2>5, <2>6 DEF UpToDate
<1>10. QED
  BY <1>6, <1>7, <1>8, <1>9 DEF ListsUpToDate

(* One more closure, called with what the client has, if it has the list. *)
LEMMA Fetched ==
    ASSUME ClientTyped, ListsUpToDate, NEW a \in Account, FetchListOfChatBox(a),
           chatbox' = chatbox, complete' = complete
    PROVE  /\ ClientTyped' /\ ListsUpToDate'
           /\ \A i \in DOMAIN fetches : i \in DOMAIN fetches' /\ fetches'[i] = fetches[i]
<1>0. PICK n : n = Len(fetches) + 1
  OBVIOUS
<1> DEFINE new == [user |-> a, list |-> <<>>]
           s == Snapshot(a, chatbox[a])
           call == [fetch |-> n, snapshot |-> s]
           C == CallOf(DOMAIN fetches')
<1>1. /\ fetches \in Seq(FetchOf) /\ events \in Seq(CallOf(DOMAIN fetches))
      /\ chatbox[a] \in [Friend -> 0..MaxNews]
  BY DEF ClientTyped
<1>2. new \in FetchOf /\ new.user = a
  BY DEF FetchOf
<1>3. fetches' = Append(fetches, new)
  BY DEF FetchListOfChatBox
<1> HIDE DEF new
<1>4. /\ fetches' \in Seq(FetchOf) /\ n \notin DOMAIN fetches
      /\ DOMAIN fetches' = DOMAIN fetches \cup {n} /\ fetches'[n] = new
      /\ \A i \in DOMAIN fetches : fetches'[i] = fetches[i]
  <2>1. /\ Append(fetches, new) \in Seq(FetchOf) /\ n \notin DOMAIN fetches
        /\ DOMAIN Append(fetches, new) = DOMAIN fetches \cup {n}
        /\ Append(fetches, new)[n] = new
        /\ \A i \in DOMAIN fetches : Append(fetches, new)[i] = fetches[i]
    BY <1>0, <1>1, <1>2, AppendFacts
  <2>2. QED
    BY <2>1, <1>3
<1>5. Len(fetches') = n
  BY <1>0, <1>1, <1>2, <1>3
<1>6. s \in Seq(Entry)
  BY <1>1, SnapshotType
<1>7. events \in Seq(C)
  <2>1. CallOf(DOMAIN fetches) \subseteq C
    BY <1>4 DEF CallOf
  <2>2. QED
    BY <2>1, <1>1
<1>8. events' = IF a \in complete THEN Append(events, call) ELSE events
  BY <1>5 DEF FetchListOfChatBox
<1> HIDE DEF s
<1>9. call \in C /\ call.fetch = n /\ call.snapshot = s
  BY <1>4, <1>6 DEF CallOf
<1> HIDE DEF call, C
<1>10. \A k \in DOMAIN events : events[k].fetch \in DOMAIN fetches
  <2>1. \A k \in DOMAIN events : events[k] \in CallOf(DOMAIN fetches)
    BY <1>1
  <2>2. QED
    BY <2>1 DEF CallOf
<1>11. \A i \in DOMAIN fetches : Present(i)' = Present(i)
  BY <1>4 DEF Present
<1>12. ASSUME NEW i \in DOMAIN fetches, fetches[i].user \in complete,
              Calls(i)' = Calls(i), \A k \in Calls(i) : events'[k] = events[k]
       PROVE  UpToDate(i)'
  <2>1. UpToDate(i)
    BY <1>12 DEF ListsUpToDate
  <2>2. fetches'[i] = fetches[i] /\ Present(i)' = Present(i)
    BY <1>4, <1>11
  <2>3. QED
    BY <2>1, <2>2, <1>12 DEF UpToDate
<1>13. CASE a \notin complete
  <2>1. events' = events
    BY <1>8, <1>13
  <2>2. \A i : Calls(i)' = Calls(i)
    BY <2>1 DEF Calls
  <2>3. ListsUpToDate'
    BY <2>1, <2>2, <1>2, <1>4, <1>10, <1>12, <1>13 DEF ListsUpToDate
  <2>4. ClientTyped'
    BY <2>1, <1>4, <1>7 DEF ClientTyped, C
  <2>5. QED
    BY <2>3, <2>4, <1>4
<1>14. CASE a \in complete
  <2> DEFINE m == Len(events) + 1
  <2>1. events' = Append(events, call)
    BY <1>8, <1>14
  <2>2. /\ events' \in Seq(C) /\ m \notin DOMAIN events
        /\ DOMAIN events' = DOMAIN events \cup {m} /\ events'[m] = call
        /\ \A k \in DOMAIN events : events'[k] = events[k]
    <3>1. /\ Append(events, call) \in Seq(C) /\ m \notin DOMAIN events
          /\ DOMAIN Append(events, call) = DOMAIN events \cup {m}
          /\ Append(events, call)[m] = call
          /\ \A k \in DOMAIN events : Append(events, call)[k] = events[k]
      BY <1>7, <1>9, AppendFacts
    <3>2. QED
      BY <3>1, <2>1
  <2> HIDE DEF m
  <2>3. \A i \in DOMAIN fetches : Calls(i)' = Calls(i)
    BY <2>2, <1>4, <1>9 DEF Calls
  <2>4. Calls(n)' = {m}
    BY <2>2, <1>4, <1>9, <1>10 DEF Calls
  <2>5. UpToDate(n)'
    <3>1. Present(n)' = s
      BY <1>2, <1>4 DEF Present, s
    <3>2. QED
      BY <3>1, <2>2, <2>4, <1>9 DEF UpToDate
  <2>6. \A i \in DOMAIN fetches : \A k \in Calls(i) : events'[k] = events[k]
    BY <2>2 DEF Calls
  <2>7. \A i \in DOMAIN fetches' : fetches'[i].user \in complete => UpToDate(i)'
    BY <2>3, <2>5, <2>6, <1>4, <1>12
  <2>8. \A k \in DOMAIN events' : fetches'[events'[k].fetch].user \in complete
    BY <2>2, <1>2, <1>4, <1>9, <1>10, <1>14 DEF ListsUpToDate
  <2>9. ListsUpToDate'
    BY <2>7, <2>8 DEF ListsUpToDate
  <2>10. ClientTyped'
    BY <2>2, <1>4 DEF ClientTyped, C
  <2>11. QED
    BY <2>9, <2>10, <1>4
<1>15. QED
  BY <1>13, <1>14

(* A closure is called: the call was the last for it or another follows. *)
LEMMA Called ==
    ASSUME ClientTyped, ScreenTyped, TableTyped, ListsUpToDate, CallFetch
    PROVE  /\ ClientTyped' /\ ScreenTyped' /\ ListsUpToDate' /\ OwnerShown'
           /\ TableTyped' /\ RowsInOrder'
<1> DEFINE C == CallOf(DOMAIN fetches)
           call == Head(events)
           i0 == call.fetch
           whole == fetches[i0].list \o call.snapshot
<1>1. /\ fetches \in Seq(FetchOf) /\ events \in Seq(C) /\ events # <<>>
  BY DEF ClientTyped, CallFetch
<1>2. /\ events' = Tail(events) /\ fetches' = [fetches EXCEPT ![i0].list = whole]
      /\ DidEnd(fetches[i0].user, whole) /\ chatbox' = chatbox /\ complete' = complete
  BY DEF CallFetch
<1>3. /\ Tail(events) \in Seq(C) /\ call = events[1] /\ call \in C /\ 1 \in DOMAIN events
      /\ \A k \in DOMAIN Tail(events) :
            k + 1 \in DOMAIN events /\ k + 1 # 1 /\ Tail(events)[k] = events[k + 1]
      /\ \A k \in DOMAIN events : k = 1 \/ k - 1 \in DOMAIN Tail(events)
      /\ \A k \in DOMAIN events : k \in Nat /\ k >= 1
  BY <1>1, TailFacts
<1>4. /\ i0 \in DOMAIN fetches /\ call.snapshot \in Seq(Entry)
      /\ fetches[i0] \in FetchOf
  BY <1>1, <1>3 DEF CallOf
<1>5. fetches[i0].user \in Account /\ fetches[i0].list \in Seq(Entry)
  BY <1>4 DEF FetchOf
<1>6. whole \in Seq(Entry)
  BY <1>4, <1>5, ConcatProperties
<1> HIDE DEF whole, i0, call
<1>7. /\ fetches' \in Seq(FetchOf) /\ DOMAIN fetches' = DOMAIN fetches
      /\ fetches'[i0].list = whole
      /\ \A i \in DOMAIN fetches : fetches'[i].user = fetches[i].user
      /\ \A i \in DOMAIN fetches : i # i0 => fetches'[i] = fetches[i]
  <2> DEFINE f0 == [fetches[i0] EXCEPT !.list = whole]
  <2>1. f0 \in FetchOf /\ f0.list = whole /\ f0.user = fetches[i0].user
    BY <1>4, <1>6 DEF FetchOf
  <2>2. fetches' = [fetches EXCEPT ![i0] = f0]
    BY <1>2
  <2> HIDE DEF f0
  <2>3. fetches' \in Seq(FetchOf)
    BY <2>1, <2>2, <1>1, <1>4, ExceptSeq
  <2>4. QED
    BY <2>1, <2>2, <2>3, <1>1, <1>4
<1>8. ClientTyped'
  <2>1. events' \in Seq(CallOf(DOMAIN fetches'))
    BY <1>2, <1>3, <1>7 DEF C
  <2>2. QED
    BY <2>1, <1>2, <1>7 DEF ClientTyped
<1>9. ScreenTyped' /\ TableTyped' /\ RowsInOrder'
  <2>1. /\ chatList' = whole /\ owner' = {fetches[i0].user} /\ user' = user
        /\ rowList' = <<>> /\ visible' = {} /\ reloading' = TRUE /\ top' = top
        /\ skewed' = skewed
    BY <1>2 DEF DidEnd
  <2>2. top' \in Nat \ {0} /\ skewed' \in BOOLEAN
    BY <2>1 DEF TableTyped
  <2>3. ScreenTyped'
    BY <2>1, <1>5, <1>6 DEF ScreenTyped
  <2>4. QED
    BY <2>1, <2>2, <2>3, <1>6, ReloadRows
<1>10. OwnerShown'
  <2>1. chatList' = whole /\ owner' = {fetches[i0].user}
    BY <1>2 DEF DidEnd
  <2>2. fetches[i0].user \in complete
    BY <1>3 DEF ListsUpToDate, i0
  <2>3. QED
    BY <2>1, <2>2, <1>2, <1>4, <1>7 DEF OwnerShown
<1>11. \A i \in DOMAIN fetches : Present(i)' = Present(i)
  BY <1>2, <1>7 DEF Present
<1>12. \A i, k : k \in Calls(i)' =>
          k + 1 \in Calls(i) /\ k + 1 # 1 /\ events'[k] = events[k + 1] /\ k \in Int
  <2>1. \A k \in DOMAIN events' : k \in Int
    BY <1>2, <1>3
  <2>2. QED
    BY <2>1, <1>2, <1>3 DEF Calls
<1>13. \A i, k : k \in Calls(i) => k \in Nat /\ (k = 1 \/ k - 1 \in Calls(i)')
  <2> SUFFICES ASSUME NEW i, NEW k \in Calls(i), k # 1
               PROVE  k - 1 \in Calls(i)'
    BY <1>3 DEF Calls
  <2>1. k \in DOMAIN events /\ events[k].fetch = i /\ k \in Nat
    BY <1>3 DEF Calls
  <2>2. k - 1 \in DOMAIN Tail(events) /\ (k - 1) + 1 = k
    BY <2>1, <1>3
  <2>3. Tail(events)[k - 1] = events[k]
    BY <2>2, <1>3
  <2>4. QED
    BY <2>1, <2>2, <2>3, <1>2 DEF Calls
<1>14. 1 \in Calls(i0) /\ \A i : 1 \in Calls(i) => i = i0
  BY <1>3 DEF Calls, i0
<1>15. ASSUME NEW i \in DOMAIN fetches, fetches[i].user \in complete
       PROVE  UpToDate(i)'
  <2>1. UpToDate(i) /\ Present(i)' = Present(i)
    BY <1>11, <1>15 DEF ListsUpToDate
  <2>2. ASSUME Calls(i)' = {}
        PROVE  EndsIn(fetches'[i].list, Present(i))
    <3>1. CASE i = i0
      <4>1. \A j \in Calls(i) : j <= 1
        BY <2>2, <1>13
      <4>2. call.snapshot = Present(i)
        BY <4>1, <3>1, <2>1, <1>3, <1>14 DEF UpToDate
      <4>3. fetches'[i].list = fetches[i].list \o Present(i)
        BY <4>2, <3>1, <1>7 DEF whole
      <4>4. fetches[i].list \in Seq(Entry) /\ Present(i) \in Seq(Entry)
        BY <4>2, <3>1, <1>4, <1>5
      <4>5. QED
        BY <4>3, <4>4, EndsInConcat
    <3>2. CASE i # i0
      <4>1. Calls(i) = {}
        BY <2>2, <3>2, <1>13, <1>14
      <4>2. QED
        BY <4>1, <3>2, <2>1, <1>7 DEF UpToDate
    <3>3. QED
      BY <3>1, <3>2
  <2>3. ASSUME NEW k \in Calls(i)', \A j \in Calls(i)' : j <= k
        PROVE  events'[k].snapshot = Present(i)
    <3>1. k + 1 \in Calls(i) /\ events'[k] = events[k + 1] /\ k \in Int
      BY <1>12
    <3>2. \A j \in Calls(i) : j <= k + 1
      <4> SUFFICES ASSUME NEW j \in Calls(i) PROVE j <= k + 1
        OBVIOUS
      <4>1. CASE j = 1
        BY <4>1, <3>1, <1>3 DEF Calls
      <4>2. CASE j # 1
        <5>1. j \in Nat /\ j - 1 <= k
          BY <4>2, <2>3, <1>13
        <5>2. QED
          BY <5>1, <3>1
      <4>3. QED
        BY <4>1, <4>2
    <3>3. QED
      BY <3>1, <3>2, <2>1 DEF UpToDate
  <2>4. QED
    BY <2>1, <2>2, <2>3 DEF UpToDate
<1>16. \A k \in DOMAIN events' : fetches'[events'[k].fetch].user \in complete
  <2> SUFFICES ASSUME NEW k \in DOMAIN events'
               PROVE  fetches'[events'[k].fetch].user \in complete
    OBVIOUS
  <2>1. k + 1 \in DOMAIN events /\ events'[k] = events[k + 1]
    BY <1>2, <1>3
  <2>2. events[k + 1].fetch \in DOMAIN fetches
    <3>1. events[k + 1] \in C
      BY <2>1, <1>1
    <3>2. QED
      BY <3>1 DEF CallOf
  <2>3. QED
    BY <2>1, <2>2, <1>7 DEF ListsUpToDate
<1>17. ListsUpToDate'
  BY <1>2, <1>7, <1>15, <1>16 DEF ListsUpToDate
<1>18. QED
  BY <1>8, <1>9, <1>10, <1>17

-----------------------------------------------------------------------------
(* The induction *)

LEMMA HomeInit == Init => HomeInv
<1> USE HomeListAssumption
<1> SUFFICES ASSUME Init PROVE HomeInv
  OBVIOUS
<1>1. /\ fetches = <<>> /\ events = <<>> /\ chatList = <<>> /\ rowList = <<>>
      /\ DOMAIN <<>> = {} /\ \A S : <<>> \in Seq(S)
  BY DEF Init
<1>2. ClientTyped
  <2>1. chatbox \in [Account -> [Friend -> 0..MaxNews]]
    <3>1. {0, 1} \subseteq 0..MaxNews
      OBVIOUS
    <3>2. QED
      BY <3>1 DEF Init
  <2>2. QED
    BY <2>1, <1>1 DEF Init, ClientTyped
<1>3. ScreenTyped /\ TableTyped
  <2>1. user = {} /\ owner = {} /\ visible = {} /\ top = 1 /\ reloading = FALSE /\ skewed = FALSE
    BY DEF Init
  <2>2. ScreenTyped
    BY <2>1, <1>1 DEF ScreenTyped
  <2>3. TableTyped
    <3>1. rowList \in Seq(DOMAIN chatList) /\ top \in Nat \ {0}
      BY <2>1, <1>1
    <3>2. visible \in SUBSET DOMAIN rowList
      BY <2>1
    <3>3. reloading \in BOOLEAN
      BY <2>1
    <3>4. skewed \in BOOLEAN
      BY <2>1
    <3>5. QED
      BY <3>1, <3>2, <3>3, <3>4, Zenon DEF TableTyped
  <2>4. QED
    BY <2>2, <2>3
<1>4. RowsInOrder
  <2>1. Len(chatList) = 0 /\ Len(rowList) = 0 /\ top = 1
    BY <1>1 DEF Init
  <2>2. LastTop = 1 /\ Least(top + Height - 1, Len(chatList)) = 0
    BY <2>1 DEF LastTop, Least
  <2>3. QED
    BY <2>1, <2>2, <1>1 DEF RowsInOrder
<1>5. ListsUpToDate /\ OwnerShown
  BY <1>1 DEF Init, ListsUpToDate, OwnerShown
<1>6. QED
  BY <1>2, <1>3, <1>4, <1>5 DEF HomeInv

(* Nothing on the screen changes when only closures and calls come. *)
LEMMA ScreenStays ==
    ASSUME ScreenTyped, TableTyped, RowsInOrder, UNCHANGED <<screen, table>>
    PROVE  ScreenTyped' /\ TableTyped' /\ RowsInOrder'
BY DEF screen, table, ScreenTyped, TableTyped, RowsInOrder, LastTop

LEMMA OwnerStays ==
    ASSUME OwnerShown, UNCHANGED screen, complete \subseteq complete',
           \A i \in DOMAIN fetches : i \in DOMAIN fetches' /\ fetches'[i] = fetches[i]
    PROVE  OwnerShown'
BY DEF OwnerShown, screen

LEMMA HomeFirstValue ==
    ASSUME HomeInv, NEW a \in Account, FirstValue(a)
    PROVE  HomeInv'
<1>1. /\ chatbox' = chatbox /\ fetches' = fetches /\ complete' = complete \cup {a}
      /\ events' = events \o ValueEvents(a, Snapshot(a, chatbox'[a]))
      /\ UNCHANGED <<screen, table>>
  BY DEF FirstValue
<1>2. chatbox' \in [Account -> [Friend -> 0..MaxNews]]
  BY <1>1 DEF HomeInv, ClientTyped
<1>3. ClientTyped' /\ ListsUpToDate'
  BY <1>1, <1>2, ValuesRaised DEF HomeInv
<1>4. ScreenTyped' /\ TableTyped' /\ RowsInOrder'
  BY <1>1, ScreenStays DEF HomeInv
<1>5. OwnerShown'
  BY <1>1, OwnerStays DEF HomeInv
<1>6. QED
  BY <1>3, <1>4, <1>5 DEF HomeInv

LEMMA HomeNews ==
    ASSUME HomeInv, NEW a \in Account, NEW f \in Friend, News(a, f)
    PROVE  HomeInv'
<1> USE HomeListAssumption
<1>1. /\ fetches' = fetches /\ complete' = complete /\ a \in complete
      /\ events' = events \o ValueEvents(a, Snapshot(a, chatbox'[a]))
      /\ UNCHANGED <<screen, table>>
  BY DEF News
<1>2. /\ chatbox \in [Account -> [Friend -> 0..MaxNews]] /\ chatbox[a][f] < MaxNews
      /\ chatbox' = [chatbox EXCEPT ![a][f] = chatbox[a][f] + 1]
  BY DEF News, HomeInv, ClientTyped
<1>3. chatbox' \in [Account -> [Friend -> 0..MaxNews]]
  <2>1. chatbox[a] \in [Friend -> 0..MaxNews] /\ chatbox[a][f] + 1 \in 0..MaxNews
    BY <1>2
  <2>2. QED
    BY <2>1, <1>2
<1>4. \A b \in Account : b # a => chatbox'[b] = chatbox[b]
  BY <1>2
<1>5. complete' = complete \cup {a}
  BY <1>1
<1>6. ClientTyped' /\ ListsUpToDate'
  BY <1>1, <1>3, <1>4, <1>5, ValuesRaised DEF HomeInv
<1>7. ScreenTyped' /\ TableTyped' /\ RowsInOrder'
  BY <1>1, ScreenStays DEF HomeInv
<1>8. OwnerShown'
  BY <1>1, OwnerStays DEF HomeInv
<1>9. QED
  BY <1>6, <1>7, <1>8 DEF HomeInv

LEMMA HomeLoad ==
    ASSUME HomeInv, NEW a \in Account, LoadHome(a)
    PROVE  HomeInv'
<1>1. ClientTyped' /\ ListsUpToDate'
  BY Fetched DEF HomeInv, LoadHome
<1>2. user' = {a} /\ owner' = {} /\ chatList' = <<>> /\ <<>> \in Seq(Entry)
  BY DEF LoadHome
<1>3. ScreenTyped' /\ OwnerShown'
  BY <1>2 DEF ScreenTyped, OwnerShown
<1>4. TableTyped' /\ RowsInOrder'
  <2>1. /\ rowList' = <<>> /\ visible' = {} /\ top' = 1 /\ reloading' = TRUE
        /\ skewed' = FALSE
    BY DEF LoadHome
  <2>2. top' \in Nat \ {0}
    BY <2>1
  <2>3. skewed' \in BOOLEAN
    BY <2>1
  <2>4. QED
    BY <2>1, <2>2, <2>3, <1>2, ReloadRows
<1>5. QED
  BY <1>1, <1>3, <1>4 DEF HomeInv

LEMMA HomeAppear ==
    ASSUME HomeInv, Appear
    PROVE  HomeInv'
<1>1. PICK a \in user : FetchListOfChatBox(a)
  BY DEF Appear
<1>2. a \in Account
  BY DEF HomeInv, ScreenTyped
<1>3. chatbox' = chatbox /\ complete' = complete /\ UNCHANGED <<screen, table>>
  BY DEF Appear
<1>4. /\ ClientTyped' /\ ListsUpToDate'
      /\ \A i \in DOMAIN fetches : i \in DOMAIN fetches' /\ fetches'[i] = fetches[i]
  BY <1>1, <1>2, <1>3, Fetched DEF HomeInv
<1>5. ScreenTyped' /\ TableTyped' /\ RowsInOrder'
  BY <1>3, ScreenStays DEF HomeInv
<1>6. OwnerShown'
  BY <1>3, <1>4, OwnerStays DEF HomeInv
<1>7. QED
  BY <1>4, <1>5, <1>6 DEF HomeInv

(* The table is laid out or scrolled. *)
LEMMA HomeTable ==
    ASSUME HomeInv, LayOut \/ ScrollDown \/ ScrollUp
    PROVE  HomeInv'
<1>1. TableTyped' /\ RowsInOrder'
  BY LayOutRows, ScrollDownRows, ScrollUpRows DEF HomeInv
<1>2. UNCHANGED <<chatbox, complete, fetches, events, user, chatList, owner>>
  BY DEF LayOut, ScrollDown, ScrollUp, list, screen
<1>3. ClientTyped' /\ ScreenTyped' /\ OwnerShown'
  BY <1>2 DEF HomeInv, ClientTyped, ScreenTyped, OwnerShown
<1>4. ListsUpToDate'
  BY <1>2 DEF HomeInv, ListsUpToDate, UpToDate, Calls, Present
<1>5. QED
  BY <1>1, <1>3, <1>4 DEF HomeInv

LEMMA HomeStep == HomeInv /\ [Next]_vars => HomeInv'
<1> SUFFICES ASSUME HomeInv, [Next]_vars PROVE HomeInv'
  OBVIOUS
<1>1. CASE \E a \in Account : FirstValue(a)
  BY <1>1, HomeFirstValue
<1>2. CASE \E a \in Account : LoadHome(a)
  BY <1>2, HomeLoad
<1>3. CASE \E a \in Account, f \in Friend : News(a, f)
  BY <1>3, HomeNews
<1>4. CASE Appear
  BY <1>4, HomeAppear
<1>5. CASE CallFetch
  BY <1>5, Called DEF HomeInv
<1>6. CASE LayOut \/ ScrollDown \/ ScrollUp
  BY <1>6, HomeTable
<1>7. CASE UNCHANGED vars
  <2>1. /\ UNCHANGED <<chatbox, complete, fetches, events, user, chatList, owner>>
        /\ UNCHANGED <<screen, table>>
    BY <1>7 DEF vars, list, screen, table
  <2>2. ClientTyped' /\ OwnerShown'
    BY <2>1 DEF HomeInv, ClientTyped, OwnerShown
  <2>3. ScreenTyped' /\ TableTyped' /\ RowsInOrder'
    BY <2>1, ScreenStays DEF HomeInv
  <2>4. ListsUpToDate'
    BY <2>1 DEF HomeInv, ListsUpToDate, UpToDate, Calls, Present
  <2>5. QED
    BY <2>2, <2>3, <2>4 DEF HomeInv
<1>8. QED
  BY <1>1, <1>2, <1>3, <1>4, <1>5, <1>6, <1>7 DEF Next

(* The inductive invariant of the home list: types, cells in the order of  *)
(* rows until the table is scrolled back, and every closure's list, and    *)
(* the calls that wait for it, leading to what the client has.             *)
THEOREM HomeInvariance == Spec => []HomeInv
BY HomeInit, HomeStep, PTL DEF Spec

(* Types; in particular every cell made for the table stands for a row     *)
(* that the list has (cellForRowAt indexes chatList with it), however      *)
(* lists that grow, reloads and scrolling follow each other.               *)
THEOREM HomeTypes == Spec => []TypeOK
<1>1. HomeInv => TypeOK
  BY DEF HomeInv, ClientTyped, ScreenTyped, TableTyped, FetchOf, CallOf, TypeOK
<1>2. QED
  BY <1>1, HomeInvariance, PTL

(* For lists of any length and a table of any height: until it is scrolled *)
(* up, or reloaded while scrolled down, a tap opens the conversation its   *)
(* row shows (HomeViewController.cellTouchDownHandle).                     *)
THEOREM TapsOpenTheirRows == Spec => []TapOpensItsRow
<1>1. HomeInv => TapOpensItsRow
  <2> SUFFICES ASSUME HomeInv, ~skewed, NEW i \in visible
               PROVE  Opened(i) = {Showing(i)}
    BY DEF TapOpensItsRow
  <2>1. i \in DOMAIN rowList /\ rowList \in Seq(DOMAIN chatList) /\ rowList[i] = i
    BY DEF HomeInv, TableTyped, RowsInOrder
  <2>2. rowList[i] \in DOMAIN chatList
    BY <2>1
  <2>3. chatList \in Seq(Entry)
    BY DEF HomeInv, ScreenTyped
  <2>4. i <= Len(chatList)
    BY <2>1, <2>2, <2>3
  <2>5. QED
    BY <2>1, <2>4 DEF Opened, Showing
<1>2. QED
  BY <1>1, HomeInvariance, PTL

(* For any number of accounts, fetches and changes: when no closure waits  *)
(* to be called, the list on the screen ends in the present entries of the *)
(* account it was fetched for (ChatBusiness.fetchListOfChatBox).           *)
THEOREM ListEndsInSnapshot == Spec => []EndsInSnapshot
<1>1. HomeInv => EndsInSnapshot
  <2> SUFFICES ASSUME HomeInv, events = <<>>, NEW a \in owner
               PROVE  EndsIn(chatList, Snapshot(a, chatbox[a]))
    BY DEF EndsInSnapshot
  <2>1. PICK i \in DOMAIN fetches : fetches[i].user = a /\ chatList = fetches[i].list
    BY DEF HomeInv, OwnerShown
  <2>2. a \in complete
    BY DEF HomeInv, OwnerShown
  <2>3. UpToDate(i) /\ Calls(i) = {}
    BY <2>1, <2>2 DEF HomeInv, ListsUpToDate, Calls
  <2>4. QED
    BY <2>1, <2>3 DEF UpToDate, Present
<1>2. QED
  BY <1>1, HomeInvariance, PTL
=============================================================================
