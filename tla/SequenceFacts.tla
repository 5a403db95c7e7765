----------------------------- MODULE SequenceFacts -----------------------------
(***************************************************************************)
(* Facts about queues kept as sequences: what is in one, where, and how    *)
(* many of a kind, when an element is added at the end or taken off the    *)
(* front; and that the numbers of a finite set can be put in order.        *)
(***************************************************************************)
EXTENDS Integers, Sequences, SequencesExt, FiniteSets, SequenceTheorems,
        FiniteSetTheorems, WellFoundedInduction, Increasing, TLAPS

(* A function on the first n numbers is a sequence. *)
LEMMA FunctionSeq ==
    ASSUME NEW S, NEW n \in Nat, NEW f \in [1..n -> S]
    PROVE  f \in Seq(S) /\ Len(f) = n
<1>1. f \in Seq(S)
  BY SeqDef
<1>2. Len(f) \in Nat /\ 1..Len(f) = 1..n
  BY <1>1, LenProperties
<1>3. ASSUME NEW m \in Nat, NEW k \in Nat, 1..m = 1..k
      PROVE  m = k
  <2>1. CASE m < k
    <3>1. k \in 1..k /\ k \notin 1..m
      BY <2>1
    <3> QED
      BY <3>1, <1>3
  <2>2. CASE k < m
    <3>1. m \in 1..m /\ m \notin 1..k
      BY <2>2
    <3> QED
      BY <3>1, <1>3
  <2> QED
    BY <2>1, <2>2
<1> QED
  BY <1>1, <1>2, <1>3

(* An element added at the end *)
LEMMA AppendFacts ==
    ASSUME NEW S, NEW s \in Seq(S), NEW c \in S
    PROVE  /\ Append(s, c) \in Seq(S)
           /\ Len(s) + 1 \notin DOMAIN s
           /\ DOMAIN Append(s, c) = DOMAIN s \cup {Len(s) + 1}
           /\ Append(s, c)[Len(s) + 1] = c
           /\ \A i \in DOMAIN s : Append(s, c)[i] = s[i] /\ i < Len(s) + 1
           /\ ToSet(Append(s, c)) = ToSet(s) \cup {c}
           /\ IsInjective(s) /\ c \notin ToSet(s) => IsInjective(Append(s, c))
<1> DEFINE t == Append(s, c)
<1>1. /\ Len(t) = Len(s) + 1 /\ Len(s) \in Nat /\ DOMAIN t = 1..Len(t)
      /\ DOMAIN s = 1..Len(s) /\ t \in Seq(S)
      /\ t[Len(t)] = c /\ \A i \in 1..Len(s) : t[i] = s[i]
  OBVIOUS
<1> HIDE DEF t
<1>2. DOMAIN t = DOMAIN s \cup {Len(s) + 1} /\ Len(s) + 1 \notin DOMAIN s
  BY <1>1
<1>3. \A i \in DOMAIN s : t[i] = s[i] /\ i < Len(s) + 1
  BY <1>1
<1>4. t[Len(s) + 1] = c
  BY <1>1
<1>5. ToSet(t) = ToSet(s) \cup {c}
  BY <1>2, <1>3, <1>4 DEF ToSet
<1>6. ASSUME IsInjective(s), c \notin ToSet(s)
      PROVE  IsInjective(t)
  BY <1>2, <1>3, <1>4, <1>6 DEF IsInjective, ToSet
<1> QED
  BY <1>1, <1>2, <1>3, <1>4, <1>5, <1>6 DEF t

(* An element taken off the front *)
LEMMA TailFacts ==
    ASSUME NEW S, NEW s \in Seq(S), s # <<>>
    PROVE  /\ Tail(s) \in Seq(S) /\ Head(s) = s[1] /\ Head(s) \in S
           /\ 1 \in DOMAIN s /\ Head(s) \in ToSet(s)
           /\ \A i \in DOMAIN Tail(s) :
                 i + 1 \in DOMAIN s /\ i + 1 # 1 /\ Tail(s)[i] = s[i + 1]
           /\ \A i \in DOMAIN s : i = 1 \/ i - 1 \in DOMAIN Tail(s)
           /\ \A i \in DOMAIN s : i \in Nat /\ i >= 1
           /\ ToSet(s) = {Head(s)} \cup ToSet(Tail(s))
           /\ IsInjective(s) => IsInjective(Tail(s)) /\ Head(s) \notin ToSet(Tail(s))
<1> DEFINE t == Tail(s)
<1>1. /\ Len(s) \in Nat /\ Len(s) > 0 /\ DOMAIN s = 1..Len(s) /\ Head(s) = s[1]
      /\ t \in Seq(S) /\ Len(t) = Len(s) - 1 /\ DOMAIN t = 1..Len(t)
      /\ \A i \in 1..Len(t) : t[i] = s[i + 1]
  OBVIOUS
<1> HIDE DEF t
<1>2. ASSUME NEW n \in Nat, n > 0
      PROVE  /\ 1 \in 1..n
             /\ \A i \in 1..n : i \in Nat /\ i >= 1
             /\ \A i \in 1..n : i = 1 \/ (i - 1 \in 1..(n - 1) /\ (i - 1) + 1 = i)
             /\ \A i \in 1..(n - 1) : i + 1 \in 1..n /\ i + 1 # 1
             /\ \A i, j \in 1..(n - 1) : i + 1 = j + 1 => i = j
  BY <1>2
<1>3. DOMAIN t = 1..(Len(s) - 1)
  BY <1>1
<1>4. \A i \in DOMAIN t : i + 1 \in DOMAIN s /\ i + 1 # 1 /\ t[i] = s[i + 1]
  BY <1>1, <1>2, <1>3
<1>5. \A i \in DOMAIN s : i \in Nat /\ i >= 1
  BY <1>1, <1>2
<1>6. \A i \in DOMAIN s : i = 1 \/ (i - 1 \in DOMAIN t /\ (i - 1) + 1 = i)
  BY <1>1, <1>2, <1>3
<1>7. 1 \in DOMAIN s
  BY <1>1, <1>2
<1>8. \A i \in DOMAIN s : s[i] \in {Head(s)} \cup ToSet(t)
  BY <1>1, <1>4, <1>6 DEF ToSet
<1>9. ToSet(t) \subseteq ToSet(s)
  BY <1>4 DEF ToSet
<1>10. Head(s) \in ToSet(s) /\ Head(s) \in S
  BY <1>1, <1>7 DEF ToSet
<1>11. ToSet(s) = {Head(s)} \cup ToSet(t)
  BY <1>8, <1>9, <1>10 DEF ToSet
<1>12. ASSUME IsInjective(s)
       PROVE  IsInjective(t) /\ Head(s) \notin ToSet(t)
  <2>1. \A i, j \in DOMAIN t : i + 1 = j + 1 => i = j
    BY <1>1, <1>2, <1>3
  <2>2. IsInjective(t)
    BY <2>1, <1>4, <1>12 DEF IsInjective
  <2>3. Head(s) \notin ToSet(t)
    BY <1>1, <1>4, <1>7, <1>12 DEF IsInjective, ToSet
  <2> QED
    BY <2>2, <2>3
<1> QED
  BY <1>1, <1>4, <1>5, <1>6, <1>7, <1>10, <1>11, <1>12 DEF t

(* One sequence after another: where the elements of each are *)
LEMMA ConcatPlaces ==
    ASSUME NEW S, NEW s \in Seq(S), NEW t \in Seq(S)
    PROVE  /\ s \o t \in Seq(S) /\ Len(s \o t) = Len(s) + Len(t) /\ Len(s) \in Nat
           /\ \A i \in DOMAIN s : i \in Nat /\ i <= Len(s)
           /\ \A i \in DOMAIN t : i \in Nat /\ i > 0
           /\ \A i \in DOMAIN s : i \in DOMAIN (s \o t) /\ (s \o t)[i] = s[i]
           /\ \A i \in DOMAIN t :
                 Len(s) + i \in DOMAIN (s \o t) /\ (s \o t)[Len(s) + i] = t[i]
           /\ \A i \in DOMAIN (s \o t) :
                 \/ i \in DOMAIN s
                 \/ /\ i \in (Len(s) + 1)..(Len(s) + Len(t))
                    /\ i - Len(s) \in DOMAIN t /\ (s \o t)[i] = t[i - Len(s)]
<1> DEFINE u == s \o t
<1>1. /\ Len(s) \in Nat /\ Len(t) \in Nat /\ Len(u) = Len(s) + Len(t)
      /\ DOMAIN s = 1..Len(s) /\ DOMAIN t = 1..Len(t) /\ DOMAIN u = 1..Len(u)
      /\ u \in Seq(S)
      /\ \A i \in 1..Len(s) : u[i] = s[i]
      /\ \A i \in (Len(s) + 1)..(Len(s) + Len(t)) : u[i] = t[i - Len(s)]
  OBVIOUS
<1> HIDE DEF u
<1>2. ASSUME NEW m \in Nat, NEW n \in Nat
      PROVE  /\ \A i \in 1..(m + n) :
                   i \in 1..m \/ (i \in (m + 1)..(m + n) /\ i - m \in 1..n)
             /\ \A i \in 1..n : /\ m + i \in 1..(m + n) /\ m + i \in (m + 1)..(m + n)
                               /\ (m + i) - m = i
             /\ \A i \in 1..m : i \in 1..(m + n) /\ i \in Nat /\ i <= m
             /\ \A i \in 1..n : i \in Nat /\ i > 0
  OBVIOUS
<1>3. \A i \in DOMAIN u :
         \/ i \in DOMAIN s
         \/ /\ i \in (Len(s) + 1)..(Len(s) + Len(t))
            /\ i - Len(s) \in DOMAIN t /\ u[i] = t[i - Len(s)]
  BY <1>1, <1>2
<1>4. \A i \in DOMAIN s : i \in DOMAIN u /\ u[i] = s[i]
  BY <1>1, <1>2
<1>5. \A i \in DOMAIN t : Len(s) + i \in DOMAIN u /\ u[Len(s) + i] = t[i]
  <2> SUFFICES ASSUME NEW i \in DOMAIN t
               PROVE  Len(s) + i \in DOMAIN u /\ u[Len(s) + i] = t[i]
    OBVIOUS
  <2>1. /\ i \in 1..Len(t)
        /\ Len(s) + i \in 1..(Len(s) + Len(t))
        /\ Len(s) + i \in (Len(s) + 1)..(Len(s) + Len(t))
        /\ (Len(s) + i) - Len(s) = i
    BY <1>1, <1>2
  <2>2. u[Len(s) + i] = t[(Len(s) + i) - Len(s)]
    BY <1>1, <2>1
  <2>3. Len(s) + i \in DOMAIN u
    BY <1>1, <2>1
  <2> QED
    BY <2>1, <2>2, <2>3
<1>6. /\ \A i \in DOMAIN s : i \in Nat /\ i <= Len(s)
      /\ \A i \in DOMAIN t : i \in Nat /\ i > 0
  BY <1>1, <1>2
<1> QED
  BY <1>1, <1>3, <1>4, <1>5, <1>6 DEF u

(* ... and what is in the whole *)
LEMMA ConcatFacts ==
    ASSUME NEW S, NEW s \in Seq(S), NEW t \in Seq(S)
    PROVE  /\ s \o t \in Seq(S) /\ Len(s \o t) = Len(s) + Len(t)
           /\ ToSet(s \o t) = ToSet(s) \cup ToSet(t)
           /\ IsInjective(s) /\ IsInjective(t) /\ ToSet(s) \cap ToSet(t) = {}
                 => IsInjective(s \o t)
<1> DEFINE u == s \o t
<1>1. /\ u \in Seq(S) /\ Len(u) = Len(s) + Len(t) /\ Len(s) \in Nat /\ Len(t) \in Nat
  OBVIOUS
<1>2. /\ \A i \in DOMAIN s : i \in DOMAIN u /\ u[i] = s[i]
      /\ \A i \in DOMAIN t : Len(s) + i \in DOMAIN u /\ u[Len(s) + i] = t[i]
      /\ \A i \in DOMAIN u :
            \/ i \in DOMAIN s
            \/ /\ i \in (Len(s) + 1)..(Len(s) + Len(t))
               /\ i - Len(s) \in DOMAIN t /\ u[i] = t[i - Len(s)]
  BY ConcatPlaces
<1> HIDE DEF u
<1>3. ToSet(u) = ToSet(s) \cup ToSet(t)
  <2>1. ToSet(u) \subseteq ToSet(s) \cup ToSet(t)
    BY <1>2 DEF ToSet
  <2>2. ToSet(s) \cup ToSet(t) \subseteq ToSet(u)
    BY <1>2 DEF ToSet
  <2> QED
    BY <2>1, <2>2
<1>4. ASSUME IsInjective(s), IsInjective(t), ToSet(s) \cap ToSet(t) = {}
      PROVE  IsInjective(u)
  <2>1. \A i, j \in (Len(s) + 1)..(Len(s) + Len(t)) : i - Len(s) = j - Len(s) => i = j
    BY <1>1
  <2>2. \A i \in DOMAIN s, j \in DOMAIN t : s[i] # t[j]
    BY <1>4 DEF ToSet
  <2> QED
    BY <2>1, <2>2, <1>2, <1>4 DEF IsInjective
<1> QED
  BY <1>1, <1>3, <1>4 DEF u

(* The same the other way round *)
LEMMA ConcatSwapped ==
    ASSUME NEW S, NEW s \in Seq(S), NEW t \in Seq(S),
           IsInjective(s), IsInjective(t), ToSet(s) \cap ToSet(t) = {}
    PROVE  /\ t \o s \in Seq(S) /\ IsInjective(t \o s)
           /\ Len(t \o s) = Len(s) + Len(t)
           /\ ToSet(t \o s) = ToSet(s) \cup ToSet(t)
<1>1. ToSet(t) \cap ToSet(s) = {}
  OBVIOUS
<1>2. /\ t \o s \in Seq(S) /\ IsInjective(t \o s) /\ Len(t \o s) = Len(t) + Len(s)
      /\ ToSet(t \o s) = ToSet(t) \cup ToSet(s)
  BY <1>1, ConcatFacts
<1>3. Len(s) \in Nat /\ Len(t) \in Nat
  OBVIOUS
<1>4. Len(t \o s) = Len(s) + Len(t)
  BY <1>2, <1>3
<1>5. ToSet(t \o s) = ToSet(s) \cup ToSet(t)
  BY <1>2
<1> QED
  BY <1>2, <1>4, <1>5

(* How many records of a queue have an op of a set *)
Ops(s, O) == {i \in DOMAIN s : s[i].op \in O}
CountOf(s, O) == Cardinality(Ops(s, O))

LEMMA CountFacts ==
    ASSUME NEW S, NEW s \in Seq(S), NEW O
    PROVE  /\ IsFiniteSet(Ops(s, O)) /\ CountOf(s, O) \in Nat
           /\ CountOf(s, O) = 0 <=> \A i \in DOMAIN s : s[i].op \notin O
<1>1. IsFiniteSet(DOMAIN s)
  <2>1. DOMAIN s = 1..Len(s) /\ Len(s) \in Nat
    OBVIOUS
  <2> QED
    BY <2>1, FS_Interval, 1 \in Int, Len(s) \in Int
<1>2. Ops(s, O) \in SUBSET DOMAIN s
  BY DEF Ops
<1>3. IsFiniteSet(Ops(s, O))
  BY <1>1, <1>2, FS_Subset
<1>4. CountOf(s, O) \in Nat /\ (CountOf(s, O) = 0 <=> Ops(s, O) = {})
  BY <1>3, FS_CardinalityType, FS_EmptySet DEF CountOf
<1>5. Ops(s, O) = {} <=> \A i \in DOMAIN s : s[i].op \notin O
  BY DEF Ops
<1> QED
  BY <1>3, <1>4, <1>5

LEMMA CountAppend ==
    ASSUME NEW S, NEW s \in Seq(S), NEW c \in S, NEW O
    PROVE  CountOf(Append(s, c), O) = CountOf(s, O) + IF c.op \in O THEN 1 ELSE 0
<1> DEFINE t == Append(s, c)
<1>1. /\ Len(s) + 1 \notin DOMAIN s /\ DOMAIN t = DOMAIN s \cup {Len(s) + 1}
      /\ t[Len(s) + 1] = c /\ \A i \in DOMAIN s : t[i] = s[i]
  BY AppendFacts
<1> HIDE DEF t
<1>2. IsFiniteSet(Ops(s, O)) /\ Len(s) + 1 \notin Ops(s, O) /\ CountOf(s, O) \in Nat
  BY <1>1, CountFacts DEF Ops
<1>3. CASE c.op \in O
  <2>1. Ops(t, O) = Ops(s, O) \cup {Len(s) + 1}
    BY <1>1, <1>3 DEF Ops
  <2>2. CountOf(t, O) = CountOf(s, O) + 1
    BY <2>1, <1>2, FS_AddElement DEF CountOf
  <2> QED
    BY <2>2, <1>3 DEF t
<1>4. CASE c.op \notin O
  <2>1. Ops(t, O) = Ops(s, O)
    BY <1>1, <1>4 DEF Ops
  <2> QED
    BY <2>1, <1>2, <1>4 DEF CountOf, t
<1> QED
  BY <1>3, <1>4

LEMMA CountTail ==
    ASSUME NEW S, NEW s \in Seq(S), s # <<>>, NEW O
    PROVE  CountOf(s, O) = CountOf(Tail(s), O) + IF Head(s).op \in O THEN 1 ELSE 0
<1> DEFINE t == Tail(s)
           rest == Ops(s, O) \ {1}
           f == [i \in Ops(t, O) |-> i + 1]
<1>1. /\ t \in Seq(S) /\ Head(s) = s[1] /\ 1 \in DOMAIN s
      /\ \A i \in DOMAIN t : i + 1 \in DOMAIN s /\ i + 1 # 1 /\ t[i] = s[i + 1]
      /\ \A i \in DOMAIN s : i = 1 \/ i - 1 \in DOMAIN t
      /\ \A i \in DOMAIN s : i \in Nat /\ i >= 1
  BY TailFacts
<1>2. /\ IsFiniteSet(Ops(s, O)) /\ CountOf(s, O) \in Nat
      /\ IsFiniteSet(Ops(t, O)) /\ CountOf(t, O) \in Nat
  BY <1>1, CountFacts
<1>3. DOMAIN t \subseteq Nat
  BY <1>1
<1> HIDE DEF t
<1>4. f \in Bijection(Ops(t, O), rest)
  <2>1. f \in [Ops(t, O) -> rest]
    BY <1>1 DEF Ops
  <2>2. IsInjective(f)
    BY <1>3 DEF IsInjective, Ops
  <2>3. \A i \in rest : i - 1 \in Ops(t, O) /\ f[i - 1] = i
    <3> SUFFICES ASSUME NEW i \in rest PROVE i - 1 \in Ops(t, O) /\ f[i - 1] = i
      OBVIOUS
    <3>1. i \in Nat /\ i - 1 \in DOMAIN t /\ (i - 1) + 1 = i /\ s[i].op \in O
      BY <1>1 DEF Ops
    <3>2. t[i - 1] = s[i]
      BY <3>1, <1>1
    <3>3. i - 1 \in Ops(t, O)
      BY <3>1, <3>2 DEF Ops
    <3> QED
      BY <3>1, <3>3
  <2>4. \A i \in rest : \E j \in Ops(t, O) : f[j] = i
    BY <2>3
  <2> HIDE DEF f, rest
  <2> QED
    BY <2>1, <2>2, <2>4 DEF Bijection, Injection, Surjection
<1>5. Cardinality(rest) = Cardinality(Ops(t, O))
  <2>1. ExistsBijection(Ops(t, O), rest)
    BY <1>4 DEF ExistsBijection
  <2> QED
    BY <2>1, <1>2, FS_Bijection
<1>6. Cardinality(rest) = IF 1 \in Ops(s, O) THEN CountOf(s, O) - 1 ELSE CountOf(s, O)
  BY <1>2, FS_RemoveElement DEF CountOf
<1>7. 1 \in Ops(s, O) <=> Head(s).op \in O
  BY <1>1 DEF Ops
<1>8. CountOf(t, O) = IF Head(s).op \in O THEN CountOf(s, O) - 1 ELSE CountOf(s, O)
  BY <1>5, <1>6, <1>7 DEF CountOf
<1>9. CountOf(s, O) = CountOf(t, O) + IF Head(s).op \in O THEN 1 ELSE 0
  BY <1>2, <1>8
<1> QED
  BY <1>9 DEF t

(* Taking an element out of a sequence that has it once *)
LEMMA RemoveFacts ==
    ASSUME NEW S, NEW s \in Seq(S), IsInjective(s), NEW e
    PROVE  /\ RemoveFirst(s, e) \in Seq(S) /\ IsInjective(RemoveFirst(s, e))
           /\ ToSet(RemoveFirst(s, e)) = ToSet(s) \ {e}
<1>1. Len(s) \in Nat /\ DOMAIN s = 1..Len(s) /\ \A i \in 1..Len(s) : s[i] \in S
  OBVIOUS
<1>2. CASE \A i \in 1..Len(s) : s[i] # e
  <2>1. RemoveFirst(s, e) = s
    BY <1>2 DEF RemoveFirst
  <2> QED
    BY <2>1, <1>1, <1>2 DEF ToSet
<1>3. CASE \E i \in 1..Len(s) : s[i] = e
  <2>1. PICK n \in 1..Len(s) : s[n] = e
    BY <1>3
  <2>2. {i \in 1..Len(s) : s[i] = e} = {n}
    BY <2>1, <1>1 DEF IsInjective
  <2>3. SelectInSeq(s, LAMBDA v : v = e) = n
    BY <2>2, <2>1, <1>1 DEF SelectInSeq, Min
  <2> DEFINE front == SubSeq(s, 1, n - 1)
             back == SubSeq(s, n + 1, Len(s))
  <2>4. RemoveFirst(s, e) = front \o back
    BY <2>3, <1>3 DEF RemoveFirst, RemoveAt
  <2>5. /\ front \in Seq(S) /\ Len(front) = n - 1
        /\ \A i \in 1..(n - 1) : front[i] = s[i]
    BY <1>1, <2>1
  <2>6. /\ back \in Seq(S) /\ Len(back) = Len(s) - n
        /\ \A i \in 1..(Len(s) - n) : back[i] = s[n + i]
    <3>1. n \in Int /\ n + 1 \in Int /\ Len(s) \in Int /\ n <= Len(s)
      BY <1>1, <2>1
    <3>2. \A i \in (n + 1)..Len(s) : s[i] \in S
      BY <1>1, <2>1
    <3>3. /\ back \in Seq(S)
          /\ Len(back) = IF n + 1 <= Len(s) THEN Len(s) - (n + 1) + 1 ELSE 0
          /\ \A i \in 1..(Len(s) - (n + 1) + 1) : back[i] = s[(n + 1) + i - 1]
      BY <3>1, <3>2, SubSeqProperties
    <3> HIDE DEF back
    <3>4. ASSUME NEW m \in Int, NEW k \in Int, k <= m
          PROVE  /\ (IF k + 1 <= m THEN m - (k + 1) + 1 ELSE 0) = m - k
                 /\ m - (k + 1) + 1 = m - k
                 /\ \A i \in 1..(m - k) : (k + 1) + i - 1 = k + i
      BY <3>4
    <3>5. Len(back) = Len(s) - n
      BY <3>1, <3>3, <3>4
    <3>6. \A i \in 1..(Len(s) - n) : back[i] = s[n + i]
      BY <3>1, <3>3, <3>4
    <3> QED
      BY <3>3, <3>5, <3>6
  <2>7. DOMAIN front = 1..(n - 1) /\ DOMAIN back = 1..(Len(s) - n)
    BY <2>5, <2>6
  <2> HIDE DEF front, back
  <2>8. ASSUME NEW m \in Nat, NEW k \in 1..m
        PROVE  /\ \A i \in 1..(k - 1) : i \in 1..m /\ i # k
               /\ \A i \in 1..(m - k) : k + i \in 1..m /\ k + i # k
               /\ \A i \in 1..(k - 1), j \in 1..(m - k) : i # k + j
               /\ \A i, j \in 1..(m - k) : k + i = k + j => i = j
               /\ \A i \in 1..m : \/ i = k \/ i \in 1..(k - 1)
                                  \/ (i - k \in 1..(m - k) /\ k + (i - k) = i)
    OBVIOUS
  <2>9. /\ \A i \in DOMAIN front : i \in DOMAIN s /\ i # n /\ front[i] = s[i]
        /\ \A i \in DOMAIN back : n + i \in DOMAIN s /\ n + i # n /\ back[i] = s[n + i]
    BY <2>5, <2>6, <2>7, <2>8, <2>1, <1>1
  <2>10. /\ \A i \in DOMAIN front, j \in DOMAIN back : i # n + j
         /\ \A i, j \in DOMAIN back : n + i = n + j => i = j
         /\ \A i \in DOMAIN s : \/ i = n \/ i \in DOMAIN front
                               \/ (i - n \in DOMAIN back /\ n + (i - n) = i)
    BY <2>7, <2>8, <2>1, <1>1
  <2>11. IsInjective(front) /\ IsInjective(back)
    BY <2>9, <2>10 DEF IsInjective
  <2>12. ToSet(front) \cap ToSet(back) = {}
    BY <2>9, <2>10 DEF IsInjective, ToSet
  <2>13. ToSet(front) \cup ToSet(back) \subseteq ToSet(s) \ {e}
    BY <2>1, <2>9, <1>1 DEF IsInjective, ToSet
  <2>14. ToSet(s) \ {e} \subseteq ToSet(front) \cup ToSet(back)
    <3> SUFFICES ASSUME NEW i \in DOMAIN s, s[i] # e
                 PROVE  s[i] \in ToSet(front) \cup ToSet(back)
      BY DEF ToSet
    <3> QED
      BY <2>1, <2>9, <2>10 DEF ToSet
  <2> QED
    BY <2>4, <2>5, <2>6, <2>11, <2>12, <2>13, <2>14, ConcatFacts
<1> QED
  BY <1>2, <1>3

-----------------------------------------------------------------------------
(* Induction, for a set of numbers rather than a predicate on them: the    *)
(* least number outside the set is neither zero nor a successor.           *)
LEMMA SetInduction ==
    ASSUME NEW N \in SUBSET Nat, 0 \in N, \A n \in N : n + 1 \in N
    PROVE  N = Nat
<1> DEFINE R == OpToRel(<, Nat)
<1>1. IsWellFoundedOn(R, Nat)
  BY NatLessThanWellFounded
<1>2. ASSUME NEW n \in Nat, n > 0
      PROVE  <<n - 1, n>> \in R
  <2>1. n - 1 \in Nat /\ n - 1 < n
    BY <1>2
  <2>2. QED
    BY <2>1, Zenon DEF OpToRel
<1> HIDE DEF R
<1>3. SUFFICES ASSUME Nat \ N # {} PROVE FALSE
  OBVIOUS
<1>4. PICK n \in Nat \ N : \A m \in Nat \ N : <<m, n>> \notin R
  BY <1>1, <1>3, WFMin
<1>5. n > 0 /\ n - 1 \in Nat /\ (n - 1) + 1 = n
  BY <1>4
<1>6. n - 1 \in N
  BY <1>2, <1>4, <1>5
<1>7. QED
  BY <1>4, <1>5, <1>6

(* The ways to count a set upwards, of which InOrder takes one *)
Upwards(S) ==
    {s \in [1..Cardinality(S) -> S] : \A i, j \in DOMAIN s : i < j => s[i] < s[j]}

LEMMA UpwardsExists ==
    ASSUME NEW n \in Nat, NEW S \in SUBSET (1..n)
    PROVE  Upwards(S) # {}
<1> DEFINE N == {m \in Nat : \A T \in SUBSET (1..m) : Upwards(T) # {}}
<1>1. 0 \in N
  <2> SUFFICES ASSUME NEW T \in SUBSET (1..0) PROVE Upwards(T) # {}
    OBVIOUS
  <2>1. T = {} /\ Cardinality(T) = 0
    <3>1. T = {}
      OBVIOUS
    <3>2. Cardinality({}) = 0
      BY FS_EmptySet
    <3>3. QED
      BY <3>1, <3>2
  <2>2. [i \in 1..0 |-> i] \in Upwards(T)
    BY <2>1 DEF Upwards
  <2>3. QED
    BY <2>2
<1>2. ASSUME NEW m \in N PROVE m + 1 \in N
  <2> SUFFICES ASSUME NEW T \in SUBSET (1..(m + 1)) PROVE Upwards(T) # {}
    OBVIOUS
  <2> DEFINE U == T \ {m + 1}
  <2>1. m \in Nat /\ U \in SUBSET (1..m) /\ Upwards(U) # {}
    OBVIOUS
  <2>2. IsFiniteSet(U) /\ Cardinality(U) \in Nat
    <3>1. IsFiniteSet(1..m)
      BY <2>1, FS_Interval, 1 \in Int, m \in Int
    <3>2. QED
      BY <2>1, <3>1, FS_Subset, FS_CardinalityType
  <2>3. CASE m + 1 \notin T
    <3>1. U = T
      BY <2>3
    <3>2. QED
      BY <2>1, <3>1
  <2>4. CASE m + 1 \in T
    <3> DEFINE c == Cardinality(U)
    <3>1. T = U \cup {m + 1} /\ m + 1 \notin U
      BY <2>4
    <3>2. Cardinality(T) = c + 1 /\ c \in Nat
      BY <3>1, <2>2, FS_AddElement
    <3>3. PICK u \in Upwards(U) : TRUE
      BY <2>1
    <3>4. /\ u \in [1..c -> U]
          /\ \A i, j \in 1..c : i < j => u[i] < u[j]
      BY <3>3 DEF Upwards
    <3>5. \A k \in U : k < m + 1
      BY <2>1
    <3> HIDE DEF U, c
    <3> DEFINE t == [i \in 1..(c + 1) |-> IF i = c + 1 THEN m + 1 ELSE u[i]]
    <3>6. \A i \in 1..(c + 1) : i = c + 1 \/ i \in 1..c
      BY <3>2
    <3>7. t \in [1..(c + 1) -> T]
      BY <3>1, <3>4, <3>6
    <3>8. ASSUME NEW i \in 1..(c + 1), NEW j \in 1..(c + 1), i < j
          PROVE  t[i] < t[j]
      <4>1. i \in 1..c /\ i # c + 1
        BY <3>2, <3>8
      <4>2. t[i] = u[i] /\ u[i] \in U
        BY <4>1, <3>4
      <4>3. CASE j = c + 1
        BY <4>2, <4>3, <3>5
      <4>4. CASE j # c + 1
        <5>1. j \in 1..c /\ t[j] = u[j]
          BY <4>4, <3>6
        <5>2. QED
          BY <5>1, <4>1, <4>2, <3>4, <3>8
      <4>5. QED
        BY <4>3, <4>4
    <3> HIDE DEF t
    <3>9. t \in Upwards(T)
      BY <3>2, <3>7, <3>8 DEF Upwards
    <3>10. QED
      BY <3>9
  <2>5. QED
    BY <2>3, <2>4
<1> HIDE DEF N
<1>3. N \in SUBSET Nat
  BY DEF N
<1>4. N = Nat
  BY <1>1, <1>2, <1>3, SetInduction
<1>5. QED
  BY <1>4 DEF N

(* InOrder counts its set: every number is there, and they go up. *)
LEMMA InOrderFacts ==
    ASSUME NEW n \in Nat, NEW S \in SUBSET (1..n)
    PROVE  /\ InOrder(S) \in Seq(S)
           /\ \A i, j \in DOMAIN InOrder(S) : i < j => InOrder(S)[i] < InOrder(S)[j]
           /\ \A k \in S : \E i \in DOMAIN InOrder(S) : InOrder(S)[i] = k
<1> DEFINE s == InOrder(S)
           c == Cardinality(S)
<1>1. s \in Upwards(S)
  BY UpwardsExists DEF InOrder, Upwards
<1> HIDE DEF s
<1>2. IsFiniteSet(S) /\ c \in Nat
  <2>1. IsFiniteSet(1..n)
    BY FS_Interval, 1 \in Int, n \in Int
  <2>2. QED
    BY <2>1, FS_Subset, FS_CardinalityType
<1>3. s \in [1..c -> S] /\ \A i, j \in DOMAIN s : i < j => s[i] < s[j]
  BY <1>1 DEF Upwards
<1> HIDE DEF c
<1>4. s \in Seq(S)
  BY <1>2, <1>3, FunctionSeq
<1>5. IsInjective(s)
  <2>1. \A i, j \in 1..c : i # j => i < j \/ j < i
    BY <1>2
  <2>2. \A i \in 1..c : s[i] \in Nat
    <3>1. S \subseteq Nat
      OBVIOUS
    <3>2. QED
      BY <3>1, <1>3
  <2>3. QED
    BY <1>3, <2>1, <2>2 DEF IsInjective
<1>6. s \in Surjection(1..c, S)
  <2>1. s \in Injection(1..c, S)
    BY <1>3, <1>5 DEF Injection
  <2>2. Cardinality(1..c) = c
    <3>1. c \in Int /\ 1 \in Int
      BY <1>2
    <3>2. Cardinality(1..c) = IF 1 > c THEN 0 ELSE c - 1 + 1
      BY <3>1, FS_Interval
    <3>3. QED
      BY <1>2, <3>2
  <2>3. QED
    BY <2>1, <2>2, <1>2, FS_Injection DEF c
<1>7. \A k \in S : \E i \in 1..c : s[i] = k
  BY <1>6 DEF Surjection
<1>8. DOMAIN s = 1..c
  BY <1>3
<1>9. QED
  BY <1>3, <1>4, <1>7, <1>8 DEF s
=============================================================================
