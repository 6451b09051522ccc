-------------------------- MODULE LocateBaseProofs --------------------------
(* One pass over a base trigger, for any deque and any network of stations. *)
EXTENDS LocateBase, LocPoolProofs

LOCAL SeqX == INSTANCE SequencesExt

----------------------------------------------------------------------------
(* The deque and the indices. *)

\* The deque after std::sort: every trigger once, in the order of TriggerInfo.
LEMMA SortedIs ==
  ASSUME NEW D \in SUBSET Trigger
  PROVE  /\ Sorted(D) \in Seq(Trigger) /\ Len(Sorted(D)) = Cardinality(D) /\ IsFiniteSet(D)
         /\ SeqX!ToSet(Sorted(D)) = D /\ Distinct(Sorted(D))
         /\ \A i, k \in 1 .. Len(Sorted(D)) : i < k => Before(Sorted(D)[i], Sorted(D)[k])
         /\ \A i \in 1 .. Len(Sorted(D)) : DequePosition(D, Sorted(D)[i]) = i - 1
<1> DEFINE n == Cardinality(D)
           Is(i, t) == t \in D /\ DequePosition(D, t) = i - 1
           f == [i \in 1 .. n |-> CHOOSE t \in D : DequePosition(D, t) = i - 1]
<1>1. n \in Nat /\ IsFiniteSet(D)
  BY PositionIsRank
<1>2. Sorted(D) = f
  BY Zenon DEF Sorted, DequePosition
<1>3. \A i \in 1 .. n : Is(i, f[i])
  <2> SUFFICES ASSUME NEW i \in 1 .. n PROVE Is(i, f[i])
    OBVIOUS
  <2>1. i - 1 \in 0 .. n - 1
    BY <1>1
  <2>2. \E t \in D : DequePosition(D, t) = i - 1
    BY <2>1, PositionTaken
  <2> QED
    BY <2>2
<1>4. f \in [1 .. n -> D]
  <2> HIDE DEF f
  <2>1. f = [i \in 1 .. n |-> f[i]]
    BY DEF f
  <2> QED
    BY <1>3, <2>1
<1> HIDE DEF f
<1>5. f \in Seq(Trigger) /\ Len(f) = n /\ DOMAIN f = 1 .. n
  BY <1>1, <1>4
<1>6. \A t \in D : \E i \in 1 .. n : f[i] = t
  <2> SUFFICES ASSUME NEW t \in D PROVE \E i \in 1 .. n : f[i] = t
    OBVIOUS
  <2>1. DequePosition(D, t) \in 0 .. n - 1
    BY PositionOrder
  <2> DEFINE i == DequePosition(D, t) + 1
  <2>2. i \in 1 .. n /\ i - 1 = DequePosition(D, t)
    BY <1>1, <2>1
  <2> HIDE DEF i
  <2>3. f[i] = t
    BY <1>3, <2>2, PositionTaken
  <2> QED
    BY <2>2, <2>3
<1>7. SeqX!ToSet(f) = D
  BY <1>4, <1>5, <1>6 DEF SeqX!ToSet
<1>8. Distinct(f)
  BY <1>3, <1>5 DEF Distinct
<1>9. ASSUME NEW i \in 1 .. n, NEW k \in 1 .. n, i < k
      PROVE  Before(f[i], f[k])
  <2>1. f[i] \in D /\ f[k] \in D /\ DequePosition(D, f[i]) = i - 1 /\ DequePosition(D, f[k]) = k - 1
    BY <1>3
  <2>2. f[i] # f[k]
    BY <1>9, <2>1
  <2>3. ~Before(f[k], f[i])
    BY <1>9, <2>1, PositionOrder
  <2> QED
    BY <2>1, <2>2, <2>3, BeforeOrder
<1> QED
  BY <1>1, <1>2, <1>3, <1>5, <1>7, <1>8, <1>9

\* Its first trigger is the base trigger.
LEMMA SortedFront ==
  ASSUME NEW D \in SUBSET Trigger, D # {}
  PROVE  Len(Sorted(D)) > 0 /\ Sorted(D)[1] = Front(D)
<1>1. Front(D) \in D /\ \A u \in D \ {Front(D)} : Before(Front(D), u)
  BY FrontIsFirst
<1>2. /\ Sorted(D) \in Seq(Trigger) /\ SeqX!ToSet(Sorted(D)) = D
      /\ \A i, k \in 1 .. Len(Sorted(D)) : i < k => Before(Sorted(D)[i], Sorted(D)[k])
  BY SortedIs
<1>3. PICK p \in 1 .. Len(Sorted(D)) : Sorted(D)[p] = Front(D)
  BY <1>1, <1>2 DEF SeqX!ToSet
<1>4. Len(Sorted(D)) \in Nat /\ 1 \in 1 .. Len(Sorted(D))
  BY <1>2
<1>5. Sorted(D)[1] \in D
  BY <1>2, <1>4 DEF SeqX!ToSet
<1>6. Sorted(D)[1] = Front(D)
  <2> SUFFICES ASSUME Sorted(D)[1] # Front(D) PROVE FALSE
    OBVIOUS
  <2>1. Before(Front(D), Sorted(D)[1])
    BY <1>1, <1>5
  <2>2. Before(Sorted(D)[1], Front(D))
    BY <1>2, <1>3, <1>4
  <2> QED
    BY <1>1, <1>5, <2>1, <2>2, BeforeOrder
<1> QED
  BY <1>4, <1>6

\* Where a trigger of a sorted deque stands.
LEMMA SortedPlace ==
  ASSUME NEW D \in SUBSET Trigger, NEW t \in D, NEW p \in Nat, DequePosition(D, t) = p
  PROVE  p + 1 \in 1 .. Len(Sorted(D)) /\ p < Cardinality(D) /\ Sorted(D)[p + 1] = t
<1>1. DequePosition(D, t) \in 0 .. Cardinality(D) - 1 /\ Cardinality(D) \in Nat
      /\ Len(Sorted(D)) = Cardinality(D)
  BY PositionOrder, PositionIsRank, SortedIs
<1>2. p + 1 \in 1 .. Len(Sorted(D)) /\ p < Cardinality(D) /\ (p + 1) - 1 = p
  BY <1>1
<1>3. Sorted(D)[p + 1] \in D /\ DequePosition(D, Sorted(D)[p + 1]) = p
  BY <1>2, SortedIs DEF SeqX!ToSet
<1> QED
  BY <1>2, <1>3, PositionTaken

\* Erasing one place of a sorted deque leaves the others sorted.
LEMMA EraseSorted ==
  ASSUME NEW D \in SUBSET Trigger, NEW i \in Nat, i < Cardinality(D)
  PROVE  LET t == Sorted(D)[i + 1]
         IN  /\ t \in D /\ DequePosition(D, t) = i
             /\ SeqX!RemoveAt(Sorted(D), i + 1) = Sorted(D \ {t})
<1> DEFINE n == Cardinality(D)
           s == Sorted(D)
           t == s[i + 1]
           E == D \ {t}
           r == SeqX!RemoveAt(s, i + 1)
<1>1. n \in Nat /\ IsFiniteSet(D) /\ i + 1 \in 1 .. n /\ (i + 1) - 1 = i
  <2>1. n \in Nat /\ IsFiniteSet(D)
    BY PositionIsRank
  <2>2. i < n
    OBVIOUS
  <2> HIDE DEF n
  <2> QED
    BY <2>1, <2>2
<1>2. /\ s \in Seq(Trigger) /\ Len(s) = n /\ SeqX!ToSet(s) = D
      /\ \A k \in 1 .. n : DequePosition(D, s[k]) = k - 1
  BY SortedIs
<1>3. \A k \in 1 .. n : s[k] \in D
  BY <1>2 DEF SeqX!ToSet
<1>4. t \in D /\ DequePosition(D, t) = i
  BY <1>1, <1>2, <1>3
<1>5. /\ r \in Seq(Trigger) /\ Len(r) = n - 1
      /\ \A k \in 1 .. n - 1 : r[k] = IF k < i + 1 THEN s[k] ELSE s[k + 1]
  <2> HIDE DEF s
  <2>1. i + 1 \in 1 .. Len(s) /\ s \in Seq(Trigger)
    BY <1>1, <1>2
  <2>2. /\ SeqX!RemoveAt(s, i + 1) \in Seq(Trigger)
        /\ Len(SeqX!RemoveAt(s, i + 1)) = Len(s) - 1
        /\ \A k \in 1 .. Len(s) - 1 :
              SeqX!RemoveAt(s, i + 1)[k] = IF k < i + 1 THEN s[k] ELSE s[k + 1]
    BY <2>1, RemoveAtIs
  <2> QED
    BY <1>2, <2>2, Zenon DEF r
<1> HIDE DEF s, t, r
<1>6. E \in SUBSET Trigger /\ Cardinality(E) = n - 1
  <2>1. Cardinality(E) = Cardinality(D) - 1
    BY <1>1, <1>4, FS_RemoveElement
  <2> QED
    BY <2>1
<1>7. /\ Sorted(E) \in Seq(Trigger) /\ Len(Sorted(E)) = n - 1 /\ SeqX!ToSet(Sorted(E)) = E
      /\ \A k \in 1 .. n - 1 : DequePosition(E, Sorted(E)[k]) = k - 1
  BY <1>6, SortedIs
<1> HIDE DEF E
<1>8. ASSUME NEW u \in E
      PROVE  /\ Before(t, u) => DequePosition(E, u) = DequePosition(D, u) - 1
             /\ ~Before(t, u) => DequePosition(E, u) = DequePosition(D, u)
  <2> DEFINE L == {v \in D : Before(v, u)}
             M == {v \in E : Before(v, u)}
  <2>1. IsFiniteSet(L) /\ L \subseteq D
    BY <1>1, FS_Subset
  <2>2. CASE Before(t, u)
    <3>1. M = L \ {t} /\ t \in L
      BY <1>4, <2>2 DEF E
    <3> HIDE DEF M, L
    <3>2. Cardinality(M) = Cardinality(L) - 1
      BY <2>1, <3>1, FS_RemoveElement
    <3> QED
      BY <2>2, <3>2 DEF DequePosition, M, L
  <2>3. CASE ~Before(t, u)
    <3>1. M = L
      BY <1>4, <2>3 DEF E
    <3> QED
      BY <2>3, <3>1 DEF DequePosition
  <2> QED
    BY <2>2, <2>3
<1>9. ASSUME NEW k \in 1 .. n - 1
      PROVE  r[k] = Sorted(E)[k]
  <2> DEFINE u == r[k]
  <2>1. u \in E /\ DequePosition(E, u) = k - 1
    <3>1. CASE k < i + 1
      <4>1. u = s[k] /\ u \in D /\ DequePosition(D, u) = k - 1
        BY <1>1, <1>2, <1>3, <1>5, <3>1
      <4>2. u # t /\ ~(i < DequePosition(D, u))
        BY <1>1, <1>4, <3>1, <4>1
      <4>3. ~Before(t, u)
        BY <1>4, <4>1, <4>2, PositionOrder
      <4>4. u \in E
        BY <4>1, <4>2 DEF E
      <4> QED
        BY <1>8, <4>1, <4>3, <4>4
    <3>2. CASE ~(k < i + 1)
      <4>1. k + 1 \in 1 .. n /\ (k + 1) - 1 = k /\ k > i
        BY <1>1, <3>2
      <4>2. u = s[k + 1] /\ u \in D /\ DequePosition(D, u) = k
        BY <1>2, <1>3, <1>5, <3>2, <4>1
      <4>3. u # t /\ ~(DequePosition(D, u) < i)
        BY <1>1, <1>4, <4>1, <4>2
      <4>4. ~Before(u, t)
        BY <1>4, <4>2, <4>3, PositionOrder
      <4>5. Before(t, u)
        BY <1>4, <4>2, <4>3, <4>4, BeforeOrder
      <4>6. u \in E
        BY <4>2, <4>3 DEF E
      <4> QED
        BY <1>8, <4>2, <4>5, <4>6
    <3> QED
      BY <3>1, <3>2
  <2> HIDE DEF u
  <2>2. Sorted(E)[k] \in E
    BY <1>7 DEF SeqX!ToSet
  <2>3. Sorted(E)[k] = u
    BY <1>6, <1>7, <2>1, <2>2, PositionTaken
  <2> QED
    BY <2>3 DEF u
<1>10. r = Sorted(E)
  BY <1>5, <1>7, <1>9, SameElements
<1> QED
  BY <1>4, <1>10 DEF r, E, t, s

\* std::sort with std::greater: the same values, none larger than one before it, and
\* equal ones only where a value occurs twice.
LEMMA DescendingIs ==
  ASSUME NEW s \in Seq(Nat)
  PROVE  /\ Descending(s) \in Seq(Nat) /\ Len(Descending(s)) = Len(s)
         /\ \A p \in 1 .. Len(s) : \E i \in 1 .. Len(s) : Descending(s)[p] = s[i]
         /\ \A i \in 1 .. Len(s) : \E p \in 1 .. Len(s) : Descending(s)[p] = s[i]
         /\ \A p, q \in 1 .. Len(s) : p < q =>
               \/ Descending(s)[q] < Descending(s)[p]
               \/ \E i, k \in 1 .. Len(s) : i # k /\ s[i] = s[k] /\ s[i] = Descending(s)[q]
<1> DEFINE D   == DOMAIN s
           Low == [i \in D |-> {k \in D : s[k] > s[i] \/ (s[k] = s[i] /\ k < i)}]
           at_(p) == CHOOSE i \in D : Cardinality(Low[i]) = p - 1
<1>1. D = 1 .. Len(s) /\ Len(s) \in Nat /\ \A i \in D : s[i] \in Nat /\ i \in Nat
  OBVIOUS
<1>2. Descending(s) = [p \in D |-> s[at_(p)]]
  BY Zenon DEF Descending, Arranged
<1>3. IsFiniteSet(D) /\ Cardinality(D) = Len(s)
  BY <1>1, FirstNumbers
<1>4. TotalOrder(D, Low)
  <2>1. \A i, k \in D : k \in Low[i] <=> s[k] > s[i] \/ (s[k] = s[i] /\ k < i)
    OBVIOUS
  <2>2. \A i \in D : Low[i] \subseteq D
    OBVIOUS
  <2> HIDE DEF Low, D
  <2>3. \A i \in D : i \notin Low[i]
    BY <1>1, <2>1
  <2>4. \A i, k \in D : i # k => i \in Low[k] \/ k \in Low[i]
    BY <1>1, <2>1
  <2>5. ASSUME NEW i \in D, NEW k \in D, i \in Low[k]
        PROVE  Low[i] \subseteq Low[k]
    <3> SUFFICES ASSUME NEW l \in Low[i] PROVE l \in Low[k]
      OBVIOUS
    <3>1. l \in D
      BY <2>2
    <3>2. s[l] > s[i] \/ (s[l] = s[i] /\ l < i)
      BY <2>1, <3>1
    <3>3. s[i] > s[k] \/ (s[i] = s[k] /\ i < k)
      BY <2>1, <2>5
    <3>4. s[l] > s[k] \/ (s[l] = s[k] /\ l < k)
      BY <1>1, <3>1, <3>2, <3>3
    <3> QED
      BY <2>1, <3>1, <3>4
  <2> QED
    BY <2>2, <2>3, <2>4, <2>5 DEF TotalOrder
<1>5. \A i, k \in D : s[i] > s[k] => Cardinality(Low[i]) < Cardinality(Low[k])
  <2>1. \A i, k \in D : s[i] > s[k] => i \in Low[k]
    OBVIOUS
  <2> HIDE DEF Low, D
  <2> QED
    BY <1>3, <1>4, <2>1, RankGrows
<1> HIDE DEF Low
<1>6. \A p \in D : at_(p) \in D /\ Cardinality(Low[at_(p)]) = p - 1
  <2> SUFFICES ASSUME NEW p \in D
               PROVE  at_(p) \in D /\ Cardinality(Low[at_(p)]) = p - 1
    OBVIOUS
  <2>1. p - 1 \in 0 .. Len(s) - 1
    BY <1>1
  <2> HIDE DEF D
  <2>2. \E i \in D : Cardinality(Low[i]) = p - 1
    BY <1>3, <1>4, <2>1, RankIsPlace
  <2> QED
    BY <2>2
<1> HIDE DEF at_
<1>7. Descending(s) \in Seq(Nat) /\ Len(Descending(s)) = Len(s)
      /\ \A p \in D : Descending(s)[p] = s[at_(p)]
  <2> DEFINE r == [p \in D |-> s[at_(p)]]
  <2>1. r \in [D -> Nat] /\ \A p \in D : r[p] = s[at_(p)]
    BY <1>1, <1>6
  <2> HIDE DEF r
  <2> QED
    BY <1>1, <1>2, <2>1 DEF r
<1>8. ASSUME NEW p \in D, NEW q \in D, p < q
      PROVE  \/ Descending(s)[q] < Descending(s)[p]
             \/ \E i, k \in D : i # k /\ s[i] = s[k] /\ s[i] = Descending(s)[q]
  <2> DEFINE i == at_(q)
             k == at_(p)
  <2>1. p \in Int /\ q \in Int
    BY <1>1
  <2>2. i \in D /\ k \in D /\ Cardinality(Low[i]) = q - 1 /\ Cardinality(Low[k]) = p - 1
    BY <1>6
  <2>3. i # k
    BY <1>8, <2>1, <2>2
  <2>4. ~(s[i] > s[k])
    BY <1>5, <1>8, <2>1, <2>2
  <2>5. s[i] < s[k] \/ s[i] = s[k]
    BY <1>1, <2>2, <2>4
  <2>6. Descending(s)[q] = s[i] /\ Descending(s)[p] = s[k]
    BY <1>7
  <2> QED
    BY <2>2, <2>3, <2>5, <2>6
<1>9. \A i \in D : \E p \in D : Descending(s)[p] = s[i]
  <2> SUFFICES ASSUME NEW i \in D PROVE \E p \in D : Descending(s)[p] = s[i]
    OBVIOUS
  <2> DEFINE p == Cardinality(Low[i]) + 1
  <2>1. Cardinality(Low[i]) \in 0 .. Len(s) - 1
    <3> HIDE DEF D
    <3> QED
      BY <1>3, <1>4, RankGrows
  <2>2. p \in D /\ p - 1 = Cardinality(Low[i])
    BY <1>1, <2>1
  <2> HIDE DEF p
  <2>3. at_(p) \in D /\ Cardinality(Low[at_(p)]) = Cardinality(Low[i])
    BY <1>6, <2>2
  <2>4. at_(p) = i
    <3> HIDE DEF D
    <3> QED
      BY <1>3, <1>4, <2>3, RankIsPlace
  <2> QED
    BY <1>7, <2>2, <2>4
<1> QED
  BY <1>1, <1>6, <1>7, <1>8, <1>9

----------------------------------------------------------------------------
(* The trigger pool as an ordered map. *)

KeysOf(m)     == {m.m_values[k].key : k \in DOMAIN m.m_values}
TriggersOf(m) == UNION {SeqX!ToSet(e.value) : e \in SeqX!ToSet(m.m_values)}

\* The entry of a station: its triggers, each once.
Listed(e) == /\ e.value # <<>> /\ Distinct(e.value)
             /\ \A i \in DOMAIN e.value : e.value[i].stationID = e.key

Pooling(m) == /\ \E N : MapOf(m, N, Seq(Trigger))
              /\ \A k \in DOMAIN m.m_values : Listed(m.m_values[k])

\* The entries of a pool.
LEMMA PoolingType ==
  ASSUME NEW m, Pooling(m)
  PROVE  /\ m.m_values \in Seq([key : DOMAIN Hash, value : Seq(Trigger)]) /\ KeysDiffer(m.m_values)
         /\ DOMAIN m.m_values = 1 .. Len(m.m_values) /\ Len(m.m_values) \in Nat
         /\ \A k \in DOMAIN m.m_values :
               LET e == m.m_values[k]
               IN  /\ e.value \in Seq(Trigger) /\ e.key \in Station /\ Listed(e)
                   /\ e = [key |-> e.key, value |-> e.value]
                   /\ DOMAIN e.value = 1 .. Len(e.value) /\ Len(e.value) \in Nat \ {0}
                   /\ \A i \in DOMAIN e.value : e.value[i] \in Trigger
<1> DEFINE V   == m.m_values
           Row == [key : DOMAIN Hash, value : Seq(Trigger)]
<1>1. V \in Seq(Row) /\ KeysDiffer(V)
  BY DEF Pooling, MapOf
<1>2. DOMAIN V = 1 .. Len(V) /\ Len(V) \in Nat /\ \A k \in DOMAIN V : V[k] \in Row
  <2> HIDE DEF V, Row
  <2> QED
    BY <1>1
<1>3. ASSUME NEW e \in Row, Listed(e)
      PROVE  /\ e.value \in Seq(Trigger) /\ e.key \in Station
             /\ e = [key |-> e.key, value |-> e.value]
             /\ DOMAIN e.value = 1 .. Len(e.value) /\ Len(e.value) \in Nat \ {0}
             /\ \A i \in DOMAIN e.value : e.value[i] \in Trigger
  <2>1. e.value \in Seq(Trigger) /\ e = [key |-> e.key, value |-> e.value]
    OBVIOUS
  <2>2. e.value # <<>>
    BY <1>3 DEF Listed
  <2>3. DOMAIN e.value = 1 .. Len(e.value) /\ Len(e.value) \in Nat \ {0}
        /\ \A i \in DOMAIN e.value : e.value[i] \in Trigger
    BY <2>1, <2>2
  <2>4. e.key \in Station
    <3>1. 1 \in DOMAIN e.value
      BY <2>3
    <3>2. e.value[1] \in Trigger /\ e.value[1].stationID = e.key
      BY <1>3, <2>3, <3>1 DEF Listed
    <3> QED
      BY <3>2, TriggerAssumption
  <2> QED
    BY <2>1, <2>3, <2>4
<1>4. \A k \in DOMAIN V : Listed(V[k])
  BY DEF Pooling
<1> HIDE DEF V, Row
<1> QED
  BY <1>1, <1>2, <1>3, <1>4 DEF V, Row

\* The triggers of a pool.
LEMMA PoolTriggers ==
  ASSUME NEW m, Pooling(m)
  PROVE  /\ TriggersOf(m) = {t \in Trigger : \E k \in DOMAIN m.m_values :
                                \E i \in DOMAIN m.m_values[k].value : t = m.m_values[k].value[i]}
         /\ \A t \in TriggersOf(m) : t.stationID \in KeysOf(m)
         /\ KeysOf(m) \subseteq Station
<1> DEFINE V == m.m_values
<1>1. \A k \in DOMAIN V : /\ Listed(V[k]) /\ V[k].key \in Station
                          /\ \A i \in DOMAIN V[k].value : V[k].value[i] \in Trigger
  BY PoolingType
<1> HIDE DEF V
<1>2. TriggersOf(m) = {t \in Trigger : \E k \in DOMAIN V : \E i \in DOMAIN V[k].value : t = V[k].value[i]}
  BY <1>1 DEF TriggersOf, SeqX!ToSet, V
<1>3. \A t \in TriggersOf(m) : t.stationID \in KeysOf(m)
  BY <1>1, <1>2 DEF KeysOf, Listed, V
<1> QED
  BY <1>1, <1>2, <1>3 DEF V, KeysOf

\* The empty map is a pool.
LEMMA PoolingStart == Pooling(EmptyMap) /\ TriggersOf(EmptyMap) = {} /\ KeysOf(EmptyMap) = {}
<1>1. MapOf(EmptyMap, 0, Seq(Trigger))
  BY EmptyMapIs
<1>2. EmptyMap.m_values = <<>> /\ DOMAIN <<>> = {}
  BY DEF EmptyMap
<1>3. Pooling(EmptyMap)
  BY <1>1, <1>2 DEF Pooling
<1> QED
  BY <1>2, <1>3 DEF TriggersOf, KeysOf, SeqX!ToSet

\* find for a station, in a pool.
LEMMA PoolFinds ==
  ASSUME NEW m, Pooling(m), NEW s \in Station
  PROVE  /\ Contains(m, s) <=> s \in KeysOf(m)
         /\ s \in KeysOf(m) => /\ Position(m, s) \in DOMAIN m.m_values
                               /\ m.m_values[Position(m, s)].key = s
<1>1. PICK N : MapOf(m, N, Seq(Trigger))
  BY DEF Pooling
<1>2. s \in DOMAIN Hash
  BY DequesAssumption
<1>3. s \notin KeysOf(m) => ~Contains(m, s)
  BY <1>1, <1>2, LookupAbsent DEF KeysOf
<1>4. ASSUME s \in KeysOf(m)
      PROVE  /\ Contains(m, s) /\ Position(m, s) \in DOMAIN m.m_values
             /\ m.m_values[Position(m, s)].key = s
  <2>1. PICK p \in DOMAIN m.m_values : m.m_values[p].key = s
    BY <1>4 DEF KeysOf
  <2>2. Contains(m, s) /\ Position(m, s) = p
    BY <1>1, <2>1, LookupPresent
  <2> QED
    BY <2>1, <2>2
<1> QED
  BY <1>3, <1>4

\* The first trigger of a station.
LEMMA PoolInsert ==
  ASSUME NEW m, Pooling(m), NEW t \in Trigger, t.stationID \notin KeysOf(m)
  PROVE  LET u == Insert(m, t.stationID, <<t>>)
         IN  /\ Pooling(u) /\ Len(u.m_values) = Len(m.m_values) + 1
             /\ KeysOf(u) = KeysOf(m) \cup {t.stationID}
             /\ TriggersOf(u) = TriggersOf(m) \cup {t}
<1> DEFINE s   == t.stationID
           V   == m.m_values
           row == [key |-> s, value |-> <<t>>]
           u   == Insert(m, s, <<t>>)
           W   == u.m_values
<1>1. PICK N : MapOf(m, N, Seq(Trigger))
  BY DEF Pooling
<1>2. s \in DOMAIN Hash /\ <<t>> \in Seq(Trigger)
  BY DequesAssumption, TriggerAssumption
<1>3. (\E M : MapOf(u, M, Seq(Trigger))) /\ W = Append(V, row)
  <2>1. \A p \in DOMAIN m.m_values : m.m_values[p].key # s
    BY DEF KeysOf
  <2> QED
    BY <1>1, <1>2, <2>1, InsertMap
<1>4. V \in Seq([key : DOMAIN Hash, value : Seq(Trigger)])
      /\ DOMAIN V = 1 .. Len(V) /\ Len(V) \in Nat /\ \A k \in DOMAIN V : Listed(V[k])
  BY PoolingType
<1> HIDE DEF u, V
<1>5. /\ Len(W) = Len(V) + 1 /\ DOMAIN W = DOMAIN V \cup {Len(V) + 1}
      /\ W[Len(V) + 1] = row /\ \A k \in DOMAIN V : W[k] = V[k]
  <2> HIDE DEF W, row
  <2>1. Len(W) = Len(V) + 1 /\ DOMAIN W = 1 .. Len(V) + 1
    BY <1>3, <1>4
  <2>2. 1 .. Len(V) + 1 = (1 .. Len(V)) \cup {Len(V) + 1}
    BY <1>4
  <2> QED
    BY <1>3, <1>4, <2>1, <2>2
<1>6. row.key = s /\ row.value = <<t>> /\ DOMAIN <<t>> = {1} /\ <<t>>[1] = t /\ <<t>> # <<>>
  OBVIOUS
<1> HIDE DEF W, row
<1>7. Listed(row)
  BY <1>6 DEF Listed, Distinct
<1>8. Pooling(u)
  BY <1>3, <1>4, <1>5, <1>7 DEF Pooling, W
<1>9. KeysOf(u) = KeysOf(m) \cup {s}
  BY <1>5, <1>6 DEF KeysOf, W, V
<1>10. TriggersOf(u) = TriggersOf(m) \cup {t}
  <2>1. TriggersOf(u) = {r \in Trigger : \E k \in DOMAIN W : \E i \in DOMAIN W[k].value : r = W[k].value[i]}
    BY <1>8, PoolTriggers DEF W
  <2>2. TriggersOf(m) = {r \in Trigger : \E k \in DOMAIN V : \E i \in DOMAIN V[k].value : r = V[k].value[i]}
    BY PoolTriggers DEF V
  <2>3. \A r \in Trigger : (\E i \in DOMAIN row.value : r = row.value[i]) <=> r = t
    BY <1>6
  <2>4. \A r \in Trigger :
           (\E k \in DOMAIN W : \E i \in DOMAIN W[k].value : r = W[k].value[i]) <=>
           \/ \E k \in DOMAIN V : \E i \in DOMAIN V[k].value : r = V[k].value[i]
           \/ \E i \in DOMAIN row.value : r = row.value[i]
    BY <1>5
  <2> QED
    BY <2>1, <2>2, <2>3, <2>4
<1> QED
  BY <1>5, <1>8, <1>9, <1>10 DEF u, V, W

\* Another trigger of a station.
LEMMA PoolAppend ==
  ASSUME NEW m, Pooling(m), NEW t \in Trigger, t.stationID \in KeysOf(m), t \notin TriggersOf(m)
  PROVE  LET u == Update(m, t.stationID,
                         Append(m.m_values[Position(m, t.stationID)].value, t))
         IN  /\ Pooling(u) /\ Len(u.m_values) = Len(m.m_values)
             /\ KeysOf(u) = KeysOf(m)
             /\ TriggersOf(u) = TriggersOf(m) \cup {t}
<1> DEFINE s   == t.stationID
           V   == m.m_values
           p   == Position(m, s)
           a   == V[p].value
           c   == Append(a, t)
           row == [key |-> s, value |-> c]
           u   == Update(m, s, c)
           W   == u.m_values
<1>1. PICK N : MapOf(m, N, Seq(Trigger))
  BY DEF Pooling
<1>2. s \in Station
  BY TriggerAssumption
<1>3. p \in DOMAIN V /\ V[p].key = s
  BY <1>2, PoolFinds
<1>4. /\ V \in Seq([key : DOMAIN Hash, value : Seq(Trigger)])
      /\ DOMAIN V = 1 .. Len(V) /\ Len(V) \in Nat
      /\ \A k \in DOMAIN V : Listed(V[k])
      /\ a \in Seq(Trigger) /\ DOMAIN a = 1 .. Len(a) /\ Len(a) \in Nat \ {0} /\ Listed(V[p])
  BY <1>3, PoolingType
<1> HIDE DEF p
<1>5. c \in Seq(Trigger)
  <2> HIDE DEF a
  <2> QED
    BY <1>4
<1>6. MapOf(u, N, Seq(Trigger)) /\ W = [V EXCEPT ![p] = row]
  <2> HIDE DEF c
  <2> QED
    BY <1>1, <1>3, <1>5, UpdateMap
<1> HIDE DEF u, V, W, a
<1>7. /\ Len(W) = Len(V) /\ DOMAIN W = DOMAIN V /\ W[p] = row
      /\ \A k \in DOMAIN V : k # p => W[k] = V[k]
  <2> HIDE DEF row
  <2> QED
    BY <1>3, <1>4, <1>6
<1>8. /\ DOMAIN c = DOMAIN a \cup {Len(a) + 1} /\ c[Len(a) + 1] = t /\ c # <<>>
      /\ \A i \in DOMAIN a : c[i] = a[i]
  <2>1. Len(c) = Len(a) + 1 /\ DOMAIN c = 1 .. Len(a) + 1 /\ c[Len(a) + 1] = t
    BY <1>4
  <2>2. 1 .. Len(a) + 1 = (1 .. Len(a)) \cup {Len(a) + 1}
    BY <1>4
  <2>3. \A i \in DOMAIN a : c[i] = a[i]
    BY <1>4
  <2> HIDE DEF c
  <2> QED
    BY <1>4, <1>5, <2>1, <2>2, <2>3
<1>9. row.key = s /\ row.value = c
  OBVIOUS
<1> HIDE DEF row, c
<1>10. TriggersOf(m) = {r \in Trigger : \E k \in DOMAIN V : \E i \in DOMAIN V[k].value : r = V[k].value[i]}
  BY PoolTriggers DEF V
<1>11. \A i \in DOMAIN a : a[i] # t
  BY <1>3, <1>10 DEF a
<1>12. Listed(row)
  <2>1. \A i \in DOMAIN c : c[i].stationID = s
    BY <1>3, <1>4, <1>8 DEF Listed, a
  <2>2. Distinct(c)
    BY <1>4, <1>8, <1>11 DEF Listed, Distinct, a
  <2> QED
    BY <1>8, <1>9, <2>1, <2>2 DEF Listed
<1>13. Pooling(u)
  BY <1>4, <1>6, <1>7, <1>12 DEF Pooling, W
<1>14. KeysOf(u) = KeysOf(m)
  <2>1. \A k \in DOMAIN V : W[k].key = V[k].key
    BY <1>3, <1>7, <1>9
  <2> QED
    BY <1>7, <2>1 DEF KeysOf, V, W
<1>15. TriggersOf(u) = TriggersOf(m) \cup {t}
  <2>1. TriggersOf(u) = {r \in Trigger : \E k \in DOMAIN W : \E i \in DOMAIN W[k].value : r = W[k].value[i]}
    BY <1>13, PoolTriggers DEF W
  <2>2. \A r \in Trigger : (\E i \in DOMAIN c : r = c[i]) <=> r = t \/ \E i \in DOMAIN a : r = a[i]
    BY <1>8
  <2>3. \A r \in Trigger :
           (\E k \in DOMAIN W : \E i \in DOMAIN W[k].value : r = W[k].value[i]) <=>
           \/ \E k \in DOMAIN V : \E i \in DOMAIN V[k].value : r = V[k].value[i]
           \/ r = t
    BY <1>3, <1>7, <1>9, <2>2 DEF a
  <2> QED
    BY <1>10, <2>1, <2>3
<1> QED
  BY <1>7, <1>13, <1>14, <1>15 DEF u, V, W, a, c, p

\* A station that is dropped.
LEMMA PoolErase ==
  ASSUME NEW m, Pooling(m), NEW s \in KeysOf(m)
  PROVE  LET u == EraseKey(m, s)
         IN  /\ Pooling(u) /\ Len(u.m_values) = Len(m.m_values) - 1
             /\ KeysOf(u) = KeysOf(m) \ {s}
             /\ TriggersOf(u) = {t \in TriggersOf(m) : t.stationID # s}
<1> DEFINE V == m.m_values
           u == EraseKey(m, s)
           W == u.m_values
<1>1. PICK N : MapOf(m, N, Seq(Trigger))
  BY DEF Pooling
<1>2. PICK p \in DOMAIN V : V[p].key = s
  BY DEF KeysOf
<1>3. MapOf(u, N, Seq(Trigger)) /\ W = SeqX!RemoveAt(V, p)
  BY <1>1, <1>2, EraseMap
<1>4. /\ V \in Seq([key : DOMAIN Hash, value : Seq(Trigger)]) /\ KeysDiffer(V)
      /\ DOMAIN V = 1 .. Len(V) /\ Len(V) \in Nat
      /\ \A k \in DOMAIN V : Listed(V[k])
  BY PoolingType
<1> DEFINE K(k) == IF k < p THEN k ELSE k + 1
<1> HIDE DEF u, V, W
<1>5. /\ Len(W) = Len(V) - 1 /\ DOMAIN W = 1 .. Len(V) - 1
      /\ \A k \in 1 .. Len(V) - 1 : W[k] = V[K(k)]
  <2> DEFINE Row == [key : DOMAIN Hash, value : Seq(Trigger)]
  <2>1. V \in Seq(Row) /\ p \in 1 .. Len(V)
    BY <1>2, <1>4
  <2> HIDE DEF Row
  <2>2. /\ SeqX!RemoveAt(V, p) \in Seq(Row) /\ Len(SeqX!RemoveAt(V, p)) = Len(V) - 1
        /\ \A k \in 1 .. Len(V) - 1 : SeqX!RemoveAt(V, p)[k] = IF k < p THEN V[k] ELSE V[k + 1]
    BY <2>1, RemoveAtIs
  <2>3. W \in Seq(Row) /\ Len(W) = Len(V) - 1
        /\ \A k \in 1 .. Len(V) - 1 : W[k] = IF k < p THEN V[k] ELSE V[k + 1]
    BY <1>3, <2>2, Zenon
  <2> QED
    BY <2>3
<1>6. /\ \A k \in DOMAIN W : K(k) \in DOMAIN V /\ K(k) # p
      /\ \A q \in DOMAIN V : q # p => \E k \in DOMAIN W : K(k) = q
  <2>1. \A k \in 1 .. Len(V) - 1 : K(k) \in 1 .. Len(V) /\ K(k) # p
    BY <1>2, <1>4
  <2>2. ASSUME NEW q \in 1 .. Len(V), q # p
        PROVE  \E k \in 1 .. Len(V) - 1 : K(k) = q
    <3> DEFINE k == IF q < p THEN q ELSE q - 1
    <3>1. k \in 1 .. Len(V) - 1 /\ K(k) = q
      BY <1>2, <1>4, <2>2
    <3> HIDE DEF k, K
    <3> QED
      BY <3>1
  <2> HIDE DEF K
  <2> QED
    BY <1>4, <1>5, <2>1, <2>2
<1> HIDE DEF K
<1>7. \A k \in DOMAIN V : V[k].key = s <=> k = p
  BY <1>2, <1>4 DEF KeysDiffer
<1>8. Pooling(u)
  BY <1>3, <1>4, <1>5, <1>6 DEF Pooling, W
<1>9. KeysOf(u) = KeysOf(m) \ {s}
  <2>1. KeysOf(u) = {W[k].key : k \in DOMAIN W}
    BY DEF KeysOf, W
  <2>2. KeysOf(m) = {V[k].key : k \in DOMAIN V}
    BY DEF KeysOf, V
  <2>3. \A k \in DOMAIN W : \E q \in DOMAIN V : V[q].key = W[k].key /\ V[q].key # s
    BY <1>5, <1>6, <1>7
  <2>4. \A q \in DOMAIN V : V[q].key # s => \E k \in DOMAIN W : W[k].key = V[q].key
    BY <1>5, <1>6, <1>7
  <2> QED
    BY <2>1, <2>2, <2>3, <2>4
<1>10. TriggersOf(u) = {t \in TriggersOf(m) : t.stationID # s}
  <2>1. TriggersOf(u) = {r \in Trigger : \E k \in DOMAIN W : \E i \in DOMAIN W[k].value : r = W[k].value[i]}
    BY <1>8, PoolTriggers DEF W
  <2>2. TriggersOf(m) = {r \in Trigger : \E k \in DOMAIN V : \E i \in DOMAIN V[k].value : r = V[k].value[i]}
    BY PoolTriggers DEF V
  <2>3. \A k \in DOMAIN V : \A i \in DOMAIN V[k].value : V[k].value[i].stationID = V[k].key
    BY <1>4 DEF Listed
  <2>4. ASSUME NEW r \in Trigger
        PROVE  (\E k \in DOMAIN W : \E i \in DOMAIN W[k].value : r = W[k].value[i]) <=>
               (r.stationID # s /\ \E k \in DOMAIN V : \E i \in DOMAIN V[k].value : r = V[k].value[i])
    <3>1. ASSUME NEW k \in DOMAIN W, NEW i \in DOMAIN W[k].value, r = W[k].value[i]
          PROVE  r.stationID # s /\ \E q \in DOMAIN V : \E l \in DOMAIN V[q].value : r = V[q].value[l]
      <4>1. K(k) \in DOMAIN V /\ K(k) # p /\ W[k] = V[K(k)]
        BY <1>5, <1>6
      <4> QED
        BY <1>7, <2>3, <3>1, <4>1
    <3>2. ASSUME r.stationID # s, NEW q \in DOMAIN V, NEW i \in DOMAIN V[q].value, r = V[q].value[i]
          PROVE  \E k \in DOMAIN W : \E l \in DOMAIN W[k].value : r = W[k].value[l]
      <4>1. q # p
        BY <1>7, <2>3, <3>2
      <4>2. PICK k \in DOMAIN W : K(k) = q
        BY <1>6, <4>1
      <4>3. W[k] = V[q]
        BY <1>5, <4>2
      <4> QED
        BY <3>2, <4>3
    <3> QED
      BY <3>1, <3>2
  <2> QED
    BY <2>1, <2>2, <2>4
<1> QED
  BY <1>5, <1>8, <1>9, <1>10 DEF u, V, W

\* The combinations that getLocationPool_p finds in a pool.
Found(m) == getLocationPool_p([i \in 1 .. Len(m.m_values) |-> m.m_values[i].value],
                              Len(m.m_values))

\* A combination of a pool: one trigger of every station, in the order of the
\* stations, each coherent with those before it.
OneOfEach(m, c) ==
    /\ c \in Seq(Trigger) /\ Len(c) = Len(m.m_values)
    /\ \A k \in 1 .. Len(m.m_values) : c[k] \in SeqX!ToSet(m.m_values[k].value)
    /\ \A k, l \in 1 .. Len(m.m_values) : l < k => Coherent(c[k], c[l])

\* getLocationPool_p finds every combination of a pool once.
LEMMA FoundIs ==
  ASSUME NEW m, Pooling(m)
  PROVE  /\ Found(m) \in Seq(Seq(Trigger)) /\ Distinct(Found(m))
         /\ SeqX!ToSet(Found(m)) = {c \in Seq(Trigger) : OneOfEach(m, c)}
<1> DEFINE V     == m.m_values
           n     == Len(V)
           lists == [i \in 1 .. n |-> V[i].value]
<1>1. /\ n \in Nat /\ DOMAIN V = 1 .. n
      /\ \A k \in 1 .. n : V[k].value \in Seq(Trigger) /\ Distinct(V[k].value)
  BY PoolingType DEF Listed
<1>2. Found(m) = getLocationPool_p(lists, n)
  BY Zenon DEF Found
<1> HIDE DEF V, n
<1>3. lists \in Seq(Seq(Trigger)) /\ Len(lists) = n /\ \A k \in 1 .. n : lists[k] = V[k].value
  BY <1>1
<1> HIDE DEF lists
<1>4. /\ Found(m) \in Seq(Seq(Trigger))
      /\ SeqX!ToSet(Found(m)) = Grown(lists, <<>>)
      /\ (\A k \in 1 .. n : Distinct(lists[k])) => Distinct(Found(m))
  <2>1. LET combs == getLocationPool_p(lists, Len(lists))
        IN  /\ combs \in Seq(Seq(Trigger))
            /\ SeqX!ToSet(combs) = Grown(lists, <<>>)
            /\ (\A k \in 1 .. Len(lists) : Distinct(lists[k])) => Distinct(combs)
    BY <1>3, LocationPoolAll
  <2> QED
    BY <1>2, <1>3, <2>1, Zenon
<1>5. \A k \in 1 .. n : Distinct(lists[k])
  BY <1>1, <1>3
<1>6. ASSUME NEW c \in Seq(Trigger)
      PROVE  c \in Grown(lists, <<>>) <=> OneOfEach(m, c)
  <2>1. Len(<<>>) = 0 /\ 1 .. 0 = {} /\ 0 + 1 = 1
    OBVIOUS
  <2>2. c \in Grown(lists, <<>>) <=>
           /\ Len(c) = n
           /\ \A i \in 1 .. n : c[i] \in SeqX!ToSet(V[i].value) /\ \A l \in 1 .. i - 1 : Coherent(c[i], c[l])
    <3>1. c \in Grown(lists, <<>>) <=>
           /\ Len(c) = Len(lists)
           /\ \A i \in 1 .. 0 : c[i] = <<>>[i]
           /\ \A i \in 1 .. Len(lists) :
                 c[i] \in SeqX!ToSet(lists[i]) /\ \A l \in 1 .. i - 1 : Coherent(c[i], c[l])
      BY <2>1 DEF Grown
    <3> QED
      BY <1>3, <2>1, <3>1
  <2>3. (\A k, l \in 1 .. n : l < k => Coherent(c[k], c[l])) <=>
        (\A k \in 1 .. n : \A l \in 1 .. k - 1 : Coherent(c[k], c[l]))
    BY <1>1
  <2> QED
    BY <2>2, <2>3 DEF OneOfEach, V, n
<1>7. Grown(lists, <<>>) \subseteq Seq(Trigger)
  BY DEF Grown
<1> QED
  BY <1>4, <1>5, <1>6, <1>7

\* The test of permuteVector does not depend on the order of its arguments.
LEMMA CoherentBoth ==
  ASSUME NEW t \in Trigger, NEW u \in Trigger
  PROVE  Coherent(t, u) <=> Coherent(u, t)
<1> DEFINE a == Minus(t.time, u.time)
           b == Minus(u.time, t.time)
<1>1. t.time \in Nat /\ u.time \in Nat /\ t.stationID \in Station /\ u.stationID \in Station
  BY TriggerAssumption
<1>2. a \in Int /\ b = -a
  <2>1. CASE t.time <= u.time
    <3>1. b \in Int /\ a = -b
      BY <1>1, <2>1, MinusNeverUnder
    <3> QED
      BY <3>1
  <2>2. CASE u.time <= t.time
    BY <1>1, <2>2, MinusNeverUnder
  <2> QED
    BY <1>1, <2>1, <2>2
<1>3. SiteTime[t.stationID][u.stationID] = SiteTime[u.stationID][t.stationID]
  BY <1>1, SiteTimeAssumption
<1> HIDE DEF a, b
<1>4. (IF a < 0 THEN -a ELSE a) = (IF b < 0 THEN -b ELSE b)
  BY <1>2
<1> QED
  BY <1>3, <1>4 DEF Coherent, a, b

\* The members of a combination.
LEMMA MembersOf ==
  ASSUME NEW m, Pooling(m), NEW c, OneOfEach(m, c)
  PROVE  /\ DOMAIN c = 1 .. Len(m.m_values) /\ DOMAIN c = DOMAIN m.m_values
         /\ \A k \in DOMAIN c : /\ c[k] \in Trigger /\ c[k] \in TriggersOf(m)
                                /\ c[k].stationID = m.m_values[k].key
         /\ \A k, l \in DOMAIN c : c[k].stationID = c[l].stationID => k = l
         /\ SeqX!ToSet(c) \subseteq TriggersOf(m)
         /\ StationsOf(SeqX!ToSet(c)) = KeysOf(m)
         /\ \A t, u \in SeqX!ToSet(c) : t # u => t.stationID # u.stationID /\ Coherent(t, u)
<1> DEFINE V == m.m_values
           n == Len(V)
<1>1. /\ n \in Nat /\ DOMAIN V = 1 .. n /\ KeysDiffer(V)
      /\ \A k \in 1 .. n : V[k].value \in Seq(Trigger) /\ Listed(V[k])
  BY PoolingType
<1>2. c \in Seq(Trigger) /\ DOMAIN c = 1 .. n
      /\ \A k \in 1 .. n : c[k] \in SeqX!ToSet(V[k].value) /\ c[k] \in Trigger
  BY DEF OneOfEach
<1>3. TriggersOf(m) = {t \in Trigger : \E k \in DOMAIN V : \E i \in DOMAIN V[k].value : t = V[k].value[i]}
  BY PoolTriggers
<1>4. \A k, l \in 1 .. n : l < k => Coherent(c[k], c[l])
  BY DEF OneOfEach
<1> HIDE DEF V, n
<1>5. ASSUME NEW k \in 1 .. n
      PROVE  c[k] \in TriggersOf(m) /\ c[k].stationID = V[k].key
  <2>1. PICK i \in DOMAIN V[k].value : c[k] = V[k].value[i]
    BY <1>2 DEF SeqX!ToSet
  <2> QED
    BY <1>1, <1>2, <1>3, <2>1 DEF Listed
<1>6. \A k, l \in 1 .. n : c[k].stationID = c[l].stationID => k = l
  BY <1>1, <1>5 DEF KeysDiffer
<1>7. SeqX!ToSet(c) \subseteq TriggersOf(m)
  BY <1>2, <1>5 DEF SeqX!ToSet
<1>8. StationsOf(SeqX!ToSet(c)) = KeysOf(m)
  BY <1>1, <1>2, <1>5 DEF StationsOf, KeysOf, SeqX!ToSet, V
<1>9. ASSUME NEW t \in SeqX!ToSet(c), NEW u \in SeqX!ToSet(c), t # u
      PROVE  t.stationID # u.stationID /\ Coherent(t, u)
  <2>1. PICK k \in 1 .. n : t = c[k]
    BY <1>2 DEF SeqX!ToSet
  <2>2. PICK l \in 1 .. n : u = c[l]
    BY <1>2 DEF SeqX!ToSet
  <2>3. k # l /\ (k < l \/ l < k)
    BY <1>1, <1>9, <2>1, <2>2
  <2>4. t.stationID # u.stationID
    BY <1>6, <2>1, <2>2, <2>3
  <2>5. Coherent(t, u) \/ Coherent(u, t)
    BY <1>4, <2>1, <2>2, <2>3
  <2>6. t \in Trigger /\ u \in Trigger
    BY <1>2, <2>1, <2>2
  <2> QED
    BY <2>4, <2>5, <2>6, CoherentBoth
<1> QED
  BY <1>1, <1>2, <1>5, <1>6, <1>7, <1>8, <1>9 DEF V, n

\* The stations of a pool are those of its triggers.
LEMMA PoolStations ==
  ASSUME NEW m, Pooling(m)
  PROVE  /\ StationsOf(TriggersOf(m)) = KeysOf(m) /\ IsFiniteSet(KeysOf(m))
         /\ Cardinality(KeysOf(m)) = Len(m.m_values)
<1> DEFINE V == m.m_values
           keys == [k \in DOMAIN V |-> V[k].key]
<1>1. /\ Len(V) \in Nat /\ DOMAIN V = 1 .. Len(V) /\ KeysDiffer(V)
      /\ \A k \in DOMAIN V : /\ Listed(V[k]) /\ V[k].value \in Seq(Trigger)
                             /\ V[k].key \in Station
                             /\ DOMAIN V[k].value = 1 .. Len(V[k].value)
                             /\ Len(V[k].value) \in Nat \ {0}
                             /\ \A i \in DOMAIN V[k].value : V[k].value[i] \in Trigger
  BY PoolingType
<1>2. TriggersOf(m) = {t \in Trigger : \E k \in DOMAIN V : \E i \in DOMAIN V[k].value : t = V[k].value[i]}
      /\ \A t \in TriggersOf(m) : t.stationID \in KeysOf(m)
  BY PoolTriggers
<1> HIDE DEF V
<1>3. \A k \in DOMAIN V : \E t \in TriggersOf(m) : t.stationID = V[k].key
  <2> SUFFICES ASSUME NEW k \in DOMAIN V PROVE \E t \in TriggersOf(m) : t.stationID = V[k].key
    OBVIOUS
  <2>1. 1 \in DOMAIN V[k].value
    BY <1>1
  <2>2. V[k].value[1] \in TriggersOf(m) /\ V[k].value[1].stationID = V[k].key
    BY <1>1, <1>2, <2>1 DEF Listed
  <2> QED
    BY <2>2
<1>4. KeysOf(m) = {V[k].key : k \in DOMAIN V}
  BY DEF KeysOf, V
<1>5. StationsOf(TriggersOf(m)) = KeysOf(m)
  <2>1. \A s \in KeysOf(m) : \E t \in TriggersOf(m) : t.stationID = s
    BY <1>3, <1>4
  <2>2. StationsOf(TriggersOf(m)) = {t.stationID : t \in TriggersOf(m)}
    BY DEF StationsOf
  <2>3. \A t \in TriggersOf(m) : t.stationID \in KeysOf(m)
    BY <1>2
  <2> QED
    BY <2>1, <2>2, <2>3
<1>6. keys \in Seq(Station) /\ Len(keys) = Len(V) /\ SeqX!ToSet(keys) = KeysOf(m)
  <2>1. DOMAIN keys = DOMAIN V /\ \A k \in DOMAIN V : keys[k] = V[k].key /\ keys[k] \in Station
    BY <1>1
  <2>2. keys \in Seq(Station) /\ Len(keys) = Len(V)
    BY <1>1
  <2> HIDE DEF keys
  <2> QED
    BY <1>4, <2>1, <2>2, Zenon DEF SeqX!ToSet
<1>7. Distinct(keys)
  BY <1>1 DEF Distinct, KeysDiffer
<1> HIDE DEF keys
<1>8. IsFiniteSet(SeqX!ToSet(keys)) /\ Cardinality(SeqX!ToSet(keys)) = Len(keys)
  BY <1>6, <1>7, ElementsFinite
<1> QED
  BY <1>5, <1>6, <1>8 DEF V

\* Two combinations are not the same set, and every set is a combination.
LEMMA CombinationSets ==
  ASSUME NEW m, Pooling(m)
  PROVE  /\ \A c \in Seq(Trigger) : OneOfEach(m, c) => SeqX!ToSet(c) \in Combinations(TriggersOf(m))
         /\ \A c, d \in Seq(Trigger) :
               OneOfEach(m, c) /\ OneOfEach(m, d) /\ SeqX!ToSet(c) = SeqX!ToSet(d) => c = d
         /\ \A s \in Combinations(TriggersOf(m)) :
               \E c \in Seq(Trigger) : OneOfEach(m, c) /\ SeqX!ToSet(c) = s
<1> DEFINE V == m.m_values
           n == Len(V)
<1>1. /\ n \in Nat /\ DOMAIN V = 1 .. n /\ KeysDiffer(V)
      /\ \A k \in 1 .. n : V[k].value \in Seq(Trigger) /\ Listed(V[k])
  BY PoolingType
<1>2. TriggersOf(m) = {t \in Trigger : \E k \in DOMAIN V : \E i \in DOMAIN V[k].value : t = V[k].value[i]}
  BY PoolTriggers
<1>3. StationsOf(TriggersOf(m)) = KeysOf(m) /\ KeysOf(m) = {V[k].key : k \in DOMAIN V}
  BY PoolStations DEF KeysOf
<1> HIDE DEF V, n
<1>4. ASSUME NEW c \in Seq(Trigger), OneOfEach(m, c)
      PROVE  SeqX!ToSet(c) \in Combinations(TriggersOf(m))
  BY <1>3, <1>4, MembersOf DEF Combinations
<1>5. ASSUME NEW c \in Seq(Trigger), NEW d \in Seq(Trigger), OneOfEach(m, c), OneOfEach(m, d),
             SeqX!ToSet(c) = SeqX!ToSet(d)
      PROVE  c = d
  <2>1. /\ Len(c) = n /\ Len(d) = n /\ DOMAIN c = 1 .. n /\ DOMAIN d = 1 .. n
        /\ \A k \in 1 .. n : c[k].stationID = V[k].key /\ d[k].stationID = V[k].key
        /\ \A k, l \in 1 .. n : d[k].stationID = d[l].stationID => k = l
    BY <1>5, MembersOf DEF OneOfEach, V, n
  <2>2. ASSUME NEW k \in 1 .. n
        PROVE  c[k] = d[k]
    <3>1. PICK l \in 1 .. n : c[k] = d[l]
      BY <1>5, <2>1 DEF SeqX!ToSet
    <3>2. k = l
      BY <2>1, <3>1
    <3> QED
      BY <3>1, <3>2
  <2> QED
    BY <2>1, <2>2, SameElements
<1>6. ASSUME NEW s \in Combinations(TriggersOf(m))
      PROVE  \E c \in Seq(Trigger) : OneOfEach(m, c) /\ SeqX!ToSet(c) = s
  <2> DEFINE c == [k \in 1 .. n |-> CHOOSE t \in s : t.stationID = V[k].key]
  <2>1. /\ s \subseteq TriggersOf(m) /\ StationsOf(s) = KeysOf(m)
        /\ \A t, u \in s : t # u => t.stationID # u.stationID /\ Coherent(t, u)
    BY <1>3 DEF Combinations
  <2>2. ASSUME NEW k \in 1 .. n
        PROVE  c[k] \in s /\ c[k].stationID = V[k].key
    <3>1. V[k].key \in StationsOf(s)
      BY <1>1, <1>3, <2>1
    <3>2. \E t \in s : t.stationID = V[k].key
      BY <3>1, Zenon DEF StationsOf
    <3> QED
      BY <3>2
  <2>3. c \in [1 .. n -> Trigger]
    BY <1>2, <2>1, <2>2
  <2> HIDE DEF c
  <2>4. c \in Seq(Trigger) /\ Len(c) = n /\ DOMAIN c = 1 .. n
    BY <1>1, <2>3
  <2>5. ASSUME NEW t \in s
        PROVE  \E k \in 1 .. n : c[k] = t
    <3>1. t.stationID \in KeysOf(m)
      BY <2>1 DEF StationsOf
    <3>2. PICK k \in 1 .. n : t.stationID = V[k].key
      BY <1>1, <1>3, <3>1
    <3>3. c[k] = t
      BY <2>1, <2>2, <3>2
    <3> QED
      BY <3>3
  <2>6. SeqX!ToSet(c) = s
    BY <2>2, <2>4, <2>5 DEF SeqX!ToSet
  <2>7. ASSUME NEW k \in 1 .. n
        PROVE  c[k] \in SeqX!ToSet(V[k].value)
    <3>1. c[k] \in TriggersOf(m) /\ c[k].stationID = V[k].key
      BY <2>1, <2>2
    <3>2. PICK l \in 1 .. n : \E i \in DOMAIN V[l].value : c[k] = V[l].value[i]
      BY <1>1, <1>2, <3>1
    <3>3. V[l].key = V[k].key
      BY <1>1, <3>1, <3>2 DEF Listed
    <3>4. k = l
      BY <1>1, <3>3 DEF KeysDiffer
    <3> QED
      BY <3>2, <3>4 DEF SeqX!ToSet
  <2>8. ASSUME NEW k \in 1 .. n, NEW l \in 1 .. n, l < k
        PROVE  Coherent(c[k], c[l])
    <3>1. c[k] \in s /\ c[l] \in s /\ c[k].stationID = V[k].key /\ c[l].stationID = V[l].key
      BY <2>2
    <3>2. k # l
      BY <2>8
    <3>3. c[k] # c[l]
      BY <1>1, <3>1, <3>2 DEF KeysDiffer
    <3> QED
      BY <2>1, <3>1, <3>3
  <2> QED
    BY <2>4, <2>6, <2>7, <2>8 DEF OneOfEach, V, n
<1> QED
  BY <1>4, <1>5, <1>6

\* The recursion finds every combination of the pool, once.
LEMMA FoundOnce ==
  ASSUME NEW m, Pooling(m)
  PROVE  /\ {SeqX!ToSet(c) : c \in SeqX!ToSet(Found(m))} = Combinations(TriggersOf(m))
         /\ Len(Found(m)) = Cardinality(Combinations(TriggersOf(m)))
<1> DEFINE F    == SeqX!ToSet(Found(m))
           C    == Combinations(TriggersOf(m))
           as   == [c \in F |-> SeqX!ToSet(c)]
<1>1. Found(m) \in Seq(Seq(Trigger)) /\ Distinct(Found(m))
      /\ F = {c \in Seq(Trigger) : OneOfEach(m, c)}
  BY FoundIs
<1>2. IsFiniteSet(F) /\ Cardinality(F) = Len(Found(m))
  BY <1>1, ElementsFinite
<1> HIDE DEF F, C
<1>3. \A c \in F : as[c] \in C
  BY <1>1, CombinationSets DEF C
<1>4. \A s \in C : \E c \in F : as[c] = s
  BY <1>1, CombinationSets DEF C
<1>5. \A c, d \in F : as[c] = as[d] => c = d
  BY <1>1, CombinationSets
<1>6. as \in Bijection(F, C)
  <2>1. as \in [F -> C]
    BY <1>3
  <2> HIDE DEF as
  <2> QED
    BY <1>4, <1>5, <2>1, Fun_IsBij
<1>7. Cardinality(F) = Cardinality(C)
  BY <1>2, <1>6, FS_Bijection DEF ExistsBijection
<1>8. {SeqX!ToSet(c) : c \in F} = C
  BY <1>3, <1>4
<1> QED
  BY <1>2, <1>7, <1>8 DEF F, C

----------------------------------------------------------------------------
(* Which stations a scan admits. *)

\* Every station of a set of triggers has one first trigger.
LEMMA HeadsAre ==
  ASSUME NEW C \in SUBSET Trigger
  PROVE  /\ Heads(C) \subseteq C
         /\ \A g, h \in Heads(C) : g.stationID = h.stationID => g = h
         /\ StationsOf(Heads(C)) = StationsOf(C)
<1>1. Heads(C) \subseteq C
  BY DEF Heads
<1>2. ASSUME NEW g \in Heads(C), NEW h \in Heads(C), g.stationID = h.stationID
      PROVE  g = h
  <2> SUFFICES ASSUME g # h PROVE FALSE
    OBVIOUS
  <2>1. Before(g, h) /\ Before(h, g)
    BY <1>2 DEF Heads
  <2> QED
    BY <1>1, <2>1, BeforeOrder
<1>3. ASSUME NEW t \in C
      PROVE  \E h \in Heads(C) : h.stationID = t.stationID
  <2> DEFINE S == {u \in C : u.stationID = t.stationID}
             h == Front(S)
  <2>1. S \in SUBSET Trigger /\ S # {}
    OBVIOUS
  <2> HIDE DEF S
  <2>2. h \in S /\ \A u \in S \ {h} : Before(h, u)
    BY <2>1, FrontIsFirst
  <2> HIDE DEF h
  <2>3. h \in C /\ h.stationID = t.stationID
    BY <2>2 DEF S
  <2>4. \A u \in C \ {h} : u.stationID = h.stationID => Before(h, u)
    BY <2>2, <2>3 DEF S
  <2> QED
    BY <2>3, <2>4 DEF Heads
<1>4. StationsOf(Heads(C)) = StationsOf(C)
  BY <1>1, <1>3, Zenon DEF StationsOf
<1> QED
  BY <1>1, <1>2, <1>4

\* No more than MaxStations are admitted, and all of them if there are fewer.
LEMMA AdmittedCount ==
  ASSUME NEW C \in SUBSET Trigger
  PROVE  LET K == StationsOf(AdmittedHeads(C))
         IN  /\ IsFiniteSet(K) /\ Cardinality(K) \in Nat /\ Cardinality(K) <= MaxStations
             /\ K \subseteq StationsOf(C)
             /\ IsFiniteSet(Heads(C)) /\ Cardinality(Heads(C)) \in Nat
             /\ Cardinality(K) < MaxStations <=> Cardinality(Heads(C)) < MaxStations
             /\ Cardinality(K) < MaxStations => K = StationsOf(C)
<1> DEFINE H  == Heads(C)
           A  == AdmittedHeads(C)
           K  == StationsOf(A)
           as == [h \in A |-> h.stationID]
<1>1. H \in SUBSET Trigger /\ MaxStations \in Nat
  BY HeadsAre, BoundAssumption
<1>2. A = Lowest(H, MaxStations)
  BY Zenon DEF AdmittedHeads, Lowest
<1>3. IsFiniteSet(H) /\ Cardinality(H) \in Nat
  BY <1>1, PositionIsRank
<1>4. \A g, h \in H : g.stationID = h.stationID => g = h
  BY HeadsAre
<1>5. StationsOf(H) = StationsOf(C)
  BY HeadsAre
<1>6. A \subseteq H
  BY DEF AdmittedHeads
<1> HIDE DEF H, A
<1>7. IsFiniteSet(A)
  BY <1>3, <1>6, FS_Subset
<1>8. as \in Bijection(A, K)
  <2>1. as \in [A -> K]
    BY DEF StationsOf
  <2>2. \A g, h \in A : as[g] = as[h] => g = h
    BY <1>4, <1>6
  <2>3. \A s \in K : \E h \in A : as[h] = s
    BY DEF StationsOf
  <2> HIDE DEF as, K
  <2> QED
    BY <2>1, <2>2, <2>3, Fun_IsBij
<1>9. IsFiniteSet(K) /\ Cardinality(K) = Cardinality(A)
  BY <1>7, <1>8, FS_Bijection DEF ExistsBijection
<1>10. CASE MaxStations <= Cardinality(H)
  <2>1. Cardinality(A) = MaxStations
    <3>1. MaxStations \in 0 .. Cardinality(H)
      BY <1>1, <1>3, <1>10
    <3> QED
      BY <1>1, <1>2, <3>1, LowestCount
  <2>2. K \subseteq StationsOf(C)
    BY <1>5, <1>6 DEF StationsOf
  <2> QED
    BY <1>1, <1>3, <1>9, <1>10, <2>1, <2>2 DEF H, A
<1>11. CASE Cardinality(H) < MaxStations
  <2>1. A = H
    <3>1. \A h \in H : DequePosition(H, h) \in 0 .. Cardinality(H) - 1
      BY <1>1, PositionOrder
    <3>2. \A h \in H : DequePosition(H, h) < MaxStations
      BY <1>1, <1>3, <1>11, <3>1
    <3> QED
      BY <1>2, <3>2 DEF Lowest, DequePosition
  <2> QED
    BY <1>1, <1>3, <1>5, <1>9, <1>11, <2>1 DEF H, A
<1> QED
  BY <1>1, <1>3, <1>10, <1>11

\* A later candidate changes the admitted stations only if it brings a new one and
\* there is room.
LEMMA AdmittedGrow ==
  ASSUME NEW C \in SUBSET Trigger, NEW t \in Trigger \ C, \A u \in C : Before(u, t)
  PROVE  LET K == StationsOf(AdmittedHeads(C))
         IN  StationsOf(AdmittedHeads(C \cup {t})) =
                IF t.stationID \in K \/ Cardinality(K) >= MaxStations
                THEN K ELSE K \cup {t.stationID}
<1> DEFINE s  == t.stationID
           B  == C \cup {t}
           H  == Heads(C)
           A  == AdmittedHeads(C)
           K  == StationsOf(A)
<1>1. /\ Cardinality(K) \in Nat /\ K \subseteq StationsOf(C) /\ MaxStations \in Nat
      /\ Cardinality(K) < MaxStations <=> Cardinality(H) < MaxStations
      /\ Cardinality(K) < MaxStations => K = StationsOf(C)
  BY AdmittedCount, BoundAssumption
<1>2. \A u \in C : u # t /\ u \in Trigger /\ ~Before(t, u)
  BY BeforeOrder
<1>3. H \subseteq C
  BY HeadsAre
<1>4. A = {h \in H : Cardinality({g \in H : Before(g, h)}) < MaxStations}
  BY Zenon DEF AdmittedHeads
<1>5. AdmittedHeads(B) = {h \in Heads(B) : Cardinality({g \in Heads(B) : Before(g, h)}) < MaxStations}
  BY Zenon DEF AdmittedHeads
<1> HIDE DEF A
<1>6. CASE s \in StationsOf(C)
  <2>1. Heads(B) = H
    <3>1. PICK u \in C : u.stationID = s
      BY <1>6 DEF StationsOf
    <3>2. t \notin Heads(B)
      BY <1>2, <3>1 DEF Heads
    <3>3. \A h \in C : h \in Heads(B) <=> h \in H
      BY <1>2 DEF Heads
    <3> QED
      BY <1>3, <3>2, <3>3 DEF Heads
  <2>2. AdmittedHeads(B) = A
    BY <1>4, <1>5, <2>1
  <2>3. s \in K \/ Cardinality(K) >= MaxStations
    <3> HIDE DEF K
    <3> QED
      BY <1>1, <1>6
  <2> QED
    BY <2>2, <2>3 DEF A
<1>7. CASE s \notin StationsOf(C)
  <2>1. \A u \in C : u.stationID # s
    BY <1>7 DEF StationsOf
  <2>2. Heads(B) = H \cup {t}
    <3>1. t \in Heads(B)
      BY <2>1 DEF Heads
    <3>2. \A h \in C : h \in Heads(B) <=> h \in H
      BY <2>1, <1>2 DEF Heads
    <3> QED
      BY <1>3, <3>1, <3>2 DEF Heads
  <2>3. \A h \in H : {g \in Heads(B) : Before(g, h)} = {g \in H : Before(g, h)}
    BY <1>2, <1>3, <2>2
  <2>4. {g \in Heads(B) : Before(g, t)} = H
    <3>1. ~Before(t, t)
      BY BeforeOrder
    <3> QED
      BY <1>3, <2>2, <3>1
  <2>5. t \notin H
    BY <1>3
  <2>6. s \notin K
    BY <1>1, <1>7
  <2> HIDE DEF H, K
  <2>7. AdmittedHeads(B) = A \cup (IF Cardinality(H) < MaxStations THEN {t} ELSE {})
    <3>1. \A h \in H : h \in AdmittedHeads(B) <=> h \in A
      BY <1>4, <1>5, <2>2, <2>3
    <3>2. t \in AdmittedHeads(B) <=> Cardinality(H) < MaxStations
      BY <1>5, <2>2, <2>4
    <3>3. AdmittedHeads(B) \subseteq H \cup {t} /\ A \subseteq H
      BY <1>4, <1>5, <2>2
    <3> QED
      BY <2>5, <3>1, <3>2, <3>3
  <2>8. CASE Cardinality(K) >= MaxStations
    <3>1. AdmittedHeads(B) = A
      BY <1>1, <2>7, <2>8
    <3> QED
      BY <2>8, <3>1 DEF K, A
  <2>9. CASE Cardinality(K) < MaxStations
    <3>1. AdmittedHeads(B) = A \cup {t}
      BY <1>1, <2>7, <2>9
    <3>2. StationsOf(AdmittedHeads(B)) = K \cup {s}
      BY <3>1 DEF StationsOf, K
    <3>3. ~(Cardinality(K) >= MaxStations)
      BY <1>1, <2>9
    <3> QED
      BY <2>6, <3>2, <3>3 DEF K, A
  <2> QED
    BY <1>1, <2>8, <2>9
<1> QED
  BY <1>6, <1>7

\* The candidates among the first k triggers of a deque.
Seen(D, k) == Candidates(D, Front(D)) \cap Lowest(D, k)

\* The next element of the deque is behind all that were seen.
LEMMA SeenNext ==
  ASSUME NEW D \in SUBSET Trigger, NEW k \in Nat, k < Cardinality(D)
  PROVE  LET t == Sorted(D)[k + 1]
         IN  /\ t \in D /\ t \notin Seen(D, k) /\ \A u \in Seen(D, k) : Before(u, t)
             /\ Seen(D, k) \subseteq D
             /\ Seen(D, k + 1) = IF t \in Candidates(D, Front(D))
                                 THEN Seen(D, k) \cup {t} ELSE Seen(D, k)
<1> DEFINE n == Cardinality(D)
           t == Sorted(D)[k + 1]
<1>1. n \in Nat /\ k + 1 \in 1 .. n /\ Len(Sorted(D)) = n /\ (k + 1) - 1 = k
  BY PositionIsRank, SortedIs
<1>2. /\ SeqX!ToSet(Sorted(D)) = D /\ Sorted(D) \in Seq(Trigger)
      /\ \A i \in 1 .. n : DequePosition(D, Sorted(D)[i]) = i - 1
  BY <1>1, SortedIs
<1>3. t \in D /\ DequePosition(D, t) = k
  BY <1>1, <1>2 DEF SeqX!ToSet
<1> HIDE DEF t
<1>4. /\ \A u \in D : DequePosition(D, u) \in 0 .. n - 1
      /\ \A u, v \in D : Before(u, v) => DequePosition(D, u) < DequePosition(D, v)
      /\ \A u, v \in D : DequePosition(D, u) = DequePosition(D, v) => u = v
  BY PositionOrder, PositionTaken
<1>5. \A i \in Nat : Lowest(D, i) = {u \in D : DequePosition(D, u) < i}
  BY Zenon DEF Lowest, DequePosition
<1>6. Lowest(D, k + 1) = Lowest(D, k) \cup {t} /\ t \notin Lowest(D, k)
  <2>1. \A u \in D : DequePosition(D, u) < k + 1 <=> DequePosition(D, u) < k \/ u = t
    BY <1>3, <1>4
  <2>2. Lowest(D, k + 1) = {u \in D : DequePosition(D, u) < k + 1}
    BY <1>5
  <2>3. Lowest(D, k) = {u \in D : DequePosition(D, u) < k}
    BY <1>5
  <2> QED
    BY <1>3, <2>1, <2>2, <2>3
<1>7. ASSUME NEW u \in Lowest(D, k)
      PROVE  u \in D /\ Before(u, t)
  <2>1. u \in D /\ DequePosition(D, u) < k
    BY <1>5
  <2>2. u # t /\ ~Before(t, u)
    BY <1>3, <1>4, <2>1
  <2> QED
    BY <1>3, <2>1, <2>2, BeforeOrder
<1> QED
  BY <1>3, <1>6, <1>7 DEF Seen, t

\* The trigger pool of a scan that has come to place k of a deque.
Scanned(m, D, k) ==
    /\ Pooling(m)
    /\ KeysOf(m) = StationsOf(AdmittedHeads(Seen(D, k)))
    /\ TriggersOf(m) = {t \in Seen(D, k) : t.stationID \in KeysOf(m)}

\* Before its first element the scan has admitted nothing.
LEMMA ScannedStart ==
  ASSUME NEW D \in SUBSET Trigger
  PROVE  Scanned(EmptyMap, D, 0)
<1>1. Lowest(D, 0) = {}
  <2>1. Cardinality(D) \in Nat /\ \A u \in D : DequePosition(D, u) \in 0 .. Cardinality(D) - 1
    BY PositionIsRank, PositionOrder
  <2>2. Lowest(D, 0) = {u \in D : DequePosition(D, u) < 0}
    BY Zenon DEF Lowest, DequePosition
  <2> QED
    BY <2>1, <2>2
<1>2. Seen(D, 0) = {}
  BY <1>1 DEF Seen
<1>3. AdmittedHeads({}) = {} /\ StationsOf({}) = {}
  BY DEF AdmittedHeads, Heads, StationsOf
<1> QED
  BY <1>2, <1>3, PoolingStart DEF Scanned

\* What one step of the scan makes of the pool.
Passed(m, D, t) ==
    IF /\ t \in Candidates(D, Front(D))
       /\ t.stationID \in KeysOf(m) \/ Len(m.m_values) < MaxStations
    THEN IF t.stationID \in KeysOf(m)
         THEN Update(m, t.stationID, Append(m.m_values[Position(m, t.stationID)].value, t))
         ELSE Insert(m, t.stationID, <<t>>)
    ELSE m

\* One step of the scan admits what LocPool admits.
LEMMA ScannedNext ==
  ASSUME NEW D \in SUBSET Trigger, NEW k \in Nat, k < Cardinality(D),
         NEW m, Scanned(m, D, k)
  PROVE  /\ Sorted(D)[k + 1] \notin TriggersOf(m)
         /\ Scanned(Passed(m, D, Sorted(D)[k + 1]), D, k + 1)
<1> DEFINE t == Sorted(D)[k + 1]
           s == t.stationID
           C == Seen(D, k)
           K == KeysOf(m)
           u == Passed(m, D, t)
<1>1. /\ t \in D /\ t \notin C /\ \A v \in C : Before(v, t)
      /\ C \subseteq D
      /\ t \in Candidates(D, Front(D)) => Seen(D, k + 1) = C \cup {t}
      /\ t \notin Candidates(D, Front(D)) => Seen(D, k + 1) = C
  BY SeenNext
<1>2. /\ Pooling(m) /\ K = StationsOf(AdmittedHeads(C))
      /\ TriggersOf(m) = {v \in C : v.stationID \in K}
  BY DEF Scanned
<1>3. Cardinality(K) = Len(m.m_values) /\ Len(m.m_values) \in Nat /\ MaxStations \in Nat
  BY <1>2, PoolStations, PoolingType, BoundAssumption
<1> HIDE DEF t, C
<1>4. C \in SUBSET Trigger /\ t \in Trigger \ C /\ t \notin TriggersOf(m)
  BY <1>1, <1>2
<1>5. CASE t \notin Candidates(D, Front(D))
  <2>1. u = m
    BY <1>5 DEF Passed
  <2> QED
    BY <1>1, <1>2, <1>4, <1>5, <2>1 DEF Scanned, t, C
<1>6. CASE t \in Candidates(D, Front(D))
  <2> DEFINE K2 == StationsOf(AdmittedHeads(C \cup {t}))
  <2>1. K2 = IF s \in K \/ Cardinality(K) >= MaxStations THEN K ELSE K \cup {s}
    <3> DEFINE L == StationsOf(AdmittedHeads(C))
    <3>1. StationsOf(AdmittedHeads(C \cup {t})) =
             IF t.stationID \in L \/ Cardinality(L) >= MaxStations THEN L ELSE L \cup {t.stationID}
      BY <1>1, <1>4, AdmittedGrow
    <3>2. K = L
      BY <1>2
    <3> HIDE DEF K, L
    <3> QED
      BY <3>1, <3>2
  <2>2. \A v \in C : Cardinality(K) < MaxStations => v.stationID \in K
    <3>1. Cardinality(K) < MaxStations => K = StationsOf(C)
      BY <1>2, <1>4, AdmittedCount
    <3> QED
      BY <3>1 DEF StationsOf
  <2> HIDE DEF K2, K, s
  <2>3. CASE s \in K
    <3>1. u = Update(m, s, Append(m.m_values[Position(m, s)].value, t))
      BY <1>6, <2>3 DEF Passed, K, s
    <3>2. Pooling(u) /\ KeysOf(u) = K /\ TriggersOf(u) = TriggersOf(m) \cup {t}
      BY <1>2, <1>4, <2>3, <3>1, PoolAppend DEF K, s
    <3>3. K2 = K
      BY <2>1, <2>3
    <3>4. TriggersOf(u) = {v \in C \cup {t} : v.stationID \in K}
      BY <1>2, <2>3, <3>2 DEF s
    <3> QED
      BY <1>1, <1>4, <1>6, <3>2, <3>3, <3>4 DEF Scanned, K2, t, C
  <2>4. CASE s \notin K /\ Len(m.m_values) < MaxStations
    <3>1. u = Insert(m, s, <<t>>)
      BY <1>6, <2>4 DEF Passed, K, s
    <3>2. Pooling(u) /\ KeysOf(u) = K \cup {s} /\ TriggersOf(u) = TriggersOf(m) \cup {t}
      BY <1>2, <1>4, <2>4, <3>1, PoolInsert DEF K, s
    <3>3. K2 = K \cup {s}
      BY <1>3, <2>1, <2>4 DEF K
    <3>4. TriggersOf(u) = {v \in C \cup {t} : v.stationID \in K \cup {s}}
      BY <1>2, <1>3, <2>2, <2>4, <3>2 DEF s, K
    <3> QED
      BY <1>1, <1>4, <1>6, <3>2, <3>3, <3>4 DEF Scanned, K2, t, C
  <2>5. CASE s \notin K /\ ~(Len(m.m_values) < MaxStations)
    <3>1. u = m
      BY <2>5 DEF Passed, K, s
    <3>2. K2 = K
      BY <1>3, <2>1, <2>5 DEF K
    <3>3. TriggersOf(m) = {v \in C \cup {t} : v.stationID \in K}
      BY <1>2, <2>5 DEF s, K
    <3> QED
      BY <1>1, <1>2, <1>4, <1>6, <3>1, <3>2, <3>3 DEF Scanned, K2, t, C, K
  <2> QED
    BY <2>3, <2>4, <2>5
<1> QED
  BY <1>5, <1>6

\* A later candidate is a head if it is the first of its station.
LEMMA HeadsGrow ==
  ASSUME NEW C \in SUBSET Trigger, NEW t \in Trigger \ C, \A u \in C : Before(u, t)
  PROVE  Heads(C \cup {t}) = IF t.stationID \in StationsOf(C) THEN Heads(C) ELSE Heads(C) \cup {t}
<1>1. \A u \in C : u # t /\ u \in Trigger /\ ~Before(t, u)
  BY BeforeOrder
<1>2. Heads(C) \subseteq C /\ Heads(C \cup {t}) \subseteq C \cup {t}
  BY DEF Heads
<1>3. CASE t.stationID \in StationsOf(C)
  <2>1. PICK u \in C : u.stationID = t.stationID
    BY <1>3 DEF StationsOf
  <2>2. t \notin Heads(C \cup {t})
    BY <1>1, <2>1 DEF Heads
  <2>3. \A h \in C : h \in Heads(C \cup {t}) <=> h \in Heads(C)
    BY <1>1 DEF Heads
  <2>4. Heads(C \cup {t}) = Heads(C)
    BY <1>2, <2>2, <2>3
  <2> QED
    BY <1>3, <2>4
<1>4. CASE t.stationID \notin StationsOf(C)
  <2>1. \A u \in C : u.stationID # t.stationID
    BY <1>4 DEF StationsOf
  <2>2. t \in Heads(C \cup {t})
    BY <2>1 DEF Heads
  <2>3. \A h \in C : h \in Heads(C \cup {t}) <=> h \in Heads(C)
    BY <1>1, <2>1 DEF Heads
  <2>4. Heads(C \cup {t}) = Heads(C) \cup {t}
    BY <1>2, <2>2, <2>3
  <2> QED
    BY <1>4, <2>4
<1> QED
  BY <1>3, <1>4

\* The triggers of S carry their places in the deque, the others nothing.
CarriedBy(S, D, idx) ==
    /\ idx \in [Trigger -> Nat]
    /\ \A t \in Trigger : idx[t] = IF t \in S THEN DequePosition(D, t) ELSE 0

\* What one step of the scan makes of the indices.
MarkedNext(m, D, k, idx) ==
    LET t == Sorted(D)[k + 1]
    IN  IF /\ t \in Candidates(D, Front(D))
           /\ t.stationID \notin KeysOf(m) /\ Len(m.m_values) < MaxStations
        THEN [idx EXCEPT ![t] = k]
        ELSE idx

\* One step of the scan gives an index to the head that it admits, if any.
LEMMA CarriedNext ==
  ASSUME NEW D \in SUBSET Trigger, NEW k \in Nat, k < Cardinality(D),
         NEW m, Scanned(m, D, k), NEW idx,
         CarriedBy(TriggersOf(m) \cap Heads(Seen(D, k)), D, idx)
  PROVE  CarriedBy(TriggersOf(Passed(m, D, Sorted(D)[k + 1])) \cap Heads(Seen(D, k + 1)), D,
                   MarkedNext(m, D, k, idx))
<1> DEFINE t == Sorted(D)[k + 1]
           s == t.stationID
           C == Seen(D, k)
           B == Seen(D, k + 1)
           K == KeysOf(m)
           u == Passed(m, D, t)
           cand == t \in Candidates(D, Front(D))
           room == Len(m.m_values) < MaxStations
           next == MarkedNext(m, D, k, idx)
           P == TriggersOf(m)
           Q == TriggersOf(u)
<1>1. /\ t \in D /\ t \notin C /\ \A v \in C : Before(v, t)
      /\ C \subseteq D
      /\ cand => B = C \cup {t}
      /\ ~cand => B = C
  BY SeenNext
<1>2. /\ Pooling(m) /\ K = StationsOf(AdmittedHeads(C))
      /\ P = {v \in C : v.stationID \in K}
  BY DEF Scanned
<1>3. Cardinality(K) = Len(m.m_values) /\ Len(m.m_values) \in Nat /\ MaxStations \in Nat
  BY <1>2, PoolStations, PoolingType, BoundAssumption
<1>4. /\ idx \in [Trigger -> Nat]
      /\ \A v \in Trigger : idx[v] = IF v \in P \cap Heads(C) THEN DequePosition(D, v) ELSE 0
  BY DEF CarriedBy
<1>5. DequePosition(D, t) = k
  BY EraseSorted
<1>6. next = IF cand /\ s \notin K /\ room THEN [idx EXCEPT ![t] = k] ELSE idx
  BY DEF MarkedNext
<1>7. u = IF cand /\ (s \in K \/ room)
          THEN IF s \in K
               THEN Update(m, s, Append(m.m_values[Position(m, s)].value, t))
               ELSE Insert(m, s, <<t>>)
          ELSE m
  BY DEF Passed
<1> HIDE DEF t, C, B, u, cand, next, P, Q
<1>8. C \in SUBSET Trigger /\ t \in Trigger \ C /\ t \notin P
  BY <1>1, <1>2
<1>9. Heads(C \cup {t}) = IF s \in StationsOf(C) THEN Heads(C) ELSE Heads(C) \cup {t}
  BY <1>1, <1>8, HeadsGrow
<1>10. K \subseteq StationsOf(C) /\ (room => K = StationsOf(C)) /\ Heads(C) \subseteq C
  <2>1. /\ StationsOf(AdmittedHeads(C)) \subseteq StationsOf(C)
        /\ Cardinality(StationsOf(AdmittedHeads(C))) < MaxStations =>
              StationsOf(AdmittedHeads(C)) = StationsOf(C)
    BY <1>8, AdmittedCount
  <2>2. Heads(C) \subseteq C
    BY <1>8, HeadsAre
  <2> QED
    BY <1>2, <1>3, <2>1, <2>2
<1> HIDE DEF K, s, room
<1>11. /\ cand /\ s \in K => Q = P \cup {t}
       /\ cand /\ s \notin K /\ room => Q = P \cup {t}
       /\ ~cand => Q = P
       /\ s \notin K /\ ~room => Q = P
  <2>1. ASSUME cand, s \in K
        PROVE  Q = P \cup {t}
    <3>1. u = Update(m, s, Append(m.m_values[Position(m, s)].value, t))
      BY <1>7, <2>1
    <3> QED
      BY <1>2, <1>8, <2>1, <3>1, PoolAppend DEF Q, P, K, s
  <2>2. ASSUME cand, s \notin K, room
        PROVE  Q = P \cup {t}
    <3>1. u = Insert(m, s, <<t>>)
      BY <1>7, <2>2
    <3> QED
      BY <1>2, <1>8, <2>2, <3>1, PoolInsert DEF Q, P, K, s
  <2>3. ~cand \/ (s \notin K /\ ~room) => Q = P
    BY <1>7 DEF Q, P
  <2> QED
    BY <2>1, <2>2, <2>3
<1>12. next \in [Trigger -> Nat]
  BY <1>4, <1>6
<1>13. ASSUME NEW v \in Trigger
       PROVE  next[v] = IF v \in Q \cap Heads(B) THEN DequePosition(D, v) ELSE 0
  <2>1. CASE ~cand
    BY <1>1, <1>4, <1>6, <1>11, <2>1
  <2>2. CASE cand /\ s \in K
    <3>1. Heads(B) = Heads(C)
      BY <1>1, <1>9, <1>10, <2>2
    <3>2. v \in Q \cap Heads(B) <=> v \in P \cap Heads(C)
      BY <1>8, <1>10, <1>11, <2>2, <3>1
    <3> QED
      BY <1>4, <1>6, <2>2, <3>2
  <2>3. CASE cand /\ s \notin K /\ room
    <3>1. Heads(B) = Heads(C) \cup {t} /\ Q = P \cup {t} /\ next = [idx EXCEPT ![t] = k]
      BY <1>1, <1>6, <1>9, <1>10, <1>11, <2>3
    <3>2. CASE v = t
      <4>1. next[v] = k
        BY <1>4, <3>1, <3>2
      <4>2. v \in Q \cap Heads(B)
        BY <3>1, <3>2
      <4> QED
        BY <1>5, <3>2, <4>1, <4>2
    <3>3. CASE v # t
      <4>1. next[v] = idx[v]
        BY <1>4, <3>1, <3>3
      <4>2. v \in Q \cap Heads(B) <=> v \in P \cap Heads(C)
        BY <3>1, <3>3
      <4> QED
        BY <1>4, <4>1, <4>2
    <3> QED
      BY <3>2, <3>3
  <2>4. CASE cand /\ s \notin K /\ ~room
    <3>1. Q = P /\ (Heads(B) = Heads(C) \/ Heads(B) = Heads(C) \cup {t})
      BY <1>1, <1>9, <1>11, <2>4
    <3>2. v \in Q \cap Heads(B) <=> v \in P \cap Heads(C)
      BY <1>8, <3>1
    <3> QED
      BY <1>4, <1>6, <2>4, <3>2
  <2> QED
    BY <2>1, <2>2, <2>3, <2>4
<1>14. CarriedBy(Q \cap Heads(B), D, next)
  BY <1>12, <1>13 DEF CarriedBy
<1> QED
  BY <1>14 DEF Q, B, next, u, t

----------------------------------------------------------------------------
(* The end of the scan. *)

\* operator- has the right sign.
LEMMA MinusType ==
  ASSUME NEW a \in Nat, NEW b \in Nat
  PROVE  /\ Minus(a, b) \in Int /\ Minus(b, a) = -Minus(a, b)
         /\ a <= b => Minus(a, b) <= 0
<1>1. CASE a <= b
  <2>1. Minus(b, a) \in Int /\ Minus(b, a) >= b - a /\ Minus(a, b) = -Minus(b, a)
    BY <1>1, MinusNeverUnder
  <2> QED
    BY <1>1, <2>1
<1>2. CASE b <= a
  <2>1. Minus(a, b) \in Int /\ Minus(a, b) >= a - b /\ Minus(b, a) = -Minus(a, b)
    BY <1>2, MinusNeverUnder
  <2> QED
    BY <1>2, <2>1
<1> QED
  BY <1>1, <1>2

\* Differences add up.
LEMMA MinusAdds ==
  ASSUME NEW a \in Nat, NEW b \in Nat, NEW c \in Nat
  PROVE  Minus(a, c) = Minus(a, b) + Minus(b, c)
<1> DEFINE W(t) == Weighted(WholeSeconds(t))
           p(t) == m_ActPointSec(t)
<1>1. \A t \in Nat : W(t) \in Int /\ p(t) \in Int
  <2>1. \A t \in Nat : WholeSeconds(t) \in Nat /\ p(t) \in Int
    BY DEF WholeSeconds, m_ActPointSec, TicksPerSecond
  <2> QED
    BY <2>1, WeightedExcess
<1>2. \A t, u \in Nat : Minus(t, u) = (W(t) - W(u)) * 10000 + p(t) - p(u)
  BY DEF Minus, TicksPerSecond
<1> HIDE DEF W, p
<1> QED
  BY <1>1, <1>2

\* Behind the first trigger that ends the scan there is no candidate.
LEMMA SeenAll ==
  ASSUME NEW D \in SUBSET Trigger, D # {}, NEW k \in Nat,
         \/ k = Cardinality(D)
         \/ /\ k < Cardinality(D)
            /\ LET ahead == Minus(Front(D).time, Sorted(D)[k + 1].time)
               IN  ahead < -MaxBaseLineAsTOA \/ ahead > 0
  PROVE  Seen(D, k) = Candidates(D, Front(D))
<1> DEFINE n == Cardinality(D)
           b == Front(D)
<1>1. n \in Nat /\ MaxBaseLineAsTOA \in Nat
  BY PositionIsRank, BoundAssumption
<1>2. Lowest(D, k) = {u \in D : DequePosition(D, u) < k}
  BY Zenon DEF Lowest, DequePosition
<1>3. \A u \in D : DequePosition(D, u) \in 0 .. n - 1
  BY PositionOrder
<1>4. Candidates(D, b) \subseteq D
  BY DEF Candidates
<1>5. CASE k = n
  <2>1. Lowest(D, k) = D
    BY <1>1, <1>2, <1>3, <1>5
  <2> QED
    BY <1>4, <2>1 DEF Seen
<1>6. CASE k < n /\ k # n
  <2> DEFINE t == Sorted(D)[k + 1]
             far == Minus(b.time, t.time)
  <2>1. t \in D /\ DequePosition(D, t) = k
    <3>1. k + 1 \in 1 .. n /\ (k + 1) - 1 = k
      BY <1>1, <1>6
    <3> QED
      BY <3>1, SortedIs DEF SeqX!ToSet
  <2>2. far < -MaxBaseLineAsTOA \/ far > 0
    BY <1>6
  <2> HIDE DEF t
  <2>3. b \in D /\ \A u \in D \ {b} : Before(b, u)
    BY FrontIsFirst
  <2>4. \A u \in D : u \in Trigger /\ u.time \in Nat
    BY TriggerFields
  <2>5. \A u \in D : b.time <= u.time
    BY <2>3, <2>4, BeforeOrder
  <2>6. far \in Int /\ far <= 0
    BY <2>1, <2>3, <2>4, <2>5, MinusType
  <2>7. ASSUME NEW u \in Candidates(D, b), ~(DequePosition(D, u) < k)
        PROVE  FALSE
    <3>1. u \in D /\ -MaxBaseLineAsTOA <= Minus(b.time, u.time)
      BY DEF Candidates
    <3>2. t.time <= u.time
      <4>1. ~Before(u, t)
        <5>1. Before(u, t) => DequePosition(D, u) < DequePosition(D, t)
          BY <2>1, <3>1, PositionOrder
        <5> QED
          BY <2>1, <2>7, <5>1
      <4>2. u = t \/ Before(t, u)
        BY <2>1, <2>4, <3>1, <4>1, BeforeOrder
      <4> QED
        BY <2>1, <2>4, <3>1, <4>2, BeforeOrder
    <3>3. Minus(t.time, u.time) \in Int /\ Minus(t.time, u.time) <= 0
      BY <2>1, <2>4, <3>1, <3>2, MinusType
    <3>4. Minus(b.time, u.time) = far + Minus(t.time, u.time)
      BY <2>1, <2>3, <2>4, <3>1, MinusAdds
    <3> HIDE DEF far
    <3> QED
      BY <1>1, <2>2, <2>6, <3>1, <3>3, <3>4
  <2>8. \A u \in Candidates(D, b) : u \in Lowest(D, k)
    BY <1>2, <1>4, <2>7
  <2> QED
    BY <2>8 DEF Seen
<1> QED
  BY <1>1, <1>5, <1>6

\* The scan ends with the trigger pool of the deque.
LEMMA ScannedPool ==
  ASSUME NEW D \in SUBSET Trigger, NEW k, NEW m, Scanned(m, D, k),
         Seen(D, k) = Candidates(D, Front(D))
  PROVE  TriggersOf(m) = TriggerPool(D, Front(D))
BY Zenon DEF Scanned, TriggerPool

----------------------------------------------------------------------------
(* The inductive invariant of a pass. *)

\* The deque is the sorted one until the first erase.
DequeInv ==
    /\ at \in {"scan", "rounds", "erase", "done"}
    /\ arrived \in SUBSET Trigger /\ arrived # {}
    /\ allTriggers \in Seq(Trigger) /\ j \in Nat /\ round \in 0 .. 2 /\ lig_time \in Int
    /\ at \in {"scan", "rounds"} => allTriggers = Sorted(arrived)
    /\ at = "scan" => j <= Len(allTriggers)

\* A trigger that carries an index stands there.
IndexInv ==
    /\ trigIdx \in [Trigger -> Nat]
    /\ at \in {"scan", "rounds"} =>
          \A t \in Trigger : trigIdx[t] # 0 =>
             trigIdx[t] < Len(allTriggers) /\ allTriggers[trigIdx[t] + 1] = t

\* The pool while it is built, and what may have been dropped from it since.
PoolInv ==
    /\ Pooling(triggerPool) /\ TriggersOf(triggerPool) \subseteq arrived
    /\ at = "scan" => Scanned(triggerPool, arrived, j)
    /\ at \in {"rounds", "erase"} =>
          \/ Len(triggerPool.m_values) >= CredibleStations
          \/ TriggersOf(triggerPool) = TriggerPool(arrived, Front(arrived))

\* The residual, the index and the result belong to the combinations of the pool.
ResidualInv ==
    /\ locCombinationPool \in Seq(Seq(Trigger)) /\ MinSq \in {"below", "at", "above"}
    /\ finalCombIdx \in Nat /\ result \in Seq(Trigger)
    /\ at = "scan" => locCombinationPool = <<>>
    /\ at \in {"rounds", "erase"} => locCombinationPool = Found(triggerPool)
    /\ locCombinationPool # <<>> =>
          /\ locCombinationPool = Found(triggerPool)
          /\ finalCombIdx \in 1 .. Len(locCombinationPool)
          /\ result = locCombinationPool[finalCombIdx]
    /\ MinSq # "above" => locCombinationPool # <<>> /\ Len(result) >= MinStations
    /\ at = "erase" => MinSq = "below"

\* What is left to erase is inside the deque, and remains so when it shrinks.
EraseInv ==
    /\ indices \in Seq(Nat)
    /\ at = "erase" =>
          /\ Len(indices) <= Len(allTriggers)
          /\ indices # <<>> => indices[1] < Len(allTriggers)
          /\ \A p \in 1 .. Len(indices) - 1 : indices[p + 1] < indices[p] \/ indices[p + 1] = 0

PassInv == DequeInv /\ IndexInv /\ PoolInv /\ ResidualInv /\ EraseInv

----------------------------------------------------------------------------

\* The invariant holds when a pass begins.
LEMMA PassStarts == Init => PassInv
<1> SUFFICES ASSUME Init PROVE PassInv
  OBVIOUS
<1>1. arrived \in SUBSET Trigger /\ arrived # {}
  BY DequesAssumption DEF Init
<1>2. allTriggers = Sorted(arrived) /\ allTriggers \in Seq(Trigger) /\ Len(allTriggers) \in Nat
  BY <1>1, SortedIs DEF Init
<1>3. DequeInv
  BY <1>1, <1>2 DEF Init, DequeInv
<1>4. IndexInv
  BY DEF Init, IndexInv, NoIndex
<1>5. triggerPool = EmptyMap /\ at = "scan" /\ j = 0
  BY DEF Init
<1>6. PoolInv
  <2>1. Scanned(EmptyMap, arrived, 0)
    BY <1>1, ScannedStart
  <2> QED
    BY <1>5, <2>1, PoolingStart DEF PoolInv
<1>7. ResidualInv
  BY DEF Init, ResidualInv
<1>8. EraseInv
  BY DEF Init, EraseInv
<1> QED
  BY <1>3, <1>4, <1>6, <1>7, <1>8 DEF PassInv

\* Two stations are on the same side of the base trigger's pulse, or not.
LEMMA PulseSides ==
  ASSUME PassInv, at = "scan", j < Len(allTriggers)
  PROVE  /\ baseTrig = Front(arrived) /\ baseTrig \in arrived /\ oneTrig \in arrived
         /\ oneTrig = Sorted(arrived)[j + 1] /\ j \in Nat /\ j < Cardinality(arrived)
         /\ oneTrig \in Candidates(arrived, Front(arrived)) <=> ~Opposite /\ ~Beyond /\ Close
<1>1. /\ arrived \in SUBSET Trigger /\ arrived # {} /\ j \in Nat
      /\ allTriggers = Sorted(arrived)
  BY DEF PassInv, DequeInv
<1>2. /\ Len(Sorted(arrived)) = Cardinality(arrived) /\ Cardinality(arrived) \in Nat
      /\ SeqX!ToSet(Sorted(arrived)) = arrived /\ Sorted(arrived) \in Seq(Trigger)
      /\ Sorted(arrived)[1] = Front(arrived)
  BY <1>1, SortedIs, SortedFront, PositionIsRank
<1>3. baseTrig = Front(arrived) /\ baseTrig \in arrived
  BY <1>1, <1>2, FrontIsFirst DEF baseTrig
<1>4. oneTrig = Sorted(arrived)[j + 1] /\ oneTrig \in arrived /\ j < Cardinality(arrived)
  <2>1. j + 1 \in 1 .. Cardinality(arrived)
    BY <1>1, <1>2
  <2> QED
    BY <1>1, <1>2, <2>1 DEF oneTrig, SeqX!ToSet
<1>5. /\ baseTrig.Value * oneTrig.Value \in Int
      /\ diffTime \in Int /\ MaxBaseLineAsTOA \in Nat
  <2>1. baseTrig \in Trigger /\ oneTrig \in Trigger
    BY <1>1, <1>3, <1>4
  <2>2. /\ baseTrig.Value \in Int /\ oneTrig.Value \in Int
        /\ baseTrig.time \in Nat /\ oneTrig.time \in Nat
    BY <2>1, TriggerAssumption
  <2>3. baseTrig.Value * oneTrig.Value \in Int
    BY <2>2
  <2>4. diffTime \in Int
    BY <2>2, MinusType DEF diffTime
  <2> QED
    BY <2>3, <2>4, BoundAssumption
<1>6. oneTrig \in Candidates(arrived, baseTrig) <=>
         /\ baseTrig.Value * oneTrig.Value >= 0
         /\ -MaxBaseLineAsTOA <= diffTime /\ diffTime <= 0
         /\ -diffTime <= SiteTime[baseTrig.stationID][oneTrig.stationID] + Tolerance
  BY <1>4, Zenon DEF Candidates, diffTime
<1>7. ~Opposite <=> baseTrig.Value * oneTrig.Value >= 0
  <2> DEFINE product == baseTrig.Value * oneTrig.Value
  <2>1. Opposite <=> product < 0
    BY DEF Opposite
  <2>2. product \in Int
    BY <1>5
  <2> HIDE DEF product
  <2>3. ~Opposite <=> product >= 0
    BY <2>1, <2>2
  <2> QED
    BY <2>3 DEF product
<1>8. ~Beyond <=> -MaxBaseLineAsTOA <= diffTime /\ diffTime <= 0
  <2> DEFINE d == diffTime
  <2>1. Beyond <=> d < -MaxBaseLineAsTOA \/ d > 0
    BY DEF Beyond
  <2>2. d \in Int
    BY <1>5
  <2> HIDE DEF d
  <2>3. ~Beyond <=> -MaxBaseLineAsTOA <= d /\ d <= 0
    BY <1>5, <2>1, <2>2
  <2> QED
    BY <2>3 DEF d
<1> QED
  BY <1>1, <1>3, <1>4, <1>6, <1>7, <1>8 DEF Close

\* What a step of the scan does to the pool and to the indices.
LEMMA ScanIs ==
  ASSUME PassInv, Scan
  PROVE  /\ oneTrig = Sorted(arrived)[j + 1] /\ j \in Nat /\ j < Cardinality(arrived)
         /\ Scanned(triggerPool, arrived, j)
         /\ triggerPool' = Passed(triggerPool, arrived, oneTrig)
         /\ trigIdx' = MarkedNext(triggerPool, arrived, j, trigIdx)
<1> DEFINE t == oneTrig
           s == oneTrig.stationID
<1>1. at = "scan" /\ j < Len(allTriggers) /\ (Opposite \/ ~Beyond)
  BY DEF Scan
<1>2. /\ t \in arrived /\ t = Sorted(arrived)[j + 1] /\ j \in Nat /\ j < Cardinality(arrived)
      /\ t \in Candidates(arrived, Front(arrived)) <=> ~Opposite /\ ~Beyond /\ Close
  BY <1>1, PulseSides
<1>3. /\ arrived \in SUBSET Trigger /\ Pooling(triggerPool) /\ Scanned(triggerPool, arrived, j)
  BY <1>1 DEF PassInv, DequeInv, PoolInv
<1>4. t \in Trigger /\ s \in Station
  BY <1>2, <1>3, TriggerAssumption
<1>5. Pooled <=> s \in KeysOf(triggerPool)
  BY <1>3, <1>4, PoolFinds DEF Pooled
<1>6. ~Full <=> Len(triggerPool.m_values) < MaxStations
  <2>1. Len(triggerPool.m_values) \in Nat /\ MaxStations \in Nat
    BY <1>3, PoolingType, BoundAssumption
  <2> QED
    BY <2>1 DEF Full, PoolSize
<1> DEFINE adds == ~Opposite /\ Close /\ (Pooled \/ ~Full)
<1>7. adds <=> /\ t \in Candidates(arrived, Front(arrived))
               /\ s \in KeysOf(triggerPool) \/ Len(triggerPool.m_values) < MaxStations
  BY <1>1, <1>2, <1>5, <1>6
<1>8. triggerPool' = Passed(triggerPool, arrived, t)
  <2>1. CASE ~adds
    <3>1. triggerPool' = triggerPool
      BY <2>1, Zenon DEF Scan
    <3> QED
      BY <1>7, <2>1, <3>1, Zenon DEF Passed
  <2>2. CASE adds /\ Pooled
    <3>1. triggerPool' = Update(triggerPool, s, Append(
                           triggerPool.m_values[Position(triggerPool, s)].value, t))
      BY <2>2, Zenon DEF Scan
    <3>2. Passed(triggerPool, arrived, t) = Update(triggerPool, s, Append(
                           triggerPool.m_values[Position(triggerPool, s)].value, t))
      BY <1>5, <1>7, <2>2, Zenon DEF Passed
    <3> QED
      BY <3>1, <3>2
  <2>3. CASE adds /\ ~Pooled
    <3>1. triggerPool' = Insert(triggerPool, s, <<t>>)
      BY <2>3, Zenon DEF Scan
    <3>2. Passed(triggerPool, arrived, t) = Insert(triggerPool, s, <<t>>)
      BY <1>5, <1>7, <2>3, Zenon DEF Passed
    <3> QED
      BY <3>1, <3>2
  <2> QED
    BY <2>1, <2>2, <2>3
<1>9. trigIdx' = MarkedNext(triggerPool, arrived, j, trigIdx)
  <2> DEFINE new == /\ t \in Candidates(arrived, Front(arrived))
                    /\ s \notin KeysOf(triggerPool) /\ Len(triggerPool.m_values) < MaxStations
  <2>1. new <=> adds /\ ~Pooled
    BY <1>5, <1>6, <1>7
  <2>2. MarkedNext(triggerPool, arrived, j, trigIdx) = IF new THEN [trigIdx EXCEPT ![t] = j] ELSE trigIdx
    BY <1>2, Zenon DEF MarkedNext
  <2>3. CASE ~adds
    <3>1. trigIdx' = trigIdx
      BY <2>3, Zenon DEF Scan
    <3> QED
      BY <2>1, <2>2, <2>3, <3>1, Zenon
  <2>4. CASE adds /\ Pooled
    <3>1. trigIdx' = trigIdx
      BY <2>4, Zenon DEF Scan
    <3> QED
      BY <2>1, <2>2, <2>4, <3>1, Zenon
  <2>5. CASE adds /\ ~Pooled
    <3>1. trigIdx' = [trigIdx EXCEPT ![t] = j]
      BY <2>5, Zenon DEF Scan
    <3> QED
      BY <2>1, <2>2, <2>5, <3>1, Zenon
  <2> QED
    BY <2>3, <2>4, <2>5
<1> QED
  BY <1>2, <1>3, <1>8, <1>9

\* A step of the scan.
LEMMA ScanKeeps == PassInv /\ Scan => PassInv'
<1> SUFFICES ASSUME PassInv, Scan PROVE PassInv'
  OBVIOUS
<1> DEFINE t == oneTrig
           s == oneTrig.stationID
<1>1. at = "scan" /\ j < Len(allTriggers) /\ (Opposite \/ ~Beyond) /\ j' = j + 1
      /\ UNCHANGED <<at, allTriggers, arrived, located, round, lig_time, indices>>
  BY DEF Scan
<1>2. /\ t \in arrived /\ t = Sorted(arrived)[j + 1] /\ j \in Nat /\ j < Cardinality(arrived)
      /\ t \in Candidates(arrived, Front(arrived)) <=> ~Opposite /\ ~Beyond /\ Close
  BY <1>1, PulseSides
<1>3. /\ arrived \in SUBSET Trigger /\ Pooling(triggerPool)
      /\ TriggersOf(triggerPool) \subseteq arrived /\ Scanned(triggerPool, arrived, j)
  BY <1>1 DEF PassInv, DequeInv, PoolInv
<1>4. t \in Trigger /\ s \in Station
  BY <1>2, <1>3, TriggerAssumption
<1>8. /\ triggerPool' = Passed(triggerPool, arrived, t)
      /\ trigIdx' = MarkedNext(triggerPool, arrived, j, trigIdx)
  BY ScanIs
<1>9. Scanned(triggerPool', arrived, j + 1)
  BY <1>2, <1>3, <1>8, ScannedNext
<1>10. Pooling(triggerPool') /\ TriggersOf(triggerPool') \subseteq arrived
  <2>1. TriggersOf(triggerPool') \subseteq Seen(arrived, j + 1)
    BY <1>9 DEF Scanned
  <2>2. Seen(arrived, j + 1) \subseteq arrived
    BY DEF Seen, Candidates
  <2> QED
    BY <1>9, <2>1, <2>2 DEF Scanned
<1>11. trigIdx' = trigIdx \/ trigIdx' = [trigIdx EXCEPT ![t] = j]
  BY <1>2, <1>8 DEF MarkedNext
<1>12. DequeInv'
  <2>1. Len(allTriggers) \in Nat /\ j + 1 <= Len(allTriggers) /\ j + 1 \in Nat
    BY <1>1, <1>2 DEF PassInv, DequeInv
  <2> QED
    BY <1>1, <2>1 DEF PassInv, DequeInv
<1>13. IndexInv'
  <2>1. allTriggers[j + 1] = t /\ j < Len(allTriggers) /\ j \in Nat
    BY <1>1, <1>2 DEF oneTrig
  <2>2. trigIdx \in [Trigger -> Nat]
        /\ \A u \in Trigger : trigIdx[u] # 0 =>
              trigIdx[u] < Len(allTriggers) /\ allTriggers[trigIdx[u] + 1] = u
    BY <1>1 DEF PassInv, IndexInv
  <2> HIDE DEF t
  <2>3. trigIdx' \in [Trigger -> Nat]
        /\ \A u \in Trigger : trigIdx'[u] # 0 =>
              trigIdx'[u] < Len(allTriggers) /\ allTriggers[trigIdx'[u] + 1] = u
    BY <1>4, <1>11, <2>1, <2>2
  <2> QED
    BY <1>1, <2>3 DEF IndexInv
<1>14. PoolInv'
  BY <1>1, <1>9, <1>10 DEF PoolInv
<1>15. ResidualInv'
  BY <1>1 DEF PassInv, ResidualInv, located
<1>16. EraseInv'
  BY <1>1 DEF PassInv, EraseInv
<1> QED
  BY <1>12, <1>13, <1>14, <1>15, <1>16 DEF PassInv

\* What erasing one place leaves of the deque.
LEMMA EraseIs ==
  ASSUME allTriggers \in Seq(Trigger), NEW index \in Nat, index < Len(allTriggers)
  PROVE  /\ Erase(index) \in Seq(Trigger) /\ Len(Erase(index)) = Len(allTriggers) - 1
         /\ \A k \in 1 .. Len(allTriggers) - 1 :
               Erase(index)[k] = IF k < index + 1 THEN allTriggers[k] ELSE allTriggers[k + 1]
<1>1. index + 1 \in 1 .. Len(allTriggers)
  OBVIOUS
<1> QED
  BY <1>1, RemoveAtIs DEF Erase

\* The base trigger can be erased as long as nothing else was.
LEMMA BaseErased ==
  ASSUME PassInv, at \in {"scan", "rounds"}
  PROVE  /\ allTriggers = Sorted(arrived) /\ 0 < Len(allTriggers)
         /\ Erase(0) \in Seq(Trigger) /\ Len(Erase(0)) = Len(allTriggers) - 1
<1>1. /\ arrived \in SUBSET Trigger /\ arrived # {} /\ allTriggers \in Seq(Trigger)
      /\ allTriggers = Sorted(arrived)
  BY DEF PassInv, DequeInv
<1>2. 0 < Len(allTriggers)
  BY <1>1, SortedFront
<1> QED
  BY <1>1, <1>2, EraseIs

\* The base trigger is erased.
LEMMA GiveUpKeeps == PassInv /\ (TooFewStations \/ ResidualTooLarge) => PassInv'
<1> SUFFICES ASSUME PassInv, TooFewStations \/ ResidualTooLarge PROVE PassInv'
  OBVIOUS
<1>1. /\ at \in {"scan", "rounds"} /\ allTriggers' = Erase(0) /\ at' = "done"
      /\ UNCHANGED <<arrived, j, triggerPool, trigIdx, located, round, lig_time, indices>>
  BY DEF TooFewStations, ResidualTooLarge
<1>2. Erase(0) \in Seq(Trigger)
  BY <1>1, BaseErased
<1> HIDE DEF Erase
<1>3. DequeInv'
  BY <1>1, <1>2 DEF PassInv, DequeInv
<1>4. IndexInv' /\ PoolInv' /\ EraseInv'
  BY <1>1 DEF PassInv, IndexInv, PoolInv, EraseInv
<1>5. ResidualInv'
  BY <1>1 DEF PassInv, ResidualInv, located
<1> QED
  BY <1>3, <1>4, <1>5 DEF PassInv

\* A round that changes nothing.
LEMMA KeepKeeps == PassInv /\ KeepStations => PassInv'
<1> SUFFICES ASSUME PassInv, KeepStations PROVE PassInv'
  OBVIOUS
<1>1. /\ round' = round + 1 /\ round < 2
      /\ UNCHANGED <<at, allTriggers, arrived, j, triggerPool, trigIdx, located, lig_time, indices>>
  BY DEF KeepStations
<1>2. DequeInv'
  BY <1>1 DEF PassInv, DequeInv
<1>3. IndexInv' /\ PoolInv' /\ EraseInv'
  BY <1>1 DEF PassInv, IndexInv, PoolInv, EraseInv
<1>4. ResidualInv'
  BY <1>1 DEF PassInv, ResidualInv, located
<1> QED
  BY <1>2, <1>3, <1>4 DEF PassInv

\* An enumeration replaces the combinations, and the residual with them unless there
\* is none.
LEMMA Enumerated ==
  ASSUME ResidualInv, MinSq = "above", at \in {"scan", "rounds"}, at' = "rounds",
         Enumerate, Pooling(triggerPool')
  PROVE  ResidualInv'
<1>1. locCombinationPool' = Found(triggerPool')
  BY Zenon DEF Enumerate, Found
<1>2. locCombinationPool' \in Seq(Seq(Trigger))
  BY <1>1, FoundIs
<1>3. CASE locCombinationPool' = <<>>
  <2>1. UNCHANGED <<MinSq, finalCombIdx, result>>
    BY <1>3 DEF Enumerate
  <2> QED
    BY <1>1, <1>2, <1>3, <2>1 DEF ResidualInv
<1>4. CASE locCombinationPool' # <<>>
  <2>1. ProcessCombinationPool(locCombinationPool')
    BY <1>4 DEF Enumerate
  <2>2. PICK i \in 1 .. Len(locCombinationPool') :
           /\ MinSq' \in {"below", "at", "above"}
           /\ Len(locCombinationPool'[i]) < MinStations => MinSq' = "above"
           /\ finalCombIdx' = i /\ result' = locCombinationPool'[i]
    BY <2>1 DEF ProcessCombinationPool
  <2>3. i \in Nat /\ result' \in Seq(Trigger)
    BY <1>2, <2>2
  <2>4. MinSq' # "above" => Len(result') >= MinStations
    BY <2>2, <2>3, BoundAssumption
  <2> QED
    BY <1>1, <1>2, <1>4, <2>2, <2>3, <2>4 DEF ResidualInv
<1> QED
  BY <1>3, <1>4

\* When the scan is over it has seen every candidate.
LEMMA ScanEnds ==
  ASSUME PassInv, at = "scan", ScanOver
  PROVE  /\ Seen(arrived, j) = Candidates(arrived, Front(arrived))
         /\ TriggersOf(triggerPool) = TriggerPool(arrived, Front(arrived))
<1>1. /\ arrived \in SUBSET Trigger /\ arrived # {} /\ j \in Nat
      /\ Scanned(triggerPool, arrived, j)
      /\ allTriggers = Sorted(arrived) /\ Len(allTriggers) = Cardinality(arrived)
  BY SortedIs DEF PassInv, DequeInv, PoolInv
<1>2. Seen(arrived, j) = Candidates(arrived, Front(arrived))
  <2>1. CASE j = Len(allTriggers)
    BY <1>1, <2>1, SeenAll
  <2>2. CASE j < Len(allTriggers) /\ Beyond
    <3>1. baseTrig = Front(arrived) /\ oneTrig = Sorted(arrived)[j + 1] /\ j < Cardinality(arrived)
      BY <2>2, PulseSides
    <3>2. LET d == Minus(Front(arrived).time, Sorted(arrived)[j + 1].time)
          IN  d < -MaxBaseLineAsTOA \/ d > 0
      BY <2>2, <3>1 DEF Beyond, diffTime
    <3> QED
      BY <1>1, <3>1, <3>2, SeenAll
  <2> QED
    BY <2>1, <2>2 DEF ScanOver
<1> QED
  BY <1>1, <1>2, ScannedPool

\* The first enumeration.
LEMMA FirstKeeps == PassInv /\ FirstResiduals => PassInv'
<1> SUFFICES ASSUME PassInv, FirstResiduals PROVE PassInv'
  OBVIOUS
<1>1. /\ at = "scan" /\ ScanOver /\ at' = "rounds" /\ triggerPool' = triggerPool /\ Enumerate
      /\ UNCHANGED <<allTriggers, arrived, j, trigIdx, round, lig_time, indices>>
  BY DEF FirstResiduals
<1>2. /\ arrived \in SUBSET Trigger /\ arrived # {} /\ j \in Nat
      /\ Scanned(triggerPool, arrived, j) /\ Pooling(triggerPool)
      /\ allTriggers = Sorted(arrived) /\ Len(allTriggers) = Cardinality(arrived)
  BY <1>1, SortedIs DEF PassInv, DequeInv, PoolInv
<1>4. TriggersOf(triggerPool) = TriggerPool(arrived, Front(arrived))
  BY <1>1, ScanEnds
<1>5. MinSq = "above"
  BY <1>1 DEF PassInv, ResidualInv
<1>6. ResidualInv'
  BY <1>1, <1>2, <1>5, Enumerated DEF PassInv
<1>7. PoolInv'
  BY <1>1, <1>4 DEF PassInv, PoolInv
<1>8. DequeInv' /\ IndexInv' /\ EraseInv'
  BY <1>1 DEF PassInv, DequeInv, IndexInv, EraseInv
<1> QED
  BY <1>6, <1>7, <1>8 DEF PassInv

\* The stations of a combination are those of its pool.
LEMMA FoundMember ==
  ASSUME NEW m, Pooling(m), NEW i \in 1 .. Len(Found(m))
  PROVE  /\ Found(m)[i] \in SeqX!ToSet(Found(m)) /\ Found(m)[i] \in Seq(Trigger)
         /\ OneOfEach(m, Found(m)[i])
<1>1. Found(m) \in Seq(Seq(Trigger)) /\ SeqX!ToSet(Found(m)) = {c \in Seq(Trigger) : OneOfEach(m, c)}
  BY FoundIs
<1> HIDE DEF Found
<1>2. i \in DOMAIN Found(m)
  BY <1>1
<1>3. Found(m)[i] \in SeqX!ToSet(Found(m))
  BY <1>2 DEF SeqX!ToSet
<1> QED
  BY <1>1, <1>3

\* A round that drops a station.
LEMMA DropKeeps == PassInv /\ DropWorstStation => PassInv'
<1> SUFFICES ASSUME PassInv, DropWorstStation PROVE PassInv'
  OBVIOUS
<1>1. /\ at = "rounds" /\ at' = "rounds" /\ round < 2 /\ round' = round + 1 /\ Enumerate
      /\ MinSq = "above" /\ Len(triggerPool.m_values) > CredibleStations
      /\ UNCHANGED <<at, allTriggers, arrived, j, trigIdx, lig_time, indices>>
  BY DEF DropWorstStation, WorthDropping, PoolSize
<1>2. /\ Pooling(triggerPool) /\ TriggersOf(triggerPool) \subseteq arrived
      /\ locCombinationPool = Found(triggerPool)
      /\ locCombinationPool # <<>> => finalCombIdx \in 1 .. Len(locCombinationPool)
  BY <1>1 DEF PassInv, PoolInv, ResidualInv
<1>3. Len(triggerPool.m_values) \in Nat /\ CredibleStations \in Nat
  BY <1>2, PoolingType, BoundAssumption
<1>4. /\ Pooling(triggerPool') /\ TriggersOf(triggerPool') \subseteq arrived
      /\ Len(triggerPool'.m_values) >= CredibleStations
  <2>1. CASE locCombinationPool = <<>>
    <3>1. triggerPool' = triggerPool
      BY <2>1 DEF DropWorstStation
    <3> QED
      BY <1>1, <1>2, <1>3, <3>1
  <2>2. CASE locCombinationPool # <<>>
    <3>1. PICK s \in StationsOf(SeqX!ToSet(locCombinationPool[finalCombIdx])) :
             triggerPool' = EraseKey(triggerPool, s)
      BY <2>2 DEF DropWorstStation
    <3>2. s \in KeysOf(triggerPool)
      <4>1. OneOfEach(triggerPool, locCombinationPool[finalCombIdx])
        BY <1>2, <2>2, FoundMember
      <4> QED
        BY <1>2, <3>1, <4>1, MembersOf
    <3>3. /\ Pooling(triggerPool') /\ Len(triggerPool'.m_values) = Len(triggerPool.m_values) - 1
          /\ TriggersOf(triggerPool') = {t \in TriggersOf(triggerPool) : t.stationID # s}
      BY <1>2, <3>1, <3>2, PoolErase
    <3>4. Len(triggerPool'.m_values) >= CredibleStations
      BY <1>1, <1>3, <3>3
    <3> QED
      BY <1>2, <3>3, <3>4
  <2> QED
    BY <2>1, <2>2
<1>5. ResidualInv'
  BY <1>1, <1>4, Enumerated DEF PassInv
<1>6. PoolInv'
  BY <1>1, <1>4 DEF PoolInv
<1>7. DequeInv' /\ IndexInv' /\ EraseInv'
  BY <1>1 DEF PassInv, DequeInv, IndexInv, EraseInv
<1> QED
  BY <1>5, <1>6, <1>7 DEF PassInv

\* set_second stays within the integers.
LEMMA SetSecondType ==
  ASSUME NEW t \in Nat, NEW s \in Int
  PROVE  set_second(t, s) \in Int
<1>1. t - SecondsOfMinute(t) \in Nat
  <2>1. SecondsOfMinute(t) \in Nat /\ t \div 600000 \in Nat
        /\ t = 600000 * (t \div 600000) + SecondsOfMinute(t)
    BY MinuteSplit
  <2> HIDE DEF SecondsOfMinute
  <2> QED
    BY <2>1, SMT
<1> DEFINE full == t - SecondsOfMinute(t)
<1>2. t \div 10000 \in Int /\ full \div 10000 \in Int /\ s \div 10000 \in Int /\ s % 10000 \in Int
  <2> HIDE DEF full
  <2> QED
    BY <1>1, SMT DEF full
<1> HIDE DEF full
<1>3. set_second(t, s) = IF s < 0 THEN FromFields(WholeSeconds(t) - 1, s + TicksPerSecond)
                         ELSE FromFields(WholeSeconds(full) + s \div TicksPerSecond,
                                         s % TicksPerSecond)
  BY Zenon DEF set_second, full
<1>4. \A p, q \in Int : FromFields(p, q) \in Int
  BY DEF FromFields, TicksPerSecond
<1>5. /\ WholeSeconds(t) - 1 \in Int /\ s + TicksPerSecond \in Int
      /\ WholeSeconds(full) + s \div TicksPerSecond \in Int /\ s % TicksPerSecond \in Int
  BY <1>2 DEF WholeSeconds, TicksPerSecond
<1>6. /\ FromFields(WholeSeconds(t) - 1, s + TicksPerSecond) \in Int
      /\ FromFields(WholeSeconds(full) + s \div TicksPerSecond, s % TicksPerSecond) \in Int
  BY <1>4, <1>5, Zenon
<1> QED
  BY <1>3, <1>6, Zenon

\* Seconds within the minute are natural numbers of ticks.
LEMMA SecondsType ==
  ASSUME NEW t \in Nat
  PROVE  SecondsOfMinute(t) \in Nat
BY MinuteSplit, SMT

\* The solver's time is a travel time before the least of the seconds.
LEMMA OccurIs ==
  ASSUME NEW c \in Seq(Trigger), c # <<>>, NEW occur_t \in OccurTimes(c)
  PROVE  \E e \in SeqX!ToSet(c), d \in Delays :
            /\ occur_t = SecondsOfMinute(e.time) - d
            /\ \A u \in SeqX!ToSet(c) : SecondsOfMinute(e.time) <= SecondsOfMinute(u.time)
<1> DEFINE arrivals == {SecondsOfMinute(t.time) : t \in SeqX!ToSet(c)}
<1>1. SeqX!ToSet(c) \subseteq Trigger /\ c[1] \in SeqX!ToSet(c)
  <2>1. 1 \in DOMAIN c /\ \A i \in DOMAIN c : c[i] \in Trigger
    OBVIOUS
  <2> QED
    BY <2>1 DEF SeqX!ToSet
<1>2. \A t \in Trigger : t.time \in Nat
  BY TriggerFields
<1>3. arrivals \subseteq Nat /\ arrivals # {}
  BY <1>1, <1>2, SecondsType
<1>4. \E a \in arrivals : \A b \in arrivals : a <= b
  <2>1. \A S : S \subseteq Nat /\ S # {} => \E a \in S : \A b \in S : a <= b
    BY LeastNat
  <2> HIDE DEF arrivals
  <2> QED
    BY <1>3, <2>1
<1> DEFINE earliest == CHOOSE a \in arrivals : \A b \in arrivals : a <= b
<1>5. earliest \in arrivals /\ \A b \in arrivals : earliest <= b
  <2> HIDE DEF arrivals
  <2> QED
    BY <1>4
<1>6. OccurTimes(c) = {earliest - d : d \in Delays}
  BY Zenon DEF OccurTimes
<1> HIDE DEF earliest
<1>7. PICK d \in Delays : occur_t = earliest - d
  BY <1>6
<1>8. PICK e \in SeqX!ToSet(c) : earliest = SecondsOfMinute(e.time)
  BY <1>5
<1>9. \A u \in SeqX!ToSet(c) : earliest <= SecondsOfMinute(u.time)
  BY <1>5
<1> HIDE DEF arrivals
<1> QED
  BY <1>7, <1>8, <1>9

\* What is accepted: the best combination of the current pool.
LEMMA ResultIs ==
  ASSUME PassInv, at \in {"rounds", "erase"}, MinSq # "above"
  PROVE  /\ Pooling(triggerPool) /\ OneOfEach(triggerPool, result)
         /\ result \in Seq(Trigger) /\ result # <<>> /\ Len(result) = Len(triggerPool.m_values)
         /\ result = locCombinationPool[finalCombIdx]
         /\ finalCombIdx \in 1 .. Len(locCombinationPool)
<1>1. /\ Pooling(triggerPool) /\ locCombinationPool = Found(triggerPool)
      /\ finalCombIdx \in 1 .. Len(locCombinationPool)
      /\ result = locCombinationPool[finalCombIdx] /\ Len(result) >= MinStations
      /\ result \in Seq(Trigger)
  BY DEF PassInv, PoolInv, ResidualInv
<1>2. OneOfEach(triggerPool, result)
  BY <1>1, FoundMember
<1>3. result # <<>>
  BY <1>1, BoundAssumption
<1> QED
  BY <1>1, <1>2, <1>3 DEF OneOfEach

\* The indices that are left fall, but for the zeros at the end.
Falling(L) ==
    /\ L \in Seq(Nat)
    /\ \A p, q \in 1 .. Len(L) : p < q => L[q] < L[p] \/ L[q] = 0

\* The indices of the result that is accepted: each of its members has one.
LEMMA IndicesFall ==
  ASSUME PassInv, at = "rounds", MinSq = "below"
  PROVE  LET L == Descending([i \in 1 .. Len(result) |-> trigIdx[result[i]]])
         IN  /\ Falling(L) /\ Len(L) = Cardinality(SeqX!ToSet(result))
             /\ SeqX!ToSet(L) = {trigIdx[t] : t \in SeqX!ToSet(result)}
<1> DEFINE n == Len(result)
           s == [i \in 1 .. n |-> trigIdx[result[i]]]
           L == Descending(s)
<1>1. Pooling(triggerPool) /\ OneOfEach(triggerPool, result) /\ result \in Seq(Trigger)
  BY ResultIs
<1>2. /\ trigIdx \in [Trigger -> Nat]
      /\ \A t \in Trigger : trigIdx[t] # 0 => allTriggers[trigIdx[t] + 1] = t
  BY DEF PassInv, IndexInv
<1>3. /\ DOMAIN result = 1 .. n /\ n \in Nat
      /\ \A i \in 1 .. n : result[i] \in Trigger
      /\ \A i, k \in 1 .. n : result[i].stationID = result[k].stationID => i = k
  BY <1>1, MembersOf
<1>4. Cardinality(SeqX!ToSet(result)) = n
  <2>1. Distinct(result)
    BY <1>3 DEF Distinct
  <2> QED
    BY <1>1, <2>1, ElementsFinite
<1>5. s \in Seq(Nat) /\ Len(s) = n /\ \A i \in 1 .. n : s[i] = trigIdx[result[i]]
  BY <1>2, <1>3
<1>6. \A i, k \in 1 .. n : i # k /\ s[i] = s[k] => s[i] = 0
  <2> SUFFICES ASSUME NEW i \in 1 .. n, NEW k \in 1 .. n, i # k, s[i] = s[k], s[i] # 0
               PROVE  FALSE
    OBVIOUS
  <2>1. allTriggers[s[i] + 1] = result[i] /\ allTriggers[s[k] + 1] = result[k]
    BY <1>2, <1>3, <1>5
  <2>2. result[i] = result[k]
    BY <2>1
  <2> QED
    BY <1>3, <2>2
<1> HIDE DEF s
<1>7. /\ L \in Seq(Nat) /\ Len(L) = n
      /\ \A p \in 1 .. n : \E i \in 1 .. n : L[p] = s[i]
      /\ \A i \in 1 .. n : \E p \in 1 .. n : L[p] = s[i]
      /\ \A p, q \in 1 .. n : p < q =>
            \/ L[q] < L[p]
            \/ \E i, k \in 1 .. n : i # k /\ s[i] = s[k] /\ s[i] = L[q]
  <2>1. s \in Seq(Nat) /\ Len(s) = n
    BY <1>5
  <2> HIDE DEF n
  <2>2. /\ Descending(s) \in Seq(Nat) /\ Len(Descending(s)) = Len(s)
        /\ \A p \in 1 .. Len(s) : \E i \in 1 .. Len(s) : Descending(s)[p] = s[i]
        /\ \A i \in 1 .. Len(s) : \E p \in 1 .. Len(s) : Descending(s)[p] = s[i]
        /\ \A p, q \in 1 .. Len(s) : p < q =>
              \/ Descending(s)[q] < Descending(s)[p]
              \/ \E i, k \in 1 .. Len(s) : i # k /\ s[i] = s[k] /\ s[i] = Descending(s)[q]
    BY <2>1, DescendingIs
  <2> QED
    BY <2>1, <2>2, Zenon DEF L
<1> HIDE DEF L, n
<1>8. Falling(L)
  <2>1. ASSUME NEW p \in 1 .. n, NEW q \in 1 .. n, p < q
        PROVE  L[q] < L[p] \/ L[q] = 0
    <3>1. \A i, k \in 1 .. n : i # k /\ s[i] = s[k] /\ s[i] = L[q] => L[q] = 0
      <4> SUFFICES ASSUME NEW i \in 1 .. n, NEW k \in 1 .. n, i # k, s[i] = s[k], s[i] = L[q]
                   PROVE  L[q] = 0
        OBVIOUS
      <4>1. s[i] = 0
        BY <1>6
      <4> QED
        BY <4>1
    <3>2. \/ L[q] < L[p]
          \/ \E i, k \in 1 .. n : i # k /\ s[i] = s[k] /\ s[i] = L[q]
      BY <1>7, <2>1, Zenon
    <3> QED
      BY <3>1, <3>2, Zenon
  <2>2. L \in Seq(Nat) /\ Len(L) = n
    BY <1>7
  <2>3. \A p, q \in 1 .. Len(L) : p < q => L[q] < L[p] \/ L[q] = 0
    BY <2>1, <2>2, Zenon
  <2> QED
    BY <2>2, <2>3, Zenon DEF Falling
<1>9. SeqX!ToSet(L) = {trigIdx[t] : t \in SeqX!ToSet(result)}
  <2>1. DOMAIN L = 1 .. n
    BY <1>7
  <2>2. \A x : x \in SeqX!ToSet(L) <=> \E p \in 1 .. n : x = L[p]
    BY <2>1, Zenon DEF SeqX!ToSet
  <2>3. \A x : x \in SeqX!ToSet(result) <=> \E i \in 1 .. n : x = result[i]
    BY <1>3, Zenon DEF SeqX!ToSet
  <2>4. ASSUME NEW x \in SeqX!ToSet(L)
        PROVE  x \in {trigIdx[t] : t \in SeqX!ToSet(result)}
    <3>1. PICK p \in 1 .. n : x = L[p]
      BY <2>2
    <3>2. PICK i \in 1 .. n : L[p] = s[i]
      BY <1>7
    <3>3. x = trigIdx[result[i]] /\ result[i] \in SeqX!ToSet(result)
      BY <1>5, <2>3, <3>1, <3>2
    <3> QED
      BY <3>3
  <2>5. ASSUME NEW t \in SeqX!ToSet(result)
        PROVE  trigIdx[t] \in SeqX!ToSet(L)
    <3>1. PICK i \in 1 .. n : t = result[i]
      BY <2>3
    <3>2. PICK p \in 1 .. n : L[p] = s[i]
      BY <1>7
    <3>3. L[p] = trigIdx[t]
      BY <1>5, <3>1, <3>2
    <3> QED
      BY <2>2, <3>3
  <2> QED
    BY <2>4, <2>5
<1>10. L = Descending([i \in 1 .. Len(result) |-> trigIdx[result[i]]])
  BY DEF L, s, n
<1>11. Falling(L) /\ Len(L) = Cardinality(SeqX!ToSet(result))
       /\ SeqX!ToSet(L) = {trigIdx[t] : t \in SeqX!ToSet(result)}
  BY <1>4, <1>7, <1>8, <1>9
<1> HIDE DEF L
<1> QED
  BY <1>10, <1>11, Zenon

\* The indices that are erased: inside the deque, descending but for zeros.
LEMMA IndicesOf ==
  ASSUME PassInv, at = "rounds", MinSq = "below"
  PROVE  LET indexed == Descending([i \in 1 .. Len(result) |-> trigIdx[result[i]]])
         IN  /\ indexed \in Seq(Nat) /\ Len(indexed) <= Len(allTriggers)
             /\ indexed # <<>> => indexed[1] < Len(allTriggers)
             /\ \A p \in 1 .. Len(indexed) - 1 :
                   indexed[p + 1] < indexed[p] \/ indexed[p + 1] = 0
<1> DEFINE comb == SeqX!ToSet(result)
           r == Descending([i \in 1 .. Len(result) |-> trigIdx[result[i]]])
<1>1. Pooling(triggerPool) /\ OneOfEach(triggerPool, result)
  BY ResultIs
<1>2. /\ arrived \in SUBSET Trigger /\ arrived # {} /\ allTriggers = Sorted(arrived)
      /\ trigIdx \in [Trigger -> Nat]
      /\ \A t \in Trigger : trigIdx[t] # 0 => trigIdx[t] < Len(allTriggers)
      /\ TriggersOf(triggerPool) \subseteq arrived
  BY DEF PassInv, DequeInv, IndexInv, PoolInv
<1>3. Len(allTriggers) = Cardinality(arrived) /\ Cardinality(arrived) \in Nat
      /\ IsFiniteSet(arrived) /\ 0 < Len(allTriggers)
  BY <1>2, SortedIs, SortedFront, PositionIsRank
<1>4. comb \subseteq arrived
  BY <1>1, <1>2, MembersOf
<1>5. Falling(r) /\ Len(r) = Cardinality(comb) /\ SeqX!ToSet(r) = {trigIdx[t] : t \in comb}
  BY IndicesFall
<1> HIDE DEF comb, r
<1>6. Len(r) <= Len(allTriggers)
  BY <1>3, <1>4, <1>5, FS_Subset
<1>7. r \in Seq(Nat) /\ Len(r) \in Nat
      /\ \A p \in 1 .. Len(r) - 1 : r[p + 1] < r[p] \/ r[p + 1] = 0
  <2>1. r \in Seq(Nat) /\ \A p, q \in 1 .. Len(r) : p < q => r[q] < r[p] \/ r[q] = 0
    BY <1>5 DEF Falling
  <2>2. \A p \in 1 .. Len(r) - 1 : p \in 1 .. Len(r) /\ p + 1 \in 1 .. Len(r) /\ p < p + 1
    BY <2>1
  <2> QED
    BY <2>1, <2>2
<1>8. r # <<>> => r[1] < Len(allTriggers)
  <2> SUFFICES ASSUME r # <<>> PROVE r[1] < Len(allTriggers)
    OBVIOUS
  <2>1. r[1] \in SeqX!ToSet(r)
    BY <1>7 DEF SeqX!ToSet
  <2>2. PICK t \in comb : r[1] = trigIdx[t]
    BY <1>5, <2>1
  <2> QED
    BY <1>2, <1>3, <1>4, <2>2
<1> QED
  BY <1>6, <1>7, <1>8 DEF r

\* The result is computed and the indices are sorted.
LEMMA AcceptKeeps == PassInv /\ Accept => PassInv'
<1> SUFFICES ASSUME PassInv, Accept PROVE PassInv'
  OBVIOUS
<1>1. /\ at = "rounds" /\ MinSq = "below" /\ at' = "erase"
      /\ UNCHANGED <<allTriggers, arrived, j, triggerPool, trigIdx, located, round>>
  BY DEF Accept
<1>2. /\ result = locCombinationPool[finalCombIdx]
      /\ result \in Seq(Trigger) /\ result # <<>>
  BY <1>1, ResultIs
<1>3. PICK occur_t \in OccurTimes(result) : lig_time' = set_second(result[1].time, occur_t)
  BY <1>2 DEF Accept
<1>4. lig_time' \in Int
  <2>1. PICK e \in SeqX!ToSet(result), d \in Delays : occur_t = SecondsOfMinute(e.time) - d
    BY <1>2, OccurIs
  <2>2. e \in Trigger /\ result[1] \in Trigger /\ d \in Nat
    BY <1>2, DequesAssumption DEF SeqX!ToSet
  <2>3. e.time \in Nat /\ result[1].time \in Nat
    BY <2>2, TriggerFields
  <2>4. SecondsOfMinute(e.time) \in Nat
    BY <2>3, SecondsType
  <2>5. occur_t \in Int
    BY <2>1, <2>2, <2>4
  <2> QED
    BY <1>3, <2>3, <2>5, SetSecondType
<1>5. indices' = Descending([i \in 1 .. Len(result) |-> trigIdx[result[i]]])
  BY <1>2 DEF Accept
<1>6. /\ indices' \in Seq(Nat) /\ Len(indices') <= Len(allTriggers)
      /\ indices' # <<>> => indices'[1] < Len(allTriggers)
      /\ \A p \in 1 .. Len(indices') - 1 : indices'[p + 1] < indices'[p] \/ indices'[p + 1] = 0
  BY <1>1, <1>5, IndicesOf
<1>7. DequeInv'
  BY <1>1, <1>4 DEF PassInv, DequeInv
<1>8. IndexInv' /\ PoolInv'
  BY <1>1 DEF PassInv, IndexInv, PoolInv
<1>9. ResidualInv'
  BY <1>1 DEF PassInv, ResidualInv, located
<1>10. EraseInv'
  BY <1>1, <1>6 DEF EraseInv
<1> QED
  BY <1>7, <1>8, <1>9, <1>10 DEF PassInv

\* Each erase finds its index inside the deque, and the next one will.
LEMMA EraseKeeps == PassInv /\ EraseOne => PassInv'
<1> SUFFICES ASSUME PassInv, EraseOne PROVE PassInv'
  OBVIOUS
<1> DEFINE n == Len(indices)
           N == Len(allTriggers)
<1>1. /\ at = "erase" /\ at' = at /\ indices # <<>> /\ allTriggers' = Erase(Head(indices))
      /\ indices' = Tail(indices)
      /\ UNCHANGED <<arrived, j, triggerPool, trigIdx, located, round, lig_time>>
  BY DEF EraseOne
<1>2. /\ allTriggers \in Seq(Trigger) /\ indices \in Seq(Nat) /\ n <= N
      /\ indices[1] < N
      /\ \A p \in 1 .. n - 1 : indices[p + 1] < indices[p] \/ indices[p + 1] = 0
  BY <1>1 DEF PassInv, DequeInv, EraseInv
<1>3. n \in Nat \ {0} /\ N \in Nat /\ \A p \in 1 .. n : indices[p] \in Nat
  BY <1>1, <1>2
<1>4. Head(indices) = indices[1] /\ indices[1] \in Nat
  BY <1>1, <1>2, <1>3
<1>5. Erase(Head(indices)) \in Seq(Trigger) /\ Len(Erase(Head(indices))) = N - 1
  BY <1>2, <1>4, EraseIs
<1>6. /\ Tail(indices) \in Seq(Nat) /\ Len(Tail(indices)) = n - 1
      /\ \A p \in 1 .. n - 1 : Tail(indices)[p] = indices[p + 1]
  BY <1>1, <1>2
<1> DEFINE s == Tail(indices)
<1> HIDE DEF n, N, s
<1>7. s \in Seq(Nat) /\ Len(s) = n - 1 /\ \A p \in 1 .. n - 1 : s[p] = indices[p + 1]
  BY <1>6 DEF s
<1>8. s # <<>> => s[1] < N - 1
  <2> SUFFICES ASSUME s # <<>> PROVE s[1] < N - 1
    OBVIOUS
  <2>1. n - 1 >= 1
    BY <1>3, <1>7
  <2>2. s[1] = indices[2] /\ (indices[2] < indices[1] \/ indices[2] = 0)
    BY <1>2, <1>3, <1>7, <2>1
  <2>3. indices[1] \in Nat /\ indices[2] \in Nat
    BY <1>3, <2>1
  <2> QED
    BY <1>2, <1>3, <2>1, <2>2, <2>3
<1>9. \A p \in 1 .. Len(s) - 1 : s[p + 1] < s[p] \/ s[p + 1] = 0
  <2> SUFFICES ASSUME NEW p \in 1 .. n - 2 PROVE s[p + 1] < s[p] \/ s[p + 1] = 0
    BY <1>3, <1>7
  <2>1. p \in 1 .. n - 1 /\ p + 1 \in 1 .. n - 1
    BY <1>3
  <2> QED
    BY <1>2, <1>7, <2>1
<1>10. EraseInv'
  BY <1>1, <1>2, <1>3, <1>5, <1>7, <1>8, <1>9 DEF EraseInv, s, n, N
<1>11. DequeInv'
  BY <1>1, <1>5 DEF PassInv, DequeInv
<1>12. IndexInv' /\ PoolInv'
  BY <1>1 DEF PassInv, IndexInv, PoolInv
<1>13. ResidualInv'
  BY <1>1 DEF PassInv, ResidualInv, located
<1> QED
  BY <1>10, <1>11, <1>12, <1>13 DEF PassInv

\* The end of the pass, and nothing.
LEMMA RestKeeps == PassInv /\ (AllErased \/ UNCHANGED vars) => PassInv'
<1> SUFFICES ASSUME PassInv, AllErased \/ UNCHANGED vars PROVE PassInv'
  OBVIOUS
<1>1. /\ at' = at \/ at' = "done"
      /\ UNCHANGED <<allTriggers, arrived, j, triggerPool, trigIdx, locCombinationPool, MinSq,
                     finalCombIdx, result, round, lig_time, indices>>
  BY DEF AllErased, vars, located
<1>2. DequeInv'
  BY <1>1 DEF PassInv, DequeInv
<1>3. IndexInv' /\ PoolInv' /\ EraseInv'
  BY <1>1 DEF PassInv, IndexInv, PoolInv, EraseInv
<1>4. ResidualInv'
  BY <1>1 DEF PassInv, ResidualInv
<1> QED
  BY <1>2, <1>3, <1>4 DEF PassInv

\* The invariant of a pass.
THEOREM PassInvariant == Spec => []PassInv
<1>1. PassInv /\ [Next]_vars => PassInv'
  BY ScanKeeps, GiveUpKeeps, FirstKeeps, DropKeeps, KeepKeeps, AcceptKeeps, EraseKeeps, RestKeeps
     DEF Next
<1> QED
  BY <1>1, PassStarts, PTL DEF Spec

\* Every variable keeps its type; the posted time may be negative only if the travel
\* times are longer than any a network has.
THEOREM PassTypeCorrect == Spec => []TypeOK
<1>1. PassInv => TypeOK
  <2> SUFFICES ASSUME PassInv PROVE TypeOK
    OBVIOUS
  <2>1. triggerPool.m_values \in Seq([key : Station, value : Seq(Trigger)])
    <3> DEFINE V == triggerPool.m_values
               R == [key : Station, value : Seq(Trigger)]
    <3>1. /\ V \in Seq([key : DOMAIN Hash, value : Seq(Trigger)])
          /\ DOMAIN V = 1 .. Len(V) /\ Len(V) \in Nat
          /\ \A k \in DOMAIN V : /\ V[k].value \in Seq(Trigger) /\ V[k].key \in Station
                                 /\ V[k] = [key |-> V[k].key, value |-> V[k].value]
      BY PoolingType DEF PassInv, PoolInv
    <3>2. \A k \in DOMAIN V : V[k] \in R
      <4> HIDE DEF V
      <4>1. ASSUME NEW k \in DOMAIN V
            PROVE  [key |-> V[k].key, value |-> V[k].value] \in R
        BY <3>1
      <4> QED
        BY <3>1, <4>1
    <3> HIDE DEF R, V
    <3>3. V \in Seq(R)
      BY <3>1, <3>2
    <3> QED
      BY <3>3 DEF R, V
  <2> QED
    BY <2>1 DEF PassInv, DequeInv, IndexInv, PoolInv, ResidualInv, EraseInv, TypeOK
<1> QED
  BY <1>1, PassInvariant, PTL

\* No erase of a located combination is outside the deque.
THEOREM ErasesInside == Spec => []EraseInRange
<1>1. PassInv => EraseInRange
  <2> SUFFICES ASSUME PassInv, at = "erase", indices # <<>>
               PROVE  Head(indices) < Len(allTriggers)
    BY DEF EraseInRange
  <2>1. indices \in Seq(Nat) /\ indices[1] < Len(allTriggers)
    BY DEF PassInv, EraseInv
  <2>2. Head(indices) = indices[1]
    BY <2>1
  <2> QED
    BY <2>1, <2>2
<1> QED
  BY <1>1, PassInvariant, PTL

\* The enumeration finds every coherent combination of the pool, and each once.
THEOREM FindsEachOnce == Spec => []EveryCombinationOnce
<1>1. PassInv => EveryCombinationOnce
  <2> SUFFICES ASSUME PassInv, at = "rounds" PROVE EveryCombinationOnce
    BY DEF EveryCombinationOnce
  <2>1. Pooling(triggerPool) /\ locCombinationPool = Found(triggerPool)
    BY DEF PassInv, PoolInv, ResidualInv
  <2>2. Pool = TriggersOf(triggerPool)
    BY Zenon DEF Pool, TriggersOf
  <2>3. /\ {SeqX!ToSet(c) : c \in SeqX!ToSet(Found(triggerPool))} = Combinations(TriggersOf(triggerPool))
        /\ Len(Found(triggerPool)) = Cardinality(Combinations(TriggersOf(triggerPool)))
    BY <2>1, FoundOnce
  <2> QED
    BY <2>1, <2>2, <2>3, Zenon DEF EveryCombinationOnce
<1> QED
  BY <1>1, PassInvariant, PTL

\* A member of the current combinations.
LEMMA MemberOfCurrent ==
  ASSUME PassInv, NEW c \in SeqX!ToSet(locCombinationPool)
  PROVE  Pooling(triggerPool) /\ OneOfEach(triggerPool, c) /\ c \in Seq(Trigger)
<1>1. locCombinationPool # <<>>
  BY DEF SeqX!ToSet
<1>2. Pooling(triggerPool) /\ locCombinationPool = Found(triggerPool)
  BY <1>1 DEF PassInv, PoolInv, ResidualInv
<1>3. SeqX!ToSet(locCombinationPool) = {d \in Seq(Trigger) : OneOfEach(triggerPool, d)}
  BY <1>2, FoundIs
<1> QED
  BY <1>2, <1>3

\* The lookups of the solver find every station, so that operator[] inserts none.
THEOREM SolverFinds == Spec => []SolverOnlyReads
<1>1. PassInv => SolverOnlyReads
  <2> SUFFICES ASSUME PassInv, NEW c \in SeqX!ToSet(locCombinationPool), NEW i \in 1 .. Len(c)
               PROVE  /\ Contains(triggerPool, c[i].stationID)
                      /\ SeqX!Contains(triggerPool.m_values[
                                          Position(triggerPool, c[i].stationID)].value, c[i])
    BY Zenon DEF SolverOnlyReads
  <2> DEFINE V == triggerPool.m_values
             s == c[i].stationID
             p == Position(triggerPool, s)
  <2>1. Pooling(triggerPool) /\ OneOfEach(triggerPool, c)
    BY MemberOfCurrent
  <2>2. /\ i \in DOMAIN V /\ s = V[i].key /\ c[i] \in SeqX!ToSet(V[i].value)
    BY <2>1, MembersOf DEF OneOfEach
  <2>3. KeysDiffer(V) /\ V[i].key \in Station /\ V[i].value \in Seq(Trigger)
    BY <2>1, <2>2, PoolingType
  <2>4. s \in Station /\ s \in KeysOf(triggerPool)
    BY <2>2, <2>3 DEF KeysOf
  <2>5. Contains(triggerPool, s) /\ p \in DOMAIN V /\ V[p].key = s
    BY <2>1, <2>4, PoolFinds
  <2> HIDE DEF p, V
  <2>6. p = i
    BY <2>2, <2>3, <2>5 DEF KeysDiffer
  <2>7. SeqX!Contains(V[i].value, c[i])
    BY <2>2, <2>3 DEF SeqX!Contains, SeqX!ToSet
  <2> QED
    BY <2>5, <2>6, <2>7 DEF p, V
<1> QED
  BY <1>1, PassInvariant, PTL

\* At least six stations, or all there were.
THEOREM KeepsCredible == Spec => []CredibleUnlessFew
<1>1. PassInv => CredibleUnlessFew
  <2> SUFFICES ASSUME PassInv, at = "erase", ~(Len(result) >= CredibleStations)
               PROVE  StationsOf(SeqX!ToSet(result)) =
                         StationsOf(TriggerPool(arrived, Front(arrived)))
    BY DEF CredibleUnlessFew
  <2>1. MinSq # "above"
    BY DEF PassInv, ResidualInv
  <2>2. /\ Pooling(triggerPool) /\ OneOfEach(triggerPool, result)
        /\ Len(result) = Len(triggerPool.m_values)
    BY <2>1, ResultIs
  <2>3. TriggersOf(triggerPool) = TriggerPool(arrived, Front(arrived))
    BY <2>2 DEF PassInv, PoolInv
  <2>4. StationsOf(SeqX!ToSet(result)) = KeysOf(triggerPool)
    BY <2>2, MembersOf
  <2>5. StationsOf(TriggersOf(triggerPool)) = KeysOf(triggerPool)
    BY <2>2, PoolStations
  <2> QED
    BY <2>3, <2>4, <2>5
<1> QED
  BY <1>1, PassInvariant, PTL

----------------------------------------------------------------------------
(* What the network of stations has to be for the times to come out right. *)

\* Members of one combination are no further apart than their stations.
LEMMA MembersClose ==
  ASSUME NEW m, Pooling(m), NEW c, OneOfEach(m, c), NEW t \in SeqX!ToSet(c), NEW u \in SeqX!ToSet(c),
         u.time <= t.time
  PROVE  /\ t \in Trigger /\ u \in Trigger /\ t.time \in Nat /\ u.time \in Nat
         /\ \E s, r \in Station : /\ SiteTime[s][r] \in Nat
                                  /\ t.time - u.time <= SiteTime[s][r] + Tolerance
<1> DEFINE d == Minus(t.time, u.time)
           reach == SiteTime[u.stationID][t.stationID]
<1>1. SeqX!ToSet(c) \subseteq TriggersOf(m) /\ TriggersOf(m) \subseteq Trigger
  BY MembersOf, PoolTriggers
<1>2. t \in Trigger /\ u \in Trigger
  BY <1>1
<1>3. /\ t.time \in Nat /\ u.time \in Nat /\ t.stationID \in Station /\ u.stationID \in Station
  BY <1>2, TriggerAssumption
<1>4. reach \in Nat /\ Tolerance = 1
  BY <1>3, SiteTimeAssumption DEF Tolerance
<1>5. t.time - u.time <= reach + Tolerance
  <2>1. CASE t = u
    BY <1>3, <1>4, <2>1
  <2>2. CASE t # u
    <3>1. Coherent(t, u)
      BY <2>2, MembersOf
    <3>2. d \in Int /\ d >= t.time - u.time
      BY <1>3, MinusNeverUnder
    <3>3. (IF d < 0 THEN -d ELSE d) <= reach + Tolerance
      BY <3>1 DEF Coherent
    <3> HIDE DEF d, reach
    <3> QED
      BY <1>3, <1>4, <3>2, <3>3
  <2> QED
    BY <2>1, <2>2
<1> QED
  BY <1>2, <1>3, <1>4, <1>5

\* The members of a combination lie in one minute.
LEMMA MembersMinute ==
  ASSUME NEW m, Pooling(m), NEW c, OneOfEach(m, c), NEW t \in SeqX!ToSet(c), NEW u \in SeqX!ToSet(c),
         \A s, r \in Station : SiteTime[s][r] + Tolerance < 40 * TicksPerSecond
  PROVE  t.time - SecondsOfMinute(t.time) = u.time - SecondsOfMinute(u.time)
<1>1. SeqX!ToSet(c) \subseteq TriggersOf(m) /\ TriggersOf(m) \subseteq Trigger
  BY MembersOf, PoolTriggers
<1>2. t \in Trigger /\ u \in Trigger /\ t.time \in Nat /\ u.time \in Nat
  BY <1>1, TriggerFields
<1>3. CASE t = u
  BY <1>3
<1>4. CASE t # u
  <2>1. Coherent(t, u) /\ Coherent(u, t)
    BY <1>4, MembersOf
  <2>2. CASE t.time <= u.time
    BY <1>2, <2>1, <2>2, CoherentSameMinute, Zenon
  <2>3. CASE u.time <= t.time
    BY <1>2, <2>1, <2>3, CoherentSameMinute, Zenon
  <2> QED
    BY <1>2, <2>2, <2>3
<1> QED
  BY <1>3, <1>4

\* With stations less than 40 s apart no combination spans a full minute.
THEOREM OneMinute ==
  ASSUME \A s, r \in Station : SiteTime[s][r] + Tolerance < 40 * TicksPerSecond
  PROVE  Spec => []SameMinute
<1>1. PassInv => SameMinute
  <2> SUFFICES ASSUME PassInv, NEW c \in SeqX!ToSet(locCombinationPool), NEW i \in 1 .. Len(c)
               PROVE  c[i].time - SecondsOfMinute(c[i].time) = c[1].time - SecondsOfMinute(c[1].time)
    BY DEF SameMinute
  <2>1. Pooling(triggerPool) /\ OneOfEach(triggerPool, c) /\ c \in Seq(Trigger)
    BY MemberOfCurrent
  <2>2. c[i] \in SeqX!ToSet(c) /\ c[1] \in SeqX!ToSet(c)
    <3>1. i \in DOMAIN c /\ 1 \in DOMAIN c
      BY <2>1
    <3> QED
      BY <3>1 DEF SeqX!ToSet
  <2> QED
    BY <2>1, <2>2, MembersMinute
<1> QED
  BY <1>1, PassInvariant, PTL

\* With travel times that stay within a second of the arrivals, the posted time is
\* the arithmetic one.
LEMMA AcceptTimes ==
  ASSUME PassInv, Accept,
         \A s, r \in Station, d \in Delays : SiteTime[s][r] + Tolerance + d <= TicksPerSecond
  PROVE  ResultTime'
<1>1. /\ at = "rounds" /\ MinSq = "below" /\ result' = result
  BY DEF Accept, located
<1>2. /\ result = locCombinationPool[finalCombIdx] /\ result \in Seq(Trigger) /\ result # <<>>
      /\ Pooling(triggerPool) /\ OneOfEach(triggerPool, result)
  BY <1>1, ResultIs
<1>3. PICK occur_t \in OccurTimes(result) : lig_time' = set_second(result[1].time, occur_t)
  BY <1>2 DEF Accept
<1>4. PICK e \in SeqX!ToSet(result), d \in Delays :
         /\ occur_t = SecondsOfMinute(e.time) - d
         /\ \A u \in SeqX!ToSet(result) : SecondsOfMinute(e.time) <= SecondsOfMinute(u.time)
  BY <1>2, OccurIs
<1>5. d \in Nat /\ TicksPerSecond = 10000 /\ Tolerance = 1
  BY DequesAssumption DEF TicksPerSecond, Tolerance
<1>6. \A s, r \in Station : SiteTime[s][r] \in Nat
  BY SiteTimeAssumption
<1>7. \A s, r \in Station : SiteTime[s][r] + Tolerance < 40 * TicksPerSecond
  <2> SUFFICES ASSUME NEW s \in Station, NEW r \in Station
               PROVE  SiteTime[s][r] + Tolerance < 40 * TicksPerSecond
    OBVIOUS
  <2>1. SiteTime[s][r] + Tolerance + d <= TicksPerSecond /\ SiteTime[s][r] \in Nat
    BY <1>6
  <2> QED
    BY <1>5, <2>1, SMT
<1> DEFINE f == result[1]
<1>8. f \in SeqX!ToSet(result)
  <2>1. 1 \in DOMAIN result
    BY <1>2
  <2> QED
    BY <2>1 DEF SeqX!ToSet
<1> HIDE DEF f
<1>9. \A u \in SeqX!ToSet(result) :
         /\ u.time \in Nat /\ SecondsOfMinute(u.time) \in Nat
         /\ u.time - SecondsOfMinute(u.time) = e.time - SecondsOfMinute(e.time)
  <2> SUFFICES ASSUME NEW u \in SeqX!ToSet(result)
               PROVE  /\ u.time \in Nat /\ SecondsOfMinute(u.time) \in Nat
                      /\ u.time - SecondsOfMinute(u.time) = e.time - SecondsOfMinute(e.time)
    OBVIOUS
  <2>1. u \in Trigger
    BY <1>2 DEF SeqX!ToSet
  <2>2. u.time \in Nat /\ SecondsOfMinute(u.time) \in Nat
    BY <2>1, TriggerFields, SecondsType
  <2>3. u.time - SecondsOfMinute(u.time) = e.time - SecondsOfMinute(e.time)
    BY <1>2, <1>4, <1>7, MembersMinute, Zenon
  <2> QED
    BY <2>2, <2>3
<1> HIDE DEF SecondsOfMinute
<1>10. \A u \in SeqX!ToSet(result) : e.time <= u.time
  BY <1>4, <1>9
<1>11. f.time - e.time + d <= TicksPerSecond
  <2>1. PICK s, r \in Station : SiteTime[s][r] \in Nat /\ f.time - e.time <= SiteTime[s][r] + Tolerance
    BY <1>2, <1>4, <1>8, <1>10, MembersClose
  <2>2. SiteTime[s][r] + Tolerance + d <= TicksPerSecond
    OBVIOUS
  <2>3. f.time \in Nat /\ e.time \in Nat
    BY <1>4, <1>8, <1>9
  <2> QED
    BY <1>5, <2>1, <2>2, <2>3
<1>12. set_second(f.time, SecondsOfMinute(e.time) - d) = e.time - d
  <2>1. f.time \in Nat /\ e.time \in Nat /\ e.time <= f.time
        /\ f.time - SecondsOfMinute(f.time) = e.time - SecondsOfMinute(e.time)
    BY <1>4, <1>8, <1>9, <1>10
  <2>2. d \in Nat
    BY <1>5
  <2> QED
    BY <1>11, <2>1, <2>2, SetSecondSubtracts, Zenon
<1>13. lig_time' = e.time - d
  BY <1>3, <1>4, <1>12 DEF f
<1>14. e.time - lig_time' = d
  BY <1>4, <1>5, <1>9, <1>13
<1> QED
  BY <1>1, <1>4, <1>10, <1>14 DEF ResultTime

\* The posted time is a travel time before the first arrival of its combination.
THEOREM PostedTime ==
  ASSUME \A s, r \in Station, d \in Delays : SiteTime[s][r] + Tolerance + d <= TicksPerSecond
  PROVE  Spec => []ResultTime
<1>1. Init => ResultTime
  BY DEF Init, ResultTime
<1>2. PassInv /\ ResultTime /\ [Next]_vars => ResultTime'
  <2> SUFFICES ASSUME PassInv, ResultTime, [Next]_vars PROVE ResultTime'
    OBVIOUS
  <2>1. CASE Accept
    BY <2>1, AcceptTimes
  <2>2. CASE EraseOne \/ UNCHANGED vars
    <3>1. UNCHANGED <<at, result, lig_time>>
      BY <2>2 DEF EraseOne, located, vars
    <3> QED
      BY <3>1 DEF ResultTime
  <2>3. CASE at' # "erase"
    BY <2>3 DEF ResultTime
  <2>4. Scan \/ TooFewStations \/ FirstResiduals \/ DropWorstStation \/ KeepStations
          \/ ResidualTooLarge \/ AllErased => at' # "erase"
    BY DEF Scan, TooFewStations, FirstResiduals, DropWorstStation, KeepStations,
           ResidualTooLarge, AllErased
  <2> QED
    BY <2>1, <2>2, <2>3, <2>4 DEF Next
<1> QED
  BY <1>1, <1>2, PassInvariant, PTL DEF Spec

----------------------------------------------------------------------------
(* The trigger of the peak current. *)

\* operator+= with a minute adds sixty seconds.
LEMMA MinuteLater ==
  ASSUME NEW t \in Nat
  PROVE  AddMinutes(t, 1) \in Nat /\ AddMinutes(t, 1) = t + 60 * TicksPerSecond
<1>1. AddMinutes(t, 1) = t + 600000 * 1
  BY AddMinutesAdds, SMT
<1> QED
  BY <1>1, SMT DEF TicksPerSecond

PeakRun(c, search) ==
    /\ search[0] = EarliestSoFar(c)
    /\ \A i \in 1 .. Len(c) : search[i] =
          IF c[i].time < search[i - 1].min_t /\ c[i].stationID \in Gains
          THEN [min_t |-> c[i].time, min_idx |-> i, hasGain |-> TRUE]
          ELSE search[i - 1]
    /\ PeakTrigger(c) = search[Len(c)]

\* The loop of PostLigResult is a recursion over the combination.
LEMMA PeakLoop ==
  ASSUME NEW c \in Seq(Trigger), c # <<>>
  PROVE  \E search : PeakRun(c, search)
<1> DEFINE n == Len(c)
           D == 0 .. n
           V == [min_t : Nat, min_idx : Nat, hasGain : BOOLEAN]
           depth == [i \in D |-> n - i]
           Found_(i) == [min_t |-> c[i].time, min_idx |-> i, hasGain |-> TRUE]
           Body(f, i) == IF i = 0 THEN EarliestSoFar(c)
                         ELSE IF c[i].time < f[i - 1].min_t /\ c[i].stationID \in Gains
                         THEN Found_(i) ELSE f[i - 1]
           Apply(p) == Body(p[2], p[1])
           Step     == [p \in D \X [D -> V] |-> Apply(p)]
<1>1. /\ n \in Nat \ {0} /\ \A i \in 1 .. n : c[i] \in Trigger /\ c[i].time \in Nat
  <2>1. n \in Nat \ {0} /\ \A i \in 1 .. n : c[i] \in Trigger
    OBVIOUS
  <2> QED
    BY <2>1, TriggerFields
<1>2. EarliestSoFar(c) \in V
  <2>1. AddMinutes(c[1].time, 1) \in Nat
    <3>1. c[1].time \in Nat
      BY <1>1
    <3> QED
      BY <3>1, MinuteLater, Zenon
  <2> QED
    BY <2>1 DEF EarliestSoFar
<1>3. \A i \in D : i # 0 => i \in 1 .. n /\ i - 1 \in D
  BY <1>1
<1>4. depth \in [D -> 0 .. n] /\ \A i \in D : depth[i] = n - i
  BY <1>1
<1>5. \A i \in D : i # 0 => Found_(i) \in V
  BY <1>1, <1>3
<1> HIDE DEF V, D, Found_
<1>6. ASSUME NEW f \in [D -> V], NEW i \in D
      PROVE  Body(f, i) \in V
  <2>1. CASE i = 0
    BY <1>2, <2>1
  <2>2. CASE i # 0
    <3>1. i - 1 \in D /\ Found_(i) \in V
      BY <1>3, <1>5, <2>2
    <3>2. f[i - 1] \in V
      BY <3>1
    <3> QED
      BY <2>2, <3>1, <3>2
  <2> QED
    BY <2>1, <2>2
<1>7. ASSUME NEW i \in D, NEW f \in [D -> V], NEW g \in [D -> V],
             \A e \in D : depth[e] > depth[i] => f[e] = g[e]
      PROVE  Body(f, i) = Body(g, i)
  <2>1. CASE i = 0
    BY <2>1
  <2>2. CASE i # 0
    <3>1. i - 1 \in D /\ i \in 1 .. n
      BY <1>3, <2>2
    <3>2. depth[i - 1] > depth[i]
      BY <1>1, <1>4, <3>1
    <3>3. f[i - 1] = g[i - 1]
      BY <1>7, <3>1, <3>2
    <3> QED
      BY <2>2, <3>3, Zenon
  <2> QED
    BY <2>1, <2>2
<1> HIDE DEF n, depth, Body
<1>8. \A i \in D : \A f \in [D -> V] : Step[<<i, f>>] = Body(f, i)
  OBVIOUS
<1>9. Step \in [D \X [D -> V] -> V]
  <2>1. \A p \in D \X [D -> V] : Apply(p) \in V
    BY <1>6
  <2> HIDE DEF Apply
  <2> QED
    BY <2>1, Zenon
<1> HIDE DEF Step
<1>10. AsksDeeper(D, V, n, depth, Step)
  <2>1. ASSUME NEW i \in D, NEW f \in [D -> V], NEW g \in [D -> V],
               \A e \in D : depth[e] > depth[i] => f[e] = g[e]
        PROVE  Step[<<i, f>>] = Step[<<i, g>>]
    <3>1. Body(f, i) = Body(g, i)
      BY <1>7, <2>1
    <3> QED
      BY <1>8, <3>1, Zenon
  <2>2. V # {} /\ n \in Nat
    BY <1>1, <1>2
  <2> QED
    BY <1>4, <1>9, <2>1, <2>2, Zenon DEF AsksDeeper
<1>11. PICK f \in [D -> V] : \A i \in D : f[i] = Step[<<i, f>>]
  BY <1>10, Recursion
<1> DEFINE Is(g)  == g = [i \in D |-> Body(g, i)]
           search == CHOOSE g : Is(g)
<1>12. Is(search)
  <2>1. \A i \in D : f[i] = Body(f, i)
    BY <1>8, <1>11, Zenon
  <2>2. f = [i \in D |-> f[i]]
    OBVIOUS
  <2>3. Is(f)
    BY <2>1, <2>2
  <2> HIDE DEF Is
  <2> QED
    BY <2>3, Zenon
<1>13. PeakTrigger(c) = search[n]
  BY Zenon DEF PeakTrigger, Body, Found_, n, D
<1> HIDE DEF search
<1>14. \A i \in D : search[i] = Body(search, i)
  BY <1>12
<1>15. 0 \in D /\ \A i \in 1 .. n : i \in D /\ i # 0
  BY <1>1 DEF D
<1>16. search[0] = EarliestSoFar(c)
  BY <1>14, <1>15 DEF Body
<1>17. \A i \in 1 .. n : search[i] =
          IF c[i].time < search[i - 1].min_t /\ c[i].stationID \in Gains
          THEN [min_t |-> c[i].time, min_idx |-> i, hasGain |-> TRUE]
          ELSE search[i - 1]
  BY <1>14, <1>15, Zenon DEF Body, Found_
<1> QED
  BY <1>13, <1>16, <1>17, Zenon DEF PeakRun, n

\* The search finds the earliest trigger with a gain if all are within a minute of
\* the first one.
LEMMA PeakIs ==
  ASSUME NEW c \in Seq(Trigger), c # <<>>,
         \A i \in 1 .. Len(c) : c[i].time < AddMinutes(c[1].time, 1)
  PROVE  LET peak == PeakTrigger(c)
         IN  /\ peak.hasGain <=> \E i \in 1 .. Len(c) : c[i].stationID \in Gains
             /\ peak.hasGain =>
                   /\ peak.min_idx \in 1 .. Len(c) /\ c[peak.min_idx].stationID \in Gains
                   /\ \A i \in 1 .. Len(c) :
                         c[i].stationID \in Gains => c[peak.min_idx].time <= c[i].time
<1> DEFINE n == Len(c)
<1>1. PICK search : PeakRun(c, search)
  BY PeakLoop
<1>2. n \in Nat \ {0} /\ \A i \in 1 .. n : c[i].time \in Nat
  <2>1. n \in Nat \ {0} /\ \A i \in 1 .. n : c[i] \in Trigger
    OBVIOUS
  <2> QED
    BY <2>1, TriggerFields
<1> DEFINE late == AddMinutes(c[1].time, 1)
           Good(k, r) ==
              /\ r.hasGain \in BOOLEAN
              /\ ~r.hasGain => r.min_t = late /\ \A i \in 1 .. k : c[i].stationID \notin Gains
              /\ r.hasGain => /\ r.min_idx \in 1 .. k /\ r.min_t = c[r.min_idx].time
                              /\ c[r.min_idx].stationID \in Gains
                              /\ \A i \in 1 .. k : c[i].stationID \in Gains => r.min_t <= c[i].time
           good == {k \in 0 .. n : Good(k, search[k])}
<1>3. \A i \in 1 .. n : c[i].time < late
  OBVIOUS
<1>4. 0 \in good
  <2>1. search[0] = [min_t |-> late, min_idx |-> 1, hasGain |-> FALSE]
    BY <1>1 DEF PeakRun, EarliestSoFar
  <2>2. 0 \in 0 .. n /\ 1 .. 0 = {}
    BY <1>2
  <2> HIDE DEF late, n
  <2>3. search[0].hasGain = FALSE /\ search[0].min_t = late
    BY <2>1
  <2>4. Good(0, search[0])
    BY <2>2, <2>3
  <2> HIDE DEF Good
  <2> QED
    BY <2>2, <2>4
<1> HIDE DEF late
<1>5. ASSUME NEW k \in 0 .. n - 1, k \in good
      PROVE  k + 1 \in good
  <2> DEFINE i == k + 1
             r == search[k]
             s == search[i]
             new == [min_t |-> c[i].time, min_idx |-> i, hasGain |-> TRUE]
  <2>1. /\ i \in 1 .. n /\ i \in 0 .. n /\ i - 1 = k /\ 1 .. i = (1 .. k) \cup {i}
        /\ k \in Nat /\ \A l \in 1 .. k : l \in 1 .. n
    BY <1>2
  <2>2. s = IF c[i].time < r.min_t /\ c[i].stationID \in Gains THEN new ELSE r
    <3>1. search[i] = IF c[i].time < search[i - 1].min_t /\ c[i].stationID \in Gains
                      THEN [min_t |-> c[i].time, min_idx |-> i, hasGain |-> TRUE]
                      ELSE search[i - 1]
      BY <1>1, <2>1, Zenon DEF PeakRun, n
    <3> QED
      BY <2>1, <3>1
  <2>3. Good(k, r)
    BY <1>5
  <2>4. new.min_t = c[i].time /\ new.min_idx = i /\ new.hasGain = TRUE
    OBVIOUS
  <2>5. c[i].time \in Nat /\ c[i].time < late /\ \A l \in 1 .. k : c[l].time \in Nat
    BY <1>2, <1>3, <2>1
  <2> HIDE DEF i, r, s, new, n
  <2>6. CASE c[i].time < r.min_t /\ c[i].stationID \in Gains
    <3>1. s = new
      BY <2>2, <2>6
    <3>2. ASSUME NEW l \in 1 .. i, c[l].stationID \in Gains
          PROVE  c[i].time <= c[l].time
      <4>1. CASE l = i
        BY <2>5, <4>1
      <4>2. CASE l \in 1 .. k
        <5>1. r.hasGain
          BY <2>3, <3>2, <4>2
        <5>2. r.min_t <= c[l].time /\ r.min_t = c[r.min_idx].time /\ r.min_idx \in 1 .. k
          BY <2>3, <3>2, <4>2, <5>1
        <5>3. r.min_t \in Nat /\ c[l].time \in Nat
          BY <2>5, <4>2, <5>2
        <5> QED
          BY <2>5, <2>6, <5>2, <5>3
      <4> QED
        BY <2>1, <4>1, <4>2
    <3>3. i \in 1 .. i
      BY <2>1
    <3>4. Good(i, s)
      BY <2>4, <2>6, <3>1, <3>2, <3>3
    <3> QED
      BY <2>1, <3>4 DEF i, s
  <2>7. CASE ~(c[i].time < r.min_t /\ c[i].stationID \in Gains)
    <3>1. s = r
      BY <2>2, <2>7
    <3>2. CASE ~r.hasGain
      <4>1. r.min_t = late /\ c[i].stationID \notin Gains
        BY <2>3, <2>5, <2>7, <3>2
      <4>2. Good(i, s)
        BY <2>1, <2>3, <3>1, <3>2, <4>1
      <4> QED
        BY <2>1, <4>2 DEF i, s
    <3>3. CASE r.hasGain
      <4>1. /\ r.min_idx \in 1 .. k /\ r.min_t = c[r.min_idx].time
            /\ c[r.min_idx].stationID \in Gains
            /\ \A l \in 1 .. k : c[l].stationID \in Gains => r.min_t <= c[l].time
        BY <2>3, <3>3
      <4>2. r.min_t \in Nat
        BY <2>5, <4>1
      <4>3. c[i].stationID \in Gains => r.min_t <= c[i].time
        BY <2>5, <2>7, <4>2
      <4>4. \A l \in 1 .. i : c[l].stationID \in Gains => r.min_t <= c[l].time
        BY <2>1, <4>1, <4>3
      <4>5. r.min_idx \in 1 .. i
        BY <2>1, <4>1
      <4>6. Good(i, s)
        BY <2>3, <3>1, <3>3, <4>1, <4>4, <4>5
      <4> QED
        BY <2>1, <4>6 DEF i, s
    <3> QED
      BY <3>2, <3>3
  <2> QED
    BY <2>6, <2>7
<1>6. 0 .. n \subseteq good
  <2> HIDE DEF good
  <2> QED
    BY <1>2, <1>4, <1>5, Induction
<1>7. Good(n, search[n])
  <2>1. n \in 0 .. n
    BY <1>2
  <2> QED
    BY <1>6, <2>1
<1>8. PeakTrigger(c) = search[n]
  BY <1>1 DEF PeakRun
<1> DEFINE peak == PeakTrigger(c)
<1>9. Good(n, peak)
  BY <1>7, <1>8
<1> HIDE DEF peak
<1>10. peak.hasGain <=> \E i \in 1 .. n : c[i].stationID \in Gains
  <2>1. CASE peak.hasGain
    BY <1>9, <2>1
  <2>2. CASE ~peak.hasGain
    BY <1>9, <2>2
  <2> QED
    BY <2>1, <2>2
<1>11. peak.hasGain =>
          /\ peak.min_idx \in 1 .. n /\ c[peak.min_idx].stationID \in Gains
          /\ \A i \in 1 .. n : c[i].stationID \in Gains => c[peak.min_idx].time <= c[i].time
  BY <1>9
<1> QED
  BY <1>10, <1>11 DEF peak

\* With stations less than a minute apart the peak current is that of the earliest
\* trigger of the result whose station has a gain.
THEOREM PeakIsEarliest ==
  ASSUME \A s, r \in Station : SiteTime[s][r] + Tolerance < 60 * TicksPerSecond
  PROVE  Spec => []PeakOfEarliest
<1>1. PassInv => PeakOfEarliest
  <2> SUFFICES ASSUME PassInv, at = "erase" PROVE PeakOfEarliest
    BY DEF PeakOfEarliest
  <2> DEFINE gained == {t \in SeqX!ToSet(result) : t.stationID \in Gains}
             peak   == PeakTrigger(result)
             n      == Len(result)
  <2>1. MinSq # "above"
    BY DEF PassInv, ResidualInv
  <2>2. /\ Pooling(triggerPool) /\ OneOfEach(triggerPool, result)
        /\ result \in Seq(Trigger) /\ result # <<>>
    BY <2>1, ResultIs
  <2>3. n \in Nat \ {0} /\ SeqX!ToSet(result) = {result[i] : i \in 1 .. n}
    BY <2>2 DEF SeqX!ToSet
  <2>4. ASSUME NEW i \in 1 .. n
        PROVE  result[i].time < AddMinutes(result[1].time, 1)
    <3>1. result[i] \in SeqX!ToSet(result) /\ result[1] \in SeqX!ToSet(result)
      BY <2>3
    <3>2. result[i] \in Trigger /\ result[1] \in Trigger
      BY <2>2, <2>3
    <3>3. result[i].time \in Nat /\ result[1].time \in Nat
      BY <3>2, TriggerFields
    <3>4. AddMinutes(result[1].time, 1) = result[1].time + 60 * TicksPerSecond
      BY <3>3, MinuteLater, Zenon
    <3>5. CASE result[i].time <= result[1].time
      <4>1. 60 * TicksPerSecond = 600000
        BY SMT DEF TicksPerSecond
      <4> QED
        BY <3>3, <3>4, <3>5, <4>1, SMT
    <3>6. CASE result[1].time <= result[i].time
      <4>1. PICK s, r \in Station : /\ SiteTime[s][r] \in Nat
                                    /\ result[i].time - result[1].time <= SiteTime[s][r] + Tolerance
        BY <2>2, <3>1, <3>6, MembersClose
      <4>2. SiteTime[s][r] + Tolerance < 60 * TicksPerSecond
        OBVIOUS
      <4>3. Tolerance = 1 /\ 60 * TicksPerSecond = 600000
        BY SMT DEF Tolerance, TicksPerSecond
      <4> QED
        BY <3>3, <3>4, <4>1, <4>2, <4>3, SMT
    <3> QED
      BY <3>3, <3>5, <3>6
  <2>5. /\ peak.hasGain <=> \E i \in 1 .. n : result[i].stationID \in Gains
        /\ peak.hasGain =>
              /\ peak.min_idx \in 1 .. n /\ result[peak.min_idx].stationID \in Gains
              /\ \A i \in 1 .. n :
                    result[i].stationID \in Gains => result[peak.min_idx].time <= result[i].time
    BY <2>2, <2>4, PeakIs
  <2> HIDE DEF peak, n
  <2>6. /\ peak.hasGain <=> gained # {}
        /\ peak.hasGain => /\ result[peak.min_idx] \in gained
                           /\ \A t \in gained : result[peak.min_idx].time <= t.time
    BY <2>3, <2>5
  <2> QED
    BY <2>6, Zenon DEF PeakOfEarliest, peak
<1> QED
  BY <1>1, PassInvariant, PTL

\* What an enumeration leaves behind: its best combination, or none and the index
\* and the result of the round before.
LEMMA EnumerateLeaves ==
  ASSUME Enumerate
  PROVE  locCombinationPool' # <<>> =>
            /\ finalCombIdx' \in 1 .. Len(locCombinationPool')
            /\ result' = locCombinationPool'[finalCombIdx']
<1> DEFINE stations == triggerPool'.m_values
           found    == getLocationPool_p([i \in 1 .. Len(stations) |-> stations[i].value],
                                         Len(stations))
<1>1. locCombinationPool' = found
  BY DEF Enumerate
<1> HIDE DEF found
<1>2. CASE found # <<>>
  <2>1. ProcessCombinationPool(found)
    BY <1>1, <1>2 DEF Enumerate, found
  <2> QED
    BY <1>1, <2>1 DEF ProcessCombinationPool
<1> QED
  BY <1>1, <1>2

\* No pass, however its rounds go, mixes the index or the result of one round with
\* the combinations of another.
THEOREM FinalBelongsToPool == Spec => []FinalIsCurrent
<1>1. Init => FinalIsCurrent
  BY DEF Init, FinalIsCurrent
<1>2. FinalIsCurrent /\ [Next]_vars => FinalIsCurrent'
  <2> SUFFICES ASSUME FinalIsCurrent, [Next]_vars PROVE FinalIsCurrent'
    OBVIOUS
  <2>1. CASE FirstResiduals
    BY <2>1, EnumerateLeaves DEF FirstResiduals, FinalIsCurrent
  <2>2. CASE DropWorstStation
    BY <2>2, EnumerateLeaves DEF DropWorstStation, FinalIsCurrent
  <2>3. CASE KeepStations
    BY <2>3 DEF KeepStations, located, FinalIsCurrent
  <2>4. CASE Scan \/ EraseOne
    BY <2>4 DEF Scan, EraseOne, located, FinalIsCurrent
  <2>5. CASE TooFewStations \/ ResidualTooLarge \/ Accept \/ AllErased
    BY <2>5 DEF TooFewStations, ResidualTooLarge, Accept, AllErased, FinalIsCurrent
  <2>6. CASE UNCHANGED vars
    BY <2>6 DEF vars, located, FinalIsCurrent
  <2> QED
    BY <2>1, <2>2, <2>3, <2>4, <2>5, <2>6 DEF Next
<1> QED
  BY <1>1, <1>2, PTL DEF Spec

----------------------------------------------------------------------------
(* The erasure of a located combination, index by index. *)

\* The members that carry an index carry their place in the deque.
Marked(all, comb, idx) ==
    /\ all \in SUBSET Trigger /\ comb \subseteq all /\ idx \in [Trigger -> Nat]
    /\ \A t \in comb : idx[t] # 0 => DequePosition(all, t) = idx[t]

WithIndex(comb, idx) == {t \in comb : idx[t] # 0}
StillLeft(comb, idx, L) == {t \in WithIndex(comb, idx) : idx[t] \in SeqX!ToSet(L)}

\* What the deque holds when L is left to erase: the members with an index of L are
\* still there, and k triggers have gone from the front for members without one.
ErasedTo(all, comb, idx, L, S) ==
    LET indexed == WithIndex(comb, idx)
        left    == StillLeft(comb, idx, L)
        rest    == all \ indexed
    IN  \E k \in 0 .. Cardinality(comb \ indexed) :
            /\ Len(L) + k = Cardinality(comb \ indexed) + Cardinality(left)
            /\ left # {} => k = 0
            /\ S = (rest \ Lowest(rest, k)) \cup left
            /\ \A p \in 1 .. Len(L) : L[p] # 0 => \E t \in left : idx[t] = L[p]
            /\ \A u \in indexed \ left : \A p \in 1 .. Len(L) : L[p] < idx[u]

\* Nothing is below the first place.
LEMMA LowestNone ==
  ASSUME NEW D \in SUBSET Trigger
  PROVE  Lowest(D, 0) = {}
<1>1. Cardinality(D) \in Nat /\ \A u \in D : DequePosition(D, u) \in 0 .. Cardinality(D) - 1
  BY PositionIsRank, PositionOrder
<1>2. Lowest(D, 0) = {u \in D : DequePosition(D, u) < 0}
  BY Zenon DEF Lowest, DequePosition
<1> QED
  BY <1>1, <1>2

\* The next index is that of a member: it is this member that goes.
LEMMA EraseIndexed ==
  ASSUME NEW all, NEW comb, NEW idx, Marked(all, comb, idx), NEW L, Falling(L), L # <<>>,
         NEW S, ErasedTo(all, comb, idx, L, S), L[1] # 0
  PROVE  ErasedTo(all, comb, idx, Tail(L), S \ {Sorted(S)[L[1] + 1]})
<1> DEFINE indexed == WithIndex(comb, idx)
           left    == StillLeft(comb, idx, L)
           rest    == all \ indexed
           others  == comb \ indexed
           M       == Tail(L)
           left2   == StillLeft(comb, idx, M)
<1>1. /\ all \in SUBSET Trigger /\ comb \subseteq all /\ idx \in [Trigger -> Nat]
      /\ \A t \in indexed : DequePosition(all, t) = idx[t] /\ idx[t] # 0 /\ t \in comb
      /\ indexed \subseteq comb /\ left \subseteq indexed
      /\ left = {t \in indexed : idx[t] \in SeqX!ToSet(L)}
      /\ left2 = {t \in indexed : idx[t] \in SeqX!ToSet(M)}
  BY DEF Marked, WithIndex, StillLeft
<1>2. /\ L \in Seq(Nat) /\ Len(L) \in Nat \ {0} /\ DOMAIN L = 1 .. Len(L) /\ 1 \in 1 .. Len(L)
      /\ \A p \in 1 .. Len(L) : L[p] \in Nat
      /\ M \in Seq(Nat) /\ Len(M) = Len(L) - 1 /\ DOMAIN M = 1 .. Len(L) - 1
      /\ \A p \in 1 .. Len(L) - 1 : M[p] = L[p + 1]
  BY DEF Falling
<1>3. \A p \in 1 .. Len(L) - 1 : M[p] < L[1] \/ M[p] = 0
  <2> SUFFICES ASSUME NEW p \in 1 .. Len(L) - 1 PROVE L[p + 1] < L[1] \/ L[p + 1] = 0
    BY <1>2
  <2>1. p + 1 \in 1 .. Len(L) /\ 1 < p + 1
    BY <1>2
  <2> QED
    BY <1>2, <2>1 DEF Falling
<1> HIDE DEF M, indexed, left, left2
<1>4. PICK k \in 0 .. Cardinality(others) :
         /\ Len(L) + k = Cardinality(others) + Cardinality(left)
         /\ left # {} => k = 0
         /\ S = (rest \ Lowest(rest, k)) \cup left
         /\ \A p \in 1 .. Len(L) : L[p] # 0 => \E t \in left : idx[t] = L[p]
         /\ \A u \in indexed \ left : \A p \in 1 .. Len(L) : L[p] < idx[u]
  BY Zenon DEF ErasedTo, indexed, left
<1>5. PICK t \in left : idx[t] = L[1]
  BY <1>2, <1>4
<1>6. t \in indexed /\ t \in all /\ t \in Trigger
  BY <1>1
<1>7. k = 0
  BY <1>4, <1>5
<1>8. S = rest \cup left /\ S \subseteq all
  <2>1. Lowest(rest, 0) = {}
    BY <1>1, LowestNone
  <2> QED
    BY <1>1, <1>4, <1>7, <2>1
<1>9. DequePosition(S, t) = L[1]
  <2>1. ASSUME NEW u \in all, Before(u, t)
        PROVE  u \in S
    <3>1. DequePosition(all, u) < DequePosition(all, t)
      BY <1>1, <1>6, <2>1, PositionOrder
    <3>2. CASE u \in indexed
      <4>1. DequePosition(all, u) = idx[u] /\ DequePosition(all, t) = idx[t]
        BY <1>1, <1>6, <3>2
      <4>2. idx[u] < L[1] /\ idx[u] \in Nat
        BY <1>1, <1>5, <3>1, <4>1
      <4>3. u \notin indexed \ left
        BY <1>2, <1>4, <4>2
      <4> QED
        BY <1>8, <3>2, <4>3
    <3> QED
      BY <1>8, <3>2
  <2>2. {u \in S : Before(u, t)} = {u \in all : Before(u, t)}
    BY <1>8, <2>1
  <2>3. DequePosition(S, t) = DequePosition(all, t)
    BY <2>2 DEF DequePosition
  <2> QED
    BY <1>1, <1>5, <1>6, <2>3
<1>10. Sorted(S)[L[1] + 1] = t
  <2>1. S \in SUBSET Trigger /\ t \in S /\ L[1] \in Nat
    BY <1>1, <1>2, <1>8
  <2> QED
    BY <1>9, <2>1, SortedPlace
<1>11. \A u \in indexed : idx[u] = idx[t] => u = t
  <2> SUFFICES ASSUME NEW u \in indexed, idx[u] = idx[t] PROVE u = t
    OBVIOUS
  <2>1. u \in all /\ DequePosition(all, u) = DequePosition(all, t)
    BY <1>1, <1>6
  <2> QED
    BY <1>1, <1>6, <2>1, PositionTaken
<1>12. left2 = left \ {t}
  <2>1. \A x : x \in SeqX!ToSet(L) <=> \E p \in 1 .. Len(L) : x = L[p]
    BY <1>2 DEF SeqX!ToSet
  <2>2. \A x : x \in SeqX!ToSet(M) <=> \E p \in 1 .. Len(L) - 1 : x = L[p + 1]
    BY <1>2 DEF SeqX!ToSet
  <2>3. t \notin left2
    <3> SUFFICES ASSUME t \in left2 PROVE FALSE
      OBVIOUS
    <3>1. PICK p \in 1 .. Len(L) - 1 : idx[t] = M[p]
      BY <1>1, <1>2, <2>2
    <3> QED
      BY <1>2, <1>3, <1>5, <3>1
  <2>4. ASSUME NEW u \in left, u # t
        PROVE  u \in left2
    <3>1. PICK p \in 1 .. Len(L) : idx[u] = L[p]
      BY <1>1, <2>1
    <3>2. p # 1
      BY <1>1, <1>5, <1>11, <2>4, <3>1
    <3>3. p - 1 \in 1 .. Len(L) - 1 /\ (p - 1) + 1 = p
      BY <1>2, <3>2
    <3>4. idx[u] \in SeqX!ToSet(M)
      BY <2>2, <3>1, <3>3
    <3> QED
      BY <1>1, <3>4
  <2>5. ASSUME NEW u \in left2
        PROVE  u \in left
    <3>1. PICK p \in 1 .. Len(L) - 1 : idx[u] = L[p + 1]
      BY <1>1, <2>2
    <3>2. p + 1 \in 1 .. Len(L)
      BY <1>2
    <3> QED
      BY <1>1, <2>1, <3>1, <3>2
  <2> QED
    BY <2>3, <2>4, <2>5
<1>13. Cardinality(left2) = Cardinality(left) - 1 /\ Cardinality(left) \in Nat
  <2>1. IsFiniteSet(all)
    BY <1>1, PositionIsRank
  <2>2. IsFiniteSet(left)
    BY <1>1, <2>1, FS_Subset
  <2> QED
    BY <1>12, <2>2, FS_RemoveElement, FS_CardinalityType
<1>14. S \ {t} = (rest \ Lowest(rest, k)) \cup left2
  <2>1. Lowest(rest, 0) = {}
    BY <1>1, LowestNone
  <2> QED
    BY <1>6, <1>7, <1>8, <1>12, <2>1
<1>15. \A p \in 1 .. Len(M) : M[p] # 0 => \E u \in left2 : idx[u] = M[p]
  <2> SUFFICES ASSUME NEW p \in 1 .. Len(L) - 1, M[p] # 0 PROVE \E u \in left2 : idx[u] = M[p]
    BY <1>2
  <2>1. p + 1 \in 1 .. Len(L) /\ M[p] = L[p + 1]
    BY <1>2
  <2>2. PICK u \in left : idx[u] = L[p + 1]
    BY <1>4, <2>1
  <2>3. u # t
    <3> SUFFICES ASSUME u = t PROVE FALSE
      OBVIOUS
    <3>1. M[p] = L[1]
      BY <1>5, <2>1, <2>2
    <3>2. L[1] \in Nat
      BY <1>2
    <3> QED
      BY <1>3, <3>1, <3>2
  <2>4. u \in left2
    BY <1>12, <2>2, <2>3
  <2>5. idx[u] = M[p]
    BY <2>1, <2>2
  <2> QED
    BY <2>4, <2>5, Zenon
<1>16. \A u \in indexed \ left2 : \A p \in 1 .. Len(M) : M[p] < idx[u]
  <2> SUFFICES ASSUME NEW u \in indexed \ left2, NEW p \in 1 .. Len(L) - 1 PROVE M[p] < idx[u]
    BY <1>2
  <2>1. p + 1 \in 1 .. Len(L) /\ M[p] = L[p + 1] /\ M[p] \in Nat
    BY <1>2
  <2>2. CASE u = t
    <3>1. idx[u] = L[1] /\ L[1] \in Nat
      BY <1>2, <1>5, <2>2
    <3> QED
      BY <1>3, <2>1, <3>1
  <2>3. CASE u # t
    BY <1>4, <1>12, <2>1, <2>3
  <2> QED
    BY <2>2, <2>3
<1>17. Len(M) + k = Cardinality(others) + Cardinality(left2) /\ (left2 # {} => k = 0)
  <2>1. Cardinality(others) \in Nat
    <3>1. IsFiniteSet(others)
      BY <1>1, PositionIsRank, FS_Subset
    <3> QED
      BY <3>1, FS_CardinalityType
  <2>2. Len(M) + 0 = Cardinality(others) + Cardinality(left2)
    <3> HIDE DEF others, rest
    <3>1. Len(L) + 0 = Cardinality(others) + Cardinality(left) /\ Len(M) = Len(L) - 1
      BY <1>2, <1>4, <1>7
    <3>2. Cardinality(left2) = Cardinality(left) - 1 /\ Cardinality(left) \in Nat /\ Len(L) \in Nat
      BY <1>2, <1>13
    <3> QED
      BY <2>1, <3>1, <3>2
  <2> QED
    BY <1>7, <2>2
<1>18. ErasedTo(all, comb, idx, M, S \ {t})
  BY <1>14, <1>15, <1>16, <1>17, Zenon DEF ErasedTo, indexed, left2
<1> QED
  BY <1>10, <1>18 DEF M

\* The next index is 0: the trigger in front goes.
LEMMA EraseFront ==
  ASSUME NEW all, NEW comb, NEW idx, Marked(all, comb, idx), NEW L, Falling(L), L # <<>>,
         NEW S, ErasedTo(all, comb, idx, L, S), L[1] = 0, S # {}
  PROVE  ErasedTo(all, comb, idx, Tail(L), S \ {Sorted(S)[L[1] + 1]})
<1> DEFINE indexed == WithIndex(comb, idx)
           left    == StillLeft(comb, idx, L)
           rest    == all \ indexed
           others  == comb \ indexed
           M       == Tail(L)
           left2   == StillLeft(comb, idx, M)
           t       == Sorted(S)[L[1] + 1]
<1>1. /\ all \in SUBSET Trigger /\ comb \subseteq all /\ idx \in [Trigger -> Nat]
      /\ \A u \in indexed : idx[u] # 0 /\ idx[u] \in Nat
      /\ indexed \subseteq comb
      /\ left = {u \in indexed : idx[u] \in SeqX!ToSet(L)}
      /\ left2 = {u \in indexed : idx[u] \in SeqX!ToSet(M)}
  BY DEF Marked, WithIndex, StillLeft
<1>2. /\ L \in Seq(Nat) /\ Len(L) \in Nat \ {0} /\ DOMAIN L = 1 .. Len(L)
      /\ \A p \in 1 .. Len(L) : L[p] \in Nat
      /\ M \in Seq(Nat) /\ Len(M) = Len(L) - 1 /\ DOMAIN M = 1 .. Len(L) - 1
      /\ \A p \in 1 .. Len(L) - 1 : M[p] = L[p + 1]
  BY DEF Falling
<1>3. \A p \in 1 .. Len(L) : L[p] = 0
  <2> SUFFICES ASSUME NEW p \in 1 .. Len(L), p # 1 PROVE L[p] = 0
    OBVIOUS
  <2>1. 1 \in 1 .. Len(L) /\ 1 < p
    BY <1>2
  <2>2. L[p] < L[1] \/ L[p] = 0
    BY <2>1 DEF Falling
  <2> QED
    BY <1>2, <2>2
<1> HIDE DEF M, indexed, left, left2, t
<1>4. PICK k \in 0 .. Cardinality(others) :
         /\ Len(L) + k = Cardinality(others) + Cardinality(left)
         /\ S = (rest \ Lowest(rest, k)) \cup left
  BY Zenon DEF ErasedTo, indexed, left
<1>5. left = {} /\ left2 = {}
  <2>1. \A x \in SeqX!ToSet(L) : x = 0
    BY <1>2, <1>3 DEF SeqX!ToSet
  <2>2. \A p \in 1 .. Len(L) - 1 : M[p] = 0
    <3> SUFFICES ASSUME NEW p \in 1 .. Len(L) - 1 PROVE M[p] = 0
      OBVIOUS
    <3>1. p + 1 \in 1 .. Len(L)
      BY <1>2
    <3> QED
      BY <1>2, <1>3, <3>1
  <2>3. \A x \in SeqX!ToSet(M) : x = 0
    BY <1>2, <2>2 DEF SeqX!ToSet
  <2> QED
    BY <1>1, <2>1, <2>3
<1>6. Cardinality(others) \in Nat /\ Cardinality({}) = 0
  <2>1. IsFiniteSet(others)
    BY <1>1, PositionIsRank, FS_Subset
  <2> QED
    BY <2>1, FS_CardinalityType, FS_EmptySet
<1>7. k \in Nat /\ k + 1 \in 0 .. Cardinality(others)
      /\ Len(M) + (k + 1) = Cardinality(others) + Cardinality(left2)
  BY <1>2, <1>4, <1>5, <1>6
<1>8. /\ rest \in SUBSET Trigger /\ S = rest \ Lowest(rest, k) /\ S \in SUBSET Trigger
      /\ \A i \in Nat : Lowest(rest, i) = {u \in rest : DequePosition(rest, u) < i}
  <2>1. \A i \in Nat : Lowest(rest, i) = {u \in rest : DequePosition(rest, u) < i}
    BY Zenon DEF Lowest, DequePosition
  <2> QED
    BY <1>1, <1>4, <1>5, <2>1
<1>9. t \in S /\ DequePosition(S, t) = 0
  <2>1. 0 < Cardinality(S)
    <3>1. IsFiniteSet(S) /\ Cardinality(S) \in Nat
      BY <1>8, PositionIsRank
    <3> QED
      BY <3>1, FS_EmptySet
  <2>2. t = Sorted(S)[0 + 1]
    BY DEF t
  <2> QED
    BY <1>8, <2>1, <2>2, EraseSorted
<1> HIDE DEF rest
<1>10. DequePosition(rest, t) = k
  <2> DEFINE n == Cardinality(rest)
  <2>1. /\ t \in rest /\ ~(DequePosition(rest, t) < k) /\ DequePosition(rest, t) \in 0 .. n - 1
        /\ n \in Nat /\ IsFiniteSet(rest)
    BY <1>7, <1>8, <1>9, PositionOrder, PositionIsRank
  <2>2. ASSUME NEW u \in rest
        PROVE  Before(u, t) <=> u \in Lowest(rest, k)
    <3>1. ASSUME Before(u, t)
          PROVE  u \in Lowest(rest, k)
      <4>1. u \notin S
        <5> SUFFICES ASSUME u \in S PROVE FALSE
          OBVIOUS
        <5>1. DequePosition(S, u) < DequePosition(S, t) /\ DequePosition(S, u) \in 0 .. Cardinality(S) - 1
          BY <1>8, <1>9, <3>1, PositionOrder
        <5> QED
          BY <1>9, <5>1
      <4> QED
        BY <1>8, <4>1
    <3>2. ASSUME u \in Lowest(rest, k)
          PROVE  Before(u, t)
      <4>1. DequePosition(rest, u) < k /\ DequePosition(rest, u) \in 0 .. n - 1
        BY <1>7, <1>8, <3>2, PositionOrder
      <4>2. u # t /\ ~(DequePosition(rest, t) < DequePosition(rest, u))
        BY <1>7, <2>1, <4>1
      <4>3. ~Before(t, u)
        BY <1>8, <2>1, <4>2, PositionOrder
      <4> QED
        BY <1>8, <2>1, <4>2, <4>3, BeforeOrder
    <3> QED
      BY <3>1, <3>2
  <2>3. {u \in rest : Before(u, t)} = Lowest(rest, k)
    BY <1>7, <1>8, <2>2
  <2>4. k \in 0 .. n
    BY <1>7, <2>1
  <2>5. Cardinality(Lowest(rest, k)) = k
    BY <1>8, <2>4, LowestCount
  <2> QED
    BY <2>3, <2>5 DEF DequePosition
<1>11. S \ {t} = (rest \ Lowest(rest, k + 1)) \cup left2
  <2>1. t \in rest
    BY <1>8, <1>9
  <2>2. ASSUME NEW u \in rest
        PROVE  u \in Lowest(rest, k + 1) <=> u \in Lowest(rest, k) \/ u = t
    <3>1. DequePosition(rest, u) \in 0 .. Cardinality(rest) - 1
      BY <1>8, PositionOrder
    <3>2. DequePosition(rest, u) = k => u = t
      <4> SUFFICES ASSUME DequePosition(rest, u) = DequePosition(rest, t) PROVE u = t
        BY <1>10
      <4> QED
        BY <1>8, <2>1, PositionTaken
    <3>3. u \in Lowest(rest, k + 1) <=> DequePosition(rest, u) < k + 1
      BY <1>7, <1>8
    <3>4. u \in Lowest(rest, k) <=> DequePosition(rest, u) < k
      BY <1>7, <1>8
    <3> QED
      BY <1>7, <1>10, <3>1, <3>2, <3>3, <3>4
  <2> QED
    BY <1>5, <1>8, <2>1, <2>2
<1>12. \A p \in 1 .. Len(M) : M[p] = 0
  <2> SUFFICES ASSUME NEW p \in 1 .. Len(L) - 1 PROVE M[p] = 0
    BY <1>2
  <2>1. p + 1 \in 1 .. Len(L)
    BY <1>2
  <2> QED
    BY <1>2, <1>3, <2>1
<1>13. /\ left2 # {} => k + 1 = 0
       /\ \A p \in 1 .. Len(M) : M[p] # 0 => \E u \in left2 : idx[u] = M[p]
       /\ \A u \in indexed \ left2 : \A p \in 1 .. Len(M) : M[p] < idx[u]
  <2>1. \A u \in indexed : 0 < idx[u]
    BY <1>1
  <2> QED
    BY <1>5, <1>12, <2>1
<1>14. ErasedTo(all, comb, idx, M, S \ {t})
  <2> DEFINE K == k + 1
  <2>1. K \in 0 .. Cardinality(others) /\ Len(M) + K = Cardinality(others) + Cardinality(left2)
    BY <1>7
  <2>2. (left2 # {} => K = 0) /\ S \ {t} = (rest \ Lowest(rest, K)) \cup left2
    BY <1>11, <1>13
  <2> HIDE DEF K
  <2> QED
    BY <1>13, <2>1, <2>2, Zenon DEF ErasedTo, indexed, left2, rest
<1> QED
  BY <1>14 DEF M, t

----------------------------------------------------------------------------
(* The rest of what the refinement needs of a state. *)

\* The indices: those of the heads that the scan has admitted.
MarkInv ==
    /\ at = "scan" =>
          CarriedBy(TriggersOf(triggerPool) \cap Heads(Seen(arrived, j)), arrived, trigIdx)
    /\ at \in {"rounds", "erase"} =>
          \A t \in TriggersOf(triggerPool) :
             trigIdx[t] = IF t \in Heads(Candidates(arrived, Front(arrived)))
                          THEN DequePosition(arrived, t) ELSE 0

\* The pool: what the scan found without the stations dropped since.  A station was
\* dropped only after some combination had been found.
DropInv ==
    at \in {"rounds", "erase"} =>
        LET all == TriggerPool(arrived, Front(arrived))
        IN  /\ Cardinality(StationsOf(all)) >= MinStations
            /\ \E dropped \in Droppable(all) :
                  /\ Cardinality(dropped) <= round
                  /\ TriggersOf(triggerPool) = WithoutStations(all, dropped)
                  /\ locCombinationPool # <<>> \/ dropped # {} => Combinations(all) # {}

\* Both hold when a pass begins: the pool is empty and no trigger carries an index.
LEMMA MarkStarts == Init => MarkInv /\ DropInv
<1> SUFFICES ASSUME Init PROVE MarkInv /\ DropInv
  OBVIOUS
<1>1. at = "scan" /\ triggerPool = EmptyMap /\ trigIdx = [t \in Trigger |-> 0]
  BY DEF Init, NoIndex
<1>2. TriggersOf(triggerPool) = {}
  BY <1>1, PoolingStart
<1>3. CarriedBy(TriggersOf(triggerPool) \cap Heads(Seen(arrived, j)), arrived, trigIdx)
  BY <1>1, <1>2 DEF CarriedBy
<1> QED
  BY <1>1, <1>3 DEF MarkInv, DropInv

\* A step of the scan keeps them.
LEMMA ScanMarks == PassInv /\ MarkInv /\ Scan => MarkInv' /\ DropInv'
<1> SUFFICES ASSUME PassInv, MarkInv, Scan PROVE MarkInv' /\ DropInv'
  OBVIOUS
<1>1. at = "scan" /\ at' = "scan" /\ j' = j + 1 /\ arrived' = arrived /\ arrived \in SUBSET Trigger
  BY DEF Scan, PassInv, DequeInv
<1>2. /\ oneTrig = Sorted(arrived)[j + 1] /\ j \in Nat /\ j < Cardinality(arrived)
      /\ Scanned(triggerPool, arrived, j)
      /\ triggerPool' = Passed(triggerPool, arrived, oneTrig)
      /\ trigIdx' = MarkedNext(triggerPool, arrived, j, trigIdx)
  BY ScanIs
<1>3. CarriedBy(TriggersOf(triggerPool) \cap Heads(Seen(arrived, j)), arrived, trigIdx)
  BY <1>1 DEF MarkInv
<1>4. CarriedBy(TriggersOf(Passed(triggerPool, arrived, Sorted(arrived)[j + 1]))
                   \cap Heads(Seen(arrived, j + 1)), arrived,
                MarkedNext(triggerPool, arrived, j, trigIdx))
  BY <1>1, <1>2, <1>3, CarriedNext
<1>5. CarriedBy(TriggersOf(triggerPool') \cap Heads(Seen(arrived', j')), arrived', trigIdx')
  BY <1>1, <1>2, <1>4
<1> QED
  BY <1>1, <1>5 DEF MarkInv, DropInv

\* A pool in which something is found has a combination.
LEMMA FoundSome ==
  ASSUME NEW m, Pooling(m), Found(m) # <<>>
  PROVE  Combinations(TriggersOf(m)) # {}
<1>1. /\ Found(m) \in Seq(Seq(Trigger))
      /\ {SeqX!ToSet(c) : c \in SeqX!ToSet(Found(m))} = Combinations(TriggersOf(m))
  BY FoundIs, FoundOnce
<1> HIDE DEF Found
<1>2. 1 \in 1 .. Len(Found(m))
  BY <1>1
<1>3. Found(m)[1] \in SeqX!ToSet(Found(m))
  BY <1>1, <1>2 DEF SeqX!ToSet
<1> QED
  BY <1>1, <1>3

\* The stations that are left.
LEMMA StationsWithout ==
  ASSUME NEW all, NEW dropped
  PROVE  StationsOf(WithoutStations(all, dropped)) = StationsOf(all) \ dropped
<1>1. StationsOf(all) = {t.stationID : t \in all}
      /\ StationsOf(WithoutStations(all, dropped)) = {t.stationID : t \in WithoutStations(all, dropped)}
      /\ WithoutStations(all, dropped) = {t \in all : t.stationID \notin dropped}
  BY DEF StationsOf, WithoutStations
<1> QED
  BY <1>1

\* The pool in front of a base trigger has finitely many stations.
LEMMA PoolFinite ==
  ASSUME NEW D \in SUBSET Trigger
  PROVE  LET all == TriggerPool(D, Front(D))
         IN  /\ all \subseteq D /\ IsFiniteSet(StationsOf(all)) /\ Cardinality(StationsOf(all)) \in Nat
             /\ \A dropped \in Droppable(all) : IsFiniteSet(dropped) /\ Cardinality(dropped) \in Nat
<1> DEFINE all == TriggerPool(D, Front(D))
<1>1. all \subseteq D
  BY DEF TriggerPool, Candidates
<1>2. IsFiniteSet(all)
  BY <1>1, PositionIsRank, FS_Subset
<1> HIDE DEF all
<1>3. IsFiniteSet(StationsOf(all))
  <2> DEFINE as == [t \in all |-> t.stationID]
  <2>1. as \in [all -> StationsOf(all)] /\ \A s \in StationsOf(all) : \E t \in all : as[t] = s
    BY DEF StationsOf
  <2> HIDE DEF as
  <2>2. as \in Surjection(all, StationsOf(all))
    BY <2>1 DEF Surjection
  <2> QED
    BY <1>2, <2>2, FS_Surjection
<1>4. \A dropped \in Droppable(all) : IsFiniteSet(dropped)
  BY <1>3, FS_Subset DEF Droppable
<1> QED
  BY <1>1, <1>3, <1>4, FS_CardinalityType DEF all

\* The first enumeration starts from the whole pool, with no station dropped.
LEMMA FirstMarks == PassInv /\ MarkInv /\ FirstResiduals => MarkInv' /\ DropInv'
<1> SUFFICES ASSUME PassInv, MarkInv, FirstResiduals PROVE MarkInv' /\ DropInv'
  OBVIOUS
<1> DEFINE all == TriggerPool(arrived, Front(arrived))
<1>1. /\ at = "scan" /\ ScanOver /\ at' = "rounds" /\ triggerPool' = triggerPool /\ Enumerate
      /\ Len(triggerPool.m_values) >= MinStations
      /\ arrived' = arrived /\ trigIdx' = trigIdx /\ round' = round
  BY DEF FirstResiduals, PoolSize
<1>2. /\ arrived \in SUBSET Trigger /\ Pooling(triggerPool)
      /\ TriggersOf(triggerPool) \subseteq arrived /\ round \in Nat
  BY DEF PassInv, DequeInv, PoolInv
<1>3. /\ Seen(arrived, j) = Candidates(arrived, Front(arrived))
      /\ TriggersOf(triggerPool) = all
  BY <1>1, ScanEnds
<1>4. MarkInv'
  <2>1. CarriedBy(TriggersOf(triggerPool) \cap Heads(Seen(arrived, j)), arrived, trigIdx)
    BY <1>1 DEF MarkInv
  <2>2. \A t \in TriggersOf(triggerPool) :
           trigIdx[t] = IF t \in Heads(Candidates(arrived, Front(arrived)))
                        THEN DequePosition(arrived, t) ELSE 0
    BY <1>2, <1>3, <2>1 DEF CarriedBy
  <2> QED
    BY <1>1, <2>2 DEF MarkInv
<1>5. locCombinationPool' = Found(triggerPool)
  BY <1>1, Zenon DEF Enumerate, Found
<1>6. Cardinality(StationsOf(all)) >= MinStations
  <2>1. StationsOf(all) = KeysOf(triggerPool) /\ Cardinality(KeysOf(triggerPool)) = Len(triggerPool.m_values)
    BY <1>2, <1>3, PoolStations
  <2> QED
    BY <1>1, <2>1
<1>7. {} \in Droppable(all) /\ Cardinality({}) <= round
  BY <1>2, FS_EmptySet DEF Droppable
<1>8. TriggersOf(triggerPool) = WithoutStations(all, {})
  BY <1>3 DEF WithoutStations
<1>9. locCombinationPool' # <<>> => Combinations(all) # {}
  BY <1>2, <1>3, <1>5, FoundSome
<1> HIDE DEF all
<1>10. \E dropped \in Droppable(all) :
          /\ Cardinality(dropped) <= round
          /\ TriggersOf(triggerPool) = WithoutStations(all, dropped)
          /\ locCombinationPool' # <<>> \/ dropped # {} => Combinations(all) # {}
  BY <1>7, <1>8, <1>9
<1>11. DropInv'
  BY <1>1, <1>6, <1>10 DEF DropInv, all
<1> QED
  BY <1>4, <1>11

\* A round drops one station more, and only with a combination to choose it from.
LEMMA DropMarks == PassInv /\ MarkInv /\ DropInv /\ DropWorstStation => MarkInv' /\ DropInv'
<1> SUFFICES ASSUME PassInv, MarkInv, DropInv, DropWorstStation PROVE MarkInv' /\ DropInv'
  OBVIOUS
<1> DEFINE all == TriggerPool(arrived, Front(arrived))
           P   == TriggersOf(triggerPool)
<1>1. /\ at = "rounds" /\ at' = "rounds" /\ round < 2 /\ round' = round + 1 /\ Enumerate
      /\ Len(triggerPool.m_values) > CredibleStations
      /\ arrived' = arrived /\ trigIdx' = trigIdx
  BY DEF DropWorstStation, WorthDropping, PoolSize
<1>2. /\ arrived \in SUBSET Trigger /\ Pooling(triggerPool) /\ round \in Nat
      /\ locCombinationPool = Found(triggerPool)
      /\ locCombinationPool # <<>> => finalCombIdx \in 1 .. Len(locCombinationPool)
  BY <1>1 DEF PassInv, DequeInv, PoolInv, ResidualInv
<1>3. Len(triggerPool.m_values) \in Nat /\ CredibleStations \in Nat
  BY <1>2, PoolingType, BoundAssumption
<1>4. Cardinality(StationsOf(all)) >= MinStations
  BY <1>1 DEF DropInv
<1>5. PICK dropped \in Droppable(all) :
         /\ Cardinality(dropped) <= round /\ P = WithoutStations(all, dropped)
         /\ locCombinationPool # <<>> \/ dropped # {} => Combinations(all) # {}
  BY <1>1 DEF DropInv
<1>6. /\ IsFiniteSet(StationsOf(all)) /\ Cardinality(StationsOf(all)) \in Nat
      /\ IsFiniteSet(dropped) /\ Cardinality(dropped) \in Nat
  BY <1>2, <1>5, PoolFinite
<1>7. locCombinationPool' = Found(triggerPool')
  BY <1>1, Zenon DEF Enumerate, Found
<1>8. \A t \in P : trigIdx[t] = IF t \in Heads(Candidates(arrived, Front(arrived)))
                                THEN DequePosition(arrived, t) ELSE 0
  BY <1>1 DEF MarkInv
<1>9. KeysOf(triggerPool) = StationsOf(all) \ dropped
      /\ Cardinality(KeysOf(triggerPool)) = Len(triggerPool.m_values)
  BY <1>2, <1>5, PoolStations, StationsWithout
<1> HIDE DEF all, P
<1>10. CASE locCombinationPool = <<>>
  <2>1. triggerPool' = triggerPool
    BY <1>10 DEF DropWorstStation
  <2>2. locCombinationPool' = <<>>
    BY <1>2, <1>7, <1>10, <2>1
  <2>3. Cardinality(dropped) <= round + 1
    BY <1>2, <1>5, <1>6
  <2>4. DropInv'
    BY <1>1, <1>4, <1>5, <2>1, <2>2, <2>3 DEF DropInv, all, P
  <2>5. MarkInv'
    BY <1>1, <1>8, <2>1 DEF MarkInv, P
  <2> QED
    BY <2>4, <2>5
<1>11. CASE locCombinationPool # <<>>
  <2>1. PICK s \in StationsOf(SeqX!ToSet(locCombinationPool[finalCombIdx])) :
           triggerPool' = EraseKey(triggerPool, s)
    BY <1>11 DEF DropWorstStation
  <2>2. s \in KeysOf(triggerPool)
    <3>1. OneOfEach(triggerPool, locCombinationPool[finalCombIdx])
      BY <1>2, <1>11, FoundMember
    <3> QED
      BY <1>2, <2>1, <3>1, MembersOf
  <2>3. Pooling(triggerPool') /\ TriggersOf(triggerPool') = {t \in P : t.stationID # s}
    BY <1>2, <2>1, <2>2, PoolErase DEF P
  <2> DEFINE more == dropped \cup {s}
  <2>4. s \in StationsOf(all) /\ s \notin dropped
    BY <1>9, <2>2
  <2>5. Cardinality(more) = Cardinality(dropped) + 1
    BY <1>6, <2>4, FS_AddElement
  <2>6. more \in Droppable(all)
    <3>1. dropped \subseteq StationsOf(all)
      BY <1>5 DEF Droppable
    <3>2. Cardinality(StationsOf(all) \ dropped) = Cardinality(StationsOf(all)) - Cardinality(dropped)
      <4>1. StationsOf(all) \cap dropped = dropped
        BY <3>1
      <4> QED
        BY <1>6, <4>1, FS_Difference
    <3>3. Cardinality(more) <= 2
      BY <1>1, <1>2, <1>5, <1>6, <2>5
    <3>4. Cardinality(StationsOf(all)) - Cardinality(more) >= CredibleStations
      BY <1>1, <1>3, <1>6, <1>9, <2>5, <3>2
    <3>5. more \in SUBSET StationsOf(all)
      BY <2>4, <3>1
    <3> QED
      BY <3>3, <3>4, <3>5 DEF Droppable
  <2>7. TriggersOf(triggerPool') = WithoutStations(all, more)
    BY <1>5, <2>3 DEF WithoutStations
  <2>8. Cardinality(more) <= round + 1 /\ Combinations(all) # {}
    BY <1>2, <1>5, <1>6, <1>11, <2>5
  <2> HIDE DEF more
  <2>9. DropInv'
    <3>1. \E d \in Droppable(all) :
             /\ Cardinality(d) <= round' /\ TriggersOf(triggerPool') = WithoutStations(all, d)
             /\ locCombinationPool' # <<>> \/ d # {} => Combinations(all) # {}
      BY <1>1, <2>6, <2>7, <2>8
    <3> QED
      BY <1>1, <1>4, <3>1 DEF DropInv, all
  <2>10. MarkInv'
    BY <1>1, <1>8, <2>3 DEF MarkInv
  <2> QED
    BY <2>9, <2>10
<1> QED
  BY <1>10, <1>11

\* A round that drops nothing.
LEMMA KeepMarks == PassInv /\ MarkInv /\ DropInv /\ KeepStations => MarkInv' /\ DropInv'
<1> SUFFICES ASSUME PassInv, MarkInv, DropInv, KeepStations PROVE MarkInv' /\ DropInv'
  OBVIOUS
<1> DEFINE all == TriggerPool(arrived, Front(arrived))
<1>1. /\ at = "rounds" /\ at' = "rounds" /\ round' = round + 1
      /\ arrived' = arrived /\ trigIdx' = trigIdx /\ triggerPool' = triggerPool
      /\ locCombinationPool' = locCombinationPool
      /\ arrived \in SUBSET Trigger /\ round \in Nat
  BY DEF KeepStations, located, PassInv, DequeInv
<1>2. Cardinality(StationsOf(all)) >= MinStations
  BY <1>1 DEF DropInv
<1>3. PICK dropped \in Droppable(all) :
         /\ Cardinality(dropped) <= round /\ TriggersOf(triggerPool) = WithoutStations(all, dropped)
         /\ locCombinationPool # <<>> \/ dropped # {} => Combinations(all) # {}
  BY <1>1 DEF DropInv
<1>4. Cardinality(dropped) \in Nat
  BY <1>1, <1>3, PoolFinite
<1>5. Cardinality(dropped) <= round + 1
  BY <1>1, <1>3, <1>4
<1>6. DropInv'
  BY <1>1, <1>2, <1>3, <1>5 DEF DropInv
<1>7. MarkInv'
  BY <1>1 DEF MarkInv
<1> QED
  BY <1>6, <1>7

\* The other steps leave the pool and the indices alone.
LEMMA RestMarks ==
  ASSUME MarkInv, DropInv,
         TooFewStations \/ ResidualTooLarge \/ Accept \/ EraseOne \/ AllErased \/ UNCHANGED vars
  PROVE  MarkInv' /\ DropInv'
<1>1. /\ \/ at' = "done" \/ at' = at
         \/ at = "rounds" /\ at' = "erase"
      /\ at' = at \/ at' \in {"done", "erase"}
      /\ arrived' = arrived /\ trigIdx' = trigIdx /\ triggerPool' = triggerPool /\ j' = j
      /\ locCombinationPool' = locCombinationPool /\ round' = round
  BY DEF TooFewStations, ResidualTooLarge, Accept, EraseOne, AllErased, vars, located
<1>2. MarkInv'
  BY <1>1 DEF MarkInv
<1>3. DropInv'
  BY <1>1 DEF DropInv
<1> QED
  BY <1>2, <1>3

\* The members of the result, and the indices that some of them carry.
LEMMA ResultMarked ==
  ASSUME PassInv, MarkInv, at \in {"rounds", "erase"}, MinSq = "below"
  PROVE  /\ Marked(arrived, SeqX!ToSet(result), trigIdx)
         /\ WithIndex(SeqX!ToSet(result), trigIdx) =
               Indexed(arrived, Front(arrived), SeqX!ToSet(result))
<1> DEFINE comb == SeqX!ToSet(result)
           base == Front(arrived)
<1>1. /\ arrived \in SUBSET Trigger /\ arrived # {} /\ trigIdx \in [Trigger -> Nat]
      /\ Pooling(triggerPool) /\ TriggersOf(triggerPool) \subseteq arrived
  BY DEF PassInv, DequeInv, IndexInv, PoolInv
<1>2. OneOfEach(triggerPool, result)
  BY ResultIs
<1>3. comb \subseteq TriggersOf(triggerPool)
  BY <1>1, <1>2, MembersOf
<1>4. \A t \in TriggersOf(triggerPool) :
         trigIdx[t] = IF t \in Heads(Candidates(arrived, base)) THEN DequePosition(arrived, t) ELSE 0
  BY DEF MarkInv
<1>5. base \in arrived /\ DequePosition(arrived, base) = 0
  <2>1. Sorted(arrived)[1] = base /\ Len(Sorted(arrived)) > 0
        /\ Len(Sorted(arrived)) = Cardinality(arrived)
    BY <1>1, SortedFront, SortedIs
  <2>2. 0 < Cardinality(arrived)
    BY <2>1
  <2>3. DequePosition(arrived, Sorted(arrived)[0 + 1]) = 0 /\ Sorted(arrived)[0 + 1] \in arrived
    BY <1>1, <2>2, EraseSorted
  <2> QED
    BY <2>1, <2>3
<1> HIDE DEF comb, base
<1>6. \A t \in comb : t \in arrived /\ (DequePosition(arrived, t) = 0 <=> t = base)
  BY <1>1, <1>3, <1>5, PositionTaken
<1>7. Marked(arrived, comb, trigIdx)
  <2>1. \A t \in comb : trigIdx[t] # 0 => DequePosition(arrived, t) = trigIdx[t]
    BY <1>3, <1>4
  <2> QED
    BY <1>1, <1>6, <2>1 DEF Marked
<1>8. WithIndex(comb, trigIdx) = Indexed(arrived, base, comb)
  <2>1. \A t \in comb : trigIdx[t] # 0 <=> t \in Heads(Candidates(arrived, base)) /\ t # base
    BY <1>3, <1>4, <1>6
  <2> QED
    BY <2>1 DEF WithIndex, Indexed
<1> QED
  BY <1>7, <1>8 DEF comb, base

\* While members are erased, the deque is the sorted one of what they leave.
ShrinkInv ==
    at = "erase" =>
        /\ Falling(indices)
        /\ \E S \in SUBSET Trigger :
              /\ allTriggers = Sorted(S)
              /\ ErasedTo(arrived, SeqX!ToSet(result), trigIdx, indices, S)

\* When a result is accepted, all is left to erase.
LEMMA AcceptShrinks == PassInv /\ MarkInv /\ Accept => ShrinkInv'
<1> SUFFICES ASSUME PassInv, MarkInv, Accept PROVE ShrinkInv'
  OBVIOUS
<1> DEFINE comb == SeqX!ToSet(result)
           indexed == WithIndex(comb, trigIdx)
           L == indices'
           left == StillLeft(comb, trigIdx, L)
           others == comb \ indexed
           rest == arrived \ indexed
<1>1. /\ at = "rounds" /\ MinSq = "below" /\ allTriggers' = allTriggers /\ arrived' = arrived
      /\ trigIdx' = trigIdx /\ result' = result
  BY DEF Accept, located
<1>2. /\ result = locCombinationPool[finalCombIdx] /\ result \in Seq(Trigger)
  BY <1>1, ResultIs
<1>3. L = Descending([i \in 1 .. Len(result) |-> trigIdx[result[i]]])
  BY <1>2 DEF Accept
<1>4. Falling(L) /\ Len(L) = Cardinality(comb) /\ SeqX!ToSet(L) = {trigIdx[t] : t \in comb}
  BY <1>1, <1>3, IndicesFall
<1>5. Marked(arrived, comb, trigIdx)
  BY <1>1, ResultMarked
<1>6. arrived \in SUBSET Trigger /\ allTriggers = Sorted(arrived)
  BY <1>1 DEF PassInv, DequeInv
<1> HIDE DEF comb, L
<1>7. /\ comb \subseteq arrived /\ indexed \subseteq comb /\ left = indexed
      /\ indexed = {t \in comb : trigIdx[t] # 0}
  BY <1>4, <1>5 DEF Marked, WithIndex, StillLeft
<1>8. IsFiniteSet(comb) /\ IsFiniteSet(indexed)
  BY <1>6, <1>7, PositionIsRank, FS_Subset
<1> HIDE DEF indexed, left
<1>9. /\ Cardinality(comb) \in Nat /\ Cardinality(indexed) \in Nat /\ Cardinality(others) \in Nat
      /\ Cardinality(others) = Cardinality(comb) - Cardinality(indexed)
  <2>1. IsFiniteSet(others)
    BY <1>8, FS_Subset
  <2>2. comb \cap indexed = indexed
    BY <1>7
  <2> QED
    BY <1>8, <2>1, <2>2, FS_Difference, FS_CardinalityType
<1>10. Len(L) + 0 = Cardinality(others) + Cardinality(left)
  <2> HIDE DEF others
  <2> QED
    BY <1>4, <1>7, <1>9
<1>11. arrived = (rest \ Lowest(rest, 0)) \cup left
  <2>1. Lowest(rest, 0) = {}
    BY <1>6, LowestNone
  <2> QED
    BY <1>7, <2>1
<1>12. \A p \in 1 .. Len(L) : L[p] # 0 => \E t \in left : trigIdx[t] = L[p]
  <2> SUFFICES ASSUME NEW p \in 1 .. Len(L), L[p] # 0 PROVE \E t \in left : trigIdx[t] = L[p]
    OBVIOUS
  <2>1. L[p] \in SeqX!ToSet(L)
    BY <1>4 DEF Falling, SeqX!ToSet
  <2> QED
    BY <1>4, <1>7, <2>1
<1>13. 0 \in 0 .. Cardinality(others) /\ \A u \in indexed \ left : \A p \in 1 .. Len(L) : L[p] < trigIdx[u]
  BY <1>7, <1>9
<1>14. ErasedTo(arrived, comb, trigIdx, L, arrived)
  BY <1>10, <1>11, <1>12, <1>13, Zenon DEF ErasedTo, indexed, left
<1> QED
  BY <1>1, <1>4, <1>6, <1>14 DEF ShrinkInv, comb, L

\* Each erase takes one index and one trigger.
LEMMA EraseShrinksDeque == PassInv /\ MarkInv /\ ShrinkInv /\ EraseOne => ShrinkInv'
<1> SUFFICES ASSUME PassInv, MarkInv, ShrinkInv, EraseOne PROVE ShrinkInv'
  OBVIOUS
<1> DEFINE comb == SeqX!ToSet(result)
           L == indices
<1>1. /\ at = "erase" /\ at' = at /\ L # <<>> /\ allTriggers' = Erase(Head(L)) /\ indices' = Tail(L)
      /\ arrived' = arrived /\ trigIdx' = trigIdx /\ result' = result /\ MinSq = "below"
  BY DEF EraseOne, located, PassInv, ResidualInv
<1>2. L \in Seq(Nat) /\ L[1] < Len(allTriggers) /\ Falling(L)
  BY <1>1 DEF PassInv, EraseInv, ShrinkInv
<1>3. PICK S \in SUBSET Trigger : allTriggers = Sorted(S) /\ ErasedTo(arrived, comb, trigIdx, L, S)
  BY <1>1 DEF ShrinkInv
<1>4. Marked(arrived, comb, trigIdx)
  BY <1>1, ResultMarked
<1>5. Head(L) = L[1] /\ L[1] \in Nat /\ L[1] < Cardinality(S)
  BY <1>1, <1>2, <1>3, SortedIs
<1>6. allTriggers' = Sorted(S \ {Sorted(S)[L[1] + 1]})
  BY <1>1, <1>3, <1>5, EraseSorted DEF Erase
<1> HIDE DEF comb, L
<1>7. ErasedTo(arrived, comb, trigIdx, Tail(L), S \ {Sorted(S)[L[1] + 1]})
  <2>1. CASE L[1] # 0
    BY <1>1, <1>2, <1>3, <1>4, <2>1, EraseIndexed DEF L
  <2>2. CASE L[1] = 0
    <3>1. S # {}
      BY <1>5, <2>2, FS_EmptySet
    <3> QED
      BY <1>1, <1>2, <1>3, <1>4, <2>2, <3>1, EraseFront DEF L
  <2> QED
    BY <2>1, <2>2
<1>8. Falling(Tail(L))
  <2>1. /\ L \in Seq(Nat) /\ L # <<>>
        /\ \A p, q \in 1 .. Len(L) : p < q => L[q] < L[p] \/ L[q] = 0
    BY <1>1, <1>2 DEF Falling, L
  <2>2. /\ Tail(L) \in Seq(Nat) /\ Len(Tail(L)) = Len(L) - 1 /\ Len(L) \in Nat
        /\ \A p \in 1 .. Len(L) - 1 : Tail(L)[p] = L[p + 1]
    BY <2>1
  <2>3. ASSUME NEW p \in 1 .. Len(Tail(L)), NEW q \in 1 .. Len(Tail(L)), p < q
        PROVE  Tail(L)[q] < Tail(L)[p] \/ Tail(L)[q] = 0
    <3>1. p + 1 \in 1 .. Len(L) /\ q + 1 \in 1 .. Len(L) /\ p + 1 < q + 1
      BY <2>2, <2>3
    <3>2. Tail(L)[p] = L[p + 1] /\ Tail(L)[q] = L[q + 1]
      BY <2>2
    <3> QED
      BY <2>1, <3>1, <3>2
  <2> QED
    BY <2>2, <2>3 DEF Falling
<1>9. S \ {Sorted(S)[L[1] + 1]} \in SUBSET Trigger
  OBVIOUS
<1> QED
  BY <1>1, <1>6, <1>7, <1>8, <1>9 DEF ShrinkInv, comb, L

\* When nothing is left to erase, the deque is what LocPool says and the combination is
\* one of those that LocPool allows.
LEMMA ErasedAll ==
  ASSUME PassInv, MarkInv, DropInv, ShrinkInv, at = "erase", indices = <<>>
  PROVE  /\ SeqX!ToSet(result) \in LocatedCombs(TriggerPool(arrived, Front(arrived)))
         /\ Contents = EraseUsed(arrived, Front(arrived), SeqX!ToSet(result))
<1> DEFINE comb == SeqX!ToSet(result)
           base == Front(arrived)
           all == TriggerPool(arrived, base)
           indexed == WithIndex(comb, trigIdx)
           left == StillLeft(comb, trigIdx, indices)
           others == comb \ indexed
           rest == arrived \ indexed
<1>1. MinSq = "below" /\ arrived \in SUBSET Trigger
  BY DEF PassInv, ResidualInv, DequeInv
<1>2. /\ Pooling(triggerPool) /\ OneOfEach(triggerPool, result) /\ result \in Seq(Trigger)
      /\ locCombinationPool # <<>>
  BY <1>1, ResultIs DEF PassInv, ResidualInv
<1>3. Marked(arrived, comb, trigIdx) /\ indexed = Indexed(arrived, base, comb)
  BY <1>1, ResultMarked
<1>4. comb \in LocatedCombs(all)
  <2>1. PICK dropped \in Droppable(all) :
           /\ TriggersOf(triggerPool) = WithoutStations(all, dropped)
           /\ locCombinationPool # <<>> \/ dropped # {} => Combinations(all) # {}
    BY DEF DropInv
  <2>2. Cardinality(StationsOf(all)) >= MinStations
    BY DEF DropInv
  <2>3. comb \in Combinations(WithoutStations(all, dropped))
    BY <1>2, <2>1, CombinationSets
  <2> HIDE DEF comb, all
  <2>4. Combinations(all) # {}
    BY <1>2, <2>1
  <2> QED
    BY <2>1, <2>2, <2>3, <2>4, Zenon DEF LocatedCombs
<1>5. PICK S \in SUBSET Trigger :
         allTriggers = Sorted(S) /\ ErasedTo(arrived, comb, trigIdx, indices, S)
  BY DEF ShrinkInv
<1>6. Contents = S
  BY <1>5, SortedIs DEF Contents
<1>7. left = {}
  BY DEF StillLeft, SeqX!ToSet
<1> HIDE DEF comb, base, all, indexed, left
<1>8. PICK k \in 0 .. Cardinality(others) :
         /\ Len(indices) + k = Cardinality(others) + Cardinality(left)
         /\ S = (rest \ Lowest(rest, k)) \cup left
  BY <1>5, Zenon DEF ErasedTo, indexed, left
<1>9. Cardinality(others) \in Nat /\ Cardinality(left) = 0 /\ Len(indices) = 0
  <2>1. IsFiniteSet(others)
    <3>1. comb \subseteq arrived
      BY <1>3 DEF Marked
    <3> QED
      BY <1>1, <3>1, PositionIsRank, FS_Subset
  <2> QED
    BY <1>7, <2>1, FS_CardinalityType, FS_EmptySet
<1>10. k = Cardinality(others)
  <2> HIDE DEF others, rest
  <2> QED
    BY <1>8, <1>9
<1>11. S = rest \ Lowest(rest, Cardinality(others))
  BY <1>7, <1>8, <1>10
<1>12. EraseUsed(arrived, base, comb) = rest \ Lowest(rest, Cardinality(others))
  BY <1>3, Zenon DEF EraseUsed
<1> QED
  BY <1>4, <1>6, <1>11, <1>12 DEF comb, base, all

\* Among the first elements of a deque none stands behind all of as many others.
LEMMA LowestAmong ==
  ASSUME NEW D \in SUBSET Trigger, NEW O \in SUBSET D, NEW k \in 0 .. Cardinality(O),
         NEW t \in Lowest(D, k)
  PROVE  \E m \in O : ~Before(m, t)
<1> DEFINE earlier == {u \in D : Before(u, t)}
<1> SUFFICES ASSUME \A m \in O : Before(m, t) PROVE FALSE
  OBVIOUS
<1>1. O \subseteq earlier /\ earlier \in SUBSET Trigger
  OBVIOUS
<1>2. Cardinality(earlier) < k
  BY Zenon DEF Lowest
<1> HIDE DEF earlier
<1>3. IsFiniteSet(earlier)
  BY <1>1, PositionIsRank
<1>4. /\ IsFiniteSet(O) /\ Cardinality(O) <= Cardinality(earlier)
      /\ Cardinality(O) \in Nat /\ Cardinality(earlier) \in Nat
  BY <1>1, <1>3, FS_Subset, FS_CardinalityType
<1> QED
  BY <1>2, <1>4

\* What is gone at any moment of the erasure is a member with an index, or one of the
\* first of the others, of which there are no more than members without an index.
LEMMA GoneIsNotLater ==
  ASSUME PassInv, MarkInv, ShrinkInv, at = "erase"
  PROVE  \A t \in arrived \ Contents : \E m \in SeqX!ToSet(result) : ~Before(m, t)
<1> DEFINE comb == SeqX!ToSet(result)
           indexed == WithIndex(comb, trigIdx)
           left == StillLeft(comb, trigIdx, indices)
           others == comb \ indexed
           rest == arrived \ indexed
<1>1. MinSq = "below"
  BY DEF PassInv, ResidualInv
<1>2. Marked(arrived, comb, trigIdx)
  BY <1>1, ResultMarked
<1>3. PICK S \in SUBSET Trigger :
         allTriggers = Sorted(S) /\ ErasedTo(arrived, comb, trigIdx, indices, S)
  BY DEF ShrinkInv
<1>4. Contents = S
  BY <1>3, SortedIs DEF Contents
<1>5. arrived \in SUBSET Trigger /\ comb \subseteq arrived /\ indexed \subseteq comb
  BY <1>2 DEF Marked, WithIndex
<1> HIDE DEF comb, indexed, left
<1>6. PICK k \in 0 .. Cardinality(others) : S = (rest \ Lowest(rest, k)) \cup left
  BY <1>3, Zenon DEF ErasedTo, indexed, left
<1>7. rest \in SUBSET Trigger /\ others \in SUBSET rest
  BY <1>5
<1>8. ASSUME NEW t \in arrived \ Contents
      PROVE  \E m \in comb : ~Before(m, t)
  <2>1. t \in indexed \/ t \in Lowest(rest, k)
    BY <1>4, <1>6
  <2>2. CASE t \in indexed
    BY <1>5, <2>2, BeforeOrder
  <2>3. CASE t \in Lowest(rest, k)
    <3>1. \E m \in others : ~Before(m, t)
      <4> HIDE DEF others, rest
      <4> QED
        BY <1>6, <1>7, <2>3, LowestAmong
    <3> QED
      BY <3>1
  <2> QED
    BY <2>1, <2>2, <2>3
<1> QED
  BY <1>8 DEF comb

----------------------------------------------------------------------------
(* What one pass promises. *)

\* The abstract pass measures times as the pass does.
LEMMA ChoiceMinus ==
  ASSUME NEW a, NEW b
  PROVE  Choice!Minus(a, b) = Minus(a, b)
<1>1. /\ Choice!TicksPerSecond = TicksPerSecond
      /\ \A sec : Choice!Weighted(sec) = Weighted(sec)
      /\ \A t : Choice!WholeSeconds(t) = WholeSeconds(t)
      /\ \A t : Choice!m_ActPointSec(t) = m_ActPointSec(t)
  BY SMT DEF Choice!TicksPerSecond, TicksPerSecond, Choice!Weighted, Weighted, Choice!WholeSeconds,
         WholeSeconds, Choice!m_ActPointSec, m_ActPointSec, Choice!m_Day, m_Day, Choice!m_Hour,
         m_Hour, Choice!m_Min, m_Min, Choice!m_Sec, m_Sec
<1> QED
  BY <1>1, Zenon DEF Choice!Minus, Minus

\* It counts as the pass does.
LEMMA ChoiceCardinality ==
  ASSUME NEW S
  PROVE  Choice!Cardinality(S) = Cardinality(S)
BY DEF Choice!Cardinality, Cardinality

\* It orders the triggers and chooses among them as the pass does.
LEMMA ChoiceOrder ==
  /\ \A t, u : Choice!Before(t, u) = Before(t, u)
  /\ \A all : Choice!Front(all) = Front(all)
  /\ \A all, k : Choice!Lowest(all, k) = Lowest(all, k)
  /\ \A all, base : Choice!Candidates(all, base) = Candidates(all, base)
  /\ \A cand : Choice!Heads(cand) = Heads(cand)
  /\ \A cand : Choice!AdmittedHeads(cand) = AdmittedHeads(cand)
<1>1. \A t, u : Choice!Before(t, u) = Before(t, u)
  BY Zenon DEF Choice!Before, Before
<1>2. \A all : Choice!Front(all) = Front(all)
  BY <1>1, Zenon DEF Choice!Front, Front
<1>3. ASSUME NEW all, NEW k
      PROVE  Choice!Lowest(all, k) = Lowest(all, k)
  <2> DEFINE mine(t) == Cardinality({u \in all : Before(u, t)})
             its(t)  == Choice!Cardinality({u \in all : Choice!Before(u, t)})
  <2>1. ASSUME NEW t
        PROVE  its(t) = mine(t)
    <3>1. {u \in all : Choice!Before(u, t)} = {u \in all : Before(u, t)}
      BY <1>1, Zenon
    <3> QED
      BY <3>1, ChoiceCardinality
  <2>2. /\ Choice!Lowest(all, k) = {t \in all : its(t) < k}
        /\ Lowest(all, k) = {t \in all : mine(t) < k}
    BY Zenon DEF Choice!Lowest, Lowest
  <2> HIDE DEF mine, its
  <2> QED
    BY <2>1, <2>2, Zenon
<1>4. ASSUME NEW all, NEW base
      PROVE  Choice!Candidates(all, base) = Candidates(all, base)
  BY ChoiceMinus DEF Choice!Candidates, Candidates, Choice!Tolerance, Tolerance
<1>5. ASSUME NEW cand
      PROVE  Choice!Heads(cand) = Heads(cand)
  BY <1>1, Zenon DEF Choice!Heads, Heads
<1>6. ASSUME NEW cand
      PROVE  Choice!AdmittedHeads(cand) = AdmittedHeads(cand)
  <2>1. ASSUME NEW h
        PROVE  Choice!Cardinality({g \in Choice!Heads(cand) : Choice!Before(g, h)})
                  = Cardinality({g \in Heads(cand) : Before(g, h)})
    <3>1. {g \in Choice!Heads(cand) : Choice!Before(g, h)} = {g \in Heads(cand) : Before(g, h)}
      BY <1>1, <1>5, Zenon
    <3> QED
      BY <3>1, ChoiceCardinality
  <2> QED
    BY <1>5, <2>1, Zenon DEF Choice!AdmittedHeads, AdmittedHeads
<1> QED
  BY <1>1, <1>2, <1>3, <1>4, <1>5, <1>6

\* Its pools, its combinations and what it erases are those of the pass.
LEMMA ChoiceSame ==
  /\ \A all, base : Choice!TriggerPool(all, base) = TriggerPool(all, base)
  /\ \A pool : Choice!LocatedCombs(pool) = LocatedCombs(pool)
  /\ \A all, base, comb : Choice!EraseUsed(all, base, comb) = EraseUsed(all, base, comb)
<1>1. \A pool : Choice!StationsOf(pool) = StationsOf(pool)
  BY DEF Choice!StationsOf, StationsOf
<1>2. \A all, base : Choice!TriggerPool(all, base) = TriggerPool(all, base)
  BY <1>1, ChoiceOrder DEF Choice!TriggerPool, TriggerPool
<1>3. \A t, u : Choice!Coherent(t, u) = Coherent(t, u)
  BY ChoiceMinus DEF Choice!Coherent, Coherent, Choice!Tolerance, Tolerance
<1>4. \A pool : Choice!Combinations(pool) = Combinations(pool)
  BY <1>1, <1>3 DEF Choice!Combinations, Combinations
<1>5. ASSUME NEW pool
      PROVE  Choice!Droppable(pool) = Droppable(pool)
  <2>1. /\ Choice!StationsOf(pool) = StationsOf(pool)
        /\ \A S : Choice!Cardinality(S) = Cardinality(S)
    BY <1>1, ChoiceCardinality
  <2> QED
    BY <2>1, Zenon DEF Choice!Droppable, Droppable
<1>6. ASSUME NEW pool
      PROVE  Choice!LocatedCombs(pool) = LocatedCombs(pool)
  <2>1. \A dropped : Choice!WithoutStations(pool, dropped) = WithoutStations(pool, dropped)
    BY Zenon DEF Choice!WithoutStations, WithoutStations
  <2>2. /\ Choice!Cardinality(Choice!StationsOf(pool)) = Cardinality(StationsOf(pool))
        /\ Choice!Combinations(pool) = Combinations(pool)
    BY <1>1, <1>4, ChoiceCardinality
  <2>3. \A dropped : Choice!Combinations(Choice!WithoutStations(pool, dropped))
                        = Combinations(WithoutStations(pool, dropped))
    BY <1>4, <2>1
  <2>4. {Choice!Combinations(Choice!WithoutStations(pool, dropped)) : dropped \in Choice!Droppable(pool)}
           = {Combinations(WithoutStations(pool, dropped)) : dropped \in Droppable(pool)}
    BY <1>5, <2>3
  <2> QED
    BY <2>2, <2>4 DEF Choice!LocatedCombs, LocatedCombs
<1>7. ASSUME NEW all, NEW base, NEW comb
      PROVE  Choice!EraseUsed(all, base, comb) = EraseUsed(all, base, comb)
  <2>1. Choice!Indexed(all, base, comb) = Indexed(all, base, comb)
    BY ChoiceOrder DEF Choice!Indexed, Indexed
  <2>2. Choice!Cardinality(comb \ Choice!Indexed(all, base, comb)) =
           Cardinality(comb \ Indexed(all, base, comb))
    BY <2>1, ChoiceCardinality
  <2> QED
    BY <2>1, <2>2, ChoiceOrder DEF Choice!EraseUsed, EraseUsed
<1> QED
  BY <1>2, <1>6, <1>7

----------------------------------------------------------------------------
(* The refinement. *)

\* The base trigger goes, and nothing else.
LEMMA GivesUp ==
  ASSUME PassInv, at \in {"scan", "rounds"}, allTriggers' = Erase(0)
  PROVE  Contents' = arrived \ {Front(arrived)}
<1>1. arrived \in SUBSET Trigger /\ arrived # {} /\ allTriggers = Sorted(arrived)
  BY DEF PassInv, DequeInv
<1>2. Sorted(arrived)[1] = Front(arrived) /\ 0 < Cardinality(arrived)
  BY <1>1, SortedFront, SortedIs
<1>3. SeqX!RemoveAt(Sorted(arrived), 0 + 1) = Sorted(arrived \ {Sorted(arrived)[0 + 1]})
  BY <1>1, <1>2, EraseSorted
<1>4. allTriggers' = Sorted(arrived \ {Front(arrived)})
  BY <1>1, <1>2, <1>3 DEF Erase
<1>5. arrived \ {Front(arrived)} \in SUBSET Trigger
  BY <1>1
<1> QED
  BY <1>4, <1>5, SortedIs DEF Contents

\* A step of the pass that does not end it changes nothing that the abstract one knows.
LEMMA PassStutters ==
  ASSUME at # "done", at' # "done", arrived' = arrived
  PROVE  UNCHANGED Choice!choiceVars
BY DEF Choice!choiceVars

\* Every step of a pass is a step of the abstract one, or changes nothing in it.
LEMMA StepRefines ==
  ASSUME PassInv, MarkInv, DropInv, ShrinkInv, [Next]_vars
  PROVE  [Choice!Locate \/ Choice!GiveUp]_(Choice!choiceVars)
<1>1. CASE Scan \/ FirstResiduals \/ DropWorstStation \/ KeepStations \/ Accept \/ EraseOne
  <2>1. at # "done" /\ at' # "done" /\ arrived' = arrived
    BY <1>1 DEF Scan, FirstResiduals, DropWorstStation, KeepStations, Accept, EraseOne
  <2> QED
    BY <2>1, PassStutters
<1>2. CASE TooFewStations \/ ResidualTooLarge
  <2>1. /\ at \in {"scan", "rounds"} /\ at' = "done" /\ allTriggers' = Erase(0)
        /\ MinSq' = MinSq /\ MinSq # "below"
    BY <1>2 DEF TooFewStations, ResidualTooLarge, located, PassInv, ResidualInv
  <2>2. Contents' = arrived \ {Front(arrived)}
    BY <2>1, GivesUp
  <2>3. Choice!Front(arrived) = Front(arrived)
    BY ChoiceOrder
  <2>4. Choice!GiveUp
    BY <2>1, <2>2, <2>3 DEF Choice!GiveUp
  <2> QED
    BY <2>4
<1>3. CASE AllErased
  <2> DEFINE comb == SeqX!ToSet(result)
             base == Front(arrived)
  <2>1. /\ at = "erase" /\ indices = <<>> /\ at' = "done" /\ allTriggers' = allTriggers
        /\ MinSq' = MinSq /\ MinSq = "below"
    BY <1>3 DEF AllErased, located, PassInv, ResidualInv
  <2>2. /\ comb \in LocatedCombs(TriggerPool(arrived, base))
        /\ Contents = EraseUsed(arrived, base, comb)
    BY <2>1, ErasedAll
  <2>3. Contents' = Contents
    BY <2>1 DEF Contents
  <2> HIDE DEF comb, base
  <2>4. /\ comb \in Choice!LocatedCombs(Choice!TriggerPool(arrived, base))
        /\ Contents' = Choice!EraseUsed(arrived, base, comb)
    BY <2>2, <2>3, ChoiceSame
  <2>5. Choice!Front(arrived) = base
    BY ChoiceOrder DEF base
  <2>6. Choice!Locate
    BY <2>1, <2>4, <2>5 DEF Choice!Locate
  <2> QED
    BY <2>6
<1>4. CASE UNCHANGED vars
  BY <1>4 DEF vars, located, Contents, Choice!choiceVars
<1> QED
  BY <1>1, <1>2, <1>3, <1>4 DEF Next

\* The invariant of a pass with what a located combination does to the deque.
ErasureInv == PassInv /\ MarkInv /\ DropInv /\ ShrinkInv

\* The inductive invariant behind the erasure: which triggers carry an index, which
\* stations were dropped, and what the deque holds after each erase.
THEOREM ErasureInvariant == Spec => []ErasureInv
<1>1. Init => ErasureInv
  <2> SUFFICES ASSUME Init PROVE ErasureInv
    OBVIOUS
  <2>1. ShrinkInv
    BY DEF Init, ShrinkInv
  <2> QED
    BY <2>1, PassStarts, MarkStarts DEF ErasureInv
<1>2. ErasureInv /\ [Next]_vars => ErasureInv'
  <2> SUFFICES ASSUME PassInv, MarkInv, DropInv, ShrinkInv, [Next]_vars PROVE ErasureInv'
    BY DEF ErasureInv
  <2>1. PassInv'
    BY ScanKeeps, GiveUpKeeps, FirstKeeps, DropKeeps, KeepKeeps, AcceptKeeps, EraseKeeps, RestKeeps
       DEF Next
  <2>2. MarkInv' /\ DropInv'
    BY ScanMarks, FirstMarks, DropMarks, KeepMarks, RestMarks DEF Next
  <2>3. ShrinkInv'
    <3>1. CASE Accept
      BY <3>1, AcceptShrinks
    <3>2. CASE EraseOne
      BY <3>2, EraseShrinksDeque
    <3>3. CASE \/ Scan \/ TooFewStations \/ FirstResiduals \/ DropWorstStation
               \/ KeepStations \/ ResidualTooLarge \/ AllErased
      <4>1. at' # "erase"
        BY <3>3 DEF Scan, TooFewStations, FirstResiduals, DropWorstStation, KeepStations,
                    ResidualTooLarge, AllErased
      <4> QED
        BY <4>1 DEF ShrinkInv
    <3>4. CASE UNCHANGED vars
      BY <3>4 DEF ShrinkInv, vars, located
    <3> QED
      BY <3>1, <3>2, <3>3, <3>4 DEF Next
  <2> QED
    BY <2>1, <2>2, <2>3 DEF ErasureInv
<1> QED
  BY <1>1, <1>2, PTL DEF Spec

\* What a location takes out of the deque, at every moment, is never behind the last
\* trigger it used: the triggers of a later lightning stay.
THEOREM LaterUntouched == Spec => []LaterOnesStay
<1>1. ErasureInv => LaterOnesStay
  BY GoneIsNotLater DEF ErasureInv, LaterOnesStay
<1> QED
  BY <1>1, ErasureInvariant, PTL

\* What one pass of ThreadLoc does to the deque, step by step, is the one step that
\* LigPipeline takes for it: some combination that LocPool allows goes, by the indices
\* its members carry, or the base trigger does.
THEOREM LocateRefined == Spec => RefinesLocateChoice
<1>1. Init => Choice!ChoiceInit
  BY DEF Init, Choice!ChoiceInit
<1>2. ErasureInv /\ [Next]_vars => [Choice!Locate \/ Choice!GiveUp]_(Choice!choiceVars)
  BY StepRefines DEF ErasureInv
<1> QED
  BY <1>1, <1>2, ErasureInvariant, PTL DEF Spec, RefinesLocateChoice, Choice!ChoiceSpec
=============================================================================
