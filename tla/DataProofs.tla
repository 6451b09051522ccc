----------------------------- MODULE DataProofs -----------------------------
(* Facts about natural numbers, orders and lists that several proofs rest on. *)
EXTENDS Integers, Sequences, FiniteSets, FiniteSetTheorems, FunctionTheorems,
        WellFoundedInduction, TLAPS

LOCAL SeqX == INSTANCE SequencesExt

\* A non-empty set of natural numbers has a least element.
LEMMA LeastNat ==
  ASSUME NEW S, S \subseteq Nat, S # {}
  PROVE  \E m \in S : \A n \in S : m <= n
<1>1. PICK m \in S : \A n \in S : ~(<<n, m>> \in OpToRel(<, Nat))
  BY NatLessThanWellFounded, WFMin, Zenon
<1>2. \A n \in S : ~(n < m)
  BY <1>1 DEF OpToRel
<1> QED
  BY <1>2

\* Induction: a set of numbers with 0 that is closed under successor up to n holds
\* everything up to n.
LEMMA Induction ==
  ASSUME NEW n \in Nat, NEW S, 0 \in S, \A k \in 0 .. n - 1 : k \in S => k + 1 \in S
  PROVE  0 .. n \subseteq S
<1> SUFFICES ASSUME (0 .. n) \ S # {} PROVE FALSE
  OBVIOUS
<1>1. PICK m \in (0 .. n) \ S : \A k \in (0 .. n) \ S : m <= k
  <2>1. (0 .. n) \ S \subseteq Nat
    OBVIOUS
  <2> QED
    BY <2>1, LeastNat, Zenon
<1>2. m # 0
  OBVIOUS
<1>3. m - 1 \in 0 .. n - 1
  BY <1>2
<1>4. m - 1 \in S
  BY <1>1, <1>3
<1>5. (m - 1) + 1 \in S
  BY <1>3, <1>4
<1> QED
  BY <1>5

\* The first n numbers are n.
LEMMA FirstNumbers ==
  ASSUME NEW n \in Nat
  PROVE  IsFiniteSet(1 .. n) /\ Cardinality(1 .. n) = n
<1>1. IsFiniteSet(1 .. n) /\ Cardinality(1 .. n) = IF 1 > n THEN 0 ELSE n - 1 + 1
  BY FS_Interval
<1> QED
  BY <1>1

----------------------------------------------------------------------------
(* Recursive functions. *)

\* A recursion to a bounded depth: the value for an argument depends on those for
\* deeper arguments only.
AsksDeeper(D, V, n, depth, Step) ==
    /\ V # {} /\ n \in Nat /\ depth \in [D -> 0 .. n]
    /\ Step \in [D \X [D -> V] -> V]
    /\ \A d \in D : \A f, g \in [D -> V] :
          (\A e \in D : depth[e] > depth[d] => f[e] = g[e]) => Step[<<d, f>>] = Step[<<d, g>>]

\* Such a recursion has a solution.
LEMMA Recursion ==
  ASSUME NEW D, NEW V, NEW n, NEW depth, NEW Step, AsksDeeper(D, V, n, depth, Step)
  PROVE  \E f \in [D -> V] : \A d \in D : f[d] = Step[<<d, f>>]
<1> DEFINE Solves(f, k) == \A d \in D : depth[d] > n - k => f[d] = Step[<<d, f>>]
           solved == {k \in 0 .. n + 1 : \E f \in [D -> V] : Solves(f, k)}
<1> V # {} /\ n \in Nat /\ depth \in [D -> 0 .. n]
  BY DEF AsksDeeper
<1>1. \A d \in D : depth[d] \in 0 .. n
  OBVIOUS
<1>2. \A d \in D : \A f \in [D -> V] : Step[<<d, f>>] \in V
  <2>1. \A d \in D : \A f \in [D -> V] : <<d, f>> \in D \X [D -> V]
    OBVIOUS
  <2> QED
    BY <2>1 DEF AsksDeeper
<1>3. 0 \in solved
  <2>1. PICK v \in V : TRUE
    OBVIOUS
  <2>2. [d \in D |-> v] \in [D -> V]
    OBVIOUS
  <2>3. Solves([d \in D |-> v], 0)
    <3>1. \A d \in D : ~(depth[d] > n - 0)
      BY <1>1
    <3> QED
      BY <3>1, Zenon
  <2>4. 0 \in 0 .. n + 1
    OBVIOUS
  <2> HIDE DEF Solves
  <2> QED
    BY <2>2, <2>3, <2>4, Zenon
<1>4. ASSUME NEW k \in 0 .. (n + 1) - 1, k \in solved
      PROVE  k + 1 \in solved
  <2>1. PICK f \in [D -> V] : Solves(f, k)
    BY <1>4, Zenon
  <2> DEFINE g == [d \in D |-> IF depth[d] = n - k THEN Step[<<d, f>>] ELSE f[d]]
  <2>2. g \in [D -> V]
    <3>1. \A d \in D : (IF depth[d] = n - k THEN Step[<<d, f>>] ELSE f[d]) \in V
      BY <1>2
    <3> QED
      BY <3>1, Zenon
  <2>3. ASSUME NEW d \in D, depth[d] > n - (k + 1)
        PROVE  g[d] = Step[<<d, g>>]
    <3>1. \A m \in 0 .. n : m > n - (k + 1) =>
             (m = n - k \/ m > n - k) /\ \A l \in 0 .. n : l > m => l # n - k
      OBVIOUS
    <3>2. /\ depth[d] = n - k \/ depth[d] > n - k
          /\ \A e \in D : depth[e] > depth[d] => depth[e] # n - k
      BY <1>1, <2>3, <3>1, Zenon
    <3>3. \A e \in D : depth[e] > depth[d] => g[e] = f[e]
      BY <3>2, Zenon
    <3>4. Step[<<d, g>>] = Step[<<d, f>>]
      <4> HIDE DEF g
      <4> QED
        BY <2>2, <3>3, Zenon DEF AsksDeeper
    <3>5. g[d] = Step[<<d, f>>]
      <4>1. depth[d] > n - k => f[d] = Step[<<d, f>>]
        BY <2>1, Zenon
      <4> QED
        BY <3>2, <4>1, Zenon
    <3> HIDE DEF g
    <3> QED
      BY <3>4, <3>5, Zenon
  <2>4. Solves(g, k + 1)
    <3> HIDE DEF g
    <3> QED
      BY <2>3, Zenon
  <2>5. k + 1 \in 0 .. n + 1
    OBVIOUS
  <2> HIDE DEF Solves, g
  <2> QED
    BY <2>2, <2>4, <2>5, Zenon
<1>5. n + 1 \in solved
  <2> HIDE DEF solved
  <2>1. n + 1 \in Nat
    OBVIOUS
  <2>2. 0 .. n + 1 \subseteq solved
    BY <1>3, <1>4, <2>1, Induction
  <2> QED
    BY <2>1, <2>2
<1>6. PICK f \in [D -> V] : Solves(f, n + 1)
  BY <1>5, Zenon
<1>7. \A d \in D : depth[d] > n - (n + 1)
  BY <1>1
<1> QED
  BY <1>6, <1>7, Zenon

----------------------------------------------------------------------------
(* Remainders: N places on a circle. *)

\* The remainder is the only one of its kind.
LEMMA RemainderUnique ==
  ASSUME NEW N \in Nat \ {0}, NEW a \in Int, NEW q \in Int, NEW r \in 0 .. N - 1, a = N * q + r
  PROVE  a % N = r
<1>1. a = N * (a \div N) + (a % N)
  BY SMT
<1>2. a % N \in 0 .. N - 1 /\ a \div N \in Int
  BY SMT
<1> QED
  BY <1>1, <1>2, SMT

\* The place that d steps lead to from the home place of h is d steps away from it,
\* and the steps between lead there.
LEMMA Circle ==
  ASSUME NEW N \in Nat \ {0}, NEW h \in Int
  PROVE  /\ \A d \in Int : (h + d) % N \in 0 .. N - 1 /\ (d - h) % N \in 0 .. N - 1
         /\ \A d \in 0 .. N - 1 : (((h + d) % N) - h) % N = d
         /\ \A i \in 0 .. N - 1 : (h + ((i - h) % N)) % N = i
<1>1. \A d \in Int : (h + d) % N \in 0 .. N - 1 /\ (d - h) % N \in 0 .. N - 1
  BY SMT
<1>2. ASSUME NEW d \in 0 .. N - 1
      PROVE  (((h + d) % N) - h) % N = d
  <2> DEFINE q == (h + d) \div N
             i == (h + d) % N
  <2>1. h + d = N * q + i
    BY SMT
  <2>2. q \in Int /\ i \in Int /\ N * q \in Int
    BY SMT
  <2> HIDE DEF q, i
  <2>3. i - h = N * (-q) + d /\ i - h \in Int /\ -q \in Int
    BY <2>1, <2>2, SMT
  <2>4. (i - h) % N = d
    BY <2>3, RemainderUnique
  <2> QED
    BY <2>4 DEF i
<1>3. ASSUME NEW i \in 0 .. N - 1
      PROVE  (h + ((i - h) % N)) % N = i
  <2> DEFINE q == (i - h) \div N
             d == (i - h) % N
  <2>1. i - h = N * q + d
    BY SMT
  <2>2. q \in Int /\ d \in Int /\ N * q \in Int
    BY SMT
  <2> HIDE DEF q, d
  <2>3. h + d = N * (-q) + i /\ h + d \in Int /\ -q \in Int
    BY <2>1, <2>2, SMT
  <2>4. (h + d) % N = i
    BY <2>3, RemainderUnique
  <2> QED
    BY <2>4 DEF d
<1> QED
  BY <1>1, <1>2, <1>3

\* The next place is one step further, or home again after a whole turn.
LEMMA CircleNext ==
  ASSUME NEW N \in Nat \ {0}, NEW h \in Int
  PROVE  /\ \A d \in Int : (((h + d) % N) + 1) % N = (h + d + 1) % N
         /\ \A i \in 0 .. N - 1 :
               (((i + 1) % N) - h) % N = IF (i - h) % N = N - 1 THEN 0 ELSE ((i - h) % N) + 1
<1>1. ASSUME NEW d \in Int
      PROVE  (((h + d) % N) + 1) % N = (h + d + 1) % N
  <2> DEFINE q == (h + d) \div N
             i == (h + d) % N
             p == (i + 1) \div N
             r == (i + 1) % N
  <2>1. h + d = N * q + i /\ i \in Int /\ q \in Int /\ N * q \in Int
    BY SMT
  <2> HIDE DEF i, q
  <2>2. i + 1 = N * p + r /\ r \in 0 .. N - 1 /\ p \in Int /\ N * p \in Int
    BY <2>1, SMT
  <2> HIDE DEF p, r
  <2>3. N * (q + p) = N * q + N * p
    BY <2>1, <2>2, SMT
  <2>4. h + d + 1 = N * (q + p) + r /\ h + d + 1 \in Int /\ q + p \in Int
    BY <2>1, <2>2, <2>3, SMT
  <2>5. (h + d + 1) % N = r
    BY <2>2, <2>4, RemainderUnique
  <2> QED
    BY <2>5 DEF r, i
<1>2. ASSUME NEW i \in 0 .. N - 1
      PROVE  (((i + 1) % N) - h) % N = IF (i - h) % N = N - 1 THEN 0 ELSE ((i - h) % N) + 1
  <2>1. PICK d \in 0 .. N - 1 : d = (i - h) % N
    <3>1. (i - h) % N \in 0 .. N - 1
      BY SMT
    <3> QED
      BY <3>1, Zenon
  <2> DEFINE e == IF d = N - 1 THEN 0 ELSE d + 1
  <2>2. (h + d) % N = i
    <3>1. (h + ((i - h) % N)) % N = i
      BY Circle
    <3> QED
      BY <2>1, <3>1, Zenon
  <2>3. (i + 1) % N = (h + d + 1) % N
    <3>1. d \in Int
      BY <2>1
    <3>2. (((h + d) % N) + 1) % N = (h + d + 1) % N
      BY <1>1, <3>1, Zenon
    <3> QED
      BY <2>2, <3>2, Zenon
  <2>4. e \in 0 .. N - 1 /\ e \in Int
    BY <2>1
  <2>5. (h + d + 1) % N = (h + e) % N
    <3>1. CASE d = N - 1
      <4>1. h + d + 1 = h + N /\ e = 0
        BY <2>1, <3>1
      <4>2. h + N = N * ((h \div N) + 1) + (h % N)
        <5>1. h = N * (h \div N) + (h % N) /\ h \div N \in Int
          BY SMT
        <5>2. N * ((h \div N) + 1) = N * (h \div N) + N
          BY <5>1, SMT
        <5> QED
          BY <5>1, <5>2, SMT
      <4>3. h % N \in 0 .. N - 1 /\ (h \div N) + 1 \in Int /\ h + N \in Int
        BY SMT
      <4>4. (h + N) % N = h % N
        BY <4>2, <4>3, RemainderUnique
      <4>5. h + e = h
        BY <4>1
      <4> QED
        BY <4>1, <4>4, <4>5
    <3>2. CASE d # N - 1
      <4>1. h + d + 1 = h + e
        BY <2>1, <3>2
      <4> QED
        BY <4>1
    <3> QED
      BY <3>1, <3>2
  <2>6. (((h + e) % N) - h) % N = e
    <3> HIDE DEF e
    <3> QED
      BY <2>4, Circle
  <2> QED
    BY <2>1, <2>3, <2>5, <2>6, Zenon
<1> QED
  BY <1>1, <1>2

\* Every place is the next one of exactly one place.
LEMMA CircleTurn ==
  ASSUME NEW N \in Nat \ {0}
  PROVE  /\ \A i \in 0 .. N - 1 : (i + 1) % N = IF i = N - 1 THEN 0 ELSE i + 1
         /\ \A i, k \in 0 .. N - 1 : (i + 1) % N = (k + 1) % N => i = k
<1>1. ASSUME NEW i \in 0 .. N - 1
      PROVE  (i + 1) % N = IF i = N - 1 THEN 0 ELSE i + 1
  BY SMT
<1> QED
  BY <1>1

----------------------------------------------------------------------------
(* Ranks: how many elements of a finite set precede an element. *)

\* A set Low[x] of predecessors for every element of S makes a strict total order.
TotalOrder(S, Low) ==
    /\ \A x \in S : Low[x] \subseteq S \ {x}
    /\ \A x, y \in S : x # y => x \in Low[y] \/ y \in Low[x]
    /\ \A x, y \in S : x \in Low[y] => Low[x] \subseteq Low[y]

\* Ranks grow along the order.
LEMMA RankGrows ==
  ASSUME NEW S, IsFiniteSet(S), NEW Low, TotalOrder(S, Low)
  PROVE  /\ \A x \in S : Cardinality(Low[x]) \in 0 .. Cardinality(S) - 1
         /\ \A x, y \in S : x \in Low[y] => Cardinality(Low[x]) < Cardinality(Low[y])
<1>1. \A T \in SUBSET S : IsFiniteSet(T) /\ Cardinality(T) \in Nat
  BY FS_Subset, FS_CardinalityType
<1>2. ASSUME NEW T \in SUBSET S, NEW U \in SUBSET S, T \subseteq U, T # U
      PROVE  Cardinality(T) < Cardinality(U)
  <2>1. Cardinality(T) <= Cardinality(U) /\ Cardinality(T) # Cardinality(U)
    BY <1>1, <1>2, FS_Subset
  <2> QED
    BY <1>1, <2>1
<1>3. ASSUME NEW x \in S
      PROVE  Cardinality(Low[x]) \in 0 .. Cardinality(S) - 1
  <2>1. Low[x] \subseteq S /\ Low[x] # S
    BY DEF TotalOrder
  <2>2. Cardinality(Low[x]) < Cardinality(S)
    BY <1>2, <2>1
  <2>3. Cardinality(Low[x]) \in Nat /\ Cardinality(S) \in Nat
    BY <1>1, <2>1
  <2> QED
    BY <2>2, <2>3
<1>4. ASSUME NEW x \in S, NEW y \in S, x \in Low[y]
      PROVE  Cardinality(Low[x]) < Cardinality(Low[y])
  <2>1. Low[x] \subseteq Low[y] /\ x \notin Low[x] /\ Low[y] \subseteq S
    BY <1>4 DEF TotalOrder
  <2> QED
    BY <1>2, <1>4, <2>1
<1> QED
  BY <1>3, <1>4

\* Every rank is that of exactly one element.
LEMMA RankIsPlace ==
  ASSUME NEW S, IsFiniteSet(S), NEW Low, TotalOrder(S, Low)
  PROVE  /\ Cardinality(S) \in Nat
         /\ \A p \in 0 .. Cardinality(S) - 1 : \E x \in S : Cardinality(Low[x]) = p
         /\ \A x, y \in S : Cardinality(Low[x]) = Cardinality(Low[y]) => x = y
<1> DEFINE n    == Cardinality(S)
           rank == [x \in S |-> Cardinality(Low[x])]
<1>1. n \in Nat
  BY FS_CardinalityType
<1>2. rank \in [S -> 0 .. n - 1]
  BY RankGrows
<1>3. \A x, y \in S : rank[x] = rank[y] => x = y
  <2> SUFFICES ASSUME NEW x \in S, NEW y \in S, x # y PROVE rank[x] # rank[y]
    OBVIOUS
  <2>1. x \in Low[y] \/ y \in Low[x]
    BY DEF TotalOrder
  <2>2. rank[x] < rank[y] \/ rank[y] < rank[x]
    BY <2>1, RankGrows
  <2>3. rank[x] \in Int /\ rank[y] \in Int
    BY <1>2
  <2> QED
    BY <2>2, <2>3
<1> HIDE DEF rank, n
<1>4. rank \in Surjection(S, 0 .. n - 1)
  <2>1. rank \in Injection(S, 0 .. n - 1)
    BY <1>2, <1>3, Fun_IsInj
  <2>2. IsFiniteSet(0 .. n - 1) /\ Cardinality(0 .. n - 1) = n
    BY <1>1, FS_Interval
  <2> QED
    BY <2>1, <2>2, FS_Injection DEF n
<1>5. \A p \in 0 .. n - 1 : \E x \in S : rank[x] = p
  BY <1>4 DEF Surjection
<1> QED
  BY <1>1, <1>3, <1>5 DEF rank, n

----------------------------------------------------------------------------
(* Lists of lists. *)

\* The loop of FlattenSeq: its value is the last of a sequence of concatenations.
LEMMA FlattenLoop ==
  ASSUME NEW S, NEW seqs \in Seq(Seq(S)), Len(seqs) > 0
  PROVE  \E flat : /\ flat[1] = seqs[1]
                   /\ \A i \in 2 .. Len(seqs) : flat[i] = flat[i - 1] \o seqs[i]
                   /\ SeqX!FlattenSeq(seqs) = flat[Len(seqs)]
<1> DEFINE n       == Len(seqs)
           Is(f, k) == f = [i \in 1 .. k |-> IF i = 1 THEN seqs[i] ELSE f[i - 1] \o seqs[i]]
           defined == {k \in 0 .. n - 1 : \E f : Is(f, k + 1)}
<1>1. n \in Nat /\ n - 1 \in Nat
  OBVIOUS
<1>2. 0 \in defined
  <2>1. Is([i \in 1 .. 1 |-> seqs[i]], 1)
    OBVIOUS
  <2>2. 0 + 1 = 1 /\ 0 \in 0 .. n - 1
    BY <1>1
  <2> QED
    BY <2>1, <2>2
<1>3. ASSUME NEW k \in 0 .. (n - 1) - 1, k \in defined
      PROVE  k + 1 \in defined
  <2>1. PICK f : Is(f, k + 1)
    BY <1>3
  <2> DEFINE g == [i \in 1 .. k + 2 |-> IF i = k + 2 THEN f[k + 1] \o seqs[i] ELSE f[i]]
  <2>2. ASSUME NEW i \in 1 .. k + 2
        PROVE  g[i] = IF i = 1 THEN seqs[i] ELSE g[i - 1] \o seqs[i]
    <3>1. CASE i = k + 2
      <4>1. i # 1 /\ i - 1 = k + 1 /\ i - 1 \in 1 .. k + 2 /\ i - 1 # k + 2
        BY <1>1, <3>1
      <4>2. g[i] = f[k + 1] \o seqs[i] /\ g[i - 1] = f[i - 1]
        BY <3>1, <4>1
      <4> QED
        BY <4>1, <4>2
    <3>2. CASE i # k + 2
      <4>1. i \in 1 .. k + 1
        BY <1>1, <3>2
      <4>2. g[i] = f[i]
        BY <3>2
      <4>3. f[i] = IF i = 1 THEN seqs[i] ELSE f[i - 1] \o seqs[i]
        BY <2>1, <4>1
      <4>4. i # 1 => i - 1 \in 1 .. k + 2 /\ i - 1 # k + 2
        BY <1>1, <4>1
      <4>5. i # 1 => g[i - 1] = f[i - 1]
        BY <4>4
      <4> QED
        BY <4>2, <4>3, <4>5
    <3> QED
      BY <3>1, <3>2
  <2>3. Is(g, k + 2)
    BY <2>2
  <2>4. (k + 1) + 1 = k + 2 /\ k + 1 \in 0 .. n - 1
    BY <1>1
  <2> QED
    BY <2>3, <2>4
<1>4. \E f : Is(f, n)
  <2>1. 0 .. n - 1 \subseteq defined
    <3> HIDE DEF defined
    <3> QED
      BY <1>1, <1>2, <1>3, Induction
  <2>2. n - 1 \in defined /\ (n - 1) + 1 = n
    <3> HIDE DEF defined
    <3> QED
      BY <1>1, <2>1
  <2> QED
    BY <2>2
<1> DEFINE flat == CHOOSE f : Is(f, n)
<1>5. Is(flat, n)
  BY <1>4
<1>6. SeqX!FlattenSeq(seqs) = flat[n]
  BY DEF SeqX!FlattenSeq
<1> HIDE DEF flat
<1>7. flat[1] = seqs[1]
  BY <1>1, <1>5
<1>8. ASSUME NEW i \in 2 .. n
      PROVE  flat[i] = flat[i - 1] \o seqs[i]
  <2>1. i \in 1 .. n /\ i # 1
    BY <1>1
  <2> QED
    BY <1>5, <2>1
<1> QED
  BY <1>6, <1>7, <1>8

\* A list without repetitions.
Distinct(s) == \A i, j \in DOMAIN s : s[i] = s[j] => i = j

\* A list has finitely many elements, as many as places if it repeats none.
LEMMA ElementsFinite ==
  ASSUME NEW S, NEW s \in Seq(S)
  PROVE  /\ IsFiniteSet(SeqX!ToSet(s)) /\ Cardinality(SeqX!ToSet(s)) \in Nat
         /\ SeqX!ToSet(s) \subseteq S
         /\ Distinct(s) => Cardinality(SeqX!ToSet(s)) = Len(s)
<1> DEFINE E == SeqX!ToSet(s)
<1>1. DOMAIN s = 1 .. Len(s) /\ Len(s) \in Nat /\ \A i \in 1 .. Len(s) : s[i] \in S
  OBVIOUS
<1>2. s \in [1 .. Len(s) -> E] /\ \A x \in E : \E i \in 1 .. Len(s) : s[i] = x
  <2>1. E = {s[i] : i \in 1 .. Len(s)}
    BY <1>1 DEF SeqX!ToSet
  <2> HIDE DEF E
  <2>2. s = [i \in 1 .. Len(s) |-> s[i]]
    BY <1>1
  <2> QED
    BY <2>1, <2>2
<1>3. E \subseteq S
  BY <1>1 DEF SeqX!ToSet
<1> HIDE DEF E
<1>4. s \in Surjection(1 .. Len(s), E)
  BY <1>2, Fun_IsSurj
<1>5. IsFiniteSet(1 .. Len(s)) /\ Cardinality(1 .. Len(s)) = Len(s)
  BY <1>1, FirstNumbers
<1>6. IsFiniteSet(E) /\ (s \in Injection(1 .. Len(s), E) => Cardinality(E) = Len(s))
  BY <1>4, <1>5, FS_Surjection
<1>7. Distinct(s) => s \in Injection(1 .. Len(s), E)
  BY <1>1, <1>2, Fun_IsInj DEF Distinct
<1> QED
  BY <1>3, <1>6, <1>7, FS_CardinalityType DEF E

\* Two lists one after the other.
LEMMA ConcatElements ==
  ASSUME NEW S, NEW s \in Seq(S), NEW t \in Seq(S)
  PROVE  /\ s \o t \in Seq(S)
         /\ SeqX!ToSet(s \o t) = SeqX!ToSet(s) \cup SeqX!ToSet(t)
         /\ (/\ Distinct(s) /\ Distinct(t)
             /\ SeqX!ToSet(s) \cap SeqX!ToSet(t) = {}) => Distinct(s \o t)
<1> DEFINE c == s \o t
<1>1. c \in Seq(S) /\ Len(c) = Len(s) + Len(t)
  OBVIOUS
<1>2. \A i \in 1 .. Len(c) : c[i] = IF i <= Len(s) THEN s[i] ELSE t[i - Len(s)]
  OBVIOUS
<1>3. \A i \in 1 .. Len(s) : i \in 1 .. Len(c) /\ c[i] = s[i]
  OBVIOUS
<1>4. \A i \in 1 .. Len(t) : i + Len(s) \in 1 .. Len(c) /\ c[i + Len(s)] = t[i]
  OBVIOUS
<1>5. DOMAIN c = 1 .. Len(c) /\ DOMAIN s = 1 .. Len(s) /\ DOMAIN t = 1 .. Len(t)
  BY <1>1
<1> HIDE DEF c
<1>6. SeqX!ToSet(c) = SeqX!ToSet(s) \cup SeqX!ToSet(t)
  <2>1. ASSUME NEW i \in 1 .. Len(c)
        PROVE  c[i] \in SeqX!ToSet(s) \cup SeqX!ToSet(t)
    <3>1. CASE i <= Len(s)
      BY <1>1, <1>2, <1>5, <3>1 DEF SeqX!ToSet
    <3>2. CASE ~(i <= Len(s))
      <4>1. i - Len(s) \in 1 .. Len(t)
        BY <1>1, <3>2
      <4> QED
        BY <1>2, <1>5, <3>2, <4>1 DEF SeqX!ToSet
    <3> QED
      BY <3>1, <3>2
  <2>2. SeqX!ToSet(s) \subseteq SeqX!ToSet(c)
    BY <1>3, <1>5 DEF SeqX!ToSet
  <2>3. SeqX!ToSet(t) \subseteq SeqX!ToSet(c)
    BY <1>4, <1>5 DEF SeqX!ToSet
  <2>4. SeqX!ToSet(c) \subseteq SeqX!ToSet(s) \cup SeqX!ToSet(t)
    BY <1>5, <2>1 DEF SeqX!ToSet
  <2> QED
    BY <2>2, <2>3, <2>4
<1>7. ASSUME Distinct(s), Distinct(t), SeqX!ToSet(s) \cap SeqX!ToSet(t) = {}
      PROVE  Distinct(c)
  <2> SUFFICES ASSUME NEW i \in 1 .. Len(c), NEW j \in 1 .. Len(c), c[i] = c[j]
               PROVE  i = j
    BY <1>5 DEF Distinct
  <2>1. \A k \in 1 .. Len(c) : k <= Len(s) => k \in 1 .. Len(s)
    BY <1>1
  <2>2. \A k \in 1 .. Len(c) : ~(k <= Len(s)) => k - Len(s) \in 1 .. Len(t)
    BY <1>1
  <2>3. CASE i <= Len(s) /\ j <= Len(s)
    BY <1>2, <1>5, <1>7, <2>1, <2>3 DEF Distinct
  <2>4. CASE ~(i <= Len(s)) /\ ~(j <= Len(s))
    <3>1. i - Len(s) = j - Len(s)
      BY <1>2, <1>5, <1>7, <2>2, <2>4 DEF Distinct
    <3> QED
      BY <3>1
  <2>5. CASE i <= Len(s) /\ ~(j <= Len(s))
    BY <1>2, <1>5, <1>7, <2>1, <2>2, <2>5 DEF SeqX!ToSet
  <2>6. CASE ~(i <= Len(s)) /\ j <= Len(s)
    BY <1>2, <1>5, <1>7, <2>1, <2>2, <2>6 DEF SeqX!ToSet
  <2> QED
    BY <2>3, <2>4, <2>5, <2>6
<1> QED
  BY <1>1, <1>6, <1>7 DEF c

\* FlattenSeq keeps all elements, and repeats none that the lists do not.
LEMMA FlattenElements ==
  ASSUME NEW S, NEW seqs \in Seq(Seq(S))
  PROVE  /\ SeqX!FlattenSeq(seqs) \in Seq(S)
         /\ SeqX!ToSet(SeqX!FlattenSeq(seqs)) = UNION {SeqX!ToSet(seqs[i]) : i \in 1 .. Len(seqs)}
         /\ (/\ \A i \in 1 .. Len(seqs) : Distinct(seqs[i])
             /\ \A i, j \in 1 .. Len(seqs) :
                   i # j => SeqX!ToSet(seqs[i]) \cap SeqX!ToSet(seqs[j]) = {}) =>
            Distinct(SeqX!FlattenSeq(seqs))
<1> DEFINE n == Len(seqs)
           Apart == /\ \A i \in 1 .. n : Distinct(seqs[i])
                    /\ \A i, j \in 1 .. n :
                          i # j => SeqX!ToSet(seqs[i]) \cap SeqX!ToSet(seqs[j]) = {}
<1>1. n \in Nat /\ \A i \in 1 .. n : seqs[i] \in Seq(S)
  OBVIOUS
<1>2. CASE n = 0
  <2>1. SeqX!FlattenSeq(seqs) = seqs /\ seqs = <<>>
    BY <1>2 DEF SeqX!FlattenSeq
  <2>2. SeqX!FlattenSeq(seqs) = <<>> /\ <<>> \in Seq(S) /\ DOMAIN <<>> = {}
    BY <2>1
  <2>3. 1 .. n = {}
    BY <1>2
  <2> QED
    BY <2>2, <2>3 DEF SeqX!ToSet, Distinct
<1>3. CASE n > 0
  <2>1. PICK flat : /\ flat[1] = seqs[1]
                    /\ \A i \in 2 .. n : flat[i] = flat[i - 1] \o seqs[i]
                    /\ SeqX!FlattenSeq(seqs) = flat[n]
    BY <1>3, FlattenLoop
  <2> DEFINE Good(k) == /\ flat[k] \in Seq(S)
                        /\ SeqX!ToSet(flat[k]) = UNION {SeqX!ToSet(seqs[i]) : i \in 1 .. k}
                        /\ Apart => Distinct(flat[k])
             good    == {k \in 0 .. n - 1 : Good(k + 1)}
  <2> HIDE DEF n, Apart
  <2>2. 0 \in good
    <3>1. 0 + 1 = 1 /\ 0 \in 0 .. n - 1 /\ 1 \in 1 .. n
      BY <1>1, <1>3
    <3>2. UNION {SeqX!ToSet(seqs[i]) : i \in 1 .. 1} = SeqX!ToSet(seqs[1])
      <4> 1 .. 1 = {1}
        OBVIOUS
      <4> QED
        OBVIOUS
    <3>3. Apart => Distinct(seqs[1])
      BY <3>1 DEF Apart
    <3> QED
      BY <1>1, <2>1, <3>1, <3>2, <3>3
  <2>3. ASSUME NEW k \in 0 .. (n - 1) - 1, k \in good
        PROVE  k + 1 \in good
    <3>1. /\ k + 2 \in 2 .. n /\ k + 2 \in 1 .. n /\ (k + 2) - 1 = k + 1 /\ k + 1 \in 0 .. n - 1
          /\ (k + 1) + 1 = k + 2
      BY <1>1
    <3> DEFINE f == flat[k + 1]
               t == seqs[k + 2]
    <3>2. flat[k + 2] = f \o t
      BY <2>1, <3>1
    <3>3. Good(k + 1)
      BY <2>3
    <3>4. f \in Seq(S) /\ t \in Seq(S)
      BY <1>1, <3>1, <3>3
    <3>5. UNION {SeqX!ToSet(seqs[i]) : i \in 1 .. k + 2} = SeqX!ToSet(f) \cup SeqX!ToSet(t)
      <4>1. 1 .. k + 2 = (1 .. k + 1) \cup {k + 2}
        BY <1>1
      <4>2. SeqX!ToSet(f) = UNION {SeqX!ToSet(seqs[i]) : i \in 1 .. k + 1}
        BY <3>3
      <4> QED
        BY <4>1, <4>2
    <3>6. ASSUME Apart
          PROVE  Distinct(f) /\ Distinct(t) /\ SeqX!ToSet(f) \cap SeqX!ToSet(t) = {}
      <4>1. Distinct(f) /\ Distinct(t)
        BY <3>1, <3>3, <3>6 DEF Apart
      <4>2. ASSUME NEW i \in 1 .. k + 1
            PROVE  SeqX!ToSet(seqs[i]) \cap SeqX!ToSet(t) = {}
        <5>1. i \in 1 .. n /\ i # k + 2
          BY <1>1
        <5> QED
          BY <3>1, <3>6, <5>1 DEF Apart
      <4>3. SeqX!ToSet(f) = UNION {SeqX!ToSet(seqs[i]) : i \in 1 .. k + 1}
        BY <3>3
      <4> QED
        BY <4>1, <4>2, <4>3
    <3> HIDE DEF f, t
    <3>7. Good(k + 2)
      <4>1. f \o t \in Seq(S) /\ SeqX!ToSet(f \o t) = SeqX!ToSet(f) \cup SeqX!ToSet(t)
        BY <3>4, ConcatElements
      <4>2. Apart => Distinct(f \o t)
        BY <3>4, <3>6, ConcatElements
      <4> QED
        BY <3>2, <3>5, <4>1, <4>2
    <3> QED
      BY <3>1, <3>7
  <2>4. 0 .. n - 1 \subseteq good
    <3> HIDE DEF good
    <3>1. n - 1 \in Nat
      BY <1>1, <1>3
    <3> QED
      BY <2>2, <2>3, <3>1, Induction
  <2>5. Good(n)
    <3>1. n - 1 \in 0 .. n - 1 /\ (n - 1) + 1 = n
      BY <1>1, <1>3
    <3> QED
      BY <2>4, <3>1
  <2> QED
    BY <2>1, <2>5 DEF Apart, n
<1>4. n = 0 \/ n > 0
  BY <1>1
<1> QED
  BY <1>2, <1>3, <1>4, Zenon

\* A sequence without its i-th element.
LEMMA RemoveAtIs ==
  ASSUME NEW S, NEW s \in Seq(S), NEW i \in 1 .. Len(s)
  PROVE  /\ SeqX!RemoveAt(s, i) \in Seq(S) /\ Len(SeqX!RemoveAt(s, i)) = Len(s) - 1
         /\ \A k \in 1 .. Len(s) - 1 :
               SeqX!RemoveAt(s, i)[k] = IF k < i THEN s[k] ELSE s[k + 1]
<1> DEFINE a == SubSeq(s, 1, i - 1)
           b == SubSeq(s, i + 1, Len(s))
<1>1. a \in Seq(S) /\ Len(a) = i - 1 /\ \A k \in 1 .. i - 1 : a[k] = s[k]
  OBVIOUS
<1>2. b \in Seq(S) /\ Len(b) = Len(s) - i /\ \A k \in 1 .. Len(s) - i : b[k] = s[i + k]
  OBVIOUS
<1> HIDE DEF a, b
<1>3. a \o b \in Seq(S) /\ Len(a \o b) = Len(s) - 1
  <2>1. a \in Seq(S) /\ b \in Seq(S)
    BY <1>1, <1>2
  <2>3. a \o b \in Seq(S)
    BY <2>1, ConcatElements
  <2>4. Len(a \o b) = Len(a) + Len(b)
    BY <2>1
  <2>2. (i - 1) + (Len(s) - i) = Len(s) - 1
    OBVIOUS
  <2> QED
    BY <1>1, <1>2, <2>2, <2>3, <2>4
<1>4. ASSUME NEW k \in 1 .. Len(s) - 1
      PROVE  (a \o b)[k] = IF k < i THEN s[k] ELSE s[k + 1]
  <2>1. CASE k < i
    <3>1. (a \o b)[k] = a[k] /\ k \in 1 .. i - 1
      BY <1>1, <1>2, <2>1
    <3> QED
      BY <1>1, <2>1, <3>1
  <2>2. CASE ~(k < i)
    <3>1. (a \o b)[k] = b[k - (i - 1)]
      BY <1>1, <1>2, <2>2
    <3>2. k - (i - 1) \in 1 .. Len(s) - i /\ i + (k - (i - 1)) = k + 1
      BY <2>2
    <3> QED
      BY <1>2, <2>2, <3>1, <3>2
  <2> QED
    BY <2>1, <2>2
<1>5. SeqX!RemoveAt(s, i) = a \o b
  BY DEF SeqX!RemoveAt, a, b
<1> QED
  BY <1>3, <1>4, <1>5

\* Lists of one length with the same elements are equal.
LEMMA SameElements ==
  ASSUME NEW S, NEW s \in Seq(S), NEW t \in Seq(S), Len(s) = Len(t),
         \A i \in 1 .. Len(s) : s[i] = t[i]
  PROVE  s = t
<1>1. s = [i \in 1 .. Len(s) |-> s[i]] /\ t = [i \in 1 .. Len(t) |-> t[i]]
  OBVIOUS
<1> QED
  BY <1>1
=============================================================================
