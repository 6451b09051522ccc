------------------------- MODULE TriggerFetchProofs -------------------------
(* A call that asks the servers, for whatever they answer. *)
EXTENDS TriggerFetch, DataProofs

LOCAL SeqX == INSTANCE SequencesExt

----------------------------------------------------------------------------
(* The parse and the sort. *)

\* A parse gives the keys of the first items, in their order.
LEMMA KeysUpToPrefix ==
  ASSUME NEW items \in Seq(Item), NEW faults
  PROVE  /\ KeysUpTo(items, faults) \in Seq(Nat)
         /\ \A k \in DOMAIN KeysUpTo(items, faults) :
               k \in DOMAIN items /\ KeysUpTo(items, faults)[k] = items[k].key
<1> DEFINE bad  == {k \in DOMAIN items : items[k].fault \in faults}
           upTo == IF bad = {} THEN Len(items)
                   ELSE (CHOOSE k \in bad : \A n \in bad : k <= n) - 1
           keys == [k \in 1 .. upTo |-> items[k].key]
<1>1. /\ Len(items) \in Nat /\ DOMAIN items = 1 .. Len(items)
      /\ \A k \in 1 .. Len(items) : items[k].key \in Nat
  <2>1. \A k \in 1 .. Len(items) : items[k] \in Item
    OBVIOUS
  <2>2. \A x \in Item : x.key \in Nat
    BY DEF Item
  <2> QED
    BY <2>1, <2>2
<1>2. upTo \in 0 .. Len(items)
  <2>1. CASE bad = {}
    BY <1>1, <2>1
  <2>2. CASE bad # {}
    <3>1. bad \subseteq 1 .. Len(items) /\ bad \subseteq Nat
      BY <1>1
    <3>2. \E k \in bad : \A n \in bad : k <= n
      <4> HIDE DEF bad
      <4> QED
        BY <2>2, <3>1, LeastNat
    <3>3. (CHOOSE k \in bad : \A n \in bad : k <= n) \in bad
      <4> HIDE DEF bad
      <4> QED
        BY <3>2
    <3> DEFINE first == CHOOSE k \in bad : \A n \in bad : k <= n
    <3>4. first \in 1 .. Len(items) /\ upTo = first - 1
      BY <2>2, <3>1, <3>3
    <3> HIDE DEF upTo, first, bad
    <3> QED
      BY <1>1, <3>4
  <2> QED
    BY <2>1, <2>2
<1>3. KeysUpTo(items, faults) = keys
  BY DEF KeysUpTo
<1> HIDE DEF upTo
<1>4. keys \in Seq(Nat) /\ DOMAIN keys = 1 .. upTo
  BY <1>1, <1>2
<1>5. \A k \in 1 .. upTo : k \in DOMAIN items /\ keys[k] = items[k].key
  BY <1>1, <1>2
<1> HIDE DEF keys
<1> QED
  BY <1>3, <1>4, <1>5

\* InOrder lists the set, ascending and without repetition.
LEMMA InOrderSorts ==
  ASSUME NEW S \in SUBSET Nat, IsFiniteSet(S)
  PROVE  /\ InOrder(S) \in Seq(Nat) /\ Len(InOrder(S)) = Cardinality(S)
         /\ SeqX!ToSet(InOrder(S)) = S
         /\ \A p, q \in DOMAIN InOrder(S) : p < q => InOrder(S)[p] < InOrder(S)[q]
<1> DEFINE Low  == [x \in S |-> {y \in S : y < x}]
           n    == Cardinality(S)
           At(p) == CHOOSE x \in S : Cardinality({y \in S : y < x}) = p - 1
<1>1. TotalOrder(S, Low)
  <2>1. \A x \in S : Low[x] \subseteq S \ {x}
    OBVIOUS
  <2>2. \A x, y \in S : x # y => x \in Low[y] \/ y \in Low[x]
    OBVIOUS
  <2>3. ASSUME NEW x \in S, NEW y \in S, x \in Low[y]
        PROVE  Low[x] \subseteq Low[y]
    <3>1. x < y /\ x \in Nat /\ y \in Nat
      BY <2>3
    <3>2. \A z \in S : z < x => z < y
      BY <3>1
    <3> QED
      BY <3>2
  <2> QED
    BY <2>1, <2>2, <2>3, Zenon DEF TotalOrder
<1>2. /\ n \in Nat
      /\ \A p \in 0 .. n - 1 : \E x \in S : Cardinality(Low[x]) = p
      /\ \A x \in S : Cardinality(Low[x]) \in 0 .. n - 1
      /\ \A x, y \in S : Cardinality(Low[x]) = Cardinality(Low[y]) => x = y
      /\ \A x, y \in S : x \in Low[y] => Cardinality(Low[x]) < Cardinality(Low[y])
  <2> HIDE DEF Low
  <2>1. /\ n \in Nat
        /\ \A p \in 0 .. n - 1 : \E x \in S : Cardinality(Low[x]) = p
        /\ \A x, y \in S : Cardinality(Low[x]) = Cardinality(Low[y]) => x = y
    BY <1>1, RankIsPlace
  <2>2. /\ \A x \in S : Cardinality(Low[x]) \in 0 .. n - 1
        /\ \A x, y \in S : x \in Low[y] => Cardinality(Low[x]) < Cardinality(Low[y])
    BY <1>1, RankGrows
  <2> QED
    BY <2>1, <2>2
<1>3. \A x \in S : Low[x] = {y \in S : y < x}
  OBVIOUS
<1>4. \A x, y \in S : x \in Low[y] <=> x < y
  OBVIOUS
<1> HIDE DEF Low
<1>5. ASSUME NEW p \in 1 .. n
      PROVE  At(p) \in S /\ Cardinality(Low[At(p)]) = p - 1
  <2>1. p - 1 \in 0 .. n - 1
    BY <1>2
  <2>2. \E x \in S : Cardinality({y \in S : y < x}) = p - 1
    BY <1>2, <1>3, <2>1
  <2>3. At(p) \in S /\ Cardinality({y \in S : y < At(p)}) = p - 1
    BY <2>2
  <2> HIDE DEF At
  <2> QED
    BY <1>3, <2>3
<1> HIDE DEF n
<1>6. InOrder(S) = [p \in 1 .. n |-> At(p)]
  BY DEF InOrder, n
<1> HIDE DEF At
<1>7. InOrder(S) \in Seq(Nat) /\ Len(InOrder(S)) = n /\ DOMAIN InOrder(S) = 1 .. n
  <2>1. \A p \in 1 .. n : At(p) \in Nat
    BY <1>5
  <2> HIDE DEF At
  <2> QED
    BY <1>2, <1>6, <2>1
<1>8. ASSUME NEW x \in S
      PROVE  x \in SeqX!ToSet(InOrder(S))
  <2>1. PICK p \in 1 .. n : Cardinality(Low[x]) = p - 1
    <3>1. Cardinality(Low[x]) + 1 \in 1 .. n /\ (Cardinality(Low[x]) + 1) - 1 = Cardinality(Low[x])
      BY <1>2
    <3> QED
      BY <3>1
  <2>2. At(p) = x
    BY <1>2, <1>5, <2>1
  <2> QED
    BY <1>6, <1>7, <2>2 DEF SeqX!ToSet
<1>9. SeqX!ToSet(InOrder(S)) \subseteq S
  BY <1>5, <1>6, <1>7 DEF SeqX!ToSet
<1>10. ASSUME NEW p \in 1 .. n, NEW q \in 1 .. n, p < q
       PROVE  At(p) < At(q)
  <2>1. ~(At(q) < At(p)) /\ At(p) # At(q)
    <3>1. p - 1 # q - 1 /\ ~(q - 1 < p - 1)
      BY <1>10, <1>2
    <3>2. /\ At(p) \in S /\ Cardinality(Low[At(p)]) = p - 1
          /\ At(q) \in S /\ Cardinality(Low[At(q)]) = q - 1
      BY <1>5
    <3>3. At(p) # At(q)
      BY <3>1, <3>2
    <3>4. At(q) \notin Low[At(p)]
      <4> SUFFICES ASSUME At(q) \in Low[At(p)] PROVE FALSE
        OBVIOUS
      <4>1. Cardinality(Low[At(q)]) < Cardinality(Low[At(p)])
        BY <1>2, <3>2
      <4> QED
        BY <3>1, <3>2, <4>1
    <3> QED
      BY <1>4, <3>2, <3>3, <3>4
  <2>2. At(p) \in Nat /\ At(q) \in Nat
    BY <1>5
  <2> QED
    BY <2>1, <2>2
<1> QED
  BY <1>6, <1>7, <1>8, <1>9, <1>10 DEF n

\* sort and unique keep every key; the stations that are kept were in the answer.
LEMMA SortUniqueKeeps ==
  ASSUME NEW s \in Seq(Nat)
  PROVE  /\ SortUnique(s) \in Seq(Nat)
         /\ SeqX!ToSet(SortUnique(s)) = SeqX!ToSet(s)
         /\ SortUnique(s) = <<>> <=> s = <<>>
<1> DEFINE keys == SeqX!ToSet(s)
<1>1. IsFiniteSet(keys) /\ keys \in SUBSET Nat /\ Cardinality(keys) \in Nat
  BY ElementsFinite
<1>2. keys = {} <=> s = <<>>
  <2>1. s # <<>> => 1 \in DOMAIN s
    OBVIOUS
  <2>2. s = <<>> => DOMAIN s = {}
    OBVIOUS
  <2> QED
    BY <2>1, <2>2 DEF SeqX!ToSet
<1>3. Cardinality(keys) = 0 <=> keys = {}
  BY <1>1, FS_EmptySet
<1> HIDE DEF keys
<1>4. /\ InOrder(keys) \in Seq(Nat) /\ Len(InOrder(keys)) = Cardinality(keys)
      /\ SeqX!ToSet(InOrder(keys)) = keys
  BY <1>1, InOrderSorts
<1>5. InOrder(keys) = <<>> <=> Len(InOrder(keys)) = 0
  BY <1>4
<1>6. SortUnique(s) = InOrder(keys)
  BY DEF SortUnique, keys
<1> QED
  BY <1>2, <1>3, <1>4, <1>5, <1>6 DEF keys

\* The stations that are kept are stations of the answer.
LEMMA StationsWereSent ==
  ASSUME NEW items \in Seq(Item)
  PROVE  /\ StationsOf(items) \in Seq(Nat)
         /\ SeqX!ToSet(StationsOf(items)) \subseteq {items[k].key : k \in DOMAIN items}
<1> DEFINE ids  == KeysUpTo(items, {"type", "number"})
           want == {k \in DOMAIN ids : ids[k] < StationLimit}
           kept == InOrder(want)
<1>1. /\ ids \in Seq(Nat)
      /\ \A k \in DOMAIN ids : k \in DOMAIN items /\ ids[k] = items[k].key
  BY KeysUpToPrefix
<1>2. DOMAIN ids = 1 .. Len(ids) /\ Len(ids) \in Nat /\ \A k \in DOMAIN ids : ids[k] \in Nat
  BY <1>1
<1>3. want \in SUBSET Nat /\ IsFiniteSet(want) /\ want \subseteq DOMAIN ids
  <2>1. want \subseteq 1 .. Len(ids) /\ IsFiniteSet(1 .. Len(ids))
    BY <1>2, FirstNumbers
  <2>2. 1 .. Len(ids) \subseteq Nat /\ DOMAIN ids = 1 .. Len(ids)
    BY <1>2
  <2> HIDE DEF want, ids
  <2>3. IsFiniteSet(want)
    BY <2>1, FS_Subset
  <2> QED
    BY <2>1, <2>2, <2>3
<1> HIDE DEF want, ids
<1>4. kept \in Seq(Nat) /\ SeqX!ToSet(kept) = want
  BY <1>3, InOrderSorts
<1>5. StationsOf(items) = [p \in DOMAIN kept |-> ids[kept[p]]]
  BY DEF StationsOf, ids, want
<1> HIDE DEF kept
<1>6. DOMAIN kept = 1 .. Len(kept) /\ Len(kept) \in Nat
  BY <1>4
<1>7. \A p \in 1 .. Len(kept) : kept[p] \in DOMAIN ids
  BY <1>3, <1>4, <1>6 DEF SeqX!ToSet
<1>8. /\ DOMAIN StationsOf(items) = 1 .. Len(kept)
      /\ \A p \in 1 .. Len(kept) :
            StationsOf(items)[p] \in Nat /\ StationsOf(items)[p] = items[kept[p]].key
  BY <1>1, <1>2, <1>5, <1>6, <1>7
<1>9. StationsOf(items) \in Seq(Nat)
  <2>1. \A p \in 1 .. Len(kept) : ids[kept[p]] \in Nat
    BY <1>2, <1>7
  <2> QED
    BY <1>5, <1>6, <2>1
<1>10. SeqX!ToSet(StationsOf(items)) \subseteq {items[k].key : k \in DOMAIN items}
  <2>1. \A p \in 1 .. Len(kept) : kept[p] \in DOMAIN items
    BY <1>1, <1>7
  <2>2. \A p \in 1 .. Len(kept) : StationsOf(items)[p] \in {items[k].key : k \in DOMAIN items}
    BY <1>8, <2>1
  <2> QED
    BY <1>8, <2>2 DEF SeqX!ToSet
<1> QED
  BY <1>9, <1>10

----------------------------------------------------------------------------
(* The loop. *)

\* An answer with no trigger in it, and without a field that throws.
Useless(answer) ==
    TriggersOf(answer.got.items) = <<>> /\ ~ParseThrows(answer.got.items)

\* One answer for every try, from the server whose turn it was; the last is res.
Asked ==
    /\ Len(answers) = IF at = "ask" THEN i ELSE i + 1
    /\ \A k \in DOMAIN answers : answers[k].from = IF k <= 3 THEN "url_u" ELSE "url_j"
    /\ at # "ask" => res = answers[i + 1].got

\* Before the call returns nothing is collected and nothing told: the answers to
\* the earlier tries were useless.
NothingYet ==
    at \in {"ask", "answered"} =>
        /\ fetched = <<>> /\ ~warned
        /\ call # "sites" => \A k \in 1 .. i : Useless(answers[k])

\* A call for triggers that returns without one has used all tries.
AllTried ==
    at = "done" /\ call # "sites" /\ fetched = <<>> =>
        i = 5 /\ \A k \in 1 .. 6 : Useless(answers[k])

FetchInv == TypeOK /\ Asked /\ NothingYet /\ AllTried /\ OneAnswer /\ WarnedUnlessThrown

\* What an answer can be.
LEMMA AnswerItems ==
  ASSUME TypeOK
  PROVE  /\ res.items \in Seq(Item)
         /\ ~Answered(res) => res.items = <<>>
         /\ \A k \in DOMAIN answers : answers[k].got.items \in Seq(Item)
<1>1. \A a \in Answers : a.items \in Seq(Item) /\ (~Answered(a) => a.items = <<>>)
  BY FetchAssumption DEF Answered
<1>2. NoAnswer.items = <<>> /\ <<>> \in Seq(Item)
  BY DEF NoAnswer
<1>3. res \in Answers \/ res = NoAnswer
  BY DEF TypeOK
<1>4. \A k \in DOMAIN answers : answers[k].got \in Answers
  <2>1. \A k \in DOMAIN answers : answers[k] \in [from : {"url_u", "url_j"}, got : Answers]
    <3> DEFINE Kept == [from : {"url_u", "url_j"}, got : Answers]
    <3>1. answers \in Seq(Kept)
      BY DEF TypeOK
    <3> HIDE DEF Kept
    <3>2. \A k \in DOMAIN answers : answers[k] \in Kept
      BY <3>1
    <3> QED
      BY <3>2 DEF Kept
  <2>2. \A a \in [from : {"url_u", "url_j"}, got : Answers] : a.got \in Answers
    OBVIOUS
  <2> QED
    BY <2>1, <2>2
<1> QED
  BY <1>1, <1>2, <1>3, <1>4

\* Nothing is parsed from nothing, and nothing throws.
LEMMA NothingFromNothing == TriggersOf(<<>>) = <<>> /\ ~ParseThrows(<<>>)
<1> DEFINE keys == TriggersOf(<<>>)
<1>1. <<>> \in Seq(Item) /\ DOMAIN <<>> = {}
  OBVIOUS
<1>2. keys \in Seq(Nat) /\ \A k \in DOMAIN keys : k \in DOMAIN <<>>
  BY <1>1, KeysUpToPrefix, Zenon DEF TriggersOf
<1> HIDE DEF keys
<1>3. \A k \in DOMAIN keys : FALSE
  BY <1>1, <1>2
<1>4. Len(keys) = 0
  <2>1. DOMAIN keys = 1 .. Len(keys) /\ Len(keys) \in Nat
    BY <1>2
  <2>2. Len(keys) > 0 => 1 \in DOMAIN keys
    BY <2>1
  <2> QED
    BY <1>3, <2>1, <2>2
<1>5. keys = <<>>
  BY <1>2, <1>4
<1>6. ~ParseThrows(<<>>)
  BY <1>1 DEF ParseThrows
<1> QED
  BY <1>5, <1>6 DEF keys

\* A wasted try keeps the invariant, whether another one follows or not.
LEMMA WastedTry ==
  ASSUME FetchInv, at = "answered", NextTry, fetched' = <<>>,
         call # "sites" => TriggersOf(res.items) = <<>> /\ ~ParseThrows(res.items),
         UNCHANGED <<call, res, answers>>
  PROVE  FetchInv'
<1>1. /\ i \in 0 .. 5 /\ Len(answers) = i + 1 /\ DOMAIN answers = 1 .. i + 1
      /\ res = answers[i + 1].got /\ ~warned
      /\ call # "sites" => \A k \in 1 .. i : Useless(answers[k])
  BY DEF FetchInv, TypeOK, Asked, NothingYet
<1>2. call # "sites" => \A k \in 1 .. i + 1 : Useless(answers[k])
  <2>1. call # "sites" => Useless(answers[i + 1])
    BY <1>1 DEF Useless
  <2>2. \A k \in 1 .. i + 1 : k \in 1 .. i \/ k = i + 1
    BY <1>1
  <2> QED
    BY <1>1, <2>1, <2>2
<1>3. <<>> \in Seq(Nat) /\ SeqX!ToSet(<<>>) = {}
  BY DEF SeqX!ToSet
<1>4. CASE i = 5
  <2>1. at' = "done" /\ i' = i /\ warned' = (call = "realTime")
    BY <1>4 DEF NextTry
  <2>2. TypeOK'
    BY <1>3, <2>1 DEF FetchInv, TypeOK
  <2>3. Asked'
    BY <2>1 DEF FetchInv, Asked
  <2>4. NothingYet'
    BY <2>1 DEF NothingYet
  <2>5. AllTried'
    BY <1>2, <1>4, <2>1 DEF AllTried, Useless
  <2>6. OneAnswer'
    BY <1>3 DEF OneAnswer
  <2>7. WarnedUnlessThrown'
    BY <1>1, <1>2, <2>1 DEF WarnedUnlessThrown, Useless
  <2> QED
    BY <2>2, <2>3, <2>4, <2>5, <2>6, <2>7 DEF FetchInv
<1>5. CASE i # 5
  <2>1. at' = "ask" /\ i' = i + 1 /\ warned' = warned
    BY <1>5 DEF NextTry
  <2>2. TypeOK'
    BY <1>1, <1>3, <1>5, <2>1 DEF FetchInv, TypeOK
  <2>3. Asked'
    BY <1>1, <2>1 DEF FetchInv, Asked
  <2>4. NothingYet'
    BY <1>1, <1>2, <2>1 DEF NothingYet, Useless
  <2>5. AllTried' /\ OneAnswer' /\ WarnedUnlessThrown'
    BY <2>1 DEF AllTried, OneAnswer, Returned, WarnedUnlessThrown
  <2> QED
    BY <2>2, <2>3, <2>4, <2>5 DEF FetchInv
<1> QED
  BY <1>4, <1>5

\* A call that returns with keys of its last answer keeps the invariant.
LEMMA Returns ==
  ASSUME FetchInv, at = "answered", at' \in {"done", "threw"},
         fetched' \in Seq(Nat),
         SeqX!ToSet(fetched') \subseteq {res.items[k].key : k \in DOMAIN res.items},
         at' = "done" /\ call # "sites" => fetched' # <<>> /\ TriggersOf(res.items) # <<>>,
         at' = "threw" => ParseThrows(res.items),
         UNCHANGED <<call, res, answers, i, warned>>
  PROVE  FetchInv'
<1>1. /\ i \in 0 .. 5 /\ DOMAIN answers = 1 .. i + 1
      /\ res = answers[i + 1].got /\ ~warned
      /\ call \in {"realTime", "historical", "sites"}
  BY DEF FetchInv, TypeOK, Asked, NothingYet
<1>2. TypeOK'
  BY DEF FetchInv, TypeOK
<1>3. Asked'
  BY DEF FetchInv, Asked
<1>4. NothingYet' /\ AllTried' /\ OneAnswer'
  BY DEF NothingYet, AllTried, OneAnswer
<1>5. WarnedUnlessThrown'
  <2>1. i + 1 \in DOMAIN answers
    BY <1>1
  <2> QED
    BY <1>1, <2>1 DEF WarnedUnlessThrown
<1> QED
  BY <1>2, <1>3, <1>4, <1>5 DEF FetchInv

\* What a parse adds to nothing.
LEMMA CollectedFromOne ==
  ASSUME TypeOK, fetched = <<>>
  PROVE  /\ Collected \in Seq(Nat)
         /\ fetched \o TriggersOf(res.items) = TriggersOf(res.items)
         /\ TriggersOf(res.items) \in Seq(Nat)
         /\ SeqX!ToSet(TriggersOf(res.items)) \subseteq {res.items[k].key : k \in DOMAIN res.items}
         /\ SeqX!ToSet(Collected) = SeqX!ToSet(TriggersOf(res.items))
         /\ Collected = <<>> <=> TriggersOf(res.items) = <<>>
<1> DEFINE keys == TriggersOf(res.items)
<1>1. res.items \in Seq(Item)
  BY AnswerItems
<1>2. /\ keys \in Seq(Nat)
      /\ \A k \in DOMAIN keys : k \in DOMAIN res.items /\ keys[k] = res.items[k].key
  BY <1>1, KeysUpToPrefix DEF TriggersOf
<1> HIDE DEF keys
<1>3. <<>> \o keys = keys
  BY <1>2
<1>4. Collected = SortUnique(keys)
  BY <1>3 DEF Collected, keys
<1>5. SeqX!ToSet(keys) \subseteq {res.items[k].key : k \in DOMAIN res.items}
  BY <1>2 DEF SeqX!ToSet
<1> QED
  BY <1>2, <1>3, <1>4, <1>5, SortUniqueKeeps DEF keys

\* The inductive invariant of a call: what was asked, what was kept and what was warned of.
THEOREM FetchInvariant == Spec => []FetchInv
<1>1. Init => FetchInv
  <2> SUFFICES ASSUME Init PROVE FetchInv
    OBVIOUS
  <2>1. <<>> \in Seq(Nat) /\ <<>> \in Seq([from : {"url_u", "url_j"}, got : Answers])
        /\ Len(<<>>) = 0 /\ DOMAIN <<>> = {}
    OBVIOUS
  <2>2. TypeOK
    <3>1. call \in {"realTime", "historical", "sites"} /\ at = "ask" /\ i = 0 /\ res = NoAnswer
          /\ fetched = <<>> /\ warned = FALSE /\ answers = <<>>
      BY DEF Init
    <3>2. at \in {"ask", "answered", "done", "threw"} /\ i \in 0 .. 5
      BY <3>1
    <3>4. res \in Answers \cup {NoAnswer}
      BY <3>1, Zenon
    <3>5. warned \in BOOLEAN
      BY <3>1, Zenon
    <3>3. answers \in Seq([from : {"url_u", "url_j"}, got : Answers]) /\ fetched \in Seq(Nat)
      BY <2>1, <3>1
    <3> QED
      BY <3>1, <3>2, <3>3, <3>4, <3>5, Zenon DEF TypeOK
  <2>3. Asked
    BY <2>1 DEF Init, Asked
  <2>4. NothingYet
    BY DEF Init, NothingYet
  <2>5. AllTried /\ OneAnswer /\ WarnedUnlessThrown
    BY DEF Init, AllTried, OneAnswer, Returned, WarnedUnlessThrown
  <2> QED
    BY <2>2, <2>3, <2>4, <2>5 DEF FetchInv
<1>2. FetchInv /\ [Next]_vars => FetchInv'
  <2> SUFFICES ASSUME FetchInv, [Next]_vars PROVE FetchInv'
    OBVIOUS
  <2>1. TypeOK /\ (at \in {"ask", "answered"} => fetched = <<>>)
    BY DEF FetchInv, NothingYet
  <2>2. CASE Ask
    <3> DEFINE new == [from |-> Server, got |-> res']
    <3>1. /\ i \in 0 .. 5 /\ answers \in Seq([from : {"url_u", "url_j"}, got : Answers])
          /\ Len(answers) = i /\ DOMAIN answers = 1 .. i
      BY <2>1, <2>2 DEF Ask, FetchInv, TypeOK, Asked
    <3>2. res' \in Answers /\ new \in [from : {"url_u", "url_j"}, got : Answers]
      BY <2>2 DEF Ask, Server
    <3>3. new.from = (IF i < 3 THEN "url_u" ELSE "url_j") /\ new.got = res'
      BY DEF Server
    <3>4. answers' = Append(answers, new) /\ at' = "answered"
          /\ UNCHANGED <<call, i, fetched, warned>>
      BY <2>2 DEF Ask
    <3> HIDE DEF new
    <3>5. /\ answers' \in Seq([from : {"url_u", "url_j"}, got : Answers])
          /\ Len(answers') = i + 1 /\ DOMAIN answers' = 1 .. i + 1
          /\ \A k \in 1 .. i : answers'[k] = answers[k]
          /\ answers'[i + 1] = new
      BY <3>1, <3>2, <3>4
    <3>6. TypeOK'
      BY <2>1, <3>2, <3>4, <3>5 DEF TypeOK
    <3>7. Asked'
      <4>1. \A k \in 1 .. i : answers'[k].from = IF k <= 3 THEN "url_u" ELSE "url_j"
        BY <3>1, <3>5 DEF FetchInv, Asked
      <4>2. answers'[i + 1].from = IF i + 1 <= 3 THEN "url_u" ELSE "url_j"
        BY <3>1, <3>3, <3>5
      <4>3. \A k \in 1 .. i + 1 : k \in 1 .. i \/ k = i + 1
        BY <3>1
      <4>4. \A k \in DOMAIN answers' : answers'[k].from = IF k <= 3 THEN "url_u" ELSE "url_j"
        BY <3>5, <4>1, <4>2, <4>3
      <4>5. res' = answers'[i + 1].got
        BY <3>3, <3>5
      <4> QED
        BY <3>4, <3>5, <4>4, <4>5 DEF Asked
    <3>8. NothingYet'
      <4>1. fetched = <<>> /\ ~warned /\ (call # "sites" => \A k \in 1 .. i : Useless(answers[k]))
        BY <2>2 DEF Ask, FetchInv, NothingYet
      <4> QED
        BY <3>4, <3>5, <4>1 DEF NothingYet, Useless
    <3>9. AllTried' /\ OneAnswer' /\ WarnedUnlessThrown'
      BY <3>4 DEF AllTried, OneAnswer, Returned, WarnedUnlessThrown
    <3> QED
      BY <3>6, <3>7, <3>8, <3>9 DEF FetchInv
  <2>3. CASE TriggersParsed
    <3>1. at = "answered" /\ call # "sites" /\ fetched' = Collected /\ ~ParseThrows(res.items)
          /\ UNCHANGED <<call, res, answers>>
      BY <2>3 DEF TriggersParsed
    <3>2. /\ Collected \in Seq(Nat)
          /\ SeqX!ToSet(Collected) \subseteq {res.items[k].key : k \in DOMAIN res.items}
          /\ Collected = <<>> <=> TriggersOf(res.items) = <<>>
      BY <2>1, <3>1, CollectedFromOne
    <3>3. CASE Collected = <<>>
      <4>1. NextTry
        BY <2>3, <3>1, <3>3 DEF TriggersParsed
      <4> QED
        BY <3>1, <3>2, <3>3, <4>1, WastedTry
    <3>4. CASE Collected # <<>>
      <4>1. at' = "done" /\ UNCHANGED <<i, warned>>
        BY <2>3, <3>1, <3>4 DEF TriggersParsed
      <4> QED
        BY <3>1, <3>2, <3>4, <4>1, Returns
    <3> QED
      BY <3>3, <3>4
  <2>4. CASE TriggersThrew
    <3>1. at = "answered" /\ at' = "threw" /\ fetched' = fetched \o TriggersOf(res.items)
          /\ ParseThrows(res.items)
          /\ UNCHANGED <<call, res, answers, i, warned>>
      BY <2>4 DEF TriggersThrew
    <3> QED
      BY <2>1, <3>1, CollectedFromOne, Returns
  <2>5. CASE TriggersFailed \/ StationsFailed
    <3>1. at = "answered" /\ ~Answered(res) /\ NextTry /\ UNCHANGED <<call, res, fetched, answers>>
      BY <2>5 DEF TriggersFailed, StationsFailed
    <3>2. TriggersOf(res.items) = <<>> /\ ~ParseThrows(res.items)
      BY <2>1, <3>1, AnswerItems, NothingFromNothing
    <3> QED
      BY <2>1, <3>1, <3>2, WastedTry
  <2>6. CASE StationsParsed
    <3>1. at = "answered" /\ call = "sites" /\ at' = "done" /\ fetched' = StationsOf(res.items)
          /\ UNCHANGED <<call, res, answers, i, warned>>
      BY <2>6 DEF StationsParsed
    <3>2. /\ StationsOf(res.items) \in Seq(Nat)
          /\ SeqX!ToSet(StationsOf(res.items)) \subseteq {res.items[k].key : k \in DOMAIN res.items}
      BY <2>1, AnswerItems, StationsWereSent
    <3> QED
      BY <3>1, <3>2, Returns
  <2>7. CASE UNCHANGED vars
    BY <2>7 DEF vars, FetchInv, TypeOK, Asked, NothingYet, AllTried, Useless, OneAnswer, Returned,
                WarnedUnlessThrown
  <2> QED
    BY <2>2, <2>3, <2>4, <2>5, <2>6, <2>7 DEF Next
<1> QED
  BY <1>1, <1>2, PTL DEF Spec

\* Every local of the three calls keeps its type, whatever the servers answer.
THEOREM FetchTypeCorrect == Spec => []TypeOK
<1>1. FetchInv => TypeOK
  BY DEF FetchInv
<1> QED
  BY <1>1, FetchInvariant, PTL

\* What a call returns comes from its last answer alone, for any answers and faults.
THEOREM FromOneAnswer == Spec => []OneAnswer
<1>1. FetchInv => OneAnswer
  BY DEF FetchInv
<1> QED
  BY <1>1, FetchInvariant, PTL

\* For any answers, the warning is sent exactly when the call is a real-time one, none
\* of its answers had a trigger and none threw.
THEOREM WarningUnlessThrown == Spec => []WarnedUnlessThrown
<1>1. FetchInv => WarnedUnlessThrown
  BY DEF FetchInv
<1> QED
  BY <1>1, FetchInvariant, PTL

\* A call for triggers gives up only after three useless answers of either server.
THEOREM GivesUpLast == Spec => []EmptyOnlyAfterAllTries
<1>1. FetchInv => EmptyOnlyAfterAllTries
  <2> SUFFICES ASSUME FetchInv, at = "done", call # "sites", fetched = <<>>
               PROVE  \A s \in {"url_u", "url_j"} :
                         Cardinality({k \in DOMAIN answers :
                            /\ answers[k].from = s
                            /\ TriggersOf(answers[k].got.items) = <<>>}) = 3
    BY DEF EmptyOnlyAfterAllTries
  <2>1. /\ i = 5 /\ DOMAIN answers = 1 .. 6
        /\ \A k \in 1 .. 6 : TriggersOf(answers[k].got.items) = <<>>
        /\ \A k \in 1 .. 6 : answers[k].from = IF k <= 3 THEN "url_u" ELSE "url_j"
    BY DEF FetchInv, TypeOK, Asked, AllTried, Useless
  <2>2. {k \in DOMAIN answers : /\ answers[k].from = "url_u"
                                /\ TriggersOf(answers[k].got.items) = <<>>} = 1 .. 3
    BY <2>1
  <2>3. {k \in DOMAIN answers : /\ answers[k].from = "url_j"
                                /\ TriggersOf(answers[k].got.items) = <<>>} = 4 .. 6
    BY <2>1
  <2>4. Cardinality(1 .. 3) = 3 /\ Cardinality(4 .. 6) = 3
    <3>1. Cardinality(1 .. 3) = IF 1 > 3 THEN 0 ELSE 3 - 1 + 1
      <4>1. 1 \in Int /\ 3 \in Int
        OBVIOUS
      <4> QED
        BY <4>1, FS_Interval, Zenon
    <3>2. Cardinality(4 .. 6) = IF 4 > 6 THEN 0 ELSE 6 - 4 + 1
      <4>1. 4 \in Int /\ 6 \in Int
        OBVIOUS
      <4> QED
        BY <4>1, FS_Interval, Zenon
    <3> QED
      BY <3>1, <3>2
  <2> QED
    BY <2>2, <2>3, <2>4
<1> QED
  BY <1>1, FetchInvariant, PTL
=============================================================================
