--------------------------- MODULE LocPoolProofs ---------------------------
(* Facts about the times of triggers, the trigger pool, the erasure of a     *)
(* located combination, the enumeration of combinations, and the ordered map *)
(* that holds the pool.                                                      *)
EXTENDS LigTools, OrderedHash, DataProofs

LOCAL SeqX == INSTANCE SequencesExt

----------------------------------------------------------------------------
(* The time arithmetic of GPSTime, for all times. *)

\* Every full minute, hour and day before a time adds a constant to its weighted
\* fields.
LEMMA WeightedExcess ==
  ASSUME NEW sec \in Nat
  PROVE  /\ Weighted(sec) \in Nat
         /\ Weighted(sec) = sec + 40 * (sec \div 60) + 4000 * (sec \div 3600)
                              + 760000 * (sec \div 86400)
<1> DEFINE M == sec \div 60
           H == sec \div 3600
           D == sec \div 86400
<1>1. M \in Nat /\ H \in Nat /\ D \in Nat
  BY SMT
<1>2. sec % 60 = sec - 60 * M
  BY SMT
<1>3. M % 60 = M - 60 * H
  BY SMT
<1>4. H % 24 = H - 24 * D
  BY SMT
<1>5. M - 60 * H >= 0 /\ H - 24 * D >= 0 /\ sec - 60 * M >= 0
  BY SMT
<1> HIDE DEF M, H, D
<1>6. Weighted(sec) = D * 1000000 + (H % 24) * 10000 + (M % 60) * 100 + (sec % 60)
  BY SMT DEF Weighted, m_Sec, m_Min, m_Hour, m_Day, M, H, D
<1>7. Weighted(sec) = sec + 40 * M + 4000 * H + 760000 * D
  BY SMT, <1>1, <1>2, <1>3, <1>4, <1>6
<1> QED
  BY SMT, <1>1, <1>7 DEF M, H, D

\* The decimal weights of operator- overstate a number of seconds, never
\* understate it: a minute counts 100, an hour 10000, a day 1000000.
LEMMA WeightedNeverUnder ==
  ASSUME NEW a \in Nat, NEW b \in Nat, a <= b
  PROVE  Weighted(b) - Weighted(a) >= b - a
<1>1. a \div 60 <= b \div 60 /\ a \div 3600 <= b \div 3600 /\ a \div 86400 <= b \div 86400
  BY SMT
<1> QED
  BY SMT, <1>1, WeightedExcess

\* operator- on GPSTime is antisymmetric, has the right sign, and never reports
\* less than the time that really lies between two times.
THEOREM MinusNeverUnder ==
  ASSUME NEW a \in Nat, NEW b \in Nat, a <= b
  PROVE  /\ Minus(b, a) \in Int
         /\ Minus(b, a) >= b - a
         /\ Minus(a, b) = -Minus(b, a)
<1> DEFINE sa == WholeSeconds(a)
           sb == WholeSeconds(b)
<1>1. sa \in Nat /\ sb \in Nat
  BY SMT DEF WholeSeconds, TicksPerSecond
<1>2. sa <= sb
  BY SMT DEF WholeSeconds, TicksPerSecond
<1>3. Weighted(sa) \in Nat /\ Weighted(sb) \in Nat
  BY SMT, <1>1, WeightedExcess
<1>4. Weighted(sb) - Weighted(sa) >= sb - sa
  BY SMT, <1>1, <1>2, WeightedNeverUnder
<1>5. /\ m_ActPointSec(a) \in Int /\ m_ActPointSec(b) \in Int
      /\ a = sa * 10000 + m_ActPointSec(a)
      /\ b = sb * 10000 + m_ActPointSec(b)
  BY SMT DEF WholeSeconds, m_ActPointSec, TicksPerSecond
<1> HIDE DEF sa, sb
<1>6. Minus(b, a) = (Weighted(sb) - Weighted(sa)) * 10000 + m_ActPointSec(b) - m_ActPointSec(a)
  BY SMT DEF Minus, TicksPerSecond, sa, sb
<1>7. Minus(a, b) = (Weighted(sa) - Weighted(sb)) * 10000 + m_ActPointSec(a) - m_ActPointSec(b)
  BY SMT DEF Minus, TicksPerSecond, sa, sb
<1> QED
  BY SMT, <1>1, <1>3, <1>4, <1>5, <1>6, <1>7

\* The carry of GPSTimeCarrtOneSecond loses nothing: adding a non-negative
\* fraction with AddActPointSec is addition, across seconds, minutes and days.
THEOREM AddActPointSecAdds ==
  ASSUME NEW t \in Nat, NEW d \in Nat
  PROVE  AddActPointSec(t, d) = t + d
<1> DEFINE sec == WholeSeconds(t)
           act == m_ActPointSec(t) + d
<1>1. sec \in Nat /\ act \in Nat /\ t + d = sec * 10000 + act
  BY SMT DEF WholeSeconds, m_ActPointSec, TicksPerSecond
<1>2. act = (act \div 10000) * 10000 + (act % 10000) /\ act \div 10000 \in Nat /\ act % 10000 \in Nat
  BY SMT, <1>1
<1> HIDE DEF sec, act
<1>3. GPSTimeCarrtOneSecond(sec, act) = sec * 10000 + act
  BY SMT, <1>1, <1>2 DEF GPSTimeCarrtOneSecond, FromFields, TicksPerSecond
<1> QED
  BY SMT, <1>1, <1>3 DEF AddActPointSec, sec, act

\* operator+= with minutes yields a time, no earlier than the one it started from.
LEMMA AddMinutesType ==
  ASSUME NEW t \in Nat, NEW n \in Nat
  PROVE  AddMinutes(t, n) \in Nat /\ AddMinutes(t, n) >= t
BY SMT DEF AddMinutes, FromFields, WholeSeconds, m_ActPointSec, TicksPerSecond

\* operator+= with minutes is addition.
LEMMA AddMinutesAdds ==
  ASSUME NEW t \in Nat, NEW n \in Nat
  PROVE  AddMinutes(t, n) = t + 600000 * n
BY SMT DEF AddMinutes, FromFields, WholeSeconds, m_ActPointSec, TicksPerSecond

\* A time is a whole number of minutes and its second within the minute.
LEMMA MinuteSplit ==
  ASSUME NEW t \in Nat
  PROVE  /\ SecondsOfMinute(t) \in Nat /\ SecondsOfMinute(t) < 600000
         /\ t \div 600000 \in Nat
         /\ t = 600000 * (t \div 600000) + SecondsOfMinute(t)
<1>1. SecondsOfMinute(t) = t % 600000
  BY SMT DEF SecondsOfMinute, TicksPerSecond
<1>2. /\ t % 600000 \in Nat /\ t % 600000 < 600000
      /\ t \div 600000 \in Nat
      /\ t = 600000 * (t \div 600000) + (t % 600000)
  BY SMT
<1> QED
  BY SMT, <1>1, <1>2

\* Across a full minute the weights add 40 or more.
LEMMA WeightedMinute ==
  ASSUME NEW a \in Nat, NEW b \in Nat, a <= b, a \div 60 # b \div 60
  PROVE  Weighted(b) - Weighted(a) >= b - a + 40
<1>1. a \div 60 <= b \div 60 /\ a \div 3600 <= b \div 3600 /\ a \div 86400 <= b \div 86400
  BY SMT
<1>2. a \div 60 + 1 <= b \div 60
  BY SMT, <1>1
<1> QED
  BY SMT, <1>1, <1>2, WeightedExcess

\* Times that operator- puts less than 40 s apart lie in the same minute: what it
\* adds for every full minute between two times is at least as much.
THEOREM CloseInSameMinute ==
  ASSUME NEW a \in Nat, NEW b \in Nat, a <= b, Minus(b, a) < 40 * TicksPerSecond
  PROVE  a - SecondsOfMinute(a) = b - SecondsOfMinute(b)
<1> DEFINE sa == WholeSeconds(a)
           sb == WholeSeconds(b)
           fa == m_ActPointSec(a)
           fb == m_ActPointSec(b)
<1>1. /\ sa \in Nat /\ sb \in Nat /\ sa <= sb /\ fa \in Int /\ fb \in Int
      /\ a = sa * 10000 + fa /\ b = sb * 10000 + fb
  BY SMT DEF WholeSeconds, m_ActPointSec, TicksPerSecond
<1>2. Minus(b, a) = (Weighted(sb) - Weighted(sa)) * 10000 + fb - fa
  BY SMT DEF Minus, TicksPerSecond
<1>3. a \div 600000 = sa \div 60 /\ b \div 600000 = sb \div 60
  BY SMT DEF WholeSeconds, TicksPerSecond
<1> HIDE DEF sa, sb, fa, fb
<1>4. sa \div 60 = sb \div 60
  <2> SUFFICES ASSUME sa \div 60 # sb \div 60 PROVE FALSE
    OBVIOUS
  <2>1. Weighted(sb) - Weighted(sa) >= sb - sa + 40
    BY SMT, <1>1, WeightedMinute
  <2>2. Weighted(sa) \in Nat /\ Weighted(sb) \in Nat
    BY SMT, <1>1, WeightedExcess
  <2>3. (Weighted(sb) - Weighted(sa)) * 10000 + fb - fa < 400000
    BY SMT, <1>2 DEF TicksPerSecond
  <2> QED
    BY SMT, <1>1, <2>1, <2>2, <2>3
<1> DEFINE minute == a \div 600000
           ra     == SecondsOfMinute(a)
           rb     == SecondsOfMinute(b)
<1>5. minute = b \div 600000
  BY SMT, <1>3, <1>4
<1>6. a = 600000 * minute + ra /\ ra \in Nat /\ minute \in Nat
  BY MinuteSplit
<1>7. b = 600000 * (b \div 600000) + rb /\ rb \in Nat
  BY MinuteSplit
<1> HIDE DEF minute, ra, rb
<1>8. a - ra = b - rb
  BY SMT, <1>5, <1>6, <1>7
<1> QED
  BY <1>8 DEF ra, rb

\* What set_second computes, for a second before and after the full minute.
LEMMA SetSecondValue ==
  ASSUME NEW minute \in Nat, NEW st \in Nat, st < 600000, NEW s \in Int,
         NEW t \in Nat, t = 600000 * minute + st, SecondsOfMinute(t) = st
  PROVE  /\ s < 0 /\ st < 10000 => set_second(t, s) = 600000 * minute + s
         /\ s >= 0 => set_second(t, s) = 600000 * minute + s
<1>1. ASSUME s < 0, st < 10000 PROVE set_second(t, s) = 600000 * minute + s
  <2>1. WholeSeconds(t) = 60 * minute
    BY SMT, <1>1 DEF WholeSeconds, TicksPerSecond
  <2>2. set_second(t, s) = (60 * minute - 1) * 10000 + (s + 10000)
    BY SMT, <1>1, <2>1 DEF set_second, FromFields, TicksPerSecond
  <2> QED
    BY SMT, <2>2
<1>2. ASSUME s >= 0 PROVE set_second(t, s) = 600000 * minute + s
  <2>1. t - st = 600000 * minute
    BY SMT
  <2>2. WholeSeconds(t - SecondsOfMinute(t)) = 60 * minute
    BY SMT, <2>1 DEF WholeSeconds, TicksPerSecond
  <2>3. s = 10000 * (s \div 10000) + (s % 10000) /\ s \div 10000 \in Int /\ s % 10000 \in Int
    BY SMT, <1>2
  <2>4. set_second(t, s) = (60 * minute + (s \div 10000)) * 10000 + (s % 10000)
    BY SMT, <1>2, <2>2 DEF set_second, FromFields, TicksPerSecond
  <2> QED
    BY SMT, <2>3, <2>4
<1> QED
  BY <1>1, <1>2

\* set_second on the time of one arrival with the second of another in the same
\* minute, less a travel time, gives the time at which the lightning occurred, also
\* when the second is negative, as long as both times are within a second of it.
THEOREM SetSecondSubtracts ==
  ASSUME NEW t \in Nat, NEW u \in Nat, NEW d \in Nat, u <= t, t - u + d <= TicksPerSecond,
         t - SecondsOfMinute(t) = u - SecondsOfMinute(u)
  PROVE  set_second(t, SecondsOfMinute(u) - d) = u - d
<1> DEFINE minute == t \div 600000
           su     == SecondsOfMinute(u)
           st     == SecondsOfMinute(t)
<1>1. /\ minute \in Nat /\ st \in Nat /\ st < 600000 /\ su \in Nat /\ su < 600000
      /\ t = 600000 * minute + st
  BY MinuteSplit
<1>2. t - st = u - su
  OBVIOUS
<1>3. SecondsOfMinute(t) = st /\ SecondsOfMinute(u) = su
  OBVIOUS
<1> HIDE DEF minute, su, st
<1>4. u = 600000 * minute + su
  BY SMT, <1>1, <1>2
<1>5. su - d < 0 => st < 10000
  BY SMT, <1>1, <1>4 DEF TicksPerSecond
<1>6. su - d \in Int
  BY SMT, <1>1
<1>7. set_second(t, su - d) = 600000 * minute + (su - d)
  BY SMT, <1>1, <1>3, <1>5, <1>6, SetSecondValue
<1> QED
  BY SMT, <1>1, <1>3, <1>4, <1>7

----------------------------------------------------------------------------
(* The order of the triggers and the pool. *)

\* The fields of a trigger that the order looks at.
LEMMA TriggerFields ==
  /\ \A t \in Trigger : t.time \in Nat /\ t.stationID \in Nat
  /\ \A t, u \in Trigger : t.time = u.time /\ t.stationID = u.stationID => t = u
BY TriggerAssumption

\* TriggerInfo::operator< is a strict total order on the triggers.
LEMMA BeforeOrder ==
  /\ \A t \in Trigger : ~Before(t, t)
  /\ \A t, u \in Trigger : t # u => Before(t, u) \/ Before(u, t)
  /\ \A t, u \in Trigger : Before(t, u) => ~Before(u, t) /\ t.time <= u.time
  /\ \A t, u, v \in Trigger : Before(t, u) /\ Before(u, v) => Before(t, v)
<1>1. \A t \in Trigger : ~Before(t, t)
  BY TriggerFields DEF Before
<1>2. \A t, u \in Trigger : t # u => Before(t, u) \/ Before(u, t)
  BY TriggerFields DEF Before
<1>3. \A t, u \in Trigger : Before(t, u) => ~Before(u, t) /\ t.time <= u.time
  BY TriggerFields DEF Before
<1>4. \A t, u, v \in Trigger : Before(t, u) /\ Before(u, v) => Before(t, v)
  BY TriggerFields DEF Before
<1> QED
  BY <1>1, <1>2, <1>3, <1>4

\* allTriggers[0] exists and precedes every other element.
LEMMA FrontIsFirst ==
  ASSUME NEW all \in SUBSET Trigger, all # {}
  PROVE  /\ Front(all) \in all
         /\ \A u \in all \ {Front(all)} : Before(Front(all), u)
<1>1. PICK m \in {t.time : t \in all} : \A n \in {t.time : t \in all} : m <= n
  <2>1. {t.time : t \in all} \subseteq Nat /\ {t.time : t \in all} # {}
    BY TriggerFields
  <2> QED
    BY <2>1, LeastNat, Zenon
<1> DEFINE first    == {t \in all : t.time = m}
           stations == {t.stationID : t \in first}
<1>2. PICK s \in stations : \A r \in stations : s <= r
  <2>1. stations \subseteq Nat
    BY TriggerFields
  <2>2. stations # {}
    OBVIOUS
  <2> HIDE DEF stations
  <2> QED
    BY <2>1, <2>2, LeastNat
<1>3. PICK f \in all : f.time = m /\ f.stationID = s
  OBVIOUS
<1>4. ASSUME NEW u \in all \ {f}
      PROVE  Before(f, u)
  <2>1. f.time <= u.time /\ f.time \in Nat /\ u.time \in Nat
    BY <1>1, <1>3, TriggerAssumption
  <2>2. CASE f.time < u.time
    BY <2>2 DEF Before
  <2>3. CASE f.time = u.time
    <3>1. u.stationID \in stations
      BY <2>3, <1>3
    <3>2. f.stationID <= u.stationID /\ f.stationID \in Nat /\ u.stationID \in Nat
      BY <3>1, <1>2, <1>3, TriggerAssumption
    <3>3. f.stationID # u.stationID
      BY <2>3, TriggerAssumption
    <3> QED
      BY <2>3, <3>2, <3>3 DEF Before
  <2> QED
    BY <2>1, <2>2, <2>3
<1>5. \E t \in all : \A u \in all \ {t} : Before(t, u)
  BY <1>4
<1> QED
  BY <1>5 DEF Front

\* Every candidate lies within maxBaseLineAsTOA of the base trigger in real time,
\* because operator- never reports too little.
LEMMA CandidateClose ==
  ASSUME NEW all \in SUBSET Trigger, all # {}, NEW t \in Candidates(all, Front(all))
  PROVE  t \in all /\ t.time <= Front(all).time + MaxBaseLineAsTOA
<1> DEFINE base == Front(all)
<1>1. t \in all /\ -MaxBaseLineAsTOA <= Minus(base.time, t.time)
  BY DEF Candidates
<1>2. base \in all /\ base.time <= t.time
  <2>1. base \in all /\ (t = base \/ Before(base, t))
    BY <1>1, FrontIsFirst
  <2> QED
    BY <1>1, <2>1, BeforeOrder, TriggerFields
<1>3. base.time \in Nat /\ t.time \in Nat
  BY <1>1, <1>2, TriggerAssumption
<1> HIDE DEF base
<1>4. /\ Minus(t.time, base.time) \in Int
      /\ Minus(t.time, base.time) >= t.time - base.time
      /\ Minus(base.time, t.time) = -Minus(t.time, base.time)
  BY <1>2, <1>3, MinusNeverUnder
<1>5. t.time <= base.time + MaxBaseLineAsTOA
  BY <1>1, <1>3, <1>4, BoundAssumption
<1> QED
  BY <1>1, <1>5 DEF base

\* A located combination consists of candidates of the base trigger.
LEMMA CombOfCandidates ==
  ASSUME NEW all, NEW base, NEW comb \in LocatedCombs(TriggerPool(all, base))
  PROVE  comb \subseteq Candidates(all, base)
BY DEF LocatedCombs, Combinations, WithoutStations, TriggerPool

\* Erasing a located combination removes no trigger later than the base trigger by
\* more than maxBaseLineAsTOA, although an index 0 may erase a bystander.
LEMMA ErasedClose ==
  ASSUME NEW all \in SUBSET Trigger, all # {},
         NEW comb, comb \subseteq Candidates(all, Front(all)),
         NEW e \in all \ EraseUsed(all, Front(all), comb)
  PROVE  e.time <= Front(all).time + MaxBaseLineAsTOA
<1> DEFINE base    == Front(all)
           indexed == Indexed(all, base, comb)
           rest    == all \ indexed
           earlier == {u \in rest : Before(u, e)}
           limit   == base.time + MaxBaseLineAsTOA
<1>1. \A c \in comb : c \in all /\ c.time <= limit
  BY CandidateClose
<1>2. indexed \subseteq comb
  BY DEF Indexed
<1>3. e \in indexed \/ (e \in rest /\ Cardinality(earlier) < Cardinality(comb \ indexed))
  BY DEF EraseUsed, Lowest
<1>4. CASE e \in indexed
  BY <1>1, <1>2, <1>4
<1>5. CASE e \in rest /\ Cardinality(earlier) < Cardinality(comb \ indexed)
  <2> SUFFICES ASSUME ~(e.time <= limit)
               PROVE  FALSE
    OBVIOUS
  <2>1. limit \in Nat /\ e.time \in Nat
    BY FrontIsFirst, TriggerAssumption, BoundAssumption
  <2>2. \A c \in comb \ indexed : c \in rest /\ c.time < e.time
    BY <1>1, <2>1, TriggerAssumption
  <2>3. comb \ indexed \subseteq earlier
    BY <2>2 DEF Before
  <2>4. IsFiniteSet(earlier)
    <3>1. earlier \in SUBSET Trigger
      OBVIOUS
    <3> QED
      BY <3>1, FS_Subset, TriggerAssumption
  <2>5. /\ Cardinality(comb \ indexed) <= Cardinality(earlier)
        /\ Cardinality(comb \ indexed) \in Nat /\ Cardinality(earlier) \in Nat
    BY <2>3, <2>4, FS_Subset, FS_CardinalityType
  <2> QED
    BY <1>5, <2>5
<1> QED
  BY <1>3, <1>4, <1>5

\* Erasing a located combination removes triggers and adds none.
LEMMA EraseShrinks ==
  ASSUME NEW all, NEW base, NEW comb
  PROVE  EraseUsed(all, base, comb) \subseteq all
BY DEF EraseUsed

----------------------------------------------------------------------------
(* The places of triggers in the sorted deque. *)

\* The position of a trigger in the sorted deque.
DequePosition(all, t) == Cardinality({u \in all : Before(u, t)})

\* TriggerInfo::operator< as an order in the sense of DataProofs.
LEMMA PositionIsRank ==
  ASSUME NEW all \in SUBSET Trigger
  PROVE  /\ IsFiniteSet(all) /\ Cardinality(all) \in Nat
         /\ TotalOrder(all, [t \in all |-> {u \in all : Before(u, t)}])
<1>1. IsFiniteSet(all) /\ Cardinality(all) \in Nat
  BY FS_Subset, FS_CardinalityType, TriggerAssumption
<1>2. TotalOrder(all, [t \in all |-> {u \in all : Before(u, t)}])
  BY BeforeOrder DEF TotalOrder
<1> QED
  BY <1>1, <1>2

\* Positions are natural numbers below the size, and grow along the order.
LEMMA PositionOrder ==
  ASSUME NEW all \in SUBSET Trigger
  PROVE  /\ \A t \in all : DequePosition(all, t) \in 0 .. Cardinality(all) - 1
         /\ \A t, u \in all : Before(t, u) => DequePosition(all, t) < DequePosition(all, u)
<1> DEFINE Low == [t \in all |-> {u \in all : Before(u, t)}]
<1>1. IsFiniteSet(all) /\ TotalOrder(all, Low)
  BY PositionIsRank
<1>2. /\ \A t \in all : DequePosition(all, t) = Cardinality(Low[t])
      /\ \A t, u \in all : Before(t, u) => t \in Low[u]
  BY DEF DequePosition
<1> HIDE DEF Low
<1> QED
  BY <1>1, <1>2, RankGrows

\* Every position below the size is that of one trigger.
LEMMA PositionTaken ==
  ASSUME NEW all \in SUBSET Trigger
  PROVE  /\ \A p \in 0 .. Cardinality(all) - 1 : \E t \in all : DequePosition(all, t) = p
         /\ \A t, u \in all : DequePosition(all, t) = DequePosition(all, u) => t = u
<1> DEFINE Low == [t \in all |-> {u \in all : Before(u, t)}]
<1>1. IsFiniteSet(all) /\ TotalOrder(all, Low)
  BY PositionIsRank
<1>2. \A t \in all : DequePosition(all, t) = Cardinality(Low[t])
  BY DEF DequePosition
<1> HIDE DEF Low
<1> QED
  BY <1>1, <1>2, RankIsPlace

\* The first k elements of a deque that has at least k are k.
LEMMA LowestCount ==
  ASSUME NEW all \in SUBSET Trigger, NEW k \in 0 .. Cardinality(all)
  PROVE  Cardinality(Lowest(all, k)) = k
<1> DEFINE L   == Lowest(all, k)
           low == [t \in L |-> DequePosition(all, t)]
<1>1. IsFiniteSet(all) /\ Cardinality(all) \in Nat
  BY PositionIsRank
<1>2. L = {t \in all : DequePosition(all, t) < k}
  BY DEF Lowest, DequePosition
<1> HIDE DEF L
<1>3. low \in [L -> 0 .. k - 1]
  BY <1>1, <1>2, PositionOrder
<1>4. \A t, u \in L : low[t] = low[u] => t = u
  BY <1>2, PositionTaken
<1>5. \A p \in 0 .. k - 1 : \E t \in L : low[t] = p
  <2> TAKE p \in 0 .. k - 1
  <2>1. p \in 0 .. Cardinality(all) - 1 /\ p < k
    BY <1>1
  <2>2. PICK t \in all : DequePosition(all, t) = p
    BY <2>1, PositionTaken
  <2>3. t \in L /\ low[t] = p
    BY <1>2, <2>1, <2>2
  <2> QED
    BY <2>3
<1>6. ExistsBijection(L, 0 .. k - 1)
  <2> HIDE DEF low
  <2>1. low \in Bijection(L, 0 .. k - 1)
    BY <1>3, <1>4, <1>5, Fun_IsBij
  <2> QED
    BY <2>1 DEF ExistsBijection
<1>7. IsFiniteSet(L)
  BY <1>1, <1>2, FS_Subset
<1>8. k \in Nat /\ Cardinality(0 .. k - 1) = k
  BY FS_Interval
<1> QED
  BY <1>6, <1>7, <1>8, FS_Bijection DEF L

----------------------------------------------------------------------------
(* The minute of a combination. *)

\* Coherent triggers lie in the same minute, when no two stations are 40 s apart.
LEMMA CoherentSameMinute ==
  ASSUME NEW t \in Trigger, NEW u \in Trigger, Coherent(t, u), t.time <= u.time,
         \A s, r \in Station : SiteTime[s][r] + Tolerance < 40 * TicksPerSecond
  PROVE  t.time - SecondsOfMinute(t.time) = u.time - SecondsOfMinute(u.time)
<1> DEFINE a     == t.time
           b     == u.time
           reach == SiteTime[u.stationID][t.stationID]
           d     == Minus(a, b)
<1>1. a \in Nat /\ b \in Nat
  BY TriggerFields
<1>2. reach \in Nat /\ reach + Tolerance < 40 * TicksPerSecond
  <2>1. t.stationID \in Station /\ u.stationID \in Station
    BY TriggerAssumption
  <2> QED
    BY <2>1, SiteTimeAssumption
<1>3. (IF d < 0 THEN -d ELSE d) <= reach + Tolerance
  BY Zenon DEF Coherent
<1>4. a <= b
  OBVIOUS
<1> HIDE DEF a, b, reach
<1>5. Minus(b, a) \in Int /\ d = -Minus(b, a) /\ Minus(b, a) >= b - a
  BY <1>1, <1>4, MinusNeverUnder
<1> HIDE DEF d
<1>6. Minus(b, a) < 40 * TicksPerSecond
  BY SMT, <1>1, <1>2, <1>3, <1>4, <1>5 DEF Tolerance, TicksPerSecond
<1> QED
  BY <1>1, <1>4, <1>6, CloseInSameMinute DEF a, b

\* All members of a combination that can be located lie in one minute, so that the
\* solver, which gets their seconds within the minute, gets their true differences.
THEOREM CombInOneMinute ==
  ASSUME NEW all \in SUBSET Trigger, NEW base,
         NEW comb \in LocatedCombs(TriggerPool(all, base)), NEW t \in comb, NEW u \in comb,
         \A s, r \in Station : SiteTime[s][r] + Tolerance < 40 * TicksPerSecond
  PROVE  t.time - SecondsOfMinute(t.time) = u.time - SecondsOfMinute(u.time)
<1>1. comb \subseteq Trigger
  BY CombOfCandidates DEF Candidates
<1>2. t # u => Coherent(t, u) /\ Coherent(u, t)
  BY DEF LocatedCombs, Combinations
<1>3. t.time \in Nat /\ u.time \in Nat
  BY <1>1, TriggerFields
<1>4. CASE t = u
  BY <1>4
<1>5. CASE t # u /\ t.time <= u.time
  BY <1>1, <1>2, <1>5, CoherentSameMinute
<1>6. CASE t # u /\ u.time <= t.time
  BY <1>1, <1>2, <1>6, CoherentSameMinute
<1> QED
  BY <1>3, <1>4, <1>5, <1>6

----------------------------------------------------------------------------
(* The enumeration of combinations. *)

\* The recursion of permuteVector: what is chosen so far, and what follows from it.
Partial(triggers) == {s \in Seq(Trigger) : Len(s) <= Len(triggers)}

Branches(triggers, permute, current) ==
    LET choices == triggers[Len(current) + 1]
    IN  [i \in 1 .. Len(choices) |->
            IF Valid(choices[i], current) THEN permute[Append(current, choices[i])] ELSE <<>>]

PermuteRun(triggers, permute) ==
    /\ \A current \in Partial(triggers) :
          permute[current] = IF Len(current) = Len(triggers) THEN <<current>>
                             ELSE SeqX!FlattenSeq(Branches(triggers, permute, current))
    /\ permuteVector(triggers) = permute[<<>>]

\* The calls of a recursion step and what they return.
LEMMA BranchesType ==
  ASSUME NEW triggers \in Seq(Seq(Trigger)), NEW permute,
         NEW current \in Partial(triggers), Len(current) # Len(triggers),
         \A c \in Partial(triggers) : Len(c) = Len(current) + 1 => permute[c] \in Seq(Seq(Trigger))
  PROVE  /\ Len(current) + 1 \in 1 .. Len(triggers)
         /\ triggers[Len(current) + 1] \in Seq(Trigger)
         /\ \A i \in 1 .. Len(triggers[Len(current) + 1]) :
               /\ triggers[Len(current) + 1][i] \in Trigger
               /\ Append(current, triggers[Len(current) + 1][i]) \in Partial(triggers)
               /\ Len(Append(current, triggers[Len(current) + 1][i])) = Len(current) + 1
         /\ Branches(triggers, permute, current) \in Seq(Seq(Seq(Trigger)))
         /\ Len(Branches(triggers, permute, current)) = Len(triggers[Len(current) + 1])
<1> DEFINE n       == Len(current) + 1
           choices == triggers[n]
           R       == Seq(Seq(Trigger))
<1>1. current \in Seq(Trigger) /\ Len(current) \in Nat /\ n \in 1 .. Len(triggers)
  BY DEF Partial
<1>2. choices \in Seq(Trigger)
  <2> DEFINE L == Seq(Trigger)
  <2>1. triggers \in Seq(L)
    OBVIOUS
  <2> HIDE DEF L, n
  <2>2. triggers[n] \in L
    BY <1>1, <2>1
  <2> QED
    BY <2>2 DEF L
<1> HIDE DEF choices
<1>3. \A i \in 1 .. Len(choices) : choices[i] \in Trigger
  BY <1>2
<1>4. \A t \in Trigger : Append(current, t) \in Partial(triggers) /\ Len(Append(current, t)) = n
  <2> SUFFICES ASSUME NEW t \in Trigger
               PROVE  Append(current, t) \in Partial(triggers) /\ Len(Append(current, t)) = n
    OBVIOUS
  <2>1. Append(current, t) \in Seq(Trigger) /\ Len(Append(current, t)) = n
    BY <1>1
  <2> QED
    BY <1>1, <2>1 DEF Partial
<1>5. \A t \in Trigger : permute[Append(current, t)] \in R
  BY <1>4
<1>6. <<>> \in R
  OBVIOUS
<1> HIDE DEF R
<1> DEFINE B == [i \in 1 .. Len(choices) |->
                    IF Valid(choices[i], current) THEN permute[Append(current, choices[i])] ELSE <<>>]
<1>7. Branches(triggers, permute, current) = B
  BY Zenon DEF Branches, choices
<1>8. Len(choices) \in Nat
  BY <1>2
<1>9. B \in Seq(R) /\ Len(B) = Len(choices)
  <2>1. B \in [1 .. Len(choices) -> R]
    BY <1>3, <1>5, <1>6, Zenon
  <2> HIDE DEF B
  <2> QED
    BY <1>8, <2>1
<1> HIDE DEF B
<1> QED
  BY <1>1, <1>2, <1>3, <1>4, <1>7, <1>9 DEF choices, R

\* permuteVector is a recursion that ends: every choice makes the selection longer.
LEMMA PermuteLoop ==
  ASSUME NEW triggers \in Seq(Seq(Trigger))
  PROVE  \E permute : PermuteRun(triggers, permute)
<1> DEFINE D == Partial(triggers)
           V == Seq(Seq(Trigger))
           N == Len(triggers)
           depth == [d \in D |-> Len(d)]
           Body(f, d) == IF Len(d) = N THEN <<d>> ELSE SeqX!FlattenSeq(Branches(triggers, f, d))
           Next(p)   == Body(p[2], p[1])
           Step      == [p \in D \X [D -> V] |-> Next(p)]
<1>1. V # {} /\ N \in Nat
  <2>1. <<>> \in V
    OBVIOUS
  <2> QED
    BY <2>1
<1>2. depth \in [D -> 0 .. N]
  <2>1. \A d \in D : Len(d) \in 0 .. N
    BY DEF Partial
  <2> HIDE DEF D, N
  <2> QED
    BY <2>1
<1>3. ASSUME NEW f \in [D -> V], NEW d \in D
      PROVE  Body(f, d) \in V
  <2>1. CASE Len(d) = N
    <3>1. d \in Seq(Trigger)
      BY DEF Partial
    <3>2. <<d>> \in V
      BY <3>1
    <3> QED
      BY <2>1, <3>2
  <2>2. CASE Len(d) # N
    <3>1. \A c \in D : f[c] \in V
      <4> HIDE DEF D, V
      <4> QED
        OBVIOUS
    <3>2. Branches(triggers, f, d) \in Seq(V)
      BY <2>2, <3>1, BranchesType
    <3>3. SeqX!FlattenSeq(Branches(triggers, f, d)) \in V
      BY <3>2, FlattenElements
    <3> QED
      BY <2>2, <3>3
  <2> QED
    BY <2>1, <2>2
<1>4. ASSUME NEW d \in D, NEW f \in [D -> V], NEW g \in [D -> V],
             \A e \in D : depth[e] > depth[d] => f[e] = g[e]
      PROVE  Body(f, d) = Body(g, d)
  <2> SUFFICES ASSUME Len(d) # N PROVE Branches(triggers, f, d) = Branches(triggers, g, d)
    BY Zenon
  <2> DEFINE choices == triggers[Len(d) + 1]
  <2>1. \A c \in D : f[c] \in V
    <3> HIDE DEF D, V
    <3> QED
      OBVIOUS
  <2>2. \A i \in 1 .. Len(choices) : /\ Append(d, choices[i]) \in D
                                     /\ Len(Append(d, choices[i])) = Len(d) + 1
    BY <2>1, BranchesType
  <2>3. \A e \in D : depth[e] = Len(e)
    OBVIOUS
  <2>4. Len(d) \in Nat
    BY DEF Partial
  <2> HIDE DEF choices, depth, D
  <2>5. \A i \in 1 .. Len(choices) : f[Append(d, choices[i])] = g[Append(d, choices[i])]
    <3> SUFFICES ASSUME NEW i \in 1 .. Len(choices)
                 PROVE  f[Append(d, choices[i])] = g[Append(d, choices[i])]
      OBVIOUS
    <3>1. Append(d, choices[i]) \in D /\ Len(Append(d, choices[i])) > Len(d)
      BY <2>2, <2>4
    <3>2. depth[Append(d, choices[i])] > depth[d]
      BY <2>3, <3>1, Zenon
    <3> QED
      BY <1>4, <3>1, <3>2, Zenon
  <2> QED
    BY <2>5, Zenon DEF Branches, choices
<1> HIDE DEF D, V, N, depth, Body
<1>5. \A d \in D : \A f \in [D -> V] : Step[<<d, f>>] = Body(f, d)
  OBVIOUS
<1>6. Step \in [D \X [D -> V] -> V]
  <2>1. \A p \in D \X [D -> V] : Next(p) \in V
    BY <1>3
  <2> HIDE DEF Next
  <2> QED
    BY <2>1, Zenon
<1> HIDE DEF Step
<1>7. AsksDeeper(D, V, N, depth, Step)
  <2>1. ASSUME NEW d \in D, NEW f \in [D -> V], NEW g \in [D -> V],
               \A e \in D : depth[e] > depth[d] => f[e] = g[e]
        PROVE  Step[<<d, f>>] = Step[<<d, g>>]
    <3>1. Body(f, d) = Body(g, d)
      BY <1>4, <2>1
    <3> QED
      BY <1>5, <3>1, Zenon
  <2> QED
    BY <1>1, <1>2, <1>6, <2>1, Zenon DEF AsksDeeper
<1>8. PICK f \in [D -> V] : \A d \in D : f[d] = Step[<<d, f>>]
  BY <1>7, Recursion
<1> DEFINE Is(g) == g = [d \in D |-> Body(g, d)]
           permute == CHOOSE g : Is(g)
<1>9. Is(permute)
  <2>1. \A d \in D : f[d] = Body(f, d)
    BY <1>5, <1>8, Zenon
  <2>2. f = [d \in D |-> f[d]]
    OBVIOUS
  <2>3. Is(f)
    BY <2>1, <2>2
  <2> HIDE DEF Is
  <2> QED
    BY <2>3, Zenon
<1>10. permuteVector(triggers) = permute[<<>>]
  BY Zenon DEF permuteVector, Body, Branches, N, D, Partial
<1> HIDE DEF permute
<1>11. \A d \in D : permute[d] = Body(permute, d)
  BY <1>9
<1> QED
  BY <1>10, <1>11, Zenon DEF PermuteRun, D, N, Body

\* The combinations that begin with those chosen and go on with triggers of the
\* following lists, each coherent with all before it.
Grown(triggers, current) ==
    {c \in Seq(Trigger) :
        /\ Len(c) = Len(triggers)
        /\ \A i \in 1 .. Len(current) : c[i] = current[i]
        /\ \A i \in Len(current) + 1 .. Len(triggers) :
              c[i] \in SeqX!ToSet(triggers[i]) /\ \A l \in 1 .. i - 1 : Coherent(c[i], c[l])}

\* A selection from every list is a combination.
LEMMA GrownWhole ==
  ASSUME NEW triggers \in Seq(Seq(Trigger)), NEW current \in Seq(Trigger),
         Len(current) = Len(triggers)
  PROVE  Grown(triggers, current) = {current}
<1>1. Len(current) \in Nat /\ Len(current) + 1 .. Len(triggers) = {}
  OBVIOUS
<1>2. current \in Grown(triggers, current)
  BY <1>1 DEF Grown
<1>3. \A c \in Grown(triggers, current) : c = current
  BY SameElements DEF Grown
<1> QED
  BY <1>2, <1>3

\* A combination that begins with the chosen triggers begins with those and one trigger
\* of the next list that is coherent with them, and with one such trigger only.
LEMMA GrownStep ==
  ASSUME NEW triggers \in Seq(Seq(Trigger)), NEW current \in Partial(triggers),
         Len(current) # Len(triggers)
  PROVE  LET choices == triggers[Len(current) + 1]
         IN  /\ \A i \in 1 .. Len(choices), c \in Seq(Trigger) :
                   c \in Grown(triggers, Append(current, choices[i])) =>
                      c[Len(current) + 1] = choices[i]
             /\ \A i \in 1 .. Len(choices) :
                   Valid(choices[i], current) =>
                      Grown(triggers, Append(current, choices[i])) \subseteq Grown(triggers, current)
             /\ \A c \in Grown(triggers, current) : \E i \in 1 .. Len(choices) :
                   /\ Valid(choices[i], current)
                   /\ c \in Grown(triggers, Append(current, choices[i]))
<1> DEFINE m       == Len(current) + 1
           choices == triggers[m]
<1>1. /\ current \in Seq(Trigger) /\ m \in 1 .. Len(triggers) /\ choices \in Seq(Trigger)
      /\ Len(current) \in Nat /\ Len(choices) \in Nat /\ Len(triggers) \in Nat
      /\ \A i \in 1 .. Len(choices) : choices[i] \in Trigger
  <2>1. \A c \in Partial(triggers) : [d \in Partial(triggers) |-> <<>>][c] \in Seq(Seq(Trigger))
    OBVIOUS
  <2>2. m \in 1 .. Len(triggers) /\ choices \in Seq(Trigger)
    BY <2>1, BranchesType
  <2> HIDE DEF m, choices
  <2> QED
    BY <2>2 DEF Partial
<1>2. ASSUME NEW t \in Trigger
      PROVE  /\ Len(Append(current, t)) = m /\ Append(current, t)[m] = t
             /\ \A i \in 1 .. Len(current) : Append(current, t)[i] = current[i]
  BY <1>1
<1>3. m = Len(current) + 1
  OBVIOUS
<1> HIDE DEF m
<1>4. SeqX!ToSet(choices) = {choices[i] : i \in 1 .. Len(choices)}
  <2> HIDE DEF choices
  <2> QED
    BY <1>1 DEF SeqX!ToSet
<1>5. ASSUME NEW t \in Trigger, NEW c \in Seq(Trigger)
      PROVE  /\ c \in Grown(triggers, Append(current, t)) => c[m] = t
             /\ /\ c \in Grown(triggers, Append(current, t))
                /\ Valid(t, current) /\ t \in SeqX!ToSet(choices)
                => c \in Grown(triggers, current)
             /\ c \in Grown(triggers, current) /\ c[m] = t =>
                   Valid(t, current) /\ c \in Grown(triggers, Append(current, t))
  <2> DEFINE next == Append(current, t)
             Fits(i) == c[i] \in SeqX!ToSet(triggers[i]) /\ \A l \in 1 .. i - 1 : Coherent(c[i], c[l])
  <2>1. Len(next) = m /\ next[m] = t /\ \A i \in 1 .. Len(current) : next[i] = current[i]
    BY <1>2
  <2> HIDE DEF next
  <2>2. c \in Grown(triggers, next) <=>
           /\ Len(c) = Len(triggers) /\ \A i \in 1 .. m : c[i] = next[i]
           /\ \A i \in m + 1 .. Len(triggers) : Fits(i)
    BY <2>1 DEF Grown
  <2>3. c \in Grown(triggers, current) <=>
           /\ Len(c) = Len(triggers) /\ \A i \in 1 .. Len(current) : c[i] = current[i]
           /\ \A i \in m .. Len(triggers) : Fits(i)
    BY <1>3 DEF Grown
  <2>4. \A i \in 1 .. m : i \in 1 .. Len(current) \/ i = m
    BY <1>1, <1>3
  <2>5. \A i \in m .. Len(triggers) : i \in m + 1 .. Len(triggers) \/ i = m
    BY <1>1
  <2>6. m \in 1 .. m /\ m \in m .. Len(triggers) /\ m - 1 = Len(current)
        /\ 1 .. Len(current) \subseteq 1 .. m /\ m + 1 .. Len(triggers) \subseteq m .. Len(triggers)
    BY <1>1, <1>3
  <2>7. c \in Grown(triggers, next) => c[m] = t
    BY <2>1, <2>2, <2>6
  <2>8. ASSUME \A i \in 1 .. Len(current) : c[i] = current[i], c[m] = t
        PROVE  Fits(m) <=> t \in SeqX!ToSet(choices) /\ Valid(t, current)
    BY <2>6, <2>8 DEF Valid
  <2> HIDE DEF Fits
  <2>9. ASSUME c \in Grown(triggers, next), Valid(t, current), t \in SeqX!ToSet(choices)
        PROVE  c \in Grown(triggers, current)
    <3>1. \A i \in 1 .. Len(current) : c[i] = current[i]
      BY <2>1, <2>2, <2>6, <2>9
    <3>2. Fits(m)
      BY <2>7, <2>8, <2>9, <3>1
    <3> QED
      BY <2>2, <2>3, <2>5, <2>9, <3>1, <3>2
  <2>10. ASSUME c \in Grown(triggers, current), c[m] = t
         PROVE  Valid(t, current) /\ c \in Grown(triggers, next)
    <3>1. Fits(m)
      BY <2>3, <2>6, <2>10
    <3>2. Valid(t, current)
      BY <2>3, <2>8, <2>10, <3>1
    <3>3. \A i \in 1 .. m : c[i] = next[i]
      BY <2>1, <2>3, <2>4, <2>10
    <3> QED
      BY <2>2, <2>3, <2>6, <2>10, <3>2, <3>3
  <2> QED
    BY <2>7, <2>9, <2>10 DEF next
<1>6. \A c \in Grown(triggers, current) : c \in Seq(Trigger) /\ c[m] \in SeqX!ToSet(choices)
  <2>1. m \in Len(current) + 1 .. Len(triggers)
    BY <1>1, <1>3
  <2> QED
    BY <2>1 DEF Grown
<1>7. \A t \in Trigger : Grown(triggers, Append(current, t)) \subseteq Seq(Trigger)
  BY DEF Grown
<1> HIDE DEF choices
<1>8. \A i \in 1 .. Len(choices), c \in Seq(Trigger) :
         c \in Grown(triggers, Append(current, choices[i])) => c[m] = choices[i]
  BY <1>1, <1>5
<1>9. ASSUME NEW i \in 1 .. Len(choices), Valid(choices[i], current)
      PROVE  Grown(triggers, Append(current, choices[i])) \subseteq Grown(triggers, current)
  BY <1>1, <1>4, <1>5, <1>7, <1>9
<1>10. ASSUME NEW c \in Grown(triggers, current)
       PROVE  \E i \in 1 .. Len(choices) :
                 /\ Valid(choices[i], current)
                 /\ c \in Grown(triggers, Append(current, choices[i]))
  <2>1. PICK i \in 1 .. Len(choices) : c[m] = choices[i]
    BY <1>4, <1>6
  <2> QED
    BY <1>1, <1>5, <1>6, <2>1
<1> QED
  BY <1>3, <1>8, <1>9, <1>10, Zenon DEF choices

\* The recursion of permuteVector finds all of them, in a list without repetitions
\* if the given lists have none.
Finds(triggers, permute, current) ==
    /\ permute[current] \in Seq(Seq(Trigger))
    /\ SeqX!ToSet(permute[current]) = Grown(triggers, current)
    /\ (\A i \in 1 .. Len(triggers) : Distinct(triggers[i])) => Distinct(permute[current])

\* The recursion is right at its leaves ...
LEMMA FindsWhole ==
  ASSUME NEW triggers \in Seq(Seq(Trigger)), NEW permute, PermuteRun(triggers, permute),
         NEW current \in Partial(triggers), Len(current) = Len(triggers)
  PROVE  Finds(triggers, permute, current)
<1>1. permute[current] = <<current>> /\ current \in Seq(Trigger)
  BY DEF PermuteRun, Partial
<1>2. Grown(triggers, current) = {current}
  BY <1>1, GrownWhole
<1>3. <<current>> \in Seq(Seq(Trigger)) /\ DOMAIN <<current>> = {1} /\ <<current>>[1] = current
  BY <1>1
<1> QED
  BY <1>1, <1>2, <1>3 DEF Finds, SeqX!ToSet, Distinct

\* ... and where the calls it makes are right.
LEMMA FindsNext ==
  ASSUME NEW triggers \in Seq(Seq(Trigger)), NEW permute, PermuteRun(triggers, permute),
         NEW current \in Partial(triggers), Len(current) # Len(triggers),
         \A c \in Partial(triggers) : Len(c) = Len(current) + 1 => Finds(triggers, permute, c)
  PROVE  Finds(triggers, permute, current)
<1> DEFINE m       == Len(current) + 1
           choices == triggers[m]
           B       == Branches(triggers, permute, current)
           next(i) == Append(current, choices[i])
           R       == Seq(Trigger)
<1>1. permute[current] = SeqX!FlattenSeq(B)
  BY DEF PermuteRun
<1>2. \A c \in Partial(triggers) : Len(c) = m => permute[c] \in Seq(R)
  BY DEF Finds
<1>3. /\ m \in 1 .. Len(triggers) /\ choices \in Seq(Trigger)
      /\ \A i \in 1 .. Len(choices) : next(i) \in Partial(triggers) /\ Len(next(i)) = m
      /\ B \in Seq(Seq(R)) /\ Len(B) = Len(choices)
  BY <1>2, BranchesType
<1>4. \A i \in 1 .. Len(choices) :
         B[i] = IF Valid(choices[i], current) THEN permute[next(i)] ELSE <<>>
  BY DEF Branches
<1>5. \A i \in 1 .. Len(choices) : Finds(triggers, permute, next(i))
  BY <1>3
<1>6. SeqX!ToSet(<<>>) = {} /\ Distinct(<<>>)
  BY DEF SeqX!ToSet, Distinct
<1>7. \A i \in 1 .. Len(choices) :
         SeqX!ToSet(B[i]) = IF Valid(choices[i], current) THEN Grown(triggers, next(i)) ELSE {}
  BY <1>4, <1>5, <1>6 DEF Finds
<1>8. /\ \A i \in 1 .. Len(choices), c \in Seq(Trigger) :
            c \in Grown(triggers, next(i)) => c[m] = choices[i]
      /\ \A i \in 1 .. Len(choices) :
            Valid(choices[i], current) => Grown(triggers, next(i)) \subseteq Grown(triggers, current)
      /\ \A c \in Grown(triggers, current) : \E i \in 1 .. Len(choices) :
            Valid(choices[i], current) /\ c \in Grown(triggers, next(i))
  BY GrownStep
<1> HIDE DEF B, next, R
<1>9. SeqX!FlattenSeq(B) \in Seq(R)
      /\ SeqX!ToSet(SeqX!FlattenSeq(B)) = UNION {SeqX!ToSet(B[i]) : i \in 1 .. Len(B)}
  BY <1>3, FlattenElements
<1>10. SeqX!ToSet(SeqX!FlattenSeq(B)) = Grown(triggers, current)
  <2> DEFINE F(i) == SeqX!ToSet(B[i])
             G    == Grown(triggers, current)
  <2>1. \A i \in 1 .. Len(B) : F(i) \subseteq G
    BY <1>3, <1>7, <1>8
  <2>2. \A c \in G : \E i \in 1 .. Len(B) : c \in F(i)
    BY <1>3, <1>7, <1>8
  <2>3. SeqX!ToSet(SeqX!FlattenSeq(B)) = UNION {F(i) : i \in 1 .. Len(B)}
    BY <1>9
  <2> HIDE DEF F, G
  <2>4. UNION {F(i) : i \in 1 .. Len(B)} = G
    BY <2>1, <2>2
  <2> QED
    BY <2>3, <2>4 DEF G
<1>11. ASSUME \A i \in 1 .. Len(triggers) : Distinct(triggers[i])
       PROVE  Distinct(SeqX!FlattenSeq(B))
  <2>1. \A i \in 1 .. Len(choices) : Distinct(B[i])
    BY <1>4, <1>5, <1>6, <1>11 DEF Finds
  <2>2. Distinct(choices)
    BY <1>3, <1>11
  <2>3. ASSUME NEW i \in 1 .. Len(choices), NEW j \in 1 .. Len(choices), i # j
        PROVE  SeqX!ToSet(B[i]) \cap SeqX!ToSet(B[j]) = {}
    <3> SUFFICES ASSUME NEW c \in Grown(triggers, next(i)), c \in Grown(triggers, next(j))
                 PROVE  FALSE
      BY <1>7
    <3>1. c \in Seq(Trigger)
      BY DEF Grown
    <3>2. choices[i] = choices[j]
      BY <1>8, <3>1
    <3>3. DOMAIN choices = 1 .. Len(choices)
      BY <1>3
    <3> QED
      BY <2>2, <2>3, <3>2, <3>3 DEF Distinct
  <2> QED
    BY <1>3, <2>1, <2>3, FlattenElements
<1> QED
  BY <1>1, <1>9, <1>10, <1>11 DEF Finds, R

\* permuteVector returns every combination of the lists once.
LEMMA PermuteAll ==
  ASSUME NEW triggers \in Seq(Seq(Trigger))
  PROVE  /\ permuteVector(triggers) \in Seq(Seq(Trigger))
         /\ SeqX!ToSet(permuteVector(triggers)) = Grown(triggers, <<>>)
         /\ (\A i \in 1 .. Len(triggers) : Distinct(triggers[i])) => Distinct(permuteVector(triggers))
<1>1. PICK permute : PermuteRun(triggers, permute)
  BY PermuteLoop
<1> DEFINE N    == Len(triggers)
           Good(k) == \A c \in Partial(triggers) : Len(c) = N - k => Finds(triggers, permute, c)
           good == {k \in 0 .. N : Good(k)}
<1>2. N \in Nat
  OBVIOUS
<1>3. 0 \in good
  <2>1. N - 0 = N /\ 0 \in 0 .. N
    BY <1>2
  <2>2. Good(0)
    BY <1>1, <2>1, FindsWhole
  <2> HIDE DEF Good
  <2> QED
    BY <2>1, <2>2
<1>4. ASSUME NEW k \in 0 .. N - 1, k \in good
      PROVE  k + 1 \in good
  <2>1. k + 1 \in 0 .. N /\ (N - (k + 1)) + 1 = N - k /\ N - (k + 1) # N
    BY <1>2
  <2>2. ASSUME NEW c \in Partial(triggers), Len(c) = N - (k + 1)
        PROVE  Finds(triggers, permute, c)
    <3>1. \A d \in Partial(triggers) : Len(d) = Len(c) + 1 => Finds(triggers, permute, d)
      BY <1>4, <2>1, <2>2
    <3> QED
      BY <1>1, <2>1, <2>2, <3>1, FindsNext
  <2>3. Good(k + 1)
    BY <2>2
  <2> HIDE DEF Good
  <2> QED
    BY <2>1, <2>3
<1>5. N \in good
  <2> HIDE DEF good, N
  <2>1. 0 .. N \subseteq good
    BY <1>2, <1>3, <1>4, Induction
  <2> QED
    BY <1>2, <2>1
<1>6. <<>> \in Partial(triggers) /\ Len(<<>>) = N - N
  BY <1>2 DEF Partial
<1>7. Finds(triggers, permute, <<>>)
  BY <1>5, <1>6
<1> QED
  BY <1>1, <1>7 DEF Finds, PermuteRun

\* The recursion of getCombinations.
Selections(n, k) == {s \in Seq(1 .. n) : Len(s) <= k}

LastOf(current) == IF current = <<>> THEN 0 ELSE current[Len(current)]

Longer(n, generate, current) ==
    [i \in 1 .. n - LastOf(current) |-> generate[Append(current, LastOf(current) + i)]]

GenerateRun(n, k, generate) ==
    /\ \A current \in Selections(n, k) :
          generate[current] = IF Len(current) = k THEN <<current>>
                              ELSE SeqX!FlattenSeq(Longer(n, generate, current))
    /\ getCombinations(n, k) = generate[<<>>]

\* What a call asks for is answered with lists of selections.
Answered(n, k, generate, current) ==
    /\ current \in Selections(n, k) /\ Len(current) # k
    /\ \A c \in Selections(n, k) :
          Len(c) = Len(current) + 1 => generate[c] \in Seq(Seq(1 .. n))

\* The calls of a recursion step of getCombinations.
LEMMA LongerType ==
  ASSUME NEW n \in Nat, NEW k \in Nat, NEW generate, NEW current,
         Answered(n, k, generate, current)
  PROVE  /\ LastOf(current) \in 0 .. n
         /\ \A i \in 1 .. n - LastOf(current) :
               /\ LastOf(current) + i \in 1 .. n
               /\ Append(current, LastOf(current) + i) \in Selections(n, k)
               /\ Len(Append(current, LastOf(current) + i)) = Len(current) + 1
               /\ LastOf(Append(current, LastOf(current) + i)) = LastOf(current) + i
         /\ Longer(n, generate, current) \in Seq(Seq(Seq(1 .. n)))
         /\ Len(Longer(n, generate, current)) = n - LastOf(current)
<1> DEFINE start == LastOf(current)
           R     == Seq(Seq(1 .. n))
           T     == 1 .. n
<1>1. current \in Seq(T) /\ Len(current) \in Nat /\ Len(current) < k
  BY DEF Selections, Answered
<1>2. \A t \in T : t \in 0 .. n /\ 0 \in 0 .. n
  OBVIOUS
<1>3. start \in 0 .. n
  <2>1. CASE current = <<>>
    BY <2>1 DEF LastOf
  <2>2. CASE current # <<>>
    <3>1. Len(current) \in 1 .. Len(current)
      BY <1>1, <2>2
    <3> HIDE DEF T
    <3>2. current[Len(current)] \in T
      BY <1>1, <3>1
    <3> QED
      BY <1>2, <2>2, <3>2 DEF LastOf
  <2> QED
    BY <2>1, <2>2
<1>4. \A i \in 1 .. n - start : start + i \in T
  BY <1>3
<1>5. \A t \in T : /\ Append(current, t) \in Selections(n, k)
                   /\ Len(Append(current, t)) = Len(current) + 1
                   /\ LastOf(Append(current, t)) = t
  <2> SUFFICES ASSUME NEW t \in T
               PROVE  /\ Append(current, t) \in Selections(n, k)
                      /\ Len(Append(current, t)) = Len(current) + 1
                      /\ LastOf(Append(current, t)) = t
    OBVIOUS
  <2>1. /\ Append(current, t) \in Seq(T) /\ Len(Append(current, t)) = Len(current) + 1
        /\ Append(current, t)[Len(current) + 1] = t /\ Append(current, t) # <<>>
    <3> HIDE DEF T
    <3> QED
      BY <1>1
  <2> QED
    BY <1>1, <2>1 DEF Selections, LastOf
<1>6. \A t \in T : generate[Append(current, t)] \in R
  BY <1>5 DEF Answered
<1> HIDE DEF start, R, T
<1> DEFINE B == [i \in 1 .. n - start |-> generate[Append(current, start + i)]]
<1>7. Longer(n, generate, current) = B
  BY Zenon DEF Longer, start
<1>8. n - start \in Nat
  BY <1>3
<1>9. B \in Seq(R) /\ Len(B) = n - start
  <2>1. B \in [1 .. n - start -> R]
    BY <1>4, <1>6, Zenon
  <2> HIDE DEF B
  <2> QED
    BY <1>8, <2>1
<1> HIDE DEF B
<1> QED
  BY <1>3, <1>4, <1>5, <1>7, <1>9 DEF start, R, T

\* getCombinations is a recursion that ends.
LEMMA GenerateLoop ==
  ASSUME NEW n \in Nat, NEW k \in Nat
  PROVE  \E generate : GenerateRun(n, k, generate)
<1> DEFINE D == Selections(n, k)
           V == Seq(Seq(1 .. n))
           depth == [d \in D |-> Len(d)]
           Body(f, d) == IF Len(d) = k THEN <<d>> ELSE SeqX!FlattenSeq(Longer(n, f, d))
           Next(p)   == Body(p[2], p[1])
           Step      == [p \in D \X [D -> V] |-> Next(p)]
<1>1. V # {}
  <2>1. <<>> \in V
    OBVIOUS
  <2> QED
    BY <2>1
<1>2. depth \in [D -> 0 .. k]
  <2>1. \A d \in D : Len(d) \in 0 .. k
    BY DEF Selections
  <2> HIDE DEF D
  <2> QED
    BY <2>1
<1>3. ASSUME NEW f \in [D -> V], NEW d \in D
      PROVE  Body(f, d) \in V
  <2>1. CASE Len(d) = k
    <3>1. d \in Seq(1 .. n)
      BY DEF Selections
    <3>2. <<d>> \in V
      BY <3>1
    <3> QED
      BY <2>1, <3>2
  <2>2. CASE Len(d) # k
    <3>1. \A c \in D : f[c] \in V
      <4> HIDE DEF D, V
      <4> QED
        OBVIOUS
    <3>2. Longer(n, f, d) \in Seq(V)
      <4>1. Answered(n, k, f, d)
        BY <2>2, <3>1 DEF Answered
      <4> QED
        BY <4>1, LongerType
    <3>3. SeqX!FlattenSeq(Longer(n, f, d)) \in V
      BY <3>2, FlattenElements
    <3> QED
      BY <2>2, <3>3
  <2> QED
    BY <2>1, <2>2
<1>4. ASSUME NEW d \in D, NEW f \in [D -> V], NEW g \in [D -> V],
             \A e \in D : depth[e] > depth[d] => f[e] = g[e]
      PROVE  Body(f, d) = Body(g, d)
  <2> SUFFICES ASSUME Len(d) # k PROVE Longer(n, f, d) = Longer(n, g, d)
    BY Zenon
  <2> DEFINE longer(i) == Append(d, LastOf(d) + i)
  <2>1. \A c \in D : f[c] \in V
    <3> HIDE DEF D, V
    <3> QED
      OBVIOUS
  <2>2. \A i \in 1 .. n - LastOf(d) : longer(i) \in D /\ Len(longer(i)) = Len(d) + 1
    <3>1. Answered(n, k, f, d)
      BY <2>1 DEF Answered
    <3> QED
      BY <3>1, LongerType
  <2>3. \A e \in D : depth[e] = Len(e)
    OBVIOUS
  <2>4. Len(d) \in Nat
    BY DEF Selections
  <2> HIDE DEF longer, depth, D
  <2>5. \A i \in 1 .. n - LastOf(d) : f[longer(i)] = g[longer(i)]
    <3> SUFFICES ASSUME NEW i \in 1 .. n - LastOf(d)
                 PROVE  f[longer(i)] = g[longer(i)]
      OBVIOUS
    <3>1. longer(i) \in D /\ Len(longer(i)) > Len(d)
      BY <2>2, <2>4
    <3>2. depth[longer(i)] > depth[d]
      BY <2>3, <3>1, Zenon
    <3> QED
      BY <1>4, <3>1, <3>2, Zenon
  <2> QED
    BY <2>5, Zenon DEF Longer, longer
<1> HIDE DEF D, V, depth, Body
<1>5. \A d \in D : \A f \in [D -> V] : Step[<<d, f>>] = Body(f, d)
  OBVIOUS
<1>6. Step \in [D \X [D -> V] -> V]
  <2>1. \A p \in D \X [D -> V] : Next(p) \in V
    BY <1>3
  <2> HIDE DEF Next
  <2> QED
    BY <2>1, Zenon
<1> HIDE DEF Step
<1>7. AsksDeeper(D, V, k, depth, Step)
  <2>1. ASSUME NEW d \in D, NEW f \in [D -> V], NEW g \in [D -> V],
               \A e \in D : depth[e] > depth[d] => f[e] = g[e]
        PROVE  Step[<<d, f>>] = Step[<<d, g>>]
    <3>1. Body(f, d) = Body(g, d)
      BY <1>4, <2>1
    <3> QED
      BY <1>5, <3>1, Zenon
  <2> QED
    BY <1>1, <1>2, <1>6, <2>1, Zenon DEF AsksDeeper
<1>8. PICK f \in [D -> V] : \A d \in D : f[d] = Step[<<d, f>>]
  BY <1>7, Recursion
<1> DEFINE Is(g) == g = [d \in D |-> Body(g, d)]
           generate == CHOOSE g : Is(g)
<1>9. Is(generate)
  <2>1. \A d \in D : f[d] = Body(f, d)
    BY <1>5, <1>8, Zenon
  <2>2. f = [d \in D |-> f[d]]
    OBVIOUS
  <2>3. Is(f)
    BY <2>1, <2>2
  <2> HIDE DEF Is
  <2> QED
    BY <2>3, Zenon
<1>10. getCombinations(n, k) = generate[<<>>]
  <2>1. \A c : LastOf(c) = IF c = <<>> THEN 0 ELSE c[Len(c)]
    BY DEF LastOf
  <2> QED
    BY Zenon DEF getCombinations, Body, Longer, LastOf, D, Selections
<1> HIDE DEF generate
<1>11. \A d \in D : generate[d] = Body(generate, d)
  BY <1>9
<1> QED
  BY <1>10, <1>11, Zenon DEF GenerateRun, D, Body

\* Sequences from which k different increasing numbers up to k may still come.
Whole(n) == [i \in 1 .. n |-> i]

OnlyWhole(n, generate, current) ==
    /\ generate[current] \in Seq(Seq(1 .. n)) /\ Distinct(generate[current])
    /\ SeqX!ToSet(generate[current]) = IF LastOf(current) = Len(current) THEN {Whole(n)} ELSE {}

\* A selection that left no number out, or one that did.
Gapless(n, current) ==
    /\ current \in Selections(n, n) /\ LastOf(current) >= Len(current)
    /\ LastOf(current) = Len(current) => \A i \in 1 .. Len(current) : current[i] = i

\* The recursion of getCombinations is right at its leaves ...
LEMMA WholeFound ==
  ASSUME NEW n \in Nat, NEW generate, GenerateRun(n, n, generate), NEW current,
         Gapless(n, current), Len(current) = n
  PROVE  OnlyWhole(n, generate, current)
<1>1. current \in Selections(n, n) /\ current \in Seq(1 .. n)
  BY DEF Gapless, Selections
<1>2. generate[current] = <<current>>
  BY <1>1 DEF GenerateRun
<1>3. LastOf(current) = n
  <2>1. CASE n = 0
    <3>1. current = <<>>
      BY <1>1, <2>1
    <3> QED
      BY <2>1, <3>1 DEF LastOf
  <2>2. CASE n # 0
    <3>1. Len(current) \in 1 .. Len(current) /\ current # <<>>
      BY <2>2
    <3>2. current[Len(current)] \in 1 .. n
      <4> DEFINE T == 1 .. n
      <4>1. current \in Seq(T)
        BY <1>1
      <4> HIDE DEF T
      <4>2. current[Len(current)] \in T
        BY <3>1, <4>1
      <4> QED
        BY <4>2 DEF T
    <3> QED
      BY <3>1, <3>2 DEF LastOf, Gapless
  <2> QED
    BY <2>1, <2>2
<1>4. current = Whole(n)
  <2>1. Whole(n) \in Seq(1 .. n) /\ Len(Whole(n)) = n /\ \A i \in 1 .. n : Whole(n)[i] = i
    BY DEF Whole
  <2>2. \A i \in 1 .. n : current[i] = i
    BY <1>3 DEF Gapless
  <2> QED
    BY <1>1, <2>1, <2>2, SameElements
<1>5. <<current>> \in Seq(Seq(1 .. n)) /\ DOMAIN <<current>> = {1} /\ <<current>>[1] = current
  BY <1>1
<1> QED
  BY <1>2, <1>3, <1>4, <1>5 DEF OnlyWhole, SeqX!ToSet, Distinct

\* ... and where the calls it makes are right.
LEMMA WholeNext ==
  ASSUME NEW n \in Nat, NEW generate, GenerateRun(n, n, generate), NEW current,
         Gapless(n, current), Len(current) # n,
         \A c : Gapless(n, c) /\ Len(c) = Len(current) + 1 => OnlyWhole(n, generate, c)
  PROVE  OnlyWhole(n, generate, current)
<1> DEFINE start   == LastOf(current)
           next(i) == Append(current, start + i)
           R       == Seq(1 .. n)
           f       == [c \in Selections(n, n) |-> IF Gapless(n, c) THEN generate[c] ELSE <<>>]
           B       == Longer(n, generate, current)
<1>1. /\ current \in Selections(n, n) /\ current \in Seq(1 .. n) /\ start >= Len(current)
      /\ start = Len(current) => \A i \in 1 .. Len(current) : current[i] = i
      /\ Len(current) \in Nat /\ Len(current) < n
  BY DEF Gapless, Selections
<1>2. generate[current] = SeqX!FlattenSeq(B)
  BY <1>1 DEF GenerateRun
<1>3. \A c \in Selections(n, n) : Len(c) = Len(current) + 1 => f[c] \in Seq(R)
  <2>1. \A c : Gapless(n, c) /\ Len(c) = Len(current) + 1 => generate[c] \in Seq(R)
    BY DEF OnlyWhole
  <2>2. <<>> \in Seq(R)
    OBVIOUS
  <2> HIDE DEF R
  <2> QED
    BY <2>1, <2>2
<1>4. /\ start \in 0 .. n
      /\ \A i \in 1 .. n - start : /\ start + i \in 1 .. n /\ next(i) \in Selections(n, n)
                                   /\ Len(next(i)) = Len(current) + 1 /\ LastOf(next(i)) = start + i
      /\ Longer(n, f, current) \in Seq(Seq(R)) /\ Len(Longer(n, f, current)) = n - start
  <2> HIDE DEF f
  <2>1. \A c \in Selections(n, n) : Len(c) = Len(current) + 1 => f[c] \in Seq(Seq(1 .. n))
    BY <1>3
  <2>2. Answered(n, n, f, current)
    BY <1>1, <2>1 DEF Answered
  <2> QED
    BY <2>2, LongerType
<1>5. ASSUME NEW i \in 1 .. n - start
      PROVE  Gapless(n, next(i)) /\ (LastOf(next(i)) = Len(next(i)) <=> start = Len(current) /\ i = 1)
  <2>1. \A l \in 1 .. Len(current) : next(i)[l] = current[l]
    BY <1>1, <1>4
  <2>2. next(i)[Len(current) + 1] = start + i
    BY <1>1, <1>4
  <2>3. LastOf(next(i)) = start + i /\ Len(next(i)) = Len(current) + 1 /\ next(i) \in Selections(n, n)
    BY <1>4
  <2> HIDE DEF next
  <2>4. start + i = Len(current) + 1 <=> start = Len(current) /\ i = 1
    BY <1>1, <1>4
  <2>5. \A l \in 1 .. Len(current) + 1 : l \in 1 .. Len(current) \/ l = Len(current) + 1
    BY <1>1
  <2>6. start + i >= Len(current) + 1
    BY <1>1, <1>4
  <2> HIDE DEF start
  <2> QED
    BY <1>1, <2>1, <2>2, <2>3, <2>4, <2>5, <2>6 DEF Gapless
<1>6. Longer(n, f, current) = B
  <2>1. \A i \in 1 .. n - start : f[next(i)] = generate[next(i)]
    BY <1>4, <1>5
  <2> HIDE DEF f
  <2> QED
    BY <2>1, Zenon DEF Longer
<1>7. \A i \in 1 .. n - start : OnlyWhole(n, generate, next(i)) /\ B[i] = generate[next(i)]
  <2>1. \A i \in 1 .. n - start : B[i] = generate[next(i)]
    BY DEF Longer
  <2> HIDE DEF B
  <2> QED
    BY <1>4, <1>5, <2>1
<1> HIDE DEF f
<1>8. B \in Seq(Seq(R)) /\ Len(B) = n - start
  BY <1>4, <1>6
<1> HIDE DEF B, next
<1>9. \A i \in 1 .. n - start :
         /\ Distinct(B[i])
         /\ SeqX!ToSet(B[i]) = IF start = Len(current) /\ i = 1 THEN {Whole(n)} ELSE {}
  BY <1>5, <1>7 DEF OnlyWhole
<1>10. SeqX!FlattenSeq(B) \in Seq(R) /\ Distinct(SeqX!FlattenSeq(B))
  <2>1. \A i, j \in 1 .. Len(B) : i # j => SeqX!ToSet(B[i]) \cap SeqX!ToSet(B[j]) = {}
    BY <1>8, <1>9
  <2>2. \A i \in 1 .. Len(B) : Distinct(B[i])
    BY <1>8, <1>9
  <2> HIDE DEF R
  <2> QED
    BY <1>8, <2>1, <2>2, FlattenElements DEF R
<1>11. SeqX!ToSet(SeqX!FlattenSeq(B)) = IF start = Len(current) THEN {Whole(n)} ELSE {}
  <2> DEFINE F(i) == SeqX!ToSet(B[i])
  <2>1. SeqX!ToSet(SeqX!FlattenSeq(B)) = UNION {F(i) : i \in 1 .. n - start}
    BY <1>8, FlattenElements
  <2>2. start = Len(current) => 1 \in 1 .. n - start
    BY <1>1
  <2>3. \A i \in 1 .. n - start : F(i) = IF start = Len(current) /\ i = 1 THEN {Whole(n)} ELSE {}
    BY <1>9
  <2> HIDE DEF F, start
  <2>4. UNION {F(i) : i \in 1 .. n - start} = IF start = Len(current) THEN {Whole(n)} ELSE {}
    BY <2>2, <2>3
  <2> QED
    BY <2>1, <2>4
<1> QED
  BY <1>2, <1>10, <1>11 DEF OnlyWhole

\* There is one way to take n of n.
LEMMA OneSelection ==
  ASSUME NEW n \in Nat
  PROVE  getCombinations(n, n) = <<Whole(n)>>
<1>1. PICK generate : GenerateRun(n, n, generate)
  BY GenerateLoop
<1> DEFINE Good(k) == \A c : Gapless(n, c) /\ Len(c) = n - k => OnlyWhole(n, generate, c)
           good    == {k \in 0 .. n : Good(k)}
<1>2. 0 \in good
  <2>1. n - 0 = n /\ 0 \in 0 .. n
    OBVIOUS
  <2>2. Good(0)
    BY <1>1, <2>1, WholeFound
  <2> HIDE DEF Good
  <2> QED
    BY <2>1, <2>2
<1>3. ASSUME NEW k \in 0 .. n - 1, k \in good
      PROVE  k + 1 \in good
  <2>1. k + 1 \in 0 .. n /\ (n - (k + 1)) + 1 = n - k /\ n - (k + 1) # n
    OBVIOUS
  <2>2. ASSUME NEW c, Gapless(n, c), Len(c) = n - (k + 1)
        PROVE  OnlyWhole(n, generate, c)
    <3>1. \A d : Gapless(n, d) /\ Len(d) = Len(c) + 1 => OnlyWhole(n, generate, d)
      BY <1>3, <2>1, <2>2
    <3> QED
      BY <1>1, <2>1, <2>2, <3>1, WholeNext
  <2>3. Good(k + 1)
    BY <2>2
  <2> HIDE DEF Good
  <2> QED
    BY <2>1, <2>3
<1>4. n \in good
  <2> HIDE DEF good
  <2>1. 0 .. n \subseteq good
    BY <1>2, <1>3, Induction
  <2> QED
    BY <2>1
<1>5. Gapless(n, <<>>) /\ Len(<<>>) = n - n /\ LastOf(<<>>) = Len(<<>>)
  BY DEF Gapless, Selections, LastOf
<1>6. OnlyWhole(n, generate, <<>>)
  BY <1>4, <1>5
<1> DEFINE s == getCombinations(n, n)
<1>7. s \in Seq(Seq(1 .. n)) /\ Distinct(s) /\ SeqX!ToSet(s) = {Whole(n)}
  BY <1>1, <1>5, <1>6 DEF OnlyWhole, GenerateRun
<1> HIDE DEF s
<1>8. DOMAIN s = 1 .. Len(s) /\ Len(s) \in Nat /\ s = [i \in 1 .. Len(s) |-> s[i]]
  BY <1>7
<1> HIDE DEF Good, good
<1>11. SeqX!ToSet(s) = {s[i] : i \in 1 .. Len(s)} /\ \A i, j \in 1 .. Len(s) : s[i] = s[j] => i = j
  BY <1>7, <1>8 DEF SeqX!ToSet, Distinct
<1>9. \A i \in 1 .. Len(s) : s[i] = Whole(n)
  BY <1>7, <1>11
<1>10. Len(s) = 1
  <2>1. Len(s) # 0
    <3>1. PICK i \in 1 .. Len(s) : s[i] = Whole(n)
      BY <1>7, <1>11
    <3> QED
      BY <1>8, <3>1
  <2>2. ~(Len(s) > 1)
    <3>1. SUFFICES ASSUME Len(s) > 1 PROVE FALSE
      OBVIOUS
    <3>2. 1 \in 1 .. Len(s) /\ 2 \in 1 .. Len(s)
      BY <1>8, <3>1
    <3> QED
      BY <1>9, <1>11, <3>2
  <2> QED
    BY <1>8, <2>1, <2>2
<1> QED
  BY <1>8, <1>9, <1>10 DEF s

\* With as many stations as there are, getLocationPool_p is permuteVector.
LEMMA LocationPoolIs ==
  ASSUME NEW triggers \in Seq(Seq(Trigger))
  PROVE  getLocationPool_p(triggers, Len(triggers)) = permuteVector(triggers)
<1> DEFINE n    == Len(triggers)
           combs == getCombinations(n, n)
           seqs  == [i \in 1 .. Len(combs) |->
                        permuteVector([k \in 1 .. Len(combs[i]) |-> triggers[combs[i][k]]])]
<1>1. getLocationPool_p(triggers, n) = SeqX!FlattenSeq(seqs)
  BY Zenon DEF getLocationPool_p
<1>2. n \in Nat
  OBVIOUS
<1>3. combs = <<Whole(n)>>
  BY <1>2, OneSelection
<1>4. Len(combs) = 1 /\ combs[1] = Whole(n)
  <2> HIDE DEF combs
  <2> QED
    BY <1>3
<1> HIDE DEF combs
<1>5. [k \in 1 .. Len(combs[1]) |-> triggers[combs[1][k]]] = triggers
  <2>1. Len(Whole(n)) = n /\ \A k \in 1 .. n : Whole(n)[k] = k
    BY <1>2 DEF Whole
  <2>2. triggers = [k \in 1 .. n |-> triggers[k]]
    OBVIOUS
  <2> HIDE DEF n
  <2> QED
    BY <1>4, <2>1, <2>2
<1> DEFINE R == Seq(Seq(Trigger))
           all == permuteVector(triggers)
<1>6. all \in R
  BY PermuteAll
<1>7. seqs = [i \in 1 .. 1 |-> all]
  <2>1. \A i \in 1 .. 1 : i = 1
    OBVIOUS
  <2> QED
    BY <1>4, <1>5, <2>1
<1> HIDE DEF seqs, all
<1>8. seqs \in Seq(R) /\ Len(seqs) = 1 /\ seqs[1] = all
  <2> HIDE DEF R
  <2> QED
    BY <1>6, <1>7
<1>9. SeqX!FlattenSeq(seqs) = seqs[1]
  <2>1. seqs \in Seq(Seq(Seq(Trigger))) /\ Len(seqs) > 0
    BY <1>8 DEF R
  <2>2. PICK flat : flat[1] = seqs[1] /\ SeqX!FlattenSeq(seqs) = flat[Len(seqs)]
    BY <2>1, FlattenLoop
  <2> QED
    BY <1>8, <2>2
<1> QED
  BY <1>1, <1>8, <1>9 DEF all

\* The combinations of a pool, given by the lists of its stations.
THEOREM LocationPoolAll ==
  ASSUME NEW triggers \in Seq(Seq(Trigger))
  PROVE  LET combs == getLocationPool_p(triggers, Len(triggers))
         IN  /\ combs \in Seq(Seq(Trigger))
             /\ \A i \in 1 .. Len(combs) :
                   /\ combs[i] \in Seq(Trigger) /\ Len(combs[i]) = Len(triggers)
                   /\ \A k \in 1 .. Len(triggers) : combs[i][k] \in SeqX!ToSet(triggers[k])
                   /\ \A k, l \in 1 .. Len(triggers) :
                         l < k => Coherent(combs[i][k], combs[i][l])
             /\ SeqX!ToSet(combs) = Grown(triggers, <<>>)
             /\ (\A k \in 1 .. Len(triggers) : Distinct(triggers[k])) => Distinct(combs)
<1> DEFINE combs == getLocationPool_p(triggers, Len(triggers))
<1>1. /\ combs \in Seq(Seq(Trigger))
      /\ SeqX!ToSet(combs) = Grown(triggers, <<>>)
      /\ (\A k \in 1 .. Len(triggers) : Distinct(triggers[k])) => Distinct(combs)
  BY LocationPoolIs, PermuteAll, Zenon
<1> HIDE DEF combs
<1>2. \A i \in 1 .. Len(combs) : combs[i] \in Grown(triggers, <<>>)
  <2>1. \A i \in 1 .. Len(combs) : i \in DOMAIN combs
    BY <1>1
  <2> QED
    BY <1>1, <2>1 DEF SeqX!ToSet
<1>3. ASSUME NEW c \in Grown(triggers, <<>>)
      PROVE  /\ c \in Seq(Trigger) /\ Len(c) = Len(triggers)
             /\ \A k \in 1 .. Len(triggers) : c[k] \in SeqX!ToSet(triggers[k])
             /\ \A k, l \in 1 .. Len(triggers) : l < k => Coherent(c[k], c[l])
  <2>1. Len(<<>>) + 1 = 1
    OBVIOUS
  <2>2. \A k \in 1 .. Len(triggers) : \A l \in 1 .. k - 1 : Coherent(c[k], c[l])
    BY <2>1 DEF Grown
  <2>3. \A k, l \in 1 .. Len(triggers) : l < k => l \in 1 .. k - 1
    OBVIOUS
  <2> QED
    BY <2>1, <2>2, <2>3 DEF Grown
<1> QED
  BY <1>1, <1>2, <1>3 DEF combs

----------------------------------------------------------------------------
(* The ordered map: robin hood hashing. *)

Bucket == [index : Int, hash : Nat]

\* How far an entry is from its ideal bucket where it stands.
Away(N, i, e) == (i - e.hash) % N

\* The bucket before that of an entry away from its ideal bucket is taken, by an
\* entry that is at most one step closer to its own.
Behind(b, N, i, e) ==
    \A p \in 0 .. N - 1 :
        (p + 1) % N = i /\ Away(N, i, e) > 0 =>
            b[p] # Vacant /\ Away(N, p, b[p]) >= Away(N, i, e) - 1

Robin(b, N) == \A i \in 0 .. N - 1 : b[i] # Vacant => Behind(b, N, i, b[i])

Entries(b, N) == {b[i] : i \in {k \in 0 .. N - 1 : b[k] # Vacant}}

\* N buckets that hold every entry of E once.
Table(b, N, E) ==
    /\ b \in [0 .. N - 1 -> Bucket]
    /\ Entries(b, N) = E
    /\ \A i, k \in 0 .. N - 1 : b[i] = b[k] /\ b[i] # Vacant => i = k
    /\ Robin(b, N)

\* The number of buckets.
LEMMA CountBuckets ==
  ASSUME NEW N \in Nat, NEW b \in [0 .. N - 1 -> Bucket]
  PROVE  bucket_count(b) = N
<1>1. Cardinality(0 .. N - 1) = N
  <2>1. 0 \in Int /\ N - 1 \in Int
    OBVIOUS
  <2>2. Cardinality(0 .. N - 1) = IF 0 > N - 1 THEN 0 ELSE (N - 1) - 0 + 1
    BY <2>1, FS_Interval, Zenon
  <2> QED
    BY <2>2
<1>2. DOMAIN b = 0 .. N - 1
  OBVIOUS
<1> QED
  BY <1>1, <1>2 DEF bucket_count

\* The distance grows by one with every bucket, until it wraps.
LEMMA AwayRange ==
  ASSUME NEW N \in Nat \ {0}, NEW i \in 0 .. N - 1, NEW e \in Bucket
  PROVE  /\ Away(N, i, e) \in 0 .. N - 1
         /\ (i + 1) % N \in 0 .. N - 1
         /\ Away(N, (i + 1) % N, e) = IF Away(N, i, e) = N - 1 THEN 0 ELSE Away(N, i, e) + 1
<1> DEFINE h == e.hash
<1>1. h \in Int /\ i \in Int
  BY DEF Bucket
<1>2. (i - h) % N \in 0 .. N - 1
  <2> HIDE DEF h
  <2> QED
    BY <1>1, Circle
<1>3. (((i + 1) % N) - h) % N = IF (i - h) % N = N - 1 THEN 0 ELSE ((i - h) % N) + 1
  <2> HIDE DEF h
  <2> QED
    BY <1>1, CircleNext
<1>4. (i + 1) % N \in 0 .. N - 1
  BY SMT
<1> QED
  BY <1>2, <1>3, <1>4, Zenon DEF Away

\* An entry that takes a place from one closer to home, or from none ...
Takes(b, N, i, x, c) ==
    /\ b \in [0 .. N - 1 -> Bucket] /\ i \in 0 .. N - 1
    /\ \A k, p \in 0 .. N - 1 : b[k] = b[p] /\ b[k] # Vacant => k = p
    /\ Robin(b, N) /\ Behind(b, N, i, x)
    /\ x \in Bucket /\ x # Vacant /\ x \notin Entries(b, N)
    /\ ~(b[i] # Vacant /\ Away(N, i, x) <= Away(N, i, b[i]))
    /\ c = [b EXCEPT ![i] = x]

\* ... leaves the buckets in order, and the other one has to move on.
LEMMA Displace ==
  ASSUME NEW N \in Nat \ {0}, NEW b, NEW i, NEW x, NEW c, Takes(b, N, i, x, c)
  PROVE  /\ c \in [0 .. N - 1 -> Bucket]
         /\ \A k, p \in 0 .. N - 1 : c[k] = c[p] /\ c[k] # Vacant => k = p
         /\ Robin(c, N)
         /\ b[i] = Vacant => Entries(c, N) = Entries(b, N) \cup {x}
         /\ b[i] # Vacant => /\ Entries(c, N) \cup {b[i]} = Entries(b, N) \cup {x}
                             /\ b[i] \notin Entries(c, N)
                             /\ Behind(c, N, (i + 1) % N, b[i])
<1> USE DEF Takes
<1>1. /\ c \in [0 .. N - 1 -> Bucket] /\ c[i] = x
      /\ \A k \in 0 .. N - 1 : k # i => c[k] = b[k]
  OBVIOUS
<1>2. \A k \in 0 .. N - 1 : b[k] \in Bucket /\ (b[k] # Vacant => b[k] \in Entries(b, N) /\ b[k] # x)
  BY DEF Entries
<1>3. \A k, p \in 0 .. N - 1 : c[k] = c[p] /\ c[k] # Vacant => k = p
  BY <1>1, <1>2
<1>4. \A k \in 0 .. N - 1 : \A e \in Bucket : Away(N, k, e) \in 0 .. N - 1
  BY AwayRange
<1>5. b[i] # Vacant => Away(N, i, x) > Away(N, i, b[i])
  BY <1>2, <1>4
<1>6. Robin(c, N)
  <2> SUFFICES ASSUME NEW k \in 0 .. N - 1, c[k] # Vacant, NEW p \in 0 .. N - 1,
                      (p + 1) % N = k, Away(N, k, c[k]) > 0
               PROVE  c[p] # Vacant /\ Away(N, p, c[p]) >= Away(N, k, c[k]) - 1
    BY DEF Robin, Behind
  <2>1. CASE k = i
    <3>1. b[p] # Vacant /\ Away(N, p, b[p]) >= Away(N, k, c[k]) - 1
      BY <1>1, <2>1 DEF Behind
    <3>2. p # i
      <4>1. SUFFICES ASSUME p = i PROVE FALSE
        OBVIOUS
      <4>2. (i + 1) % N = i
        BY <2>1, <4>1
      <4>3. N = 1
        BY <4>2, CircleTurn
      <4>4. Away(N, k, c[k]) \in 0 .. N - 1
        BY <1>1, <1>4
      <4> QED
        BY <4>3, <4>4
    <3> QED
      BY <1>1, <3>1, <3>2
  <2>2. CASE k # i
    <3>1. c[k] = b[k] /\ b[p] # Vacant /\ Away(N, p, b[p]) >= Away(N, k, c[k]) - 1
      BY <1>1, <2>2 DEF Robin, Behind
    <3>2. CASE p # i
      BY <1>1, <3>1, <3>2
    <3>3. CASE p = i
      <4>1. c[p] = x /\ Away(N, p, x) > Away(N, p, b[p])
        BY <1>1, <1>5, <3>1, <3>3
      <4>2. Away(N, p, x) \in Int /\ Away(N, p, b[p]) \in Int /\ Away(N, k, c[k]) \in Int
        <5>1. \A a \in 0 .. N - 1 : a \in Int
          OBVIOUS
        <5>2. c[k] \in Bucket /\ b[p] \in Bucket
          BY <1>1, <1>2
        <5> QED
          BY <1>4, <5>1, <5>2, Zenon
      <4> QED
        BY <3>1, <4>1, <4>2
    <3> QED
      BY <3>2, <3>3
  <2> QED
    BY <2>1, <2>2
<1>7. ASSUME b[i] = Vacant
      PROVE  Entries(c, N) = Entries(b, N) \cup {x}
  <2>1. \A k \in 0 .. N - 1 : c[k] # Vacant => c[k] \in Entries(b, N) \cup {x}
    BY <1>1, <1>2
  <2>2. \A k \in 0 .. N - 1 : b[k] # Vacant => c[k] = b[k]
    BY <1>1, <1>7
  <2> QED
    BY <1>1, <2>1, <2>2 DEF Entries
<1>8. ASSUME b[i] # Vacant
      PROVE  /\ Entries(c, N) \cup {b[i]} = Entries(b, N) \cup {x}
             /\ b[i] \notin Entries(c, N)
  <2>1. \A k \in 0 .. N - 1 : c[k] # Vacant => c[k] \in Entries(b, N) \cup {x}
    BY <1>1, <1>2
  <2>2. \A k \in 0 .. N - 1 : b[k] # Vacant => b[k] = b[i] \/ c[k] = b[k]
    BY <1>1
  <2>3. b[i] \in Entries(b, N)
    BY <1>2, <1>8
  <2>4. x \in Entries(c, N)
    BY <1>1 DEF Entries
  <2>5. \A k \in 0 .. N - 1 : c[k] # b[i]
    BY <1>1, <1>2, <1>8
  <2>6. b[i] \notin Entries(c, N)
    BY <2>5 DEF Entries
  <2>7. Entries(c, N) \subseteq Entries(b, N) \cup {x}
    BY <2>1 DEF Entries
  <2>8. Entries(b, N) \subseteq Entries(c, N) \cup {b[i]}
    BY <2>2 DEF Entries
  <2> QED
    BY <2>3, <2>4, <2>6, <2>7, <2>8
<1>9. ASSUME b[i] # Vacant
      PROVE  Behind(c, N, (i + 1) % N, b[i])
  <2> SUFFICES ASSUME NEW p \in 0 .. N - 1, (p + 1) % N = (i + 1) % N
               PROVE  c[p] # Vacant /\ Away(N, p, c[p]) >= Away(N, (i + 1) % N, b[i]) - 1
    BY DEF Behind
  <2>1. p = i
    BY CircleTurn
  <2>2. /\ Away(N, i, b[i]) \in 0 .. N - 1
        /\ Away(N, (i + 1) % N, b[i]) = IF Away(N, i, b[i]) = N - 1 THEN 0 ELSE Away(N, i, b[i]) + 1
    BY <1>2, AwayRange
  <2>3. Away(N, i, x) \in 0 .. N - 1
    BY <1>4
  <2> QED
    BY <1>1, <1>5, <1>9, <2>1, <2>2, <2>3
<1> QED
  BY <1>1, <1>3, <1>6, <1>7, <1>8, <1>9

\* The places from the home of h on.
LEMMA Places ==
  ASSUME NEW N \in Nat \ {0}, NEW h \in Int
  PROVE  /\ \A n \in 0 .. N : (h + n) % N \in 0 .. N - 1
         /\ \A n, m \in 0 .. N - 1 : (h + n) % N = (h + m) % N => n = m
         /\ \A d \in 0 .. N - 1 : (((h + d) % N) + 1) % N = (h + (d + 1)) % N
<1>1. \A n \in 0 .. N : n \in Int
  OBVIOUS
<1>2. \A n \in 0 .. N : (h + n) % N \in 0 .. N - 1
  BY <1>1, Circle, Zenon
<1>3. ASSUME NEW n \in 0 .. N - 1, NEW m \in 0 .. N - 1, (h + n) % N = (h + m) % N
      PROVE  n = m
  <2>1. (((h + n) % N) - h) % N = n /\ (((h + m) % N) - h) % N = m
    BY Circle
  <2> QED
    BY <1>3, <2>1, Zenon
<1>4. ASSUME NEW d \in 0 .. N - 1
      PROVE  (((h + d) % N) + 1) % N = (h + (d + 1)) % N
  <2>1. d \in Int
    OBVIOUS
  <2>2. (((h + d) % N) + 1) % N = (h + d + 1) % N
    BY <2>1, CircleNext, Zenon
  <2>3. h + d + 1 = h + (d + 1)
    BY <2>1
  <2> QED
    BY <2>2, <2>3, Zenon
<1> QED
  BY <1>2, <1>3, <1>4, Zenon

\* The first d places of an insertion have been visited: what is carried belongs at
\* the next one or further on, and the places visited were taken.
Visited(b, N, entry, d, s) ==
    LET Place(n) == (entry.hash + n) % N
    IN  /\ s.buckets \in [0 .. N - 1 -> Bucket] /\ s.carried \in Bucket
        /\ \A i, k \in 0 .. N - 1 : s.buckets[i] = s.buckets[k] /\ s.buckets[i] # Vacant => i = k
        /\ Robin(s.buckets, N)
        /\ s.carried = Vacant => Entries(s.buckets, N) = Entries(b, N) \cup {entry}
        /\ s.carried # Vacant =>
              /\ Entries(s.buckets, N) \cup {s.carried} = Entries(b, N) \cup {entry}
              /\ s.carried \notin Entries(s.buckets, N)
              /\ \A n \in 0 .. d - 1 : b[Place(n)] # Vacant
              /\ \A n \in d .. N - 1 : s.buckets[Place(n)] = b[Place(n)]
              /\ Behind(s.buckets, N, Place(d), s.carried)

\* One more place.
LEMMA VisitNext ==
  ASSUME NEW N \in Nat \ {0}, NEW b \in [0 .. N - 1 -> Bucket], NEW entry \in Bucket,
         NEW d \in 0 .. N - 1, NEW s, Visited(b, N, entry, d, s),
         NEW i, i = (entry.hash + d) % N,
         NEW t, t = IF \/ s.carried = Vacant
                       \/ /\ s.buckets[i] # Vacant
                          /\ Away(N, i, s.carried) <= Away(N, i, s.buckets[i])
                    THEN s
                    ELSE [buckets |-> [s.buckets EXCEPT ![i] = s.carried],
                          carried |-> s.buckets[i]]
  PROVE  Visited(b, N, entry, d + 1, t)
<1> DEFINE Place(n) == (entry.hash + n) % N
           x == s.carried
           c == s.buckets
<1>1. entry.hash \in Int
  BY DEF Bucket
<1>2. /\ \A n \in 0 .. N : Place(n) \in 0 .. N - 1
      /\ \A n, m \in 0 .. N - 1 : Place(n) = Place(m) => n = m
      /\ (Place(d) + 1) % N = Place(d + 1)
  BY <1>1, Places, Zenon
<1>3. i = Place(d) /\ d \in 0 .. N
  OBVIOUS
<1> HIDE DEF Place
<1>4. i \in 0 .. N - 1
  BY <1>2, <1>3
<1>5. /\ c \in [0 .. N - 1 -> Bucket] /\ x \in Bucket
      /\ \A k, p \in 0 .. N - 1 : c[k] = c[p] /\ c[k] # Vacant => k = p
      /\ Robin(c, N)
  BY DEF Visited
<1>6. CASE x = Vacant
  BY <1>6, Zenon DEF Visited
<1>7. ASSUME x # Vacant
      PROVE  /\ Entries(c, N) \cup {x} = Entries(b, N) \cup {entry} /\ x \notin Entries(c, N)
             /\ \A n \in 0 .. d - 1 : b[Place(n)] # Vacant
             /\ \A n \in d .. N - 1 : c[Place(n)] = b[Place(n)]
             /\ Behind(c, N, i, x)
  BY <1>3, <1>7 DEF Visited, Place
<1>8. ASSUME x # Vacant, c[i] # Vacant
      PROVE  \A n \in 0 .. (d + 1) - 1 : b[Place(n)] # Vacant
  <2>1. \A n \in 0 .. (d + 1) - 1 : n \in 0 .. d - 1 \/ n = d
    OBVIOUS
  <2>2. c[i] = b[i]
    BY <1>3, <1>7, <1>8
  <2> QED
    BY <1>3, <1>7, <1>8, <2>1, <2>2
<1>9. CASE x # Vacant /\ c[i] # Vacant /\ Away(N, i, x) <= Away(N, i, c[i])
  <2>1. t = s
    BY <1>9
  <2>2. Behind(c, N, Place(d + 1), x)
    <3> SUFFICES ASSUME NEW p \in 0 .. N - 1, (p + 1) % N = (i + 1) % N
                 PROVE  c[p] # Vacant /\ Away(N, p, c[p]) >= Away(N, (i + 1) % N, x) - 1
      BY <1>2, <1>3 DEF Behind
    <3>1. p = i
      BY <1>4, CircleTurn
    <3>2. /\ Away(N, i, x) \in 0 .. N - 1
          /\ Away(N, (i + 1) % N, x) = IF Away(N, i, x) = N - 1 THEN 0 ELSE Away(N, i, x) + 1
      BY <1>4, <1>5, AwayRange
    <3>3. c[i] \in Bucket
      BY <1>4, <1>5
    <3>4. Away(N, i, c[i]) \in 0 .. N - 1
      BY <1>4, <3>3, AwayRange
    <3> QED
      BY <1>9, <3>1, <3>2, <3>4
  <2>3. \A n \in d + 1 .. N - 1 : c[Place(n)] = b[Place(n)]
    BY <1>7, <1>9
  <2> HIDE DEF x, c
  <2>4. x = s.carried /\ c = s.buckets
    BY DEF x, c
  <2> QED
    BY <1>5, <1>7, <1>8, <1>9, <2>1, <2>2, <2>3, <2>4, Zenon DEF Visited, Place
<1>10. CASE x # Vacant /\ ~(c[i] # Vacant /\ Away(N, i, x) <= Away(N, i, c[i]))
  <2> DEFINE e == [c EXCEPT ![i] = x]
  <2>1. t.buckets = e /\ t.carried = c[i]
    BY <1>10
  <2>2. /\ e \in [0 .. N - 1 -> Bucket]
        /\ \A k, p \in 0 .. N - 1 : e[k] = e[p] /\ e[k] # Vacant => k = p
        /\ Robin(e, N)
        /\ c[i] = Vacant => Entries(e, N) = Entries(c, N) \cup {x}
        /\ c[i] # Vacant => /\ Entries(e, N) \cup {c[i]} = Entries(c, N) \cup {x}
                            /\ c[i] \notin Entries(e, N)
                            /\ Behind(e, N, (i + 1) % N, c[i])
    <3>1. Behind(c, N, i, x) /\ x # Vacant /\ x \notin Entries(c, N)
      BY <1>7, <1>10
    <3>2. Takes(c, N, i, x, e)
      BY <1>4, <1>5, <1>10, <3>1 DEF Takes
    <3> HIDE DEF x, c, e
    <3> QED
      BY <3>2, Displace
  <2>3. \A n \in d + 1 .. N - 1 : e[Place(n)] = b[Place(n)]
    <3>1. \A n \in d + 1 .. N - 1 : n \in d .. N - 1 /\ n \in 0 .. N - 1 /\ n # d
      OBVIOUS
    <3>2. \A n \in d + 1 .. N - 1 : Place(n) # i /\ Place(n) \in 0 .. N - 1
      BY <1>2, <1>3, <3>1
    <3> HIDE DEF x, c
    <3> QED
      BY <1>4, <1>5, <1>7, <1>10, <3>1, <3>2
  <2>4. c[i] \in Bucket
    BY <1>4, <1>5
  <2> HIDE DEF x, c, e
  <2> QED
    BY <1>2, <1>3, <1>7, <1>8, <1>10, <2>1, <2>2, <2>3, <2>4, Zenon DEF Visited, Place
<1> QED
  BY <1>6, <1>9, <1>10, Zenon

\* The loop of insert_index as a sequence of its states.
InsertRun(b, N, entry, search) ==
    /\ search[0] = [buckets |-> b, carried |-> entry]
    /\ \A d \in 1 .. N :
          LET s == search[d - 1]
              i == (entry.hash + d - 1) % N
          IN  search[d] = IF \/ s.carried = Vacant
                             \/ /\ s.buckets[i] # Vacant
                                /\ Away(N, i, s.carried) <= Away(N, i, s.buckets[i])
                          THEN s
                          ELSE [buckets |-> [s.buckets EXCEPT ![i] = s.carried],
                                carried |-> s.buckets[i]]
    /\ insert_index(b, entry) = search[N].buckets

\* The loop of insert_index is a recursion over the buckets it visits.
LEMMA InsertLoop ==
  ASSUME NEW N \in Nat \ {0}, NEW b \in [0 .. N - 1 -> Bucket], NEW entry \in Bucket
  PROVE  \E search : InsertRun(b, N, entry, search)
<1> DEFINE State == [buckets : [0 .. N - 1 -> Bucket], carried : Bucket]
           start == [buckets |-> b, carried |-> entry]
           Move(s, i) == IF \/ s.carried = Vacant
                            \/ /\ s.buckets[i] # Vacant
                               /\ Distance(b, i, s.carried.hash) <= Distance(b, i, s.buckets[i].hash)
                         THEN s
                         ELSE [buckets |-> [s.buckets EXCEPT ![i] = s.carried],
                               carried |-> s.buckets[i]]
           Place(d)  == (entry.hash + d - 1) % bucket_count(b)
           D         == 0 .. N
           depth     == [d \in D |-> N - d]
           Body(f, d) == IF d = 0 THEN start ELSE Move(f[d - 1], Place(d))
           Apply(p)   == Body(p[2], p[1])
           Step      == [p \in D \X [D -> State] |-> Apply(p)]
<1> bucket_count(b) = N
  BY CountBuckets
<1>1. start \in State /\ State # {}
  <2>1. start \in State
    OBVIOUS
  <2> HIDE DEF start, State
  <2> QED
    BY <2>1
<1>2. \A d \in D : d # 0 => d - 1 \in D
  OBVIOUS
<1>3. \A d \in D : Place(d) \in 0 .. N - 1
  <2>1. entry.hash \in Int
    BY DEF Bucket
  <2>2. \A d \in D : entry.hash + d - 1 \in Int
    BY <2>1
  <2>3. \A a \in Int : a % N \in 0 .. N - 1
    BY SMT
  <2> QED
    BY <2>2, <2>3, Zenon
<1>4. ASSUME NEW s \in State, NEW i \in 0 .. N - 1
      PROVE  Move(s, i) \in State
  <2>1. s.buckets \in [0 .. N - 1 -> Bucket] /\ s.carried \in Bucket
    OBVIOUS
  <2>2. s.buckets[i] \in Bucket
    BY <2>1
  <2>3. [s.buckets EXCEPT ![i] = s.carried] \in [0 .. N - 1 -> Bucket]
    BY <2>1
  <2>4. [buckets |-> [s.buckets EXCEPT ![i] = s.carried], carried |-> s.buckets[i]] \in State
    BY <2>2, <2>3, Zenon
  <2> HIDE DEF State
  <2> QED
    BY <2>4, Zenon
<1> HIDE DEF State, start, Move, Place
<1>5. \A f \in [D -> State] : \A d \in D : Body(f, d) \in State
  <2> SUFFICES ASSUME NEW f \in [D -> State], NEW d \in D, d # 0
               PROVE  Move(f[d - 1], Place(d)) \in State
    BY <1>1, Zenon
  <2>1. f[d - 1] \in State
    BY <1>2
  <2> QED
    BY <1>3, <1>4, <2>1, Zenon
<1>6. \A d \in D : \A f \in [D -> State] : Step[<<d, f>>] = Body(f, d)
  OBVIOUS
<1>7. \E f \in [D -> State] : \A d \in D : f[d] = Step[<<d, f>>]
  <2>1. depth \in [D -> 0 .. N] /\ N \in Nat
    OBVIOUS
  <2>2. AsksDeeper(D, State, N, depth, Step)
    <3>1. Step \in [D \X [D -> State] -> State]
      <4> HIDE DEF Body, D
      <4>1. \A p \in D \X [D -> State] : Apply(p) \in State
        BY <1>5
      <4> QED
        BY <4>1, Zenon
    <3>2. ASSUME NEW d \in D, NEW f \in [D -> State], NEW g \in [D -> State],
                 \A e \in D : depth[e] > depth[d] => f[e] = g[e]
          PROVE  Step[<<d, f>>] = Step[<<d, g>>]
      <4>1. Body(f, d) = Body(g, d)
        <5>1. d # 0 => d - 1 \in D /\ depth[d - 1] > depth[d]
          OBVIOUS
        <5>2. d # 0 => f[d - 1] = g[d - 1]
          BY <3>2, <5>1, Zenon
        <5> QED
          BY <5>2, Zenon
      <4> HIDE DEF Step
      <4> QED
        BY <1>6, <4>1, Zenon
    <3> HIDE DEF Step
    <3> QED
      BY <1>1, <2>1, <3>1, <3>2, Zenon DEF AsksDeeper
  <2> HIDE DEF D, depth, Step
  <2> QED
    BY <2>2, Recursion
<1> DEFINE Is(f) == f = [d \in 0 .. bucket_count(b) |-> Body(f, d)]
           search == CHOOSE f : Is(f)
<1>8. bucket_count(b) = N
  OBVIOUS
<1>9. Is(search)
  <2>1. PICK f \in [D -> State] : \A d \in D : f[d] = Step[<<d, f>>]
    BY <1>7
  <2>2. \A d \in D : f[d] = Body(f, d)
    BY <1>6, <2>1, Zenon
  <2>3. f = [d \in D |-> f[d]]
    OBVIOUS
  <2> HIDE DEF Body
  <2>4. Is(f)
    BY <1>8, <2>2, <2>3
  <2> HIDE DEF Is
  <2> QED
    BY <2>4, Zenon
<1>10. insert_index(b, entry) = search[N].buckets
  <2>1. insert_index(b, entry) = search[bucket_count(b)].buckets
    BY Zenon DEF insert_index, Move, Place, start
  <2> HIDE DEF search
  <2> QED
    BY <1>8, <2>1, Zenon
<1> HIDE DEF search
<1>11. \A d \in 0 .. N : search[d] = Body(search, d)
  <2> HIDE DEF Body
  <2> QED
    BY <1>8, <1>9
<1>12. search[0] = start /\ \A d \in 1 .. N : search[d] = Move(search[d - 1], Place(d))
  <2>1. 0 \in 0 .. N /\ \A d \in 1 .. N : d \in 0 .. N /\ d # 0
    OBVIOUS
  <2> QED
    BY <1>11, <2>1, Zenon
<1> QED
  <2>1. InsertRun(b, N, entry, search)
    BY <1>8, <1>10, <1>12, Zenon DEF InsertRun, Move, Place, start, Distance, Away
  <2> QED
    BY <2>1, Zenon

\* insert_index puts the entry into a table with a vacant bucket and keeps the others.
LEMMA InsertTable ==
  ASSUME NEW N \in Nat \ {0}, NEW b, NEW E, Table(b, N, E),
         NEW entry \in Bucket, entry # Vacant, entry \notin E,
         NEW v \in 0 .. N - 1, b[v] = Vacant
  PROVE  Table(insert_index(b, entry), N, E \cup {entry})
<1>1. /\ b \in [0 .. N - 1 -> Bucket] /\ Entries(b, N) = E
      /\ \A i, k \in 0 .. N - 1 : b[i] = b[k] /\ b[i] # Vacant => i = k
      /\ Robin(b, N)
  BY DEF Table
<1> DEFINE Place(n) == (entry.hash + n) % N
<1>2. PICK search : InsertRun(b, N, entry, search)
  BY <1>1, InsertLoop
<1>3. entry.hash \in Int
  BY DEF Bucket
<1> DEFINE good == {d \in 0 .. N : Visited(b, N, entry, d, search[d])}
<1>4. 0 \in good
  <2> DEFINE s == search[0]
  <2>1. s.buckets = b /\ s.carried = entry
    BY <1>2 DEF InsertRun
  <2>2. Place(0) \in 0 .. N - 1 /\ Away(N, Place(0), entry) = 0
    <3>1. 0 \in 0 .. N - 1 /\ 0 \in Int
      OBVIOUS
    <3>2. (entry.hash + 0) % N \in 0 .. N - 1 /\ (((entry.hash + 0) % N) - entry.hash) % N = 0
      BY <1>3, <3>1, Circle
    <3> QED
      BY <3>2, Zenon DEF Away
  <2>3. Behind(b, N, Place(0), entry)
    <3>1. ~(Away(N, Place(0), entry) > 0)
      BY <2>2
    <3> HIDE DEF Place
    <3> QED
      BY <3>1, Zenon DEF Behind
  <2>4. \A n \in 0 .. 0 - 1 : FALSE
    OBVIOUS
  <2> HIDE DEF s
  <2>5. Visited(b, N, entry, 0, s)
    BY <1>1, <2>1, <2>3, <2>4, Zenon DEF Visited
  <2>6. 0 \in 0 .. N
    OBVIOUS
  <2> QED
    BY <2>5, <2>6, Zenon DEF s
<1>5. ASSUME NEW d \in 0 .. N - 1, d \in good
      PROVE  d + 1 \in good
  <2> DEFINE s == search[d]
             i == Place(d)
  <2>1. d + 1 \in 1 .. N /\ d + 1 \in 0 .. N /\ (d + 1) - 1 = d
    OBVIOUS
  <2>2. (entry.hash + (d + 1) - 1) % N = i
    <3>1. entry.hash + (d + 1) - 1 = entry.hash + d
      BY <1>3
    <3> QED
      BY <3>1, Zenon
  <2>3. search[d + 1] = IF \/ s.carried = Vacant
                           \/ /\ s.buckets[i] # Vacant
                              /\ Away(N, i, s.carried) <= Away(N, i, s.buckets[i])
                        THEN s
                        ELSE [buckets |-> [s.buckets EXCEPT ![i] = s.carried],
                              carried |-> s.buckets[i]]
    BY <1>2, <2>1, <2>2, Zenon DEF InsertRun
  <2>4. Visited(b, N, entry, d, s)
    BY <1>5
  <2>5. i = (entry.hash + d) % N
    OBVIOUS
  <2> HIDE DEF s, i
  <2>6. Visited(b, N, entry, d + 1, search[d + 1])
    BY <1>1, <2>3, <2>4, <2>5, VisitNext
  <2> QED
    BY <2>1, <2>6
<1>6. 0 .. N \subseteq good
  <2> HIDE DEF good
  <2> QED
    BY <1>4, <1>5, Induction
<1>7. Visited(b, N, entry, N, search[N])
  <2>1. N \in 0 .. N
    OBVIOUS
  <2> QED
    BY <1>6, <2>1
<1> DEFINE s == search[N]
<1>8. s.carried = Vacant
  <2>1. PICK n \in 0 .. N - 1 : Place(n) = v
    <3>1. v \in Int /\ (v - entry.hash) % N \in 0 .. N - 1
      BY <1>3, Circle
    <3>2. (entry.hash + ((v - entry.hash) % N)) % N = v
      BY <1>3, Circle
    <3> QED
      BY <3>1, <3>2, Zenon
  <2>2. b[Place(n)] = Vacant
    BY <2>1
  <2> QED
    BY <1>7, <2>2, Zenon DEF Visited
<1>9. insert_index(b, entry) = s.buckets
  BY <1>2 DEF InsertRun
<1> HIDE DEF s
<1> QED
  BY <1>1, <1>7, <1>8, <1>9, Zenon DEF Visited, Table, s

\* Whatever the buckets hold, insert_index gives buckets.
LEMMA InsertType ==
  ASSUME NEW N \in Nat \ {0}, NEW b \in [0 .. N - 1 -> Bucket], NEW entry \in Bucket
  PROVE  insert_index(b, entry) \in [0 .. N - 1 -> Bucket]
<1>1. PICK search : InsertRun(b, N, entry, search)
  BY InsertLoop
<1> DEFINE Typed(s) == s.buckets \in [0 .. N - 1 -> Bucket] /\ s.carried \in Bucket
           good     == {d \in 0 .. N : Typed(search[d])}
<1>2. 0 \in good
  <2>1. search[0].buckets = b /\ search[0].carried = entry
    BY <1>1 DEF InsertRun
  <2>2. Typed(search[0])
    BY <2>1
  <2>3. 0 \in 0 .. N
    OBVIOUS
  <2> HIDE DEF Typed
  <2> QED
    BY <2>2, <2>3, Zenon
<1>3. ASSUME NEW d \in 0 .. N - 1, d \in good
      PROVE  d + 1 \in good
  <2> DEFINE s == search[d]
             t == search[d + 1]
             i == (entry.hash + (d + 1) - 1) % N
             c == [s.buckets EXCEPT ![i] = s.carried]
  <2>1. d + 1 \in 1 .. N /\ d + 1 \in 0 .. N /\ (d + 1) - 1 = d
    OBVIOUS
  <2>2. t = s \/ t = [buckets |-> c, carried |-> s.buckets[i]]
    BY <1>1, <2>1, Zenon DEF InsertRun
  <2>3. i \in 0 .. N - 1
    <3>1. entry.hash + (d + 1) - 1 \in Int
      BY DEF Bucket
    <3>2. \A a \in Int : a % N \in 0 .. N - 1
      BY SMT
    <3> QED
      BY <3>1, <3>2, Zenon
  <2>4. Typed(s)
    BY <1>3
  <2> HIDE DEF i, s
  <2>5. c \in [0 .. N - 1 -> Bucket] /\ s.buckets[i] \in Bucket
    BY <2>3, <2>4
  <2> HIDE DEF c, t
  <2>6. Typed(t)
    <3>1. CASE t = s
      BY <2>4, <3>1, Zenon
    <3>2. CASE t = [buckets |-> c, carried |-> s.buckets[i]]
      <4>1. t.buckets = c /\ t.carried = s.buckets[i]
        BY <3>2
      <4> QED
        BY <2>5, <4>1, Zenon
    <3> QED
      BY <2>2, <3>1, <3>2
  <2> HIDE DEF Typed
  <2> QED
    BY <2>1, <2>6, Zenon DEF t
<1>4. N \in good
  <2> HIDE DEF good
  <2>1. 0 .. N \subseteq good
    BY <1>2, <1>3, Induction
  <2> QED
    BY <2>1
<1> QED
  BY <1>1, <1>4, Zenon DEF InsertRun

\* As long as there are fewer entries than buckets, one of them is vacant.
LEMMA VacantBucket ==
  ASSUME NEW N \in Nat \ {0}, NEW b, NEW E, Table(b, N, E),
         IsFiniteSet(E), Cardinality(E) < N
  PROVE  \E v \in 0 .. N - 1 : b[v] = Vacant
<1> SUFFICES ASSUME \A v \in 0 .. N - 1 : b[v] # Vacant PROVE FALSE
  OBVIOUS
<1>1. b \in [0 .. N - 1 -> E]
  <2>1. \A i \in 0 .. N - 1 : b[i] \in E
    BY DEF Table, Entries
  <2>2. b = [i \in 0 .. N - 1 |-> b[i]]
    BY DEF Table
  <2> QED
    BY <2>1, <2>2
<1>2. b \in Injection(0 .. N - 1, E)
  BY <1>1, Fun_IsInj DEF Table
<1>3. Cardinality(0 .. N - 1) <= Cardinality(E)
  BY <1>2, FS_Injection
<1>4. Cardinality(0 .. N - 1) = N
  <2>1. 0 \in Int /\ N - 1 \in Int
    OBVIOUS
  <2>2. Cardinality(0 .. N - 1) = IF 0 > N - 1 THEN 0 ELSE (N - 1) - 0 + 1
    BY <2>1, FS_Interval, Zenon
  <2> QED
    BY <2>2
<1>5. Cardinality(E) \in Nat
  BY FS_CardinalityType
<1> QED
  BY <1>3, <1>4, <1>5

\* There are no more entries than buckets.
LEMMA FewEntries ==
  ASSUME NEW n \in Nat, NEW b
  PROVE  /\ IsFiniteSet(Entries(b, n)) /\ Cardinality(Entries(b, n)) \in Nat
         /\ Cardinality(Entries(b, n)) <= n
<1> DEFINE T == {k \in 0 .. n - 1 : b[k] # Vacant}
           f == [i \in T |-> b[i]]
<1>1. IsFiniteSet(0 .. n - 1) /\ Cardinality(0 .. n - 1) = n
  <2>1. 0 \in Int /\ n - 1 \in Int
    OBVIOUS
  <2>2. IsFiniteSet(0 .. n - 1) /\ Cardinality(0 .. n - 1) = IF 0 > n - 1 THEN 0 ELSE (n - 1) - 0 + 1
    BY <2>1, FS_Interval, Zenon
  <2> QED
    BY <2>2
<1>2. T \subseteq 0 .. n - 1
  OBVIOUS
<1>3. f \in Surjection(T, Entries(b, n))
  <2>1. Entries(b, n) = {b[i] : i \in T}
    BY DEF Entries
  <2> HIDE DEF T
  <2>2. f \in [T -> Entries(b, n)] /\ \A e \in Entries(b, n) : \E i \in T : f[i] = e
    BY <2>1
  <2> QED
    BY <2>2, Fun_IsSurj
<1> HIDE DEF T, f
<1>4. IsFiniteSet(T) /\ Cardinality(T) <= n
  BY <1>1, <1>2, FS_Subset
<1>5. IsFiniteSet(Entries(b, n)) /\ Cardinality(Entries(b, n)) <= Cardinality(T)
  BY <1>3, <1>4, FS_Surjection
<1>6. Cardinality(Entries(b, n)) \in Nat /\ Cardinality(T) \in Nat
  BY <1>4, <1>5, FS_CardinalityType
<1> QED
  BY <1>4, <1>5, <1>6

\* Buckets that are all vacant are a table without entries.
LEMMA EmptyTable ==
  ASSUME NEW M \in Nat
  PROVE  Table([i \in 0 .. M - 1 |-> Vacant], M, {})
<1> DEFINE b == [i \in 0 .. M - 1 |-> Vacant]
<1>1. Vacant \in Bucket
  BY DEF Vacant, Bucket
<1>2. b \in [0 .. M - 1 -> Bucket] /\ \A i \in 0 .. M - 1 : b[i] = Vacant
  BY <1>1
<1> HIDE DEF b
<1>3. Entries(b, M) = {}
  BY <1>2 DEF Entries
<1>4. Robin(b, M)
  BY <1>2, Zenon DEF Robin
<1>5. Table(b, M, {})
  BY <1>2, <1>3, <1>4, Zenon DEF Table
<1> QED
  BY <1>5 DEF b

\* rehash_impl moves every entry into the larger table.
LEMMA RehashTable ==
  ASSUME NEW N \in Nat, NEW b, NEW E, Table(b, N, E), NEW M \in Nat, M > N
  PROVE  Table(rehash_impl(b, M), M, E)
<1> DEFINE State == [0 .. M - 1 -> Bucket]
           start == [i \in 0 .. M - 1 |-> Vacant]
           D     == 0 .. N
           depth == [d \in D |-> N - d]
           Body(f, n) == IF n = 0 THEN start
                         ELSE IF b[n - 1] = Vacant THEN f[n - 1]
                         ELSE insert_index(f[n - 1], b[n - 1])
           Apply(p) == Body(p[2], p[1])
           Step    == [p \in D \X [D -> State] |-> Apply(p)]
<1>1. /\ b \in [0 .. N - 1 -> Bucket] /\ Entries(b, N) = E
      /\ \A i, k \in 0 .. N - 1 : b[i] = b[k] /\ b[i] # Vacant => i = k
      /\ M \in Nat \ {0} /\ bucket_count(b) = N
  BY CountBuckets DEF Table
<1>2. start \in State /\ Table(start, M, {})
  <2>1. Table(start, M, {})
    BY EmptyTable
  <2> QED
    BY <2>1 DEF Table
<1>3. \A n \in D : n # 0 => n - 1 \in D /\ n - 1 \in 0 .. N - 1 /\ depth[n - 1] > depth[n]
  OBVIOUS
<1> HIDE DEF start
<1>4. \A f \in [D -> State] : \A n \in D : Body(f, n) \in State
  <2> SUFFICES ASSUME NEW f \in [D -> State], NEW n \in D, n # 0
               PROVE  f[n - 1] \in State /\ insert_index(f[n - 1], b[n - 1]) \in State
    BY <1>2, Zenon
  <2>1. f[n - 1] \in State /\ b[n - 1] \in Bucket
    BY <1>1, <1>3
  <2> QED
    BY <1>1, <2>1, InsertType
<1>5. \A n \in D : \A f \in [D -> State] : Step[<<n, f>>] = Body(f, n)
  OBVIOUS
<1>6. \E f \in [D -> State] : \A n \in D : f[n] = Step[<<n, f>>]
  <2>1. depth \in [D -> 0 .. N] /\ State # {}
    BY <1>2
  <2>2. Step \in [D \X [D -> State] -> State]
    <3> HIDE DEF Body, D, State
    <3>1. \A p \in D \X [D -> State] : Apply(p) \in State
      BY <1>4
    <3> QED
      BY <3>1, Zenon
  <2>3. ASSUME NEW n \in D, NEW f \in [D -> State], NEW g \in [D -> State],
               \A e \in D : depth[e] > depth[n] => f[e] = g[e]
        PROVE  Step[<<n, f>>] = Step[<<n, g>>]
    <3>1. n # 0 => f[n - 1] = g[n - 1]
      BY <1>3, <2>3, Zenon
    <3>2. Body(f, n) = Body(g, n)
      BY <3>1, Zenon
    <3> HIDE DEF Step
    <3> QED
      BY <1>5, <3>2, Zenon
  <2> HIDE DEF Step, depth, D, State
  <2>4. AsksDeeper(D, State, N, depth, Step)
    BY <2>1, <2>2, <2>3, Zenon DEF AsksDeeper
  <2> QED
    BY <2>4, Recursion
<1> DEFINE Is(f) == f = [n \in 0 .. bucket_count(b) |-> Body(f, n)]
           moved == CHOOSE f : Is(f)
<1>7. Is(moved)
  <2>1. PICK f \in [D -> State] : \A n \in D : f[n] = Step[<<n, f>>]
    BY <1>6
  <2>2. \A n \in D : f[n] = Body(f, n)
    BY <1>5, <2>1, Zenon
  <2>3. f = [n \in D |-> f[n]]
    OBVIOUS
  <2> HIDE DEF Body
  <2>4. Is(f)
    BY <1>1, <2>2, <2>3
  <2> HIDE DEF Is
  <2> QED
    BY <2>4, Zenon
<1>8. rehash_impl(b, M) = moved[N]
  <2>1. rehash_impl(b, M) = moved[bucket_count(b)]
    BY Zenon DEF rehash_impl, start
  <2> HIDE DEF moved
  <2> QED
    BY <1>1, <2>1, Zenon
<1> HIDE DEF moved
<1>9. \A n \in 0 .. N : moved[n] = Body(moved, n)
  <2> HIDE DEF Body
  <2> QED
    BY <1>1, <1>7
<1> DEFINE good == {n \in 0 .. N : Table(moved[n], M, Entries(b, n))}
<1>10. 0 \in good
  <2>1. 0 \in 0 .. N
    OBVIOUS
  <2>2. moved[0] = start
    BY <1>9, <2>1, Zenon
  <2>3. Entries(b, 0) = {}
    <3>1. 0 .. 0 - 1 = {}
      OBVIOUS
    <3> QED
      BY <3>1 DEF Entries
  <2> QED
    BY <1>2, <2>1, <2>2, <2>3, Zenon
<1>11. ASSUME NEW n \in 0 .. N - 1, n \in good
       PROVE  n + 1 \in good
  <2>1. n \in 0 .. N /\ n + 1 \in 0 .. N /\ n + 1 # 0 /\ (n + 1) - 1 = n
    OBVIOUS
  <2>2. moved[n + 1] = IF b[n] = Vacant THEN moved[n] ELSE insert_index(moved[n], b[n])
    BY <1>9, <2>1, Zenon
  <2>3. Table(moved[n], M, Entries(b, n))
    BY <1>11
  <2>4. \A k \in 0 .. (n + 1) - 1 : k = n \/ k \in 0 .. n - 1
    OBVIOUS
  <2>5. \A k \in 0 .. n - 1 : k \in 0 .. (n + 1) - 1 /\ k \in 0 .. N - 1 /\ k # n
    OBVIOUS
  <2>6. n \in 0 .. (n + 1) - 1
    OBVIOUS
  <2>7. CASE b[n] = Vacant
    <3>1. Entries(b, n + 1) = Entries(b, n)
      BY <2>4, <2>5, <2>7 DEF Entries
    <3> QED
      BY <2>1, <2>2, <2>3, <2>7, <3>1, Zenon
  <2>8. CASE b[n] # Vacant
    <3>1. Entries(b, n + 1) = Entries(b, n) \cup {b[n]}
      BY <2>4, <2>5, <2>6, <2>8 DEF Entries
    <3>2. b[n] \notin Entries(b, n) /\ b[n] \in Bucket
      BY <1>1, <2>5, <2>8 DEF Entries
    <3>3. \E v \in 0 .. M - 1 : moved[n][v] = Vacant
      <4>1. /\ IsFiniteSet(Entries(b, n)) /\ Cardinality(Entries(b, n)) \in Nat
            /\ Cardinality(Entries(b, n)) <= n
        BY FewEntries
      <4>2. Cardinality(Entries(b, n)) < M
        BY <4>1
      <4> HIDE DEF moved
      <4> QED
        BY <1>1, <2>3, <4>1, <4>2, VacantBucket
    <3>4. Table(insert_index(moved[n], b[n]), M, Entries(b, n) \cup {b[n]})
      BY <1>1, <2>3, <2>8, <3>2, <3>3, InsertTable
    <3> QED
      BY <2>1, <2>2, <2>8, <3>1, <3>4, Zenon
  <2> QED
    BY <2>7, <2>8
<1>12. N \in good
  <2> HIDE DEF good
  <2>1. 0 .. N \subseteq good
    BY <1>10, <1>11, Induction
  <2> QED
    BY <2>1
<1> QED
  BY <1>1, <1>8, <1>12

\* What the buckets of a map with these values have to hold.
EntryOf(V, p)  == [index |-> p - 1, hash |-> Hash[V[p].key]]
EntriesOf(V)   == {EntryOf(V, p) : p \in DOMAIN V}
KeysDiffer(V)  == \A p, q \in DOMAIN V : V[p].key = V[q].key => p = q

\* An ordered map whose values are in Val: every key is there once and its bucket
\* can be found; the table is not full unless it is tiny.
MapOf(m, N, Val) ==
    /\ m = [m_values |-> m.m_values, m_buckets |-> m.m_buckets]
    /\ m.m_values \in Seq([key : DOMAIN Hash, value : Val]) /\ KeysDiffer(m.m_values)
    /\ N \in Nat /\ Table(m.m_buckets, N, EntriesOf(m.m_values))
    /\ Len(m.m_values) <= N /\ (N > 2 => Len(m.m_values) < N)

\* The bucket entries that belong to a list of values.
LEMMA EntriesTyped ==
  ASSUME NEW Val, NEW V \in Seq([key : DOMAIN Hash, value : Val])
  PROVE  /\ \A p \in DOMAIN V : /\ EntryOf(V, p) \in Bucket /\ EntryOf(V, p) # Vacant
                                /\ EntryOf(V, p).index + 1 = p
                                /\ EntryOf(V, p).hash = Hash[V[p].key]
                                /\ V[p].key \in DOMAIN Hash
         /\ \A p, q \in DOMAIN V : EntryOf(V, p) = EntryOf(V, q) => p = q
<1> DEFINE Row == [key : DOMAIN Hash, value : Val]
<1>1. \A p \in DOMAIN V : p \in Nat \ {0} /\ V[p] \in Row
  <2> HIDE DEF Row
  <2>1. V \in Seq(Row)
    BY DEF Row
  <2> QED
    BY <2>1
<1>2. \A p \in DOMAIN V : V[p].key \in DOMAIN Hash
  <2>1. \A r \in Row : r.key \in DOMAIN Hash
    OBVIOUS
  <2> HIDE DEF Row
  <2> QED
    BY <1>1, <2>1
<1> HIDE DEF Row
<1>3. ASSUME NEW p \in DOMAIN V
      PROVE  /\ EntryOf(V, p) \in Bucket /\ EntryOf(V, p) # Vacant
             /\ EntryOf(V, p).index + 1 = p /\ EntryOf(V, p).hash = Hash[V[p].key]
  <2>1. Hash[V[p].key] \in Nat /\ p \in Nat \ {0}
    BY <1>1, <1>2, HashAssumption
  <2>2. EntryOf(V, p).index = p - 1 /\ EntryOf(V, p).hash = Hash[V[p].key]
    BY DEF EntryOf
  <2>3. EntryOf(V, p) \in Bucket
    BY <2>1 DEF EntryOf, Bucket
  <2>4. Vacant.index = -1
    BY DEF Vacant
  <2> QED
    BY <2>1, <2>2, <2>3, <2>4
<1> QED
  BY <1>2, <1>3

\* find_key stops at the bucket of a key that is there, and nowhere else.
THEOREM LookupPresent ==
  ASSUME NEW m, NEW N, NEW Val, MapOf(m, N, Val), NEW p \in DOMAIN m.m_values
  PROVE  LET key == m.m_values[p].key
         IN  /\ find_key(m, key) \in 0 .. N - 1
             /\ m.m_buckets[find_key(m, key)] = EntryOf(m.m_values, p)
             /\ Contains(m, key) /\ Position(m, key) = p
<1> DEFINE V   == m.m_values
           b   == m.m_buckets
           key == V[p].key
           h   == Hash[key]
           e   == EntryOf(V, p)
           Place(d) == (h + d) % N
<1>1. /\ V \in Seq([key : DOMAIN Hash, value : Val]) /\ KeysDiffer(V)
      /\ N \in Nat /\ Table(b, N, EntriesOf(V)) /\ Len(V) <= N
  BY DEF MapOf
<1>2. N \in Nat \ {0} /\ p \in Nat /\ V # <<>>
  BY <1>1
<1>3. /\ b \in [0 .. N - 1 -> Bucket] /\ bucket_count(b) = N
      /\ \A i \in 0 .. N - 1 : b[i] # Vacant => \E q \in DOMAIN V : b[i] = EntryOf(V, q)
      /\ \A i, k \in 0 .. N - 1 : b[i] = b[k] /\ b[i] # Vacant => i = k
      /\ Robin(b, N)
  <2>1. b \in [0 .. N - 1 -> Bucket]
    BY <1>1 DEF Table
  <2>2. bucket_count(b) = N
    BY <1>1, <2>1, CountBuckets
  <2> HIDE DEF V, b
  <2> QED
    BY <1>1, <2>1, <2>2 DEF Table, Entries, EntriesOf
<1>4. e \in Bucket /\ e # Vacant /\ e.hash = h /\ e.index + 1 = p /\ h \in Int /\ e.index \in Int
  <2> HIDE DEF V
  <2>1. e \in Bucket /\ e # Vacant /\ e.hash = h /\ e.index + 1 = p
    BY <1>1, EntriesTyped DEF V
  <2> HIDE DEF e
  <2> QED
    BY <2>1 DEF Bucket
<1>5. PICK home \in 0 .. N - 1 : b[home] = e
  <2>1. e \in Entries(b, N)
    BY <1>1 DEF Table, EntriesOf
  <2> HIDE DEF e, b
  <2> QED
    BY <2>1 DEF Entries
<1> HIDE DEF V, b, h, e, key
<1> DEFINE D == Away(N, home, e)
<1>6. D \in 0 .. N - 1 /\ D \in Nat /\ Place(D) = home
  <2>1. D \in 0 .. N - 1
    BY <1>2, <1>4, AwayRange
  <2>2. (h + ((home - h) % N)) % N = home
    BY <1>2, <1>4, Circle
  <2>3. D = (home - h) % N
    BY <1>4 DEF Away
  <2> HIDE DEF D
  <2> QED
    BY <2>1, <2>2, <2>3
<1> HIDE DEF D
<1>7. /\ \A n \in 0 .. N : Place(n) \in 0 .. N - 1
      /\ \A n, k \in 0 .. N - 1 : Place(n) = Place(k) => n = k
      /\ \A d \in 0 .. N - 1 : (Place(d) + 1) % N = Place(d + 1)
  <2> N \in Nat \ {0} /\ h \in Int
    BY <1>2, <1>4
  <2>1. /\ \A n \in 0 .. N : (h + n) % N \in 0 .. N - 1
        /\ \A n, k \in 0 .. N - 1 : (h + n) % N = (h + k) % N => n = k
        /\ \A d \in 0 .. N - 1 : (((h + d) % N) + 1) % N = (h + (d + 1)) % N
    BY Places
  <2>2. \A n : Place(n) = (h + n) % N
    OBVIOUS
  <2> HIDE DEF Place
  <2>3. \A n \in 0 .. N : Place(n) \in 0 .. N - 1
    BY <2>1, <2>2
  <2>4. \A n, k \in 0 .. N - 1 : Place(n) = Place(k) => n = k
    BY <2>1, <2>2
  <2>5. \A d \in 0 .. N - 1 : (Place(d) + 1) % N = Place(d + 1)
    BY <2>1, <2>2
  <2> QED
    BY <2>3, <2>4, <2>5
<1> HIDE DEF Place
<1> DEFINE Far(d) == b[Place(d)] # Vacant /\ Away(N, Place(d), b[Place(d)]) >= d
           far    == {k \in 0 .. D : Far(D - k)}
<1>8. \A d \in 0 .. D : Far(d)
  <2>1. 0 \in far
    <3>1. D - 0 = D /\ 0 \in 0 .. D /\ D >= D
      BY <1>6
    <3>2. Far(D)
      BY <1>4, <1>5, <1>6, <3>1 DEF D
    <3> HIDE DEF Far
    <3> QED
      BY <3>1, <3>2
  <2>2. ASSUME NEW k \in 0 .. D - 1, k \in far
        PROVE  k + 1 \in far
    <3> DEFINE d == D - (k + 1)
               i == Place(d)
               next == Place(d + 1)
    <3>1. d \in 0 .. N - 1 /\ d \in 0 .. D /\ d + 1 = D - k /\ k + 1 \in 0 .. D /\ d + 1 \in 0 .. N
          /\ d \in Int
      BY <1>2, <1>6
    <3>2. Far(d + 1)
      BY <2>2, <3>1
    <3> HIDE DEF d
    <3>3. i \in 0 .. N - 1 /\ next \in 0 .. N - 1 /\ (i + 1) % N = next
      <4>1. d \in 0 .. N
        BY <1>2, <3>1
      <4> QED
        BY <1>7, <3>1, <4>1
    <3> HIDE DEF i, next
    <3>4. b[next] # Vacant /\ Away(N, next, b[next]) >= d + 1
      BY <3>2 DEF next
    <3>5. b[i] \in Bucket /\ b[next] \in Bucket
      BY <1>3, <3>3
    <3>6. Away(N, i, b[i]) \in 0 .. N - 1 /\ Away(N, next, b[next]) \in 0 .. N - 1
      BY <1>2, <3>3, <3>5, AwayRange
    <3>7. Away(N, next, b[next]) > 0
      BY <3>1, <3>4, <3>6
    <3>8. b[i] # Vacant /\ Away(N, i, b[i]) >= Away(N, next, b[next]) - 1
      BY <1>3, <3>3, <3>4, <3>7 DEF Robin, Behind
    <3>9. Away(N, i, b[i]) >= d
      BY <3>1, <3>4, <3>6, <3>8
    <3> QED
      BY <3>1, <3>8, <3>9 DEF d, i
  <2>3. 0 .. D \subseteq far
    <3> HIDE DEF far
    <3> QED
      BY <1>6, <2>1, <2>2, Induction
  <2>4. \A d \in 0 .. D : D - d \in 0 .. D /\ D - (D - d) = d
    BY <1>6
  <2> HIDE DEF Far
  <2>5. \A k \in 0 .. D : Far(D - k)
    BY <2>3
  <2> QED
    BY <2>4, <2>5
<1>9. \A d \in 0 .. N : Probe(m, key, d) = Place(d)
  BY <1>3 DEF Probe, Place, h, b
<1>10. Holds(m, key, home)
  BY <1>4, <1>5, <1>6 DEF Holds, b, V, h, key
<1>11. StopsAt(m, key, D)
  <2>1. Probe(m, key, D) = home
    BY <1>2, <1>6, <1>9
  <2> QED
    BY <1>10, <2>1 DEF StopsAt
<1>12. ASSUME NEW d \in 0 .. D - 1, StopsAt(m, key, d)
       PROVE  FALSE
  <2> DEFINE i == Place(d)
  <2>1. d \in 0 .. D /\ d \in 0 .. N /\ d \in 0 .. N - 1 /\ d # D
    BY <1>2, <1>6
  <2>2. i \in 0 .. N - 1 /\ Probe(m, key, d) = i
    BY <1>7, <1>9, <2>1
  <2>3. b[i] # Vacant /\ Away(N, i, b[i]) >= d
    BY <1>8, <2>1
  <2> HIDE DEF i
  <2>4. b[i] \in Bucket
    BY <1>3, <2>2
  <2>5. Away(N, i, b[i]) \in 0 .. N - 1
    BY <1>2, <2>2, <2>4, AwayRange
  <2>6. ~(d > Away(N, i, b[i]))
    BY <2>1, <2>3, <2>5
  <2>7. Distance(m.m_buckets, i, m.m_buckets[i].hash) = Away(N, i, b[i])
    BY <1>3 DEF Distance, Away, b
  <2>8. Holds(m, key, i)
    BY <1>12, <2>2, <2>3, <2>6, <2>7 DEF StopsAt, b
  <2>9. PICK q \in DOMAIN V : b[i] = EntryOf(V, q)
    BY <1>3, <2>2, <2>3
  <2>10. EntryOf(V, q).index + 1 = q
    BY <1>1, EntriesTyped
  <2>11. V[q].key = key
    BY <2>8, <2>9, <2>10 DEF Holds, b, V
  <2>12. q = p
    BY <1>1, <2>11 DEF KeysDiffer, key, V
  <2>13. b[i] = b[home]
    BY <1>5, <2>9, <2>12 DEF e
  <2>14. i = home
    BY <1>3, <2>2, <2>3, <2>13
  <2>15. Place(d) = Place(D)
    BY <1>6, <2>14 DEF i
  <2>16. d = D
    BY <1>6, <1>7, <2>1, <2>15
  <2> QED
    BY <2>1, <2>16
<1>13. find_key(m, key) = home
  <2> DEFINE First(d) == StopsAt(m, key, d) /\ \A c \in 0 .. d - 1 : ~StopsAt(m, key, c)
             stop == CHOOSE d \in 0 .. N : First(d)
  <2>1. D \in 0 .. N /\ First(D)
    BY <1>2, <1>6, <1>11, <1>12
  <2>2. stop \in 0 .. N /\ First(stop)
    <3> HIDE DEF First
    <3> QED
      BY <2>1
  <2> HIDE DEF stop
  <2>3. stop = D
    <3>1. stop \in 0 .. D - 1 \/ D \in 0 .. stop - 1 \/ stop = D
      BY <1>6, <2>2
    <3>2. ~(stop \in 0 .. D - 1)
      BY <1>12, <2>2
    <3>3. ~(D \in 0 .. stop - 1)
      BY <1>11, <2>2
    <3> QED
      BY <3>1, <3>2, <3>3
  <2>4. find_key(m, key) = Probe(m, key, stop)
    BY <1>3 DEF find_key, stop, b
  <2> QED
    BY <1>6, <1>9, <2>1, <2>3, <2>4
<1> QED
  BY <1>2, <1>4, <1>5, <1>10, <1>13 DEF Contains, Position, V, b, key, e

\* find_key stops for a key that is not there, and then end() is returned.
THEOREM LookupAbsent ==
  ASSUME NEW m, NEW N, NEW Val, MapOf(m, N, Val), NEW key \in DOMAIN Hash,
         \A p \in DOMAIN m.m_values : m.m_values[p].key # key
  PROVE  ~Contains(m, key)
<1> DEFINE V == m.m_values
           b == m.m_buckets
           h == Hash[key]
<1> SUFFICES ASSUME V # <<>> PROVE ~Holds(m, key, find_key(m, key))
  BY DEF Contains
<1>1. /\ V \in Seq([key : DOMAIN Hash, value : Val]) /\ Table(b, N, EntriesOf(V))
      /\ N \in Nat /\ Len(V) <= N
  BY DEF MapOf
<1>2. N \in Nat \ {0}
  BY <1>1
<1>3. b \in [0 .. N - 1 -> Bucket] /\ bucket_count(b) = N
  <2>1. b \in [0 .. N - 1 -> Bucket]
    BY <1>1 DEF Table
  <2> QED
    BY <1>1, <2>1, CountBuckets
<1>4. h \in Int
  BY HashAssumption
<1> HIDE DEF V, b
<1>5. \A d \in 0 .. N : Probe(m, key, d) \in 0 .. N - 1
  <2>1. \A d \in 0 .. N : (h + d) % N \in 0 .. N - 1
    BY <1>2, <1>4, Places
  <2> QED
    BY <1>3, <2>1 DEF Probe, b
<1>6. ASSUME NEW i \in 0 .. N - 1
      PROVE  ~Holds(m, key, i)
  <2> SUFFICES ASSUME b[i] # Vacant, V[b[i].index + 1].key = key PROVE FALSE
    BY DEF Holds, b, V
  <2>1. b[i] \in EntriesOf(V)
    BY <1>1 DEF Table, Entries
  <2>2. PICK p \in DOMAIN V : b[i] = EntryOf(V, p)
    BY <2>1 DEF EntriesOf
  <2>3. b[i].index + 1 = p
    BY <1>1, <2>2, EntriesTyped
  <2> QED
    BY <2>3 DEF V
<1> DEFINE First(d) == StopsAt(m, key, d) /\ \A c \in 0 .. d - 1 : ~StopsAt(m, key, c)
           stops    == {d \in 0 .. N : StopsAt(m, key, d)}
<1>7. StopsAt(m, key, N)
  <2> DEFINE i == Probe(m, key, N)
  <2>1. i \in 0 .. N - 1
    BY <1>2, <1>5
  <2> HIDE DEF i
  <2>2. b[i] \in Bucket
    BY <1>3, <2>1
  <2>3. Away(N, i, b[i]) \in 0 .. N - 1
    BY <1>2, <2>1, <2>2, AwayRange
  <2>4. N > Away(N, i, b[i])
    BY <1>2, <2>3
  <2>5. Distance(m.m_buckets, i, m.m_buckets[i].hash) = Away(N, i, b[i])
    BY <1>3 DEF Distance, Away, b
  <2> QED
    BY <2>4, <2>5 DEF StopsAt, i
<1>8. \E d \in 0 .. N : First(d)
  <2>1. N \in stops /\ stops \subseteq Nat
    BY <1>2, <1>7
  <2>2. PICK d \in stops : \A c \in stops : d <= c
    <3> HIDE DEF stops
    <3>1. stops # {}
      BY <2>1
    <3> QED
      BY <2>1, <3>1, LeastNat
  <2>3. \A c \in 0 .. d - 1 : c \in 0 .. N /\ ~(d <= c)
    BY <1>2
  <2>4. d \in 0 .. N /\ First(d)
    BY <2>2, <2>3
  <2> HIDE DEF First
  <2> QED
    BY <2>4
<1> DEFINE stop == CHOOSE d \in 0 .. N : First(d)
<1>9. stop \in 0 .. N
  <2> HIDE DEF First
  <2> QED
    BY <1>8
<1>10. find_key(m, key) = Probe(m, key, stop)
  BY <1>3 DEF find_key, b
<1> HIDE DEF stop
<1> QED
  BY <1>5, <1>6, <1>9, <1>10

\* operator[] on a key that is there.
LEMMA UpdateMap ==
  ASSUME NEW m, NEW N, NEW Val, MapOf(m, N, Val), NEW p \in DOMAIN m.m_values,
         NEW value \in Val
  PROVE  LET V == m.m_values
             u == Update(m, V[p].key, value)
         IN  /\ MapOf(u, N, Val)
             /\ u.m_values = [V EXCEPT ![p] = [key |-> V[p].key, value |-> value]]
<1> DEFINE V   == m.m_values
           Row == [key : DOMAIN Hash, value : Val]
           key == V[p].key
           u   == Update(m, key, value)
           W   == [V EXCEPT ![p] = [key |-> key, value |-> value]]
<1>1. /\ V \in Seq(Row) /\ KeysDiffer(V) /\ N \in Nat /\ Table(m.m_buckets, N, EntriesOf(V))
      /\ Len(V) <= N /\ (N > 2 => Len(V) < N)
      /\ m = [m_values |-> V, m_buckets |-> m.m_buckets]
  BY DEF MapOf
<1>2. V[p] \in Row
  <2> HIDE DEF Row, V
  <2> QED
    BY <1>1 DEF V
<1>3. V[p] = [key |-> key, value |-> V[p].value] /\ key \in DOMAIN Hash
  BY <1>2
<1>4. Position(m, key) = p
  BY LookupPresent
<1>5. u.m_values = [V EXCEPT ![p].value = value] /\ u.m_buckets = m.m_buckets
      /\ u = [m_values |-> u.m_values, m_buckets |-> u.m_buckets]
  <2> HIDE DEF key
  <2>1. u = [m EXCEPT !.m_values[p].value = value]
    BY <1>4 DEF Update
  <2> HIDE DEF u
  <2> QED
    BY <1>1, <2>1
<1> HIDE DEF u
<1>6. [V EXCEPT ![p].value = value] = W
  <2>1. [V[p] EXCEPT !.value = value] = [key |-> key, value |-> value]
    <3> HIDE DEF V, key
    <3> QED
      BY <1>3
  <2> QED
    BY <2>1, Zenon
<1> HIDE DEF V, key
<1>7. W \in Seq(Row) /\ Len(W) = Len(V) /\ DOMAIN W = DOMAIN V
  <2>1. [key |-> key, value |-> value] \in Row
    BY <1>3
  <2> HIDE DEF Row
  <2> QED
    BY <1>1, <2>1
<1>8. \A q \in DOMAIN V : W[q].key = V[q].key
  <2>1. W[p].key = V[p].key
    BY DEF V, key
  <2> QED
    BY <2>1
<1> HIDE DEF W
<1>9. KeysDiffer(W)
  BY <1>1, <1>7, <1>8 DEF KeysDiffer
<1>10. EntriesOf(W) = EntriesOf(V)
  <2>1. \A q \in DOMAIN V : EntryOf(W, q) = EntryOf(V, q)
    BY <1>8 DEF EntryOf
  <2> QED
    BY <1>7, <2>1 DEF EntriesOf
<1>11. MapOf(u, N, Val)
  BY <1>1, <1>5, <1>6, <1>7, <1>9, <1>10 DEF MapOf
<1> QED
  BY <1>5, <1>6, <1>11 DEF u, W, V, key

\* There are no more bucket entries than values.
LEMMA CountEntries ==
  ASSUME NEW Val, NEW V \in Seq([key : DOMAIN Hash, value : Val])
  PROVE  /\ IsFiniteSet(EntriesOf(V)) /\ Cardinality(EntriesOf(V)) \in Nat
         /\ Cardinality(EntriesOf(V)) <= Len(V)
<1>1. DOMAIN V = 1 .. Len(V) /\ Len(V) \in Nat
  OBVIOUS
<1> DEFINE T == 1 .. Len(V)
           f == [p \in T |-> EntryOf(V, p)]
<1>2. f \in Surjection(T, EntriesOf(V))
  <2>1. EntriesOf(V) = {EntryOf(V, p) : p \in T}
    BY <1>1 DEF EntriesOf
  <2> HIDE DEF T
  <2>2. f \in [T -> EntriesOf(V)] /\ \A e \in EntriesOf(V) : \E i \in T : f[i] = e
    BY <2>1
  <2> QED
    BY <2>2, Fun_IsSurj
<1>3. IsFiniteSet(T) /\ Cardinality(T) = Len(V)
  BY <1>1, FirstNumbers
<1> HIDE DEF T, f
<1>4. IsFiniteSet(EntriesOf(V)) /\ Cardinality(EntriesOf(V)) <= Cardinality(T)
  BY <1>2, <1>3, FS_Surjection
<1> QED
  BY <1>3, <1>4, FS_CardinalityType

\* The map at the start.
LEMMA EmptyMapIs ==
  ASSUME NEW Val
  PROVE  MapOf(EmptyMap, 0, Val)
<1> DEFINE Row == [key : DOMAIN Hash, value : Val]
<1>1. <<>> \in [0 .. 0 - 1 -> Bucket]
  <2>1. 0 .. 0 - 1 = {}
    OBVIOUS
  <2>2. DOMAIN <<>> = {} /\ <<>> = [i \in {} |-> <<>>[i]]
    OBVIOUS
  <2>3. [i \in {} |-> <<>>[i]] \in [{} -> Bucket]
    OBVIOUS
  <2> QED
    BY <2>1, <2>2, <2>3, Zenon
<1>2. 0 .. 0 - 1 = {}
  OBVIOUS
<1>3. EntriesOf(<<>>) = {} /\ KeysDiffer(<<>>)
  <2>1. DOMAIN <<>> = {}
    OBVIOUS
  <2> QED
    BY <2>1 DEF EntriesOf, KeysDiffer
<1>4. Table(<<>>, 0, {})
  BY <1>1, <1>2, Zenon DEF Table, Entries, Robin
<1>5. <<>> \in Seq(Row) /\ Len(<<>>) = 0
  OBVIOUS
<1>6. EmptyMap.m_values = <<>> /\ EmptyMap.m_buckets = <<>>
      /\ EmptyMap = [m_values |-> EmptyMap.m_values, m_buckets |-> EmptyMap.m_buckets]
  BY DEF EmptyMap
<1>7. 0 \in Nat /\ 0 <= 0 /\ ~(0 > 2)
  OBVIOUS
<1> QED
  BY <1>3, <1>4, <1>5, <1>6, <1>7 DEF MapOf

\* operator[] on a key that is not there.
THEOREM InsertMap ==
  ASSUME NEW m, NEW N, NEW Val, MapOf(m, N, Val), NEW key \in DOMAIN Hash, NEW value \in Val,
         \A p \in DOMAIN m.m_values : m.m_values[p].key # key
  PROVE  LET u == Insert(m, key, value)
         IN  /\ \E M : MapOf(u, M, Val)
             /\ u.m_values = Append(m.m_values, [key |-> key, value |-> value])
<1> DEFINE V   == m.m_values
           b   == m.m_buckets
           Row == [key : DOMAIN Hash, value : Val]
           row == [key |-> key, value |-> value]
           u   == Insert(m, key, value)
           W   == Append(V, row)
           e   == [index |-> Len(V), hash |-> Hash[key]]
           g   == grow_on_high_load(m)
<1>1. /\ V \in Seq(Row) /\ KeysDiffer(V) /\ N \in Nat /\ Table(b, N, EntriesOf(V))
      /\ Len(V) <= N /\ (N > 2 => Len(V) < N)
  BY DEF MapOf
<1>2. bucket_count(b) = N
  <2>1. b \in [0 .. N - 1 -> Bucket]
    BY <1>1 DEF Table
  <2> QED
    BY <1>1, <2>1, CountBuckets
<1>3. u.m_values = W /\ u.m_buckets = insert_index(g, e)
      /\ u = [m_values |-> u.m_values, m_buckets |-> u.m_buckets]
  BY DEF Insert
<1> HIDE DEF u
<1>4. row \in Row
  OBVIOUS
<1>5. W \in Seq(Row) /\ Len(W) = Len(V) + 1 /\ DOMAIN W = DOMAIN V \cup {Len(V) + 1}
      /\ W[Len(V) + 1] = row /\ \A p \in DOMAIN V : W[p] = V[p]
  <2> HIDE DEF Row, row
  <2>1. Len(V) \in Nat
    BY <1>1
  <2>2. W \in Seq(Row) /\ Len(W) = Len(V) + 1
    BY <1>1, <1>4
  <2>3. DOMAIN W = 1 .. Len(V) + 1 /\ DOMAIN V = 1 .. Len(V)
    BY <1>1, <2>2
  <2>4. 1 .. Len(V) + 1 = (1 .. Len(V)) \cup {Len(V) + 1}
    BY <2>1
  <2> QED
    BY <1>1, <1>4, <2>1, <2>2, <2>3, <2>4
<1>6. row.key = key
  OBVIOUS
<1> HIDE DEF V, b, row, W
<1>7. Len(V) \in Nat /\ DOMAIN V = 1 .. Len(V)
  BY <1>1
<1>8. KeysDiffer(W)
  <2>1. \A p \in DOMAIN V : V[p].key # key
    BY DEF V
  <2> QED
    BY <1>1, <1>5, <1>6, <2>1 DEF KeysDiffer
<1>9. /\ EntryOf(W, Len(V) + 1) = e
      /\ \A p \in DOMAIN V : EntryOf(W, p) = EntryOf(V, p)
  <2>1. (Len(V) + 1) - 1 = Len(V)
    BY <1>7
  <2> QED
    BY <1>5, <1>6, <2>1 DEF EntryOf
<1>10. EntriesOf(W) = EntriesOf(V) \cup {e}
  <2> HIDE DEF e
  <2> QED
    BY <1>5, <1>9 DEF EntriesOf
<1>11. e \in Bucket /\ e # Vacant
  <2>1. Len(V) + 1 \in DOMAIN W
    BY <1>5
  <2> HIDE DEF e
  <2>2. \A p \in DOMAIN W : EntryOf(W, p) \in Bucket /\ EntryOf(W, p) # Vacant
    BY <1>5, EntriesTyped
  <2> QED
    BY <1>9, <2>1, <2>2
<1>12. e \notin EntriesOf(V)
  <2>1. \A p \in DOMAIN V : Len(V) + 1 # p
    BY <1>7
  <2> HIDE DEF e
  <2>3. \A p, q \in DOMAIN W : EntryOf(W, p) = EntryOf(W, q) => p = q
    BY <1>5, EntriesTyped
  <2>2. \A p \in DOMAIN V : EntryOf(W, p) # e
    BY <1>5, <1>9, <2>1, <2>3
  <2> QED
    BY <1>9, <2>2 DEF EntriesOf
<1> HIDE DEF e
<1> DEFINE M == IF Len(V) >= (3 * N) \div 4 THEN IF N = 0 THEN 1 ELSE 2 * N ELSE N
<1>13. /\ M \in Nat \ {0} /\ Len(V) + 1 <= M /\ (M > 2 => Len(V) + 1 < M)
  <2>1. (3 * N) \div 4 \in Int /\ 4 * ((3 * N) \div 4) <= 3 * N /\ 3 * N < 4 * ((3 * N) \div 4) + 4
    BY <1>1, SMT
  <2> DEFINE q == (3 * N) \div 4
  <2> HIDE DEF q
  <2>2. q \in Int /\ 4 * q <= 3 * N /\ 3 * N < 4 * q + 4
    BY <2>1 DEF q
  <2>3. M = IF Len(V) >= q THEN IF N = 0 THEN 1 ELSE 2 * N ELSE N
    BY DEF q
  <2> HIDE DEF M
  <2> QED
    BY <1>1, <1>7, <2>2, <2>3
<1>14. Table(g, M, EntriesOf(V))
  <2>1. CASE Len(V) >= (3 * N) \div 4
    <3>1. g = rehash_impl(b, M)
      BY <1>2, <2>1 DEF grow_on_high_load, V, b
    <3>2. M > N
      BY <1>1, <2>1
    <3> HIDE DEF M, g
    <3> QED
      BY <1>1, <1>13, <3>1, <3>2, RehashTable
  <2>2. CASE ~(Len(V) >= (3 * N) \div 4)
    <3>1. g = b
      BY <1>2, <2>2 DEF grow_on_high_load, V, b
    <3> HIDE DEF g
    <3> QED
      BY <1>1, <2>2, <3>1
  <2> QED
    BY <2>1, <2>2
<1> HIDE DEF M, g
<1>15. PICK v \in 0 .. M - 1 : g[v] = Vacant
  <2>1. /\ IsFiniteSet(EntriesOf(V)) /\ Cardinality(EntriesOf(V)) \in Nat
        /\ Cardinality(EntriesOf(V)) <= Len(V)
    BY <1>1, CountEntries
  <2>2. Cardinality(EntriesOf(V)) < M
    BY <1>7, <1>13, <2>1
  <2> QED
    BY <1>13, <1>14, <2>1, <2>2, VacantBucket
<1>16. Table(insert_index(g, e), M, EntriesOf(W))
  BY <1>10, <1>11, <1>12, <1>13, <1>14, <1>15, InsertTable
<1>17. MapOf(u, M, Val)
  BY <1>3, <1>5, <1>7, <1>8, <1>13, <1>16 DEF MapOf
<1> QED
  BY <1>3, <1>17 DEF u, W, V, row

\* The run of entries behind a hole ends after length steps, and they move back.
ShiftRun(b, N, hole, length, z) ==
    LET After(d) == (hole + d) % N
    IN  /\ length \in 1 .. N
        /\ b[After(length)] # Vacant => Away(N, After(length), b[After(length)]) = 0
        /\ \A d \in 1 .. length - 1 :
              b[After(d)] # Vacant /\ Away(N, After(d), b[After(d)]) # 0
        /\ z \in [0 .. N - 1 -> Bucket]
        /\ \A d \in 0 .. N - 1 :
              z[After(d)] = IF d >= length THEN b[After(d)]
                            ELSE IF d = length - 1 THEN Vacant ELSE b[After(d + 1)]

\* backward_shift finds the end of the run behind the hole.
LEMMA ShiftLoop ==
  ASSUME NEW N \in Nat \ {0}, NEW b \in [0 .. N - 1 -> Bucket], NEW hole \in 0 .. N - 1,
         b[hole] = Vacant
  PROVE  \E length : ShiftRun(b, N, hole, length, backward_shift(b, hole))
<1> DEFINE After(d) == (hole + d) % N
           Ends(d)  == LET e == b[After(d)] IN e = Vacant \/ Distance(b, After(d), e.hash) = 0
           First(d) == Ends(d) /\ \A c \in 1 .. d - 1 : ~Ends(c)
           length   == CHOOSE d \in 1 .. N : First(d)
           ends     == {d \in 1 .. N : Ends(d)}
           Shifted(i, d) == IF d >= length THEN b[i]
                            ELSE IF d = length - 1 THEN Vacant ELSE b[After(d + 1)]
           z == [i \in 0 .. N - 1 |-> Shifted(i, (i - hole) % N)]
<1>1. bucket_count(b) = N /\ DOMAIN b = 0 .. N - 1
  BY CountBuckets
<1>2. backward_shift(b, hole) = z
  BY <1>1, Zenon DEF backward_shift
<1>3. hole \in Int
  OBVIOUS
<1>4. /\ \A n \in 0 .. N : After(n) \in 0 .. N - 1
      /\ \A d \in 0 .. N - 1 : (After(d) - hole) % N = d
      /\ \A i \in 0 .. N - 1 : (i - hole) % N \in 0 .. N - 1
  <2>1. \A n \in 0 .. N : After(n) \in 0 .. N - 1
    BY <1>3, Places
  <2>2. \A d \in 0 .. N - 1 : (After(d) - hole) % N = d
    BY <1>3, Circle
  <2>3. \A i \in 0 .. N - 1 : i \in Int
    OBVIOUS
  <2>4. \A i \in 0 .. N - 1 : (i - hole) % N \in 0 .. N - 1
    BY <1>3, <2>3, Circle
  <2> QED
    BY <2>1, <2>2, <2>4, Zenon
<1>5. After(N) = hole
  BY RemainderUnique
<1>6. \E d \in 1 .. N : First(d)
  <2>1. Ends(N)
    BY <1>5
  <2> HIDE DEF Ends
  <2>2. N \in ends /\ ends \subseteq Nat
    BY <2>1
  <2>3. PICK d \in ends : \A c \in ends : d <= c
    <3> HIDE DEF ends
    <3>1. ends # {}
      BY <2>2
    <3> QED
      BY <2>2, <3>1, LeastNat
  <2>4. \A c \in 1 .. d - 1 : c \in 1 .. N /\ ~(d <= c)
    BY <2>2
  <2>5. d \in 1 .. N /\ First(d)
    BY <2>3, <2>4
  <2> HIDE DEF First
  <2> QED
    BY <2>5
<1>7. length \in 1 .. N /\ First(length)
  <2> HIDE DEF First
  <2> QED
    BY <1>6
<1> HIDE DEF length
<1>8. ASSUME NEW i \in 0 .. N - 1
      PROVE  Distance(b, i, b[i].hash) = Away(N, i, b[i])
  BY <1>1 DEF Distance, Away
<1> HIDE DEF After
<1>9. /\ b[After(length)] # Vacant => Away(N, After(length), b[After(length)]) = 0
      /\ \A d \in 1 .. length - 1 :
            b[After(d)] # Vacant /\ Away(N, After(d), b[After(d)]) # 0
  <2>1. \A d \in 1 .. N : Ends(d) <=> (b[After(d)] = Vacant \/ Away(N, After(d), b[After(d)]) = 0)
    <3>1. \A d \in 1 .. N : d \in 0 .. N
      OBVIOUS
    <3> QED
      BY <1>4, <1>8, <3>1
  <2>2. \A d \in 1 .. length - 1 : d \in 1 .. N
    BY <1>7
  <2> HIDE DEF Ends
  <2> QED
    BY <1>7, <2>1, <2>2
<1>10. z \in [0 .. N - 1 -> Bucket]
  <2> SUFFICES ASSUME NEW i \in 0 .. N - 1 PROVE Shifted(i, (i - hole) % N) \in Bucket
    BY Zenon
  <2> DEFINE d == (i - hole) % N
  <2>1. d \in 0 .. N - 1
    BY <1>4
  <2> HIDE DEF d
  <2>2. Vacant \in Bucket
    BY DEF Vacant, Bucket
  <2>3. d < length => After(d + 1) \in 0 .. N - 1
    <3>1. d + 1 \in 0 .. N
      BY <2>1
    <3> QED
      BY <1>4, <3>1
  <2>4. Shifted(i, d) \in Bucket
    BY <1>7, <2>1, <2>2, <2>3
  <2> QED
    BY <2>4 DEF d
<1>11. \A d \in 0 .. N - 1 : z[After(d)] = Shifted(After(d), d)
  <2>1. \A d \in 0 .. N - 1 : After(d) \in 0 .. N - 1 /\ (After(d) - hole) % N = d
    <3>1. \A d \in 0 .. N - 1 : d \in 0 .. N
      OBVIOUS
    <3> QED
      BY <1>4, <3>1
  <2> HIDE DEF Shifted
  <2> QED
    BY <2>1, Zenon
<1>12. ShiftRun(b, N, hole, length, z)
  <2> HIDE DEF z
  <2> QED
    BY <1>7, <1>9, <1>10, <1>11, Zenon DEF ShiftRun, After
<1> QED
  BY <1>2, <1>12

\* An erase leaves the buckets in order, provided that one more of them is vacant.
LEMMA ShiftTable ==
  ASSUME NEW N \in Nat \ {0}, NEW c, NEW E, Table(c, N, E),
         NEW hole \in 0 .. N - 1, c[hole] # Vacant,
         N > 2 => \E v \in 0 .. N - 1 : c[v] = Vacant
  PROVE  Table(backward_shift([c EXCEPT ![hole] = Vacant], hole), N, E \ {c[hole]})
<1> DEFINE b == [c EXCEPT ![hole] = Vacant]
           y == c[hole]
           z == backward_shift(b, hole)
           After(d) == (hole + d) % N
<1>1. /\ c \in [0 .. N - 1 -> Bucket] /\ Entries(c, N) = E
      /\ \A i, k \in 0 .. N - 1 : c[i] = c[k] /\ c[i] # Vacant => i = k
      /\ Robin(c, N)
  BY DEF Table
<1>2. /\ b \in [0 .. N - 1 -> Bucket] /\ b[hole] = Vacant
      /\ \A i \in 0 .. N - 1 : i # hole => b[i] = c[i]
  <2>1. Vacant \in Bucket
    BY DEF Vacant, Bucket
  <2> QED
    BY <1>1, <2>1
<1> HIDE DEF b, y, z
<1>3. PICK length : ShiftRun(b, N, hole, length, z)
  BY <1>2, ShiftLoop DEF z
<1>4. /\ length \in 1 .. N
      /\ b[After(length)] # Vacant => Away(N, After(length), b[After(length)]) = 0
      /\ \A d \in 1 .. length - 1 :
            b[After(d)] # Vacant /\ Away(N, After(d), b[After(d)]) # 0
      /\ z \in [0 .. N - 1 -> Bucket]
      /\ \A d \in 0 .. N - 1 :
            z[After(d)] = IF d >= length THEN b[After(d)]
                          ELSE IF d = length - 1 THEN Vacant ELSE b[After(d + 1)]
  BY <1>3 DEF ShiftRun
<1>5. hole \in Int
  OBVIOUS
<1>6. /\ \A n \in 0 .. N : After(n) \in 0 .. N - 1
      /\ \A n, k \in 0 .. N - 1 : After(n) = After(k) => n = k
      /\ \A d \in 0 .. N - 1 : (After(d) + 1) % N = After(d + 1)
  BY <1>5, Places, Zenon
<1>7. /\ After(0) = hole /\ After(N) = hole
      /\ \A i \in 0 .. N - 1 : \E d \in 0 .. N - 1 : After(d) = i
  <2>1. After(0) = hole
    BY RemainderUnique
  <2>2. After(N) = hole
    BY RemainderUnique
  <2>3. \A i \in 0 .. N - 1 : (i - hole) % N \in 0 .. N - 1 /\ (hole + ((i - hole) % N)) % N = i
    <3>1. \A i \in 0 .. N - 1 : i \in Int
      OBVIOUS
    <3> QED
      BY <1>5, <3>1, Circle
  <2> QED
    BY <2>1, <2>2, <2>3, Zenon
<1> HIDE DEF After
<1>8. \A d \in 1 .. N - 1 : /\ After(d) # hole /\ After(d) \in 0 .. N - 1
                             /\ b[After(d)] = c[After(d)]
  <2>1. \A d \in 1 .. N - 1 : d \in 0 .. N - 1 /\ d \in 0 .. N /\ 0 \in 0 .. N - 1 /\ d # 0
    OBVIOUS
  <2>2. \A d \in 1 .. N - 1 : After(d) # hole
    BY <1>6, <1>7, <2>1, Zenon
  <2> QED
    BY <1>2, <1>6, <2>1, <2>2
\* Where the entry that ends up d places behind the hole comes from.
<1> DEFINE From(d) == IF d >= length THEN d ELSE d + 1
<1>9. ASSUME NEW d \in 0 .. N - 1
      PROVE  /\ d = length - 1 => z[After(d)] = Vacant
             /\ d # length - 1 => /\ From(d) \in 1 .. N - 1
                                  /\ z[After(d)] = c[After(From(d))]
  <2>1. d # length - 1 => From(d) \in 1 .. N - 1
    BY <1>4
  <2>2. d # length - 1 => z[After(d)] = b[After(From(d))]
    BY <1>4
  <2>3. d = length - 1 => z[After(d)] = Vacant
    BY <1>4
  <2> HIDE DEF From
  <2> QED
    BY <1>8, <2>1, <2>2, <2>3
<1>10. \A d, k \in 0 .. N - 1 :
          d # length - 1 /\ k # length - 1 /\ From(d) = From(k) => d = k
  BY <1>4
<1>11. \A s \in 1 .. N - 1 : \E d \in 0 .. N - 1 : d # length - 1 /\ From(d) = s
  <2> SUFFICES ASSUME NEW s \in 1 .. N - 1
               PROVE  \E d \in 0 .. N - 1 : d # length - 1 /\ From(d) = s
    OBVIOUS
  <2>1. CASE s >= length
    <3>1. s \in 0 .. N - 1 /\ s # length - 1 /\ From(s) = s
      BY <1>4, <2>1
    <3> HIDE DEF From
    <3> QED
      BY <3>1
  <2>2. CASE s < length
    <3>1. s - 1 \in 0 .. N - 1 /\ s - 1 # length - 1 /\ From(s - 1) = s
      BY <1>4, <2>2
    <3> HIDE DEF From
    <3> QED
      BY <3>1
  <2> QED
    BY <1>4, <2>1, <2>2
<1>12. \A i, k \in 0 .. N - 1 : z[i] = z[k] /\ z[i] # Vacant => i = k
  <2> SUFFICES ASSUME NEW d \in 0 .. N - 1, NEW k \in 0 .. N - 1,
                      z[After(d)] = z[After(k)], z[After(d)] # Vacant
               PROVE  d = k
    BY <1>7
  <2> HIDE DEF From
  <2>1. /\ d # length - 1 /\ k # length - 1
        /\ From(d) \in 1 .. N - 1 /\ From(k) \in 1 .. N - 1
        /\ c[After(From(d))] = c[After(From(k))] /\ c[After(From(d))] # Vacant
    BY <1>9
  <2>2. After(From(d)) = After(From(k))
    BY <1>1, <1>8, <2>1
  <2>3. From(d) \in 0 .. N - 1 /\ From(k) \in 0 .. N - 1
    BY <2>1
  <2> QED
    BY <1>6, <1>10, <2>1, <2>2, <2>3
<1>13. Entries(z, N) = E \ {y}
  <2> HIDE DEF From
  <2>1. ASSUME NEW d \in 0 .. N - 1, z[After(d)] # Vacant
        PROVE  z[After(d)] \in E /\ z[After(d)] # y
    <3>1. From(d) \in 1 .. N - 1 /\ z[After(d)] = c[After(From(d))]
      BY <1>9, <2>1
    <3>2. After(From(d)) \in 0 .. N - 1 /\ After(From(d)) # hole
      BY <1>8, <3>1
    <3> QED
      BY <1>1, <2>1, <3>1, <3>2 DEF Entries, y
  <2>2. ASSUME NEW i \in 0 .. N - 1, c[i] # Vacant, i # hole
        PROVE  \E k \in 0 .. N - 1 : z[k] = c[i]
    <3>1. PICK s \in 0 .. N - 1 : After(s) = i
      BY <1>7
    <3>2. s \in 1 .. N - 1
      BY <1>7, <2>2, <3>1
    <3>3. PICK d \in 0 .. N - 1 : d # length - 1 /\ From(d) = s
      BY <1>11, <3>2
    <3>4. z[After(d)] = c[i] /\ d \in 0 .. N
      BY <1>9, <3>1, <3>3
    <3> QED
      BY <1>6, <3>4
  <2>3. Entries(z, N) \subseteq E \ {y}
    BY <1>7, <2>1 DEF Entries
  <2>4. E \ {y} \subseteq Entries(z, N)
    <3> SUFFICES ASSUME NEW e \in E, e # y PROVE e \in Entries(z, N)
      OBVIOUS
    <3>1. PICK i \in 0 .. N - 1 : c[i] # Vacant /\ e = c[i]
      BY <1>1 DEF Entries
    <3>2. PICK k \in 0 .. N - 1 : z[k] = e
      BY <2>2, <3>1 DEF y
    <3> QED
      BY <3>1, <3>2 DEF Entries
  <2> QED
    BY <2>3, <2>4
\* An entry that moves back is one step closer to its home.
<1>14. \A i \in 0 .. N - 1 : \A e \in Bucket : Away(N, i, e) \in 0 .. N - 1
  BY AwayRange
<1>15. ASSUME NEW d \in 0 .. N - 1, NEW e \in Bucket
       PROVE  /\ Away(N, After(d), e) \in 0 .. N - 1 /\ Away(N, After(d + 1), e) \in 0 .. N - 1
              /\ Away(N, After(d + 1), e) # 0 =>
                    Away(N, After(d), e) = Away(N, After(d + 1), e) - 1
  <2>1. After(d) \in 0 .. N - 1 /\ (After(d) + 1) % N = After(d + 1)
    <3>1. d \in 0 .. N
      OBVIOUS
    <3> QED
      BY <1>6, <3>1
  <2>2. /\ Away(N, After(d), e) \in 0 .. N - 1
        /\ (After(d) + 1) % N \in 0 .. N - 1
        /\ Away(N, (After(d) + 1) % N, e) =
              IF Away(N, After(d), e) = N - 1 THEN 0 ELSE Away(N, After(d), e) + 1
    BY <2>1, AwayRange
  <2> QED
    BY <1>14, <2>1, <2>2
\* What is known of two neighbours of the table before the erase.
<1>16. ASSUME NEW d \in 0 .. N - 1, c[After(d + 1)] # Vacant,
              Away(N, After(d + 1), c[After(d + 1)]) > 0
       PROVE  /\ c[After(d)] # Vacant
              /\ Away(N, After(d), c[After(d)]) >= Away(N, After(d + 1), c[After(d + 1)]) - 1
  <2>1. After(d) \in 0 .. N - 1 /\ After(d + 1) \in 0 .. N - 1 /\ (After(d) + 1) % N = After(d + 1)
    <3>1. d \in 0 .. N /\ d + 1 \in 0 .. N
      OBVIOUS
    <3> QED
      BY <1>6, <3>1
  <2> QED
    BY <1>1, <1>16, <2>1 DEF Robin, Behind
<1>17. ASSUME NEW d \in 0 .. N - 1, NEW q \in 0 .. N - 1,
              IF d = 0 THEN q = N - 1 ELSE q = d - 1,
              z[After(d)] # Vacant, Away(N, After(d), z[After(d)]) > 0
       PROVE  z[After(q)] # Vacant
              /\ Away(N, After(q), z[After(q)]) >= Away(N, After(d), z[After(d)]) - 1
  <2> DEFINE e == z[After(d)]
  <2>1. d # length - 1
    BY <1>9, <1>17
  <2>2. e \in Bucket /\ Away(N, After(d), e) \in 0 .. N - 1
    <3>1. d \in 0 .. N
      OBVIOUS
    <3>2. After(d) \in 0 .. N - 1
      BY <1>6, <3>1
    <3> QED
      BY <1>4, <1>14, <3>2
  <2>3. e # Vacant /\ Away(N, After(d), e) > 0
    BY <1>17
  <2>4. /\ d >= length => e = c[After(d)] /\ e = b[After(d)]
        /\ d < length => d + 1 \in 1 .. length - 1 /\ d + 1 \in 0 .. N - 1
                         /\ e = c[After(d + 1)] /\ e = b[After(d + 1)]
    <3>1. From(d) \in 1 .. N - 1 /\ e = c[After(From(d))]
      BY <1>9, <2>1
    <3>2. b[After(From(d))] = c[After(From(d))]
      BY <1>8, <3>1
    <3>3. /\ d >= length => From(d) = d
          /\ d < length => d + 1 \in 1 .. length - 1 /\ d + 1 \in 0 .. N - 1 /\ From(d) = d + 1
      BY <1>4, <2>1
    <3> HIDE DEF e, From
    <3> QED
      BY <3>1, <3>2, <3>3
  <2> HIDE DEF e
  <2>5. CASE d >= length
    <3>1. d # length
      BY <1>4, <2>3, <2>4, <2>5
    <3>2. d # 0 /\ q = d - 1 /\ q # length - 1 /\ From(q) = q /\ q + 1 = d
      BY <1>4, <1>17, <2>5, <3>1
    <3>3. z[After(q)] = c[After(q)]
      BY <1>9, <3>2
    <3>4. c[After(q)] # Vacant /\ Away(N, After(q), c[After(q)]) >= Away(N, After(d), e) - 1
      BY <1>16, <2>3, <2>4, <2>5, <3>2
    <3> QED
      BY <3>3, <3>4 DEF e
  <2>6. CASE d < length
    <3>1. /\ Away(N, After(d + 1), e) \in 0 .. N - 1
          /\ Away(N, After(d), e) = Away(N, After(d + 1), e) - 1
      <4>1. Away(N, After(d + 1), e) # 0
        BY <1>4, <2>4, <2>6
      <4> QED
        BY <1>15, <2>2, <4>1
    <3>2. /\ c[After(d)] # Vacant
          /\ Away(N, After(d), c[After(d)]) >= Away(N, After(d + 1), e) - 1
      <4>1. c[After(d + 1)] # Vacant /\ Away(N, After(d + 1), c[After(d + 1)]) > 0
        BY <2>2, <2>3, <2>4, <2>6, <3>1
      <4> QED
        BY <1>16, <2>4, <2>6, <4>1
    <3>3. CASE d # 0
      <4>1. /\ q = d - 1 /\ q + 1 = d /\ q # length - 1 /\ From(q) = d /\ d \in 1 .. length - 1
            /\ d \in 1 .. N - 1
        BY <1>4, <1>17, <2>4, <2>6, <3>3
      <4>2. z[After(q)] = c[After(d)] /\ b[After(d)] = c[After(d)]
        BY <1>8, <1>9, <4>1
      <4>3. Away(N, After(d), c[After(d)]) # 0
        BY <1>4, <4>1, <4>2
      <4>4. c[After(d)] \in Bucket
        BY <1>1, <1>8, <4>1
      <4>5. /\ Away(N, After(q), c[After(d)]) = Away(N, After(d), c[After(d)]) - 1
            /\ Away(N, After(d), c[After(d)]) \in 0 .. N - 1
        BY <1>15, <4>1, <4>3, <4>4
      <4> QED
        BY <2>2, <3>1, <3>2, <4>2, <4>5 DEF e
    <3>4. CASE d = 0
      <4>1. q = N - 1 /\ q + 1 = N
        BY <1>17, <3>4
      <4>2. c[hole] # Vacant /\ Away(N, hole, c[hole]) >= Away(N, After(d + 1), e) - 1
        BY <1>7, <3>2, <3>4
      <4>3. c[hole] \in Bucket /\ Away(N, hole, c[hole]) \in 0 .. N - 1
        BY <1>1, <1>14
      <4>4. Away(N, hole, c[hole]) > 0
        BY <2>2, <2>3, <3>1, <4>2, <4>3
      <4>5. c[After(q)] # Vacant /\ Away(N, After(q), c[After(q)]) >= Away(N, hole, c[hole]) - 1
        BY <1>7, <1>16, <4>1, <4>2, <4>4
      <4>6. length # N
        <5>1. SUFFICES ASSUME length = N PROVE FALSE
          OBVIOUS
        <5>2. N > 2
          BY <2>2, <2>3, <3>1
        <5>3. PICK v \in 0 .. N - 1 : c[v] = Vacant
          BY <5>2
        <5>4. PICK s \in 0 .. N - 1 : After(s) = v
          BY <1>7
        <5>5. s \in 1 .. N - 1
          BY <1>7, <4>2, <5>3, <5>4
        <5>6. b[After(s)] = Vacant
          BY <1>8, <5>3, <5>4, <5>5
        <5> QED
          BY <1>4, <5>1, <5>5, <5>6
      <4>7. q # length - 1 /\ From(q) = q
        BY <1>4, <4>1, <4>6
      <4>8. z[After(q)] = c[After(q)]
        BY <1>9, <4>7
      <4>9. Away(N, After(q), c[After(q)]) \in Int /\ Away(N, After(d), e) \in Int
        <5>1. c[After(q)] \in Bucket /\ After(q) \in 0 .. N - 1
          <6>1. q \in 0 .. N
            OBVIOUS
          <6> QED
            BY <1>1, <1>6, <6>1
        <5>2. Away(N, After(q), c[After(q)]) \in 0 .. N - 1
          BY <1>14, <5>1
        <5> QED
          BY <2>2, <5>2
      <4> QED
        BY <3>1, <4>2, <4>3, <4>5, <4>8, <4>9 DEF e
    <3> QED
      BY <3>3, <3>4
  <2> QED
    BY <1>4, <2>5, <2>6
<1>18. Robin(z, N)
  <2> SUFFICES ASSUME NEW i \in 0 .. N - 1, z[i] # Vacant, NEW p \in 0 .. N - 1,
                      (p + 1) % N = i, Away(N, i, z[i]) > 0
               PROVE  z[p] # Vacant /\ Away(N, p, z[p]) >= Away(N, i, z[i]) - 1
    BY DEF Robin, Behind
  <2>1. PICK q \in 0 .. N - 1 : After(q) = p
    BY <1>7
  <2>2. PICK d \in 0 .. N - 1 : After(d) = i
    BY <1>7
  <2>3. After(q + 1) = i
    BY <1>6, <2>1
  <2>4. IF d = 0 THEN q = N - 1 ELSE q = d - 1
    <3>1. CASE q = N - 1
      <4>1. After(0) = After(d) /\ 0 \in 0 .. N - 1
        BY <1>7, <2>2, <2>3, <3>1
      <4>2. d = 0
        BY <1>6, <4>1
      <4> QED
        BY <3>1, <4>2
    <3>2. CASE q # N - 1
      <4>1. q + 1 \in 0 .. N - 1
        BY <3>2
      <4>2. d = q + 1
        BY <1>6, <2>2, <2>3, <4>1
      <4> QED
        BY <4>2
    <3> QED
      BY <3>1, <3>2
  <2> QED
    BY <1>17, <2>1, <2>2, <2>4
<1> QED
  BY <1>4, <1>12, <1>13, <1>18, Zenon DEF Table, z, b, y

\* The entries of a table can be renumbered where they stand.
Renumbers(b, c, N) ==
    /\ c \in [0 .. N - 1 -> Bucket]
    /\ \A i \in 0 .. N - 1 : (b[i] # Vacant <=> c[i] # Vacant) /\ c[i].hash = b[i].hash
    /\ \A i, k \in 0 .. N - 1 : c[i] = c[k] /\ c[i] # Vacant => i = k

\* Other positions in the same buckets leave a table a table.
LEMMA RenumberTable ==
  ASSUME NEW N \in Nat, NEW b, NEW E, Table(b, N, E), NEW c, Renumbers(b, c, N)
  PROVE  Table(c, N, Entries(c, N))
<1>1. \A i \in 0 .. N - 1 : Away(N, i, c[i]) = Away(N, i, b[i])
  BY DEF Away, Renumbers
<1>2. Robin(b, N)
  BY DEF Table
<1>3. Robin(c, N)
  BY <1>1, <1>2 DEF Robin, Behind, Renumbers
<1> QED
  BY <1>3 DEF Table, Renumbers

\* erase(key).
LEMMA EraseAbsent ==
  ASSUME NEW m, NEW N, NEW Val, MapOf(m, N, Val), NEW key \in DOMAIN Hash,
         \A p \in DOMAIN m.m_values : m.m_values[p].key # key
  PROVE  EraseKey(m, key) = m
BY LookupAbsent DEF EraseKey

\* erase takes out one value; the others keep their order and their buckets are found.
THEOREM EraseMap ==
  ASSUME NEW m, NEW N, NEW Val, MapOf(m, N, Val), NEW p \in DOMAIN m.m_values
  PROVE  LET u == EraseKey(m, m.m_values[p].key)
         IN  /\ MapOf(u, N, Val)
             /\ u.m_values = SeqX!RemoveAt(m.m_values, p)
<1> DEFINE V   == m.m_values
           b   == m.m_buckets
           Row == [key : DOMAIN Hash, value : Val]
           key == V[p].key
           u   == EraseKey(m, key)
           W   == SeqX!RemoveAt(V, p)
           i   == find_key(m, key)
           y   == [index |-> Len(V) - 1, hash |-> Hash[key]]
           s   == shift_indexes_in_buckets(b, p - 1)
           c   == [s EXCEPT ![i] = y]
           New(q) == IF q < p THEN q ELSE IF q > p THEN q - 1 ELSE Len(V)
<1>1. /\ V \in Seq(Row) /\ KeysDiffer(V) /\ N \in Nat /\ Table(b, N, EntriesOf(V))
      /\ Len(V) <= N /\ (N > 2 => Len(V) < N)
  BY DEF MapOf
<1>2. /\ i \in 0 .. N - 1 /\ b[i] = EntryOf(V, p) /\ Contains(m, key)
  BY LookupPresent
<1>3. /\ N \in Nat \ {0} /\ DOMAIN V = 1 .. Len(V) /\ Len(V) \in Nat \ {0} /\ p \in 1 .. Len(V)
  <2> HIDE DEF V
  <2> QED
    BY <1>1 DEF V
<1> HIDE DEF Row, V, b, i, key
<1>4. /\ u.m_values = W
      /\ u.m_buckets = backward_shift([s EXCEPT ![i] = Vacant], i)
      /\ u = [m_values |-> u.m_values, m_buckets |-> u.m_buckets]
  <2>1. b[i].index = p - 1 /\ (p - 1) + 1 = p
    BY <1>2, <1>3 DEF EntryOf
  <2>2. u = [m_values |-> SeqX!RemoveAt(V, (p - 1) + 1),
             m_buckets |-> backward_shift([s EXCEPT ![i] = Vacant], i)]
    BY <1>2, <2>1 DEF EraseKey, V, b, i
  <2> HIDE DEF u
  <2> QED
    BY <2>1, <2>2
<1> HIDE DEF u
<1>5. /\ W \in Seq(Row) /\ Len(W) = Len(V) - 1 /\ DOMAIN W = 1 .. Len(V) - 1
      /\ \A k \in 1 .. Len(V) - 1 : W[k] = IF k < p THEN V[k] ELSE V[k + 1]
  <2>1. W \in Seq(Row) /\ Len(W) = Len(V) - 1
    BY <1>1, <1>3, RemoveAtIs
  <2>2. \A k \in 1 .. Len(V) - 1 : W[k] = IF k < p THEN V[k] ELSE V[k + 1]
    BY <1>1, <1>3, RemoveAtIs
  <2> HIDE DEF W
  <2> QED
    BY <2>1, <2>2
<1> HIDE DEF W
<1>6. KeysDiffer(W)
  <2> SUFFICES ASSUME NEW k \in 1 .. Len(V) - 1, NEW l \in 1 .. Len(V) - 1,
                      W[k].key = W[l].key
               PROVE  k = l
    BY <1>5 DEF KeysDiffer
  <2> DEFINE K(x) == IF x < p THEN x ELSE x + 1
  <2>1. K(k) \in DOMAIN V /\ K(l) \in DOMAIN V /\ (K(k) = K(l) => k = l)
    BY <1>3
  <2>2. W[k] = V[K(k)] /\ W[l] = V[K(l)]
    BY <1>5
  <2> HIDE DEF K
  <2> QED
    BY <1>1, <2>1, <2>2 DEF KeysDiffer
<1>7. /\ b \in [0 .. N - 1 -> Bucket]
      /\ \A k, l \in 0 .. N - 1 : b[k] = b[l] /\ b[k] # Vacant => k = l
  BY <1>1 DEF Table
<1>21. \A k \in 0 .. N - 1 : b[k] # Vacant => \E q \in DOMAIN V : b[k] = EntryOf(V, q)
  BY <1>1 DEF Table, Entries, EntriesOf
<1>22. \A q \in DOMAIN V : \E k \in 0 .. N - 1 : b[k] # Vacant /\ b[k] = EntryOf(V, q)
  BY <1>1 DEF Table, Entries, EntriesOf
<1>8. /\ \A q \in DOMAIN V : /\ EntryOf(V, q) \in Bucket /\ EntryOf(V, q) # Vacant
                             /\ EntryOf(V, q).index + 1 = q
                             /\ EntryOf(V, q).index \in Int
      /\ \A q, r \in DOMAIN V : EntryOf(V, q) = EntryOf(V, r) => q = r
  <2>1. /\ \A q \in DOMAIN V : /\ EntryOf(V, q) \in Bucket /\ EntryOf(V, q) # Vacant
                               /\ EntryOf(V, q).index + 1 = q
        /\ \A q, r \in DOMAIN V : EntryOf(V, q) = EntryOf(V, r) => q = r
    BY <1>1, EntriesTyped DEF Row
  <2> QED
    BY <2>1 DEF Bucket
\* The bucket of V[q] with its new position.
<1> DEFINE Moved(q) == [index |-> New(q) - 1, hash |-> Hash[V[q].key]]
<1>9. \A q \in DOMAIN V : /\ New(q) \in 1 .. Len(V) /\ Moved(q) \in Bucket /\ Moved(q) # Vacant
                          /\ Moved(q).index + 1 = New(q)
                          /\ Moved(q).hash = EntryOf(V, q).hash
  <2> SUFFICES ASSUME NEW q \in DOMAIN V
               PROVE  /\ New(q) \in 1 .. Len(V) /\ Moved(q) \in Bucket /\ Moved(q) # Vacant
                      /\ Moved(q).index + 1 = New(q)
                      /\ Moved(q).hash = EntryOf(V, q).hash
    OBVIOUS
  <2>1. New(q) \in 1 .. Len(V)
    BY <1>3
  <2> HIDE DEF New
  <2>2. EntryOf(V, q).hash = Hash[V[q].key] /\ EntryOf(V, q) \in Bucket
    BY <1>8 DEF EntryOf
  <2>3. Hash[V[q].key] \in Nat
    BY <2>2 DEF Bucket
  <2>4. Vacant.index = -1
    BY DEF Vacant
  <2> QED
    BY <2>1, <2>2, <2>3, <2>4 DEF Bucket
<1>10. \A q, r \in DOMAIN V : New(q) = New(r) => q = r
  BY <1>3
<1>11. ASSUME NEW k \in 0 .. N - 1, NEW q \in DOMAIN V, b[k] = EntryOf(V, q)
       PROVE  c[k] = Moved(q)
  <2>1. q = p <=> k = i
    BY <1>2, <1>3, <1>7, <1>8, <1>11
  <2>2. CASE q = p
    <3>1. c[k] = y
      BY <1>7, <2>1, <2>2 DEF shift_indexes_in_buckets
    <3>2. New(q) = Len(V)
      BY <1>3, <2>2
    <3> QED
      BY <2>2, <3>1, <3>2 DEF key
  <2>3. CASE q # p
    <3>1. c[k] = IF b[k].index > p - 1 THEN [b[k] EXCEPT !.index = @ - 1] ELSE b[k]
      BY <1>7, <2>1, <2>3 DEF shift_indexes_in_buckets
    <3>2. b[k] = [index |-> q - 1, hash |-> Hash[V[q].key]]
      BY <1>11 DEF EntryOf
    <3>3. q \in Nat /\ p \in Nat
      BY <1>3
    <3>4. CASE q > p
      <4>1. q - 1 > p - 1 /\ New(q) - 1 = (q - 1) - 1
        BY <2>3, <3>3, <3>4
      <4>2. c[k] = [index |-> (q - 1) - 1, hash |-> Hash[V[q].key]]
        BY <3>1, <3>2, <4>1
      <4> QED
        BY <4>1, <4>2
    <3>5. CASE q < p
      <4>1. ~(q - 1 > p - 1) /\ New(q) = q
        BY <2>3, <3>3, <3>5
      <4>2. c[k] = b[k]
        BY <3>1, <3>2, <4>1
      <4> QED
        BY <3>2, <4>1, <4>2
    <3> QED
      BY <2>3, <3>3, <3>4, <3>5
  <2> QED
    BY <2>2, <2>3
<1>12. ASSUME NEW k \in 0 .. N - 1, b[k] = Vacant
       PROVE  c[k] = Vacant
  <2>1. k # i
    BY <1>2, <1>3, <1>8, <1>12
  <2>2. Vacant.index = -1 /\ ~(-1 > p - 1)
    BY <1>3 DEF Vacant
  <2> QED
    BY <1>7, <1>12, <2>1, <2>2 DEF shift_indexes_in_buckets
<1>13. DOMAIN s = 0 .. N - 1 /\ DOMAIN c = 0 .. N - 1 /\ c[i] = y
       /\ [s EXCEPT ![i] = Vacant] = [c EXCEPT ![i] = Vacant]
       /\ c = [k \in 0 .. N - 1 |-> c[k]]
  <2>1. DOMAIN s = 0 .. N - 1 /\ s = [k \in 0 .. N - 1 |-> s[k]]
    BY <1>7 DEF shift_indexes_in_buckets
  <2> HIDE DEF s, y
  <2> QED
    BY <1>2, <2>1
<1> HIDE DEF c, s, Moved, New
<1>14. Moved(p) = y
  BY <1>2, <1>3, <1>11, <1>13
<1>15. /\ c \in [0 .. N - 1 -> Bucket]
       /\ \A k \in 0 .. N - 1 : b[k] # Vacant <=> c[k] # Vacant
       /\ \A k \in 0 .. N - 1 : c[k].hash = b[k].hash
       /\ \A k, l \in 0 .. N - 1 : c[k] = c[l] /\ c[k] # Vacant => k = l
  <2>1. \A k \in 0 .. N - 1 : c[k] \in Bucket /\ (b[k] # Vacant <=> c[k] # Vacant)
                              /\ c[k].hash = b[k].hash
    <3>1. Vacant \in Bucket
      BY DEF Vacant, Bucket
    <3> QED
      BY <1>9, <1>11, <1>12, <1>21, <3>1
  <2>2. ASSUME NEW k \in 0 .. N - 1, NEW l \in 0 .. N - 1, c[k] = c[l], c[k] # Vacant
        PROVE  k = l
    <3>1. PICK q \in DOMAIN V : b[k] = EntryOf(V, q)
      BY <1>21, <2>1, <2>2
    <3>2. PICK r \in DOMAIN V : b[l] = EntryOf(V, r)
      BY <1>21, <2>1, <2>2
    <3>3. Moved(q) = Moved(r)
      BY <1>11, <2>2, <3>1, <3>2
    <3>4. q = r
      BY <1>9, <1>10, <3>3
    <3> QED
      BY <1>7, <1>8, <3>1, <3>2, <3>4
  <2>3. c \in [0 .. N - 1 -> Bucket]
    BY <1>13, <2>1
  <2> QED
    BY <2>1, <2>2, <2>3
<1>16. Table(c, N, Entries(c, N))
  <2>1. Renumbers(b, c, N)
    BY <1>15 DEF Renumbers
  <2> QED
    BY <1>1, <2>1, RenumberTable
<1>17. N > 2 => \E v \in 0 .. N - 1 : c[v] = Vacant
  <2> SUFFICES ASSUME N > 2 PROVE \E v \in 0 .. N - 1 : c[v] = Vacant
    OBVIOUS
  <2>1. /\ IsFiniteSet(EntriesOf(V)) /\ Cardinality(EntriesOf(V)) \in Nat
        /\ Cardinality(EntriesOf(V)) <= Len(V)
    BY <1>1, CountEntries DEF Row
  <2>2. Cardinality(EntriesOf(V)) < N
    BY <1>1, <1>3, <2>1
  <2>3. \E v \in 0 .. N - 1 : b[v] = Vacant
    BY <1>1, <1>3, <2>1, <2>2, VacantBucket
  <2> QED
    BY <1>12, <2>3
<1>18. Table(u.m_buckets, N, Entries(c, N) \ {y})
  <2>1. c[i] # Vacant
    BY <1>2, <1>3, <1>8, <1>15
  <2>2. Table(backward_shift([c EXCEPT ![i] = Vacant], i), N, Entries(c, N) \ {c[i]})
    BY <1>2, <1>3, <1>16, <1>17, <2>1, ShiftTable
  <2> QED
    BY <1>4, <1>13, <2>2
<1>19. Entries(c, N) \ {y} = EntriesOf(W)
  <2>1. Entries(c, N) = {Moved(q) : q \in DOMAIN V}
    <3>1. ASSUME NEW k \in 0 .. N - 1, c[k] # Vacant
          PROVE  \E q \in DOMAIN V : c[k] = Moved(q)
      <4>1. PICK q \in DOMAIN V : b[k] = EntryOf(V, q)
        BY <1>15, <1>21, <3>1
      <4> QED
        BY <1>11, <4>1
    <3>2. ASSUME NEW q \in DOMAIN V
          PROVE  \E k \in 0 .. N - 1 : c[k] # Vacant /\ c[k] = Moved(q)
      <4>1. PICK k \in 0 .. N - 1 : b[k] # Vacant /\ b[k] = EntryOf(V, q)
        BY <1>22, Zenon
      <4> QED
        BY <1>9, <1>11, <4>1
    <3> QED
      BY <3>1, <3>2 DEF Entries
  <2>2. \A q \in DOMAIN V : Moved(q) = y <=> q = p
    BY <1>3, <1>9, <1>10, <1>14
  <2>3. \A k \in 1 .. Len(V) - 1 : \E q \in DOMAIN V : q # p /\ EntryOf(W, k) = Moved(q)
    <3> SUFFICES ASSUME NEW k \in 1 .. Len(V) - 1
                 PROVE  \E q \in DOMAIN V : q # p /\ EntryOf(W, k) = Moved(q)
      OBVIOUS
    <3> DEFINE q == IF k < p THEN k ELSE k + 1
    <3>1. q \in DOMAIN V /\ q # p /\ New(q) = k
      <4>1. q \in 1 .. Len(V) /\ q # p
        BY <1>3
      <4>2. New(q) = IF q < p THEN q ELSE q - 1
        <5> HIDE DEF q
        <5> QED
          BY <1>3, <4>1 DEF New
      <4>3. (q < p <=> k < p) /\ (IF k < p THEN q = k ELSE q - 1 = k)
        BY <1>3
      <4> HIDE DEF q
      <4> QED
        BY <1>3, <4>1, <4>2, <4>3
    <3>2. W[k] = V[q]
      BY <1>5
    <3> HIDE DEF q
    <3>3. EntryOf(W, k) = Moved(q)
      BY <3>1, <3>2 DEF EntryOf, Moved
    <3> QED
      BY <3>1, <3>3
  <2>4. \A q \in DOMAIN V : q # p => \E k \in 1 .. Len(V) - 1 : EntryOf(W, k) = Moved(q)
    <3> SUFFICES ASSUME NEW q \in DOMAIN V, q # p
                 PROVE  \E k \in 1 .. Len(V) - 1 : EntryOf(W, k) = Moved(q)
      OBVIOUS
    <3>1. /\ New(q) \in 1 .. Len(V) - 1
          /\ (IF New(q) < p THEN New(q) ELSE New(q) + 1) = q
      BY <1>3 DEF New
    <3>2. W[New(q)] = V[q]
      BY <1>5, <3>1
    <3>3. EntryOf(W, New(q)) = Moved(q)
      BY <3>2 DEF EntryOf, Moved
    <3> QED
      BY <3>1, <3>3
  <2>5. EntriesOf(W) = {EntryOf(W, k) : k \in 1 .. Len(V) - 1}
    BY <1>5 DEF EntriesOf
  <2> QED
    BY <2>1, <2>2, <2>3, <2>4, <2>5
<1>20. MapOf(u, N, Val)
  <2>1. Len(W) <= N /\ (N > 2 => Len(W) < N)
    BY <1>1, <1>3, <1>5
  <2> QED
    BY <1>1, <1>4, <1>5, <1>6, <1>18, <1>19, <2>1 DEF MapOf, Row
<1> QED
  BY <1>4, <1>20 DEF u, W, V, key
=============================================================================
