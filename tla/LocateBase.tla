----------------------------- MODULE LocateBase -----------------------------
(***************************************************************************)
(* One pass of ThreadLoc's inner loop over a base trigger, step by step:   *)
(* the scan that builds the trigger pool, the evaluation of every          *)
(* combination (ProcessCombinationPool), up to two rounds that drop the    *)
(* worst station, and the erasure of the located combination by index.     *)
(*                                                                         *)
(* The base trigger is neither isolated nor too recent.  A residual is     *)
(* known by its place relative to LocThresholdInitial only; which          *)
(* combination or station is the extreme one is a free choice, and so is   *)
(* the time the lightning took to the first station.                       *)
(***************************************************************************)
EXTENDS LigTools, OrderedHash

CONSTANTS
    Deques,   \* the contents that allTriggers can have at the start
    Delays,   \* travel times from a lightning to the first station, in ticks
    Gains     \* the stations with a gainCoefficient in the configuration

LOCAL SeqX == INSTANCE SequencesExt

ASSUME DequesAssumption ==
    Deques \subseteq (SUBSET Trigger) \ {{}} /\ Delays \subseteq Nat /\ Station \subseteq DOMAIN Hash

\* Mutant of NoIndex: -1 for "not set".
NoIndexNegative == -1

\* TriggerInfo::trigIdx of a trigger that nothing has set.
NoIndex == 0

VARIABLES
    at,            \* where the pass is: "scan", "rounds", "erase" or "done"
    allTriggers,   \* the deque, front first
    arrived,       \* history: what the deque held when the pass began
    j,             \* index of the scan, from 0
    triggerPool,   \* ordered_map from stations to their triggers
    trigIdx,       \* the index that a pooled trigger carries
    locCombinationPool,
    MinSq,         \* the residual: "below", "at" or "above" the threshold
    finalCombIdx,
    result,        \* the combination that result was computed from
    round,
    lig_time,      \* the time that is posted
    indices        \* what is left to erase, largest first

located == <<locCombinationPool, MinSq, finalCombIdx, result>>
vars    == <<at, allTriggers, arrived, j, triggerPool, trigIdx, located, round,
             lig_time, indices>>

Contents   == SeqX!ToSet(allTriggers)
Pool       == UNION {SeqX!ToSet(e.value) : e \in SeqX!ToSet(triggerPool.m_values)}
PoolSize   == Len(triggerPool.m_values)

\* The triggers in the order of TriggerInfo::operator<.
Sorted(triggers) ==
    [i \in 1 .. Cardinality(triggers) |->
        CHOOSE t \in triggers : Cardinality({u \in triggers : Before(u, t)}) = i - 1]

Init ==
    /\ arrived \in Deques /\ allTriggers = Sorted(arrived)
    /\ Len(allTriggers) > 1 =>
          Minus(allTriggers[2].time, allTriggers[1].time) <= MaxBaseLineAsTOA
    /\ at = "scan" /\ j = 0 /\ triggerPool = EmptyMap /\ trigIdx = [t \in Trigger |-> NoIndex]
    /\ locCombinationPool = <<>> /\ MinSq = "above" /\ finalCombIdx = 0 /\ result = <<>>
    /\ round = 0 /\ lig_time = 0 /\ indices = <<>>

----------------------------------------------------------------------------
(* The scan. *)

baseTrig == allTriggers[1]
oneTrig  == allTriggers[j + 1]
diffTime == Minus(baseTrig.time, oneTrig.time)

Opposite == baseTrig.Value * oneTrig.Value < 0
Beyond   == diffTime < -MaxBaseLineAsTOA \/ diffTime > 0
Close    == -diffTime <= SiteTime[baseTrig.stationID][oneTrig.stationID] + Tolerance

Pooled == Contains(triggerPool, oneTrig.stationID)

\* Mutant of Full: a ninth station is let in.
FullLate == PoolSize > MaxStations

Full == PoolSize >= MaxStations

Scan ==
    /\ at = "scan" /\ j < Len(allTriggers)
    /\ Opposite \/ ~Beyond
    /\ j' = j + 1
    /\ IF ~Opposite /\ Close /\ (Pooled \/ ~Full)
       THEN LET id == oneTrig.stationID
            IN  IF Pooled
                THEN /\ triggerPool' = Update(triggerPool, id, Append(
                            triggerPool.m_values[Position(triggerPool, id)].value, oneTrig))
                     /\ UNCHANGED trigIdx
                ELSE /\ triggerPool' = Insert(triggerPool, id, <<oneTrig>>)
                     /\ trigIdx' = [trigIdx EXCEPT ![oneTrig] = j]
       ELSE UNCHANGED <<triggerPool, trigIdx>>
    /\ UNCHANGED <<at, allTriggers, arrived, located, round, lig_time, indices>>

ScanOver == \/ j = Len(allTriggers)
            \/ j < Len(allTriggers) /\ ~Opposite /\ Beyond

\* Mutant of Erase: the element after the one meant.
EraseAfter(index) == SeqX!RemoveAt(allTriggers, index + 2)

Erase(index) == SeqX!RemoveAt(allTriggers, index + 1)

\* The pool fails the test at line 206: the base trigger goes.
TooFewStations ==
    /\ at = "scan" /\ ScanOver
    /\ PoolSize < MinStations
    /\ allTriggers' = Erase(0) /\ at' = "done"
    /\ UNCHANGED <<arrived, j, triggerPool, trigIdx, located, round, lig_time, indices>>

----------------------------------------------------------------------------
(* The residuals. *)

\* Mutant of ProcessCombinationPool: with the test that is commented out at line
\* 48, the previous minimum is kept when the new one is no better.
KeepTheBest(combs) ==
    \/ \E i \in 1 .. Len(combs), sq \in {"below", "at", "above"} :
          MinSq' = sq /\ finalCombIdx' = i /\ result' = combs[i]
    \/ UNCHANGED <<MinSq, finalCombIdx, result>>

\* The minimum of this call replaces the previous one unconditionally.  A
\* combination of fewer than MinStations triggers has the residual FLOAT_MAX.
ProcessCombinationPool(combs) ==
    \E i \in 1 .. Len(combs), sq \in {"below", "at", "above"} :
        /\ Len(combs[i]) < MinStations => sq = "above"
        /\ MinSq' = sq /\ finalCombIdx' = i /\ result' = combs[i]

\* getLocationPool_p on the current pool, then ProcessCombinationPool if there is
\* any combination.
Enumerate ==
    /\ LET stations == triggerPool'.m_values
       IN  locCombinationPool' = getLocationPool_p(
              [i \in 1 .. Len(stations) |-> stations[i].value], Len(stations))
    /\ IF locCombinationPool' = <<>>
       THEN UNCHANGED <<MinSq, finalCombIdx, result>>
       ELSE ProcessCombinationPool(locCombinationPool')

FirstResiduals ==
    /\ at = "scan" /\ ScanOver
    /\ PoolSize >= MinStations
    /\ UNCHANGED triggerPool /\ Enumerate
    /\ at' = "rounds"
    /\ UNCHANGED <<allTriggers, arrived, j, trigIdx, round, lig_time, indices>>

\* Mutant of WorthDropping: one station too many is dropped.
WorthDroppingLate ==
    MinSq = "above" /\ PoolSize >= CredibleStations

WorthDropping ==
    MinSq = "above" /\ PoolSize > CredibleStations

\* A round: the station with the largest deviation in the best combination goes.
DropWorstStation ==
    /\ at = "rounds" /\ round < 2 /\ WorthDropping
    /\ IF locCombinationPool = <<>>
       THEN UNCHANGED triggerPool
       ELSE \E s \in StationsOf(SeqX!ToSet(locCombinationPool[finalCombIdx])) :
               triggerPool' = EraseKey(triggerPool, s)
    /\ Enumerate
    /\ round' = round + 1
    /\ UNCHANGED <<at, allTriggers, arrived, j, trigIdx, lig_time, indices>>

KeepStations ==
    /\ at = "rounds" /\ round < 2 /\ ~WorthDropping
    /\ round' = round + 1
    /\ UNCHANGED <<at, allTriggers, arrived, j, triggerPool, trigIdx, located, lig_time, indices>>

----------------------------------------------------------------------------
(* The outcome. *)

\* The residual fails the test at line 266: the base trigger goes.
ResidualTooLarge ==
    /\ at = "rounds" /\ round = 2 /\ MinSq # "below"
    /\ allTriggers' = Erase(0) /\ at' = "done"
    /\ UNCHANGED <<arrived, j, triggerPool, trigIdx, located, round, lig_time, indices>>

\* A sequence in another order, given what comes before every place.
Arranged(s, Low) == [p \in DOMAIN s |-> s[CHOOSE i \in DOMAIN s : Cardinality(Low[i]) = p - 1]]

\* Mutant of Descending: the indices are sorted with std::less.
Ascending(s) == Arranged(s, [i \in DOMAIN s |->
                 {k \in DOMAIN s : s[k] < s[i] \/ (s[k] = s[i] /\ k < i)}])

\* std::sort with std::greater; several members may carry the same index.
Descending(s) == Arranged(s, [i \in DOMAIN s |->
                 {k \in DOMAIN s : s[k] > s[i] \/ (s[k] = s[i] /\ k < i)}])

\* occur_t of the solver: the travel time before the earliest arrival, where only
\* the second within the minute is known of an arrival.
OccurTimes(comb) ==
    LET arrivals == {SecondsOfMinute(t.time) : t \in SeqX!ToSet(comb)}
        earliest == CHOOSE a \in arrivals : \A b \in arrivals : a <= b
    IN  {earliest - delay : delay \in Delays}

\* Mutant of EarliestSoFar: the search begins at the first trigger.
EarliestAtFirst(oneComb) == [min_t |-> oneComb[1].time, min_idx |-> 1, hasGain |-> FALSE]

\* PostLigResult begins its search one minute after the first trigger ...
EarliestSoFar(oneComb) ==
    [min_t |-> AddMinutes(oneComb[1].time, 1), min_idx |-> 1, hasGain |-> FALSE]

\* ... for the trigger whose value, distance and gain make the peak current.
PeakTrigger(oneComb) ==
    LET search[i \in 0 .. Len(oneComb)] ==
            IF i = 0 THEN EarliestSoFar(oneComb)
            ELSE IF oneComb[i].time < search[i - 1].min_t /\ oneComb[i].stationID \in Gains
            THEN [min_t |-> oneComb[i].time, min_idx |-> i, hasGain |-> TRUE]
            ELSE search[i - 1]
    IN  search[Len(oneComb)]

\* The result is posted or not; its triggers are erased either way.
Accept ==
    /\ at = "rounds" /\ round = 2 /\ MinSq = "below"
    /\ LET oneComb == locCombinationPool[finalCombIdx]
       IN  /\ \E occur_t \in OccurTimes(result) :
                 lig_time' = set_second(oneComb[1].time, occur_t)
           /\ indices' = Descending([i \in 1 .. Len(oneComb) |-> trigIdx[oneComb[i]]])
    /\ at' = "erase"
    /\ UNCHANGED <<allTriggers, arrived, j, triggerPool, trigIdx, located, round>>

EraseOne ==
    /\ at = "erase" /\ indices # <<>>
    /\ allTriggers' = Erase(Head(indices))
    /\ indices' = Tail(indices)
    /\ UNCHANGED <<at, arrived, j, triggerPool, trigIdx, located, round, lig_time>>

AllErased ==
    /\ at = "erase" /\ indices = <<>>
    /\ at' = "done"
    /\ UNCHANGED <<allTriggers, arrived, j, triggerPool, trigIdx, located, round, lig_time, indices>>

Next == \/ Scan \/ TooFewStations \/ FirstResiduals \/ DropWorstStation \/ KeepStations
        \/ ResidualTooLarge \/ Accept \/ EraseOne \/ AllErased

Spec == Init /\ [][Next]_vars

----------------------------------------------------------------------------
(* Properties. *)

\* Type invariant of the locals of one pass.
TypeOK ==
    /\ at \in {"scan", "rounds", "erase", "done"}
    /\ allTriggers \in Seq(Trigger) /\ arrived \subseteq Trigger
    /\ j \in Nat /\ trigIdx \in [Trigger -> Nat]
    /\ triggerPool.m_values \in Seq([key : Station, value : Seq(Trigger)])
    /\ locCombinationPool \in Seq(Seq(Trigger)) /\ MinSq \in {"below", "at", "above"}
    /\ finalCombIdx \in Nat /\ result \in Seq(Trigger)
    /\ round \in 0 .. 2 /\ lig_time \in Int /\ indices \in Seq(Nat)

\* The pool is rebuilt in every round while finalCombIdx and result outlive it:
\* where they are used they belong to the current locCombinationPool.
FinalIsCurrent ==
    at = "rounds" /\ locCombinationPool # <<>> =>
        /\ finalCombIdx \in 1 .. Len(locCombinationPool)
        /\ result = locCombinationPool[finalCombIdx]

\* ThreadLoc.cpp:223, "at most 8 stations, at least 6 credible ones": a located
\* combination has fewer than 6 stations only if the pool had no more before any
\* station was dropped.
CredibleUnlessFew ==
    at = "erase" =>
        \/ Len(result) >= CredibleStations
        \/ StationsOf(SeqX!ToSet(result)) =
              StationsOf(TriggerPool(arrived, Front(arrived)))

\* Every erase of the loop over the indices is inside the deque, although members
\* of the combination may share the index 0 and every erase shifts the deque.
EraseInRange ==
    at = "erase" /\ indices # <<>> => Head(indices) < Len(allTriggers)

\* Whatever a location takes out of allTriggers, at every moment of the loop over the
\* indices, stands no further back than the last trigger it used.  A member without an
\* index erases a bystander in front, never a trigger of a later lightning.
LaterOnesStay ==
    at = "erase" =>
        \A t \in arrived \ Contents : \E m \in SeqX!ToSet(result) : ~Before(m, t)

\* The recursion over the stations finds every coherent combination of the pool
\* once: as many, and the same, as there are sets with one trigger of every station.
EveryCombinationOnce ==
    at = "rounds" =>
        /\ {SeqX!ToSet(c) : c \in SeqX!ToSet(locCombinationPool)} = Combinations(Pool)
        /\ Len(locCombinationPool) = Cardinality(Combinations(Pool))

\* ProcessCombinationPool looks stations up with operator[] from inside a parallel
\* loop (ThreadLoc.cpp:33): one that were not found would be inserted, by several
\* threads at a time.  All are found, also after an erase from the map.
SolverOnlyReads ==
    at \in {"rounds", "erase"} =>
        \A c \in SeqX!ToSet(locCombinationPool) : \A i \in 1 .. Len(c) :
            /\ Contains(triggerPool, c[i].stationID)
            /\ SeqX!Contains(triggerPool.m_values[Position(triggerPool, c[i].stationID)].value, c[i])

\* The solver gets seconds within the minute (ThreadLoc.cpp:32) and would take
\* arrivals on both sides of a full minute for a minute apart: there are none.
SameMinute ==
    \A c \in SeqX!ToSet(locCombinationPool) : \A i \in 1 .. Len(c) :
        c[i].time - SecondsOfMinute(c[i].time) = c[1].time - SecondsOfMinute(c[1].time)

\* The posted time is a travel time before the earliest arrival, also where this
\* leads back into the minute before.
ResultTime ==
    at = "erase" =>
        \E t \in SeqX!ToSet(result) :
            /\ \A u \in SeqX!ToSet(result) : t.time <= u.time
            /\ t.time - lig_time \in Delays

\* The peak current of a result is that of the earliest trigger whose station has a
\* gain, wherever it stands in the combination; it is 0 only when no station has one.
PeakOfEarliest ==
    at = "erase" =>
        LET gained == {t \in SeqX!ToSet(result) : t.stationID \in Gains}
            peak   == PeakTrigger(result)
        IN  /\ peak.hasGain <=> gained # {}
            /\ peak.hasGain => /\ result[peak.min_idx] \in gained
                               /\ \A t \in gained : result[peak.min_idx].time <= t.time

\* The pass does what LigPipeline takes for one step.
Choice == INSTANCE LocateChoice WITH
    pending <- IF at = "done" THEN Contents ELSE arrived,
    outcome <- IF at # "done" THEN "open" ELSE IF MinSq = "below" THEN "located" ELSE "givenUp"

RefinesLocateChoice == Choice!ChoiceSpec

=============================================================================
