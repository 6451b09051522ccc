------------------------------ MODULE LocPool ------------------------------
(***************************************************************************)
(* What one iteration of the inner loop of ThreadLoc computes: the trigger *)
(* pool around the base trigger, the combinations that getLocationPool_p   *)
(* enumerates from it, and the triggers that a located combination erases. *)
(*                                                                         *)
(* allTriggers is a deque that is sorted and made unique before any of     *)
(* this reads it, so it is a finite set here; the position of an element   *)
(* is the number of elements before it.  A trigger pool (an ordered map    *)
(* from stations to vectors of triggers) is the set of its triggers.       *)
(***************************************************************************)
EXTENDS GPSTime, FiniteSets

CONSTANTS
    Trigger,           \* the triggers the stations report: [time, stationID, Value]
    Station,           \* the station identifiers, natural numbers
    SiteTime,          \* siteTimeMap: travel time between two stations, in ticks
    MaxBaseLineAsTOA,  \* config maxBaseLineAsTOA, in ticks
    MinStations,       \* 5 in the source: fewer stations are not located
    CredibleStations,  \* 6 in the source: no station is dropped below this
    MaxStations        \* 8 in the source: stations admitted to a pool

\* Two triggers of one station at one time are the same TriggerInfo.
ASSUME TriggerAssumption ==
    /\ IsFiniteSet(Trigger)
    /\ Station \subseteq Nat
    /\ Trigger \subseteq [time : Nat \ {0}, stationID : Station, Value : {-1, 0, 1}]
    /\ \A t, u \in Trigger : t.time = u.time /\ t.stationID = u.stationID => t = u

ASSUME SiteTimeAssumption ==
    /\ SiteTime \in [Station -> [Station -> Nat]]
    /\ \A s, r \in Station : SiteTime[s][r] = SiteTime[r][s]

ASSUME BoundAssumption ==
    /\ MaxBaseLineAsTOA \in Nat
    /\ MinStations \in Nat \ {0}
    /\ CredibleStations \in Nat /\ MinStations <= CredibleStations
    /\ MaxStations \in Nat /\ CredibleStations <= MaxStations

\* 0.0001 s, the slack of every comparison with siteTimeMap.
Tolerance == 1

----------------------------------------------------------------------------
\* TriggerInfo::operator<.
Before(t, u) == \/ t.time < u.time
                \/ t.time = u.time /\ t.stationID < u.stationID

\* begin() of the sorted deque, and the first k elements.
Front(all)     == CHOOSE t \in all : \A u \in all \ {t} : Before(t, u)
Lowest(all, k) == {t \in all : Cardinality({u \in all : Before(u, t)}) < k}

\* The triggers that pass every test of the pool-building loop but the limit on
\* stations.  The loop's break at the first trigger beyond the baseline ends a
\* scan of a sorted deque, so it is a filter.
Candidates(all, base) ==
    {t \in all :
        LET diffTime == Minus(base.time, t.time)
        IN  /\ base.Value * t.Value >= 0
            /\ -MaxBaseLineAsTOA <= diffTime /\ diffTime <= 0
            /\ -diffTime <= SiteTime[base.stationID][t.stationID] + Tolerance}

\* The candidates that are the first of their station: the ones whose arrival
\* creates the station's entry, and the only ones whose trigIdx is recorded.
Heads(cand) ==
    {t \in cand : \A u \in cand \ {t} : u.stationID = t.stationID => Before(t, u)}

\* A station enters the pool while the pool holds fewer than MaxStations.
AdmittedHeads(cand) ==
    {h \in Heads(cand) : Cardinality({g \in Heads(cand) : Before(g, h)}) < MaxStations}

StationsOf(pool) == {t.stationID : t \in pool}

TriggerPool(all, base) ==
    LET cand == Candidates(all, base)
    IN  {t \in cand : t.stationID \in StationsOf(AdmittedHeads(cand))}

WithoutStations(pool, dropped) == {t \in pool : t.stationID \notin dropped}

----------------------------------------------------------------------------
\* The test of permuteVector on two members of a combination.
Coherent(t, u) ==
    LET d == Minus(t.time, u.time)
    IN  (IF d < 0 THEN -d ELSE d) <= SiteTime[u.stationID][t.stationID] + Tolerance

\* getLocationPool_p with nCombStas = triggerPool.size(): one trigger of every
\* station of the pool, pairwise coherent.
Combinations(pool) ==
    {c \in SUBSET pool :
        /\ StationsOf(c) = StationsOf(pool)
        /\ \A t, u \in c : t # u => t.stationID # u.stationID /\ Coherent(t, u)}

\* The stations that up to two rounds of dropping the worst station can remove.
\* Which station is worst, and whether a round happens, is numeric.
Droppable(pool) ==
    {dropped \in SUBSET StationsOf(pool) :
        /\ Cardinality(dropped) <= 2
        /\ dropped # {} =>
              Cardinality(StationsOf(pool)) - Cardinality(dropped) >= CredibleStations}

\* Every combination that can end up as locCombinationPool[finalCombIdx].
LocatedCombs(pool) ==
    IF Cardinality(StationsOf(pool)) >= MinStations /\ Combinations(pool) # {}
    THEN UNION {Combinations(WithoutStations(pool, dropped)) : dropped \in Droppable(pool)}
    ELSE {}

\* allTriggers after the indices of a located combination have been erased from
\* back to front.  A head is erased at its own index; every other member carries
\* the index 0 it was created with, so it erases whatever is then in front.
Indexed(all, base, comb) == (comb \cap Heads(Candidates(all, base))) \ {base}

EraseUsed(all, base, comb) ==
    LET indexed == Indexed(all, base, comb)
        rest    == all \ indexed
    IN  rest \ Lowest(rest, Cardinality(comb \ indexed))
=============================================================================
