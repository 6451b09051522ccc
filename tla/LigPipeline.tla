---------------------------- MODULE LigPipeline ----------------------------
(***************************************************************************)
(* The two threads that main() starts and the state they share.            *)
(*                                                                         *)
(* The loader (threadLoadData) fetches batches of triggers and merges them *)
(* into transTriggers under rwMutex.  The locator (ThreadLoc) moves them   *)
(* from there into allTriggers, which only it uses, and consumes           *)
(* allTriggers from the front: it throws an isolated trigger away, waits   *)
(* for the network, locates a lightning from the triggers around the base  *)
(* trigger, or gives the base trigger up.  CurrentProcessingTime is the    *)
(* watermark below which arriving triggers are discarded.                  *)
(*                                                                         *)
(* A critical section is one step; a read of shared state outside the lock *)
(* is a step of its own.  Both deques are sorted and made unique before    *)
(* the lock is released, so they are sets.  Numeric results (is the        *)
(* residual below the threshold, which station is the worst, is the        *)
(* location accepted) are nondeterministic choices.                        *)
(***************************************************************************)
EXTENDS LocPool

CONSTANTS
    Mode,            \* config mode: "realTime" or "reProcess"
    Batches,         \* the sets of triggers that one fetch can deliver
    StartTime,       \* config reProcess startTime, endTime, in ticks
    EndTime,
    ConfigTime,      \* config CurrentProcessingTime, in ticks
    WaitTime,        \* config waitTime, in seconds
    HostOffset,      \* how far the host's local time is ahead of UTC, in seconds
    IdleSleep,       \* 10 in the source: seconds the idle locator sleeps
    IdleWarnPeriod,  \* 600 in the source: idle seconds between two warnings
    LoadSleep,       \* 60 in the source: seconds between two real-time fetches
    WindowMinutes,   \* 20 in the source: the window of one historical fetch
    RecentSeconds,   \* 300 (api_rt ".../5"): how far back a real-time fetch looks
    SizeModulus,     \* 2^64 in the source: size_t arithmetic wraps here
    Boot,            \* the wall clock when the program starts, in seconds
    TickSeconds,     \* granularity of the wall clock
    Horizon          \* bound: the wall clock stops here

ASSUME PipelineAssumption ==
    /\ Mode \in {"realTime", "reProcess"}
    /\ Batches \subseteq SUBSET Trigger
    /\ {StartTime, EndTime, ConfigTime} \subseteq Nat
    /\ HostOffset \in Int
    /\ {WaitTime, IdleSleep, LoadSleep, WindowMinutes, RecentSeconds, Boot, Horizon}
          \subseteq Nat
    /\ {IdleWarnPeriod, SizeModulus, TickSeconds} \subseteq Nat \ {0}

VARIABLES
    transTriggers,          \* shared, guarded by rwMutex
    keep_loading,           \* shared, written by the loader, read without lock
    loaderAt,               \* where the loader is
    cache,                  \* the loader's current batch
    init_size,              \* transTriggers.size() before the merge
    logged,                 \* the number in the last "add N new triggers"
    till_time,              \* end of the current historical window
    loaderWake,             \* end of the loader's sleep
    locAt,                  \* where the locator is
    allTriggers,            \* private to the locator
    CurrentProcessingTime,  \* the watermark
    AccumulatedIdleTime,    \* seconds idle since the last merge
    locWake,                \* end of the locator's sleep
    now,                    \* time(nullptr), in seconds
    asked,                  \* history: triggers inside the windows fetched so far
    retired,                \* history: triggers erased from allTriggers
    posted,                 \* history: combinations handed to postThreadPool
    lastLocated             \* history: when a lightning was last located

shared     == <<transTriggers, keep_loading>>
loaderVars == <<loaderAt, cache, init_size, logged, till_time, loaderWake, asked>>
locVars    == <<locAt, allTriggers, CurrentProcessingTime, AccumulatedIdleTime, locWake,
                retired, posted, lastLocated>>
vars       == <<shared, loaderVars, locVars, now>>

Init ==
    /\ transTriggers = {} /\ keep_loading = TRUE
    /\ loaderAt = "fetch" /\ cache = {} /\ init_size = 0 /\ logged = 0
    /\ till_time = StartTime /\ loaderWake = 0 /\ asked = {}
    /\ locAt = "loop" /\ allTriggers = {} /\ AccumulatedIdleTime = 0 /\ locWake = 0
    /\ CurrentProcessingTime = IF Mode = "reProcess" THEN 0 ELSE ConfigTime
    /\ now = Boot /\ retired = {} /\ posted = {} /\ lastLocated = Boot

\* A sleep that starts now; at the horizon sleeping takes no time.
WakeAfter(seconds) == IF now + seconds < Horizon THEN now + seconds ELSE Horizon

----------------------------------------------------------------------------
(* The loader. *)

\* What the server can hold: real-time triggers have happened in the last
\* minutes, historical ones lie in the window that ends at till.
Recent(t)        == LET sec == WholeSeconds(t.time)
                    IN  sec <= now /\ now <= sec + RecentSeconds
InWindow(t, till) == /\ t.time <= till
                     /\ till <= AddMinutes(t.time, WindowMinutes)

\* GetRealTimeTriggerData returns some of the triggers the server holds: none
\* when all retries fail, a part of them when an item cannot be parsed.
FetchRealTime ==
    /\ Mode = "realTime" /\ loaderAt = "fetch"
    /\ \E batch \in Batches :
          /\ \A t \in batch : Recent(t)
          /\ cache' = batch
    /\ init_size' = Cardinality(transTriggers)
    /\ loaderAt' = "merge"
    /\ UNCHANGED <<shared, logged, till_time, loaderWake, asked, locVars, now>>

\* Advances the window first, then fetches it and drops what lies outside
\* [startTime, endTime].
FetchHistorical ==
    /\ Mode = "reProcess" /\ loaderAt = "fetch"
    /\ till_time' = AddMinutes(till_time, WindowMinutes)
    /\ \E batch \in Batches :
          /\ \A t \in batch : InWindow(t, till_time')
          /\ cache' = {t \in batch : StartTime <= t.time /\ t.time <= EndTime}
    /\ asked' = asked \cup {t \in Trigger : InWindow(t, till_time')}
    /\ init_size' = Cardinality(transTriggers)
    /\ loaderAt' = "merge"
    /\ UNCHANGED <<shared, logged, loaderWake, locVars, now>>

\* lock; insert; sort; unique; unlock.
MergeIntoTrans ==
    /\ loaderAt = "merge"
    /\ transTriggers' = transTriggers \cup cache
    /\ loaderAt' = "log"
    /\ UNCHANGED <<keep_loading, cache, init_size, logged, till_time, loaderWake, asked,
                   locVars, now>>

\* Mutant of AddedCount: a signed subtraction.
AddedSigned == Cardinality(transTriggers) - init_size

\* transTriggers.size() - init_size is an unsigned subtraction.
AddedCount == (Cardinality(transTriggers) - init_size) % SizeModulus

\* "add N new triggers": the size is read again, after the unlock.
LogAdded ==
    /\ loaderAt = "log"
    /\ logged' = AddedCount
    /\ loaderAt' = IF Mode = "realTime" THEN "sleep" ELSE "decide"
    /\ loaderWake' = IF Mode = "realTime" THEN WakeAfter(LoadSleep) ELSE loaderWake
    /\ UNCHANGED <<shared, cache, init_size, till_time, asked, locVars, now>>

\* The loop body's locals, and the line it logged, are gone.
EndOfScope == cache' = {} /\ init_size' = 0 /\ logged' = 0

LoaderWakes ==
    /\ loaderAt = "sleep" /\ now >= loaderWake
    /\ loaderAt' = "fetch" /\ EndOfScope
    /\ UNCHANGED <<shared, till_time, loaderWake, asked, locVars, now>>

\* Mutant of LastWindow: one window too early.
LastWindowEarly == AddMinutes(till_time, WindowMinutes) >= EndTime

LastWindow == till_time >= EndTime

NextWindow ==
    /\ loaderAt = "decide" /\ ~LastWindow
    /\ loaderAt' = "fetch" /\ EndOfScope
    /\ UNCHANGED <<shared, till_time, loaderWake, asked, locVars, now>>

\* Mutant of StopLoading: the flag is not cleared.
StopSilently ==
    /\ loaderAt = "decide" /\ LastWindow
    /\ loaderAt' = "done" /\ EndOfScope
    /\ UNCHANGED <<shared, till_time, loaderWake, asked, locVars, now>>

StopLoading ==
    /\ loaderAt = "decide" /\ LastWindow
    /\ keep_loading' = FALSE
    /\ loaderAt' = "done" /\ EndOfScope
    /\ UNCHANGED <<transTriggers, till_time, loaderWake, asked, locVars, now>>

Loader == \/ FetchRealTime \/ FetchHistorical \/ MergeIntoTrans \/ LogAdded
          \/ LoaderWakes \/ NextWindow \/ StopLoading

----------------------------------------------------------------------------
(* The locator: the outer loop. *)

\* Mutant of LoopTest: the operands of || are swapped.
SizeTestFirst ==
    /\ \/ /\ locAt = "loop" /\ transTriggers # {}
          /\ locAt' = "merge"
       \/ /\ locAt = "loop" /\ transTriggers = {}
          /\ locAt' = "size"
       \/ /\ locAt = "size"
          /\ locAt' = IF keep_loading THEN "merge" ELSE "done"
    /\ UNCHANGED <<shared, loaderVars, allTriggers, CurrentProcessingTime,
                   AccumulatedIdleTime, locWake, retired, posted, lastLocated, now>>

\* while (keep_loading || transTriggers.size()): two reads, in this order, of
\* variables that the loader writes.
LoopTest ==
    /\ \/ /\ locAt = "loop" /\ keep_loading
          /\ locAt' = "merge"
       \/ /\ locAt = "loop" /\ ~keep_loading
          /\ locAt' = "size"
       \/ /\ locAt = "size"
          /\ locAt' = IF transTriggers # {} THEN "merge" ELSE "done"
    /\ UNCHANGED <<shared, loaderVars, allTriggers, CurrentProcessingTime,
                   AccumulatedIdleTime, locWake, retired, posted, lastLocated, now>>

\* Mutant of Fresh: no comparison with the watermark.
FreshAll == transTriggers

Fresh == {t \in transTriggers : t.time > CurrentProcessingTime}

\* Mutant of ResetIdle: the counter keeps its value.
KeepIdle == AccumulatedIdleTime' = AccumulatedIdleTime

ResetIdle == AccumulatedIdleTime' = 0

\* lock; take what is later than the watermark; sort; unique; clear; unlock.
\* The size is tested before the lock is taken, but only the locator shrinks
\* transTriggers.
MergeTriggers ==
    /\ locAt = "merge" /\ transTriggers # {}
    /\ allTriggers' = allTriggers \cup Fresh
    /\ transTriggers' = {}
    /\ ResetIdle
    /\ locAt' = "locate"
    /\ UNCHANGED <<keep_loading, loaderVars, CurrentProcessingTime, locWake, retired, posted,
                   lastLocated, now>>

IdleSleeps ==
    /\ locAt = "merge" /\ transTriggers = {}
    /\ locWake' = WakeAfter(IdleSleep)
    /\ locAt' = "sleep"
    /\ UNCHANGED <<shared, loaderVars, allTriggers, CurrentProcessingTime, AccumulatedIdleTime,
                   retired, posted, lastLocated, now>>

\* Is the warning sent when the locator wakes up?
WarningDue == AccumulatedIdleTime % IdleWarnPeriod = 0 /\ AccumulatedIdleTime # 0

\* The counter is only tested for 0 and modulo the period, so it wraps from two
\* periods to one.
IdleWakes ==
    /\ locAt = "sleep" /\ now >= locWake
    /\ AccumulatedIdleTime' =
          LET idle == AccumulatedIdleTime + IdleSleep
          IN  IF idle >= 2 * IdleWarnPeriod THEN idle - IdleWarnPeriod ELSE idle
    /\ locAt' = "loop"
    /\ UNCHANGED <<shared, loaderVars, allTriggers, CurrentProcessingTime, locWake, retired,
                   posted, lastLocated, now>>

----------------------------------------------------------------------------
(* The locator: one iteration of the inner loop. *)

baseTrig == Front(allTriggers)

\* allTriggers[1].time - allTriggers[0].time > maxBaseLineAsTOA.
Isolated ==
    /\ allTriggers # {baseTrig}
    /\ Minus(Front(allTriggers \ {baseTrig}).time, baseTrig.time) > MaxBaseLineAsTOA

\* mktime takes the fields, which are UTC, for local time.
ConvertGPSTimeToUnixTime(t) == WholeSeconds(t) - HostOffset

\* Mutant of TooRecent: the eight hours are added twice.
TooRecentShifted ==
    ConvertGPSTimeToUnixTime(baseTrig.time) + 2 * 8 * 3600 > now - WaitTime

\* The base trigger is so recent that others may still be on their way.
TooRecent == ConvertGPSTimeToUnixTime(baseTrig.time) + 8 * 3600 > now - WaitTime

\* Mutant of AdvanceWatermark: the watermark is the base trigger's own time.
WatermarkAtBase == CurrentProcessingTime' = baseTrig.time

AdvanceWatermark ==
    CurrentProcessingTime' = AddActPointSec(baseTrig.time, MaxBaseLineAsTOA)

SkipIsolated ==
    /\ locAt = "locate" /\ allTriggers # {} /\ Isolated
    /\ allTriggers' = allTriggers \ {baseTrig}
    /\ retired' = retired \cup {baseTrig}
    /\ UNCHANGED <<shared, loaderVars, locAt, CurrentProcessingTime, AccumulatedIdleTime,
                   locWake, posted, lastLocated, now>>

\* The break: the watermark has been advanced already.
WaitForNetwork ==
    /\ locAt = "locate" /\ allTriggers # {} /\ ~Isolated
    /\ AdvanceWatermark
    /\ TooRecent
    /\ locAt' = "loop"
    /\ UNCHANGED <<shared, loaderVars, allTriggers, AccumulatedIdleTime, locWake, retired,
                   posted, lastLocated, now>>

\* The residual of some combination is below LocThresholdInitial; the result is
\* posted if it passes the final checks, and the combination is erased either way.
LocateLightning ==
    /\ locAt = "locate" /\ allTriggers # {} /\ ~Isolated
    /\ AdvanceWatermark
    /\ ~TooRecent
    /\ \E comb \in LocatedCombs(TriggerPool(allTriggers, baseTrig)) :
          /\ allTriggers' = EraseUsed(allTriggers, baseTrig, comb)
          /\ posted' \in {posted, posted \cup {comb}}
    /\ retired' = retired \cup (allTriggers \ allTriggers')
    /\ lastLocated' = now
    /\ UNCHANGED <<shared, loaderVars, locAt, AccumulatedIdleTime, locWake, now>>

\* Too few stations, no coherent combination, or the residual is too large.
GiveUpBase ==
    /\ locAt = "locate" /\ allTriggers # {} /\ ~Isolated
    /\ AdvanceWatermark
    /\ ~TooRecent
    /\ allTriggers' = allTriggers \ {baseTrig}
    /\ retired' = retired \cup {baseTrig}
    /\ UNCHANGED <<shared, loaderVars, locAt, AccumulatedIdleTime, locWake, posted,
                   lastLocated, now>>

AllConsumed ==
    /\ locAt = "locate" /\ allTriggers = {}
    /\ locAt' = "loop"
    /\ UNCHANGED <<shared, loaderVars, allTriggers, CurrentProcessingTime, AccumulatedIdleTime,
                   locWake, retired, posted, lastLocated, now>>

Iterate == \/ SkipIsolated \/ WaitForNetwork \/ LocateLightning \/ GiveUpBase \/ AllConsumed

Locator == \/ LoopTest \/ MergeTriggers \/ IdleSleeps \/ IdleWakes \/ Iterate

Tick == /\ now < Horizon
        /\ now' = now + TickSeconds
        /\ UNCHANGED <<shared, loaderVars, locVars>>

Next == Loader \/ Locator \/ Tick

\* Both are threads that the operating system schedules; time passes.
Fairness == WF_vars(Loader) /\ WF_vars(Locator) /\ WF_vars(Tick)

Spec     == Init /\ [][Next]_vars
FairSpec == Spec /\ Fairness

----------------------------------------------------------------------------
(* Properties. *)

LoaderPlaces == {"fetch", "merge", "log", "sleep", "decide", "done"}
LocPlaces    == {"loop", "size", "merge", "sleep", "locate", "done"}

\* Type invariant of the shared and private state of threadLoadData and ThreadLoc.
TypeOK ==
    /\ transTriggers \subseteq Trigger /\ keep_loading \in BOOLEAN
    /\ loaderAt \in LoaderPlaces /\ cache \subseteq Trigger
    /\ init_size \in Nat /\ logged \in Nat /\ till_time \in Nat /\ loaderWake \in Nat
    /\ asked \subseteq Trigger
    /\ locAt \in LocPlaces /\ allTriggers \subseteq Trigger
    /\ CurrentProcessingTime \in Nat /\ AccumulatedIdleTime \in Nat /\ locWake \in Nat
    /\ retired \subseteq Trigger /\ posted \subseteq SUBSET Trigger
    /\ lastLocated \in Nat /\ now \in Nat

\* The server repeats the same triggers in every answer (each real-time fetch
\* looks five minutes back), so what ThreadLoc erased from allTriggers keeps
\* arriving.  The watermark must keep every erased trigger from coming back.
NoReprocess == retired \cap allTriggers = {}

\* Why it does: between two passes of the inner loop every erased trigger is at or
\* below the watermark, even one that was skipped as isolated (the skip does not
\* advance the watermark) or erased by the index of another trigger.
RetiredBehind ==
    \A e \in retired :
        \/ e.time <= CurrentProcessingTime
        \/ /\ locAt = "locate" /\ allTriggers # {}
           /\ \A a \in allTriggers : e.time <= a.time

\* ThreadLoc never moves CurrentProcessingTime back, although it derives it from
\* whichever trigger is in front after each merge.
WatermarkMonotone == [][CurrentProcessingTime' >= CurrentProcessingTime]_vars

\* ThreadLoc leaves its loop only after the loader has merged its last batch and
\* that batch has been taken out of transTriggers.
NoBatchLost == locAt = "done" => loaderAt = "done" /\ transTriggers = {}

\* When the historical loader stops, the windows it fetched cover every trigger
\* between startTime and endTime.
WindowsCover ==
    loaderAt = "done" =>
        {t \in Trigger : StartTime <= t.time /\ t.time <= EndTime} \subseteq asked

\* The interval of historical mode ended at least waitTime ago.
IntervalIsOver == WholeSeconds(EndTime) + 8 * 3600 - HostOffset <= Boot - WaitTime

\* ThreadLoc looks again at a trigger that waited only after the next merge, and in
\* historical mode there is none after the last: no trigger is left behind when the
\* locator ends, provided that the interval was over when the program started.
NothingLeftPending ==
    Mode = "reProcess" /\ IntervalIsOver => (locAt = "done" => allTriggers = {})

\* "ten minutes without locating lightning": when the warning is sent, no
\* lightning has been located for that long.  (At the horizon sleeps take no time.)
WarningTruthful ==
    [][IdleWakes /\ WarningDue /\ now < Horizon => now - lastLocated >= IdleWarnPeriod]_vars

\* As long as batches keep arriving, every trigger eventually leaves allTriggers.
LeavesWhileFed ==
    []<>(transTriggers # {}) => \A t \in Trigger : t \in allTriggers ~> t \notin allTriggers

\* Auxiliary parts of the inductive invariant: the watermark is at most one
\* baseline above any pending trigger, and how the two threads shut down.
WatermarkReach == \A a \in allTriggers : CurrentProcessingTime <= a.time + MaxBaseLineAsTOA

Shutdown ==
    /\ keep_loading = (loaderAt # "done")
    /\ loaderAt \in {"decide", "done"} => Mode = "reProcess"
    /\ locAt \in {"size", "done"} => ~keep_loading
    /\ locAt = "done" => transTriggers = {}

\* Part of a second one: in a finished interval no trigger ever waits.
Settled ==
    Mode = "reProcess" /\ IntervalIsOver =>
        /\ \A t \in cache \cup transTriggers \cup allTriggers : t.time <= EndTime
        /\ now >= Boot
        /\ locAt # "locate" => allTriggers = {}

\* Part of a third: what lies before the end of the current window has been asked for.
Swept ==
    Mode = "reProcess" =>
        /\ loaderAt = "done" => till_time >= EndTime
        /\ \A t \in Trigger :
              /\ StartTime <= t.time
              /\ t.time < till_time \/ (t.time = till_time /\ loaderAt # "fetch")
              => t \in asked

\* Part of a fourth: the idle counter never runs ahead of the clock.
IdleBehind ==
    /\ locAt = "locate" => AccumulatedIdleTime = 0
    /\ now < Horizon =>
          /\ lastLocated + AccumulatedIdleTime <= now
          /\ locAt = "sleep" /\ locWake < Horizon =>
                lastLocated + AccumulatedIdleTime + IdleSleep <= locWake

IInv == TypeOK /\ NoReprocess /\ RetiredBehind /\ WatermarkReach /\ Shutdown

\* In reProcess mode both threads finish, so that main() can join them: no pass of
\* the inner loop goes on for ever, and the locator sees the flag cleared.
Termination == <>(locAt = "done" /\ loaderAt = "done")

----------------------------------------------------------------------------
(* What comments, messages and the configuration say and the code does not do. *)

\* ThreadLoc.cpp:156, "reserve time for the network; return directly if it has not
\* passed": a trigger that arrives while an older or equally old one is still
\* waiting is merged.
LateArrivalsMerged ==
    [][MergeTriggers =>
          \A t \in transTriggers \ retired :
              (\E a \in allTriggers : a.time <= t.time) => t \in allTriggers']_vars

\* ThreadLoc.cpp:318, "the indices of the elements to delete": the triggers of a
\* result are deleted, so none of them is in a second result.
UsedOnce == \A c, d \in posted : c # d => c \cap d = {}

\* config.yaml:30, maxBaseLineAsTOA is the travel time along 1500 km: a trigger is
\* thrown away as isolated only if the next one is later than that.
SkipsOnlyIsolated ==
    [][SkipIsolated =>
          \A t \in allTriggers' : t.time - baseTrig.time > MaxBaseLineAsTOA]_vars

\* ThreadLoadData.cpp:54, "add N new triggers": N is at most the batch.
LoggedIsAdded == loaderAt = "sleep" => logged <= Cardinality(cache)
=============================================================================
