------------------------- MODULE LigPipelineProofs -------------------------
(***************************************************************************)
(* LigPipeline for all constants: any triggers, stations, batches, waiting *)
(* times and bounds that satisfy the assumptions.                          *)
(***************************************************************************)
EXTENDS LigPipeline, LocPoolProofs

\* Subsets of the triggers are finite, so their sizes are natural numbers.
LEMMA SizeType ==
  ASSUME NEW S \in SUBSET Trigger
  PROVE  Cardinality(S) \in Nat
BY FS_Subset, FS_CardinalityType, TriggerAssumption

\* A sleep ends at a natural number of seconds.
LEMMA WakeType ==
  ASSUME now \in Nat, NEW d \in Nat
  PROVE  WakeAfter(d) \in Nat
BY PipelineAssumption DEF WakeAfter

\* The triggers are a set of records with a natural, positive time.
LEMMA BaseType ==
  ASSUME allTriggers \in SUBSET Trigger, allTriggers # {}
  PROVE  /\ baseTrig \in allTriggers
         /\ baseTrig.time \in Nat
         /\ \A a \in allTriggers : baseTrig.time <= a.time
         /\ AddActPointSec(baseTrig.time, MaxBaseLineAsTOA) = baseTrig.time + MaxBaseLineAsTOA
<1>1. /\ baseTrig \in allTriggers
      /\ \A u \in allTriggers \ {baseTrig} : Before(baseTrig, u)
  BY FrontIsFirst DEF baseTrig
<1>2. baseTrig.time \in Nat
  BY <1>1, TriggerFields
<1>3. \A a \in allTriggers : baseTrig.time <= a.time
  BY <1>1, <1>2, BeforeOrder
<1>4. AddActPointSec(baseTrig.time, MaxBaseLineAsTOA) = baseTrig.time + MaxBaseLineAsTOA
  BY <1>2, AddActPointSecAdds, BoundAssumption
<1> QED
  BY <1>1, <1>2, <1>3, <1>4

----------------------------------------------------------------------------
(* Type correctness. *)

\* The initial values have their types.
LEMMA InitTypeOK == Init => TypeOK
BY PipelineAssumption DEF Init, TypeOK, LoaderPlaces, LocPlaces

\* Every action of the loader preserves the type invariant.
LEMMA LoaderTypeOK == TypeOK /\ Loader => TypeOK'
<1> SUFFICES ASSUME TypeOK, Loader PROVE TypeOK'
  OBVIOUS
<1> USE DEF TypeOK, LoaderPlaces, shared, locVars
<1>1. CASE FetchRealTime
  <2>1. cache' \subseteq Trigger /\ init_size' \in Nat
    BY <1>1, SizeType, PipelineAssumption DEF FetchRealTime
  <2> QED
    BY <1>1, <2>1 DEF FetchRealTime
<1>2. CASE FetchHistorical
  <2>1. cache' \subseteq Trigger /\ init_size' \in Nat
    BY <1>2, SizeType, PipelineAssumption DEF FetchHistorical
  <2>2. till_time' \in Nat
    BY <1>2, AddMinutesType, PipelineAssumption DEF FetchHistorical
  <2> QED
    BY <1>2, <2>1, <2>2 DEF FetchHistorical
<1>3. CASE MergeIntoTrans
  BY <1>3 DEF MergeIntoTrans
<1>4. CASE LogAdded
  <2>1. AddedCount \in Nat
    BY SizeType, PipelineAssumption DEF AddedCount
  <2>2. loaderWake' \in Nat
    BY <1>4, WakeType, PipelineAssumption DEF LogAdded
  <2> QED
    BY <1>4, <2>1, <2>2 DEF LogAdded
<1>5. CASE LoaderWakes
  BY <1>5 DEF LoaderWakes, EndOfScope
<1>6. CASE NextWindow
  BY <1>6 DEF NextWindow, EndOfScope
<1>7. CASE StopLoading
  BY <1>7 DEF StopLoading, EndOfScope
<1> QED
  BY <1>1, <1>2, <1>3, <1>4, <1>5, <1>6, <1>7 DEF Loader

\* Every action of the locator preserves the type invariant.
LEMMA LocatorTypeOK == TypeOK /\ Locator => TypeOK'
<1> SUFFICES ASSUME TypeOK, Locator PROVE TypeOK'
  OBVIOUS
<1> USE DEF TypeOK, LocPlaces, shared, loaderVars
<1>1. CASE LoopTest
  BY <1>1 DEF LoopTest
<1>2. CASE MergeTriggers
  BY <1>2 DEF MergeTriggers, Fresh, ResetIdle
<1>3. CASE IdleSleeps
  <2>1. locWake' \in Nat
    BY <1>3, WakeType, PipelineAssumption DEF IdleSleeps
  <2> QED
    BY <1>3, <2>1 DEF IdleSleeps
<1>4. CASE IdleWakes
  BY <1>4, PipelineAssumption DEF IdleWakes
<1>5. CASE SkipIsolated
  <2>1. baseTrig \in allTriggers
    BY <1>5, BaseType DEF SkipIsolated
  <2> QED
    BY <1>5, <2>1 DEF SkipIsolated
<1>6. CASE WaitForNetwork
  <2>1. CurrentProcessingTime' \in Nat
    BY <1>6, BaseType, BoundAssumption DEF WaitForNetwork, AdvanceWatermark
  <2> QED
    BY <1>6, <2>1 DEF WaitForNetwork
<1>7. CASE LocateLightning
  <2>1. CurrentProcessingTime' \in Nat
    BY <1>7, BaseType, BoundAssumption DEF LocateLightning, AdvanceWatermark
  <2>2. PICK comb \in LocatedCombs(TriggerPool(allTriggers, baseTrig)) :
              /\ allTriggers' = EraseUsed(allTriggers, baseTrig, comb)
              /\ posted' \in {posted, posted \cup {comb}}
    BY <1>7 DEF LocateLightning
  <2>3. allTriggers' \subseteq Trigger
    BY <2>2, EraseShrinks
  <2>4. comb \subseteq Trigger
    BY CombOfCandidates DEF Candidates
  <2>5. posted' \subseteq SUBSET Trigger
    BY <2>2, <2>4
  <2>6. retired' \subseteq Trigger
    BY <1>7 DEF LocateLightning
  <2> QED
    BY <1>7, <2>1, <2>3, <2>5, <2>6 DEF LocateLightning
<1>8. CASE GiveUpBase
  <2>1. CurrentProcessingTime' \in Nat /\ baseTrig \in allTriggers
    BY <1>8, BaseType, BoundAssumption DEF GiveUpBase, AdvanceWatermark
  <2> QED
    BY <1>8, <2>1 DEF GiveUpBase
<1>9. CASE AllConsumed
  BY <1>9 DEF AllConsumed
<1> QED
  BY <1>1, <1>2, <1>3, <1>4, <1>5, <1>6, <1>7, <1>8, <1>9 DEF Locator, Iterate

\* A step keeps every variable of the two threads in its type.
LEMMA NextTypeOK == TypeOK /\ [Next]_vars => TypeOK'
<1> SUFFICES ASSUME TypeOK, [Next]_vars PROVE TypeOK'
  OBVIOUS
<1>1. CASE Loader
  BY <1>1, LoaderTypeOK
<1>2. CASE Locator
  BY <1>2, LocatorTypeOK
<1>3. CASE Tick
  BY <1>3, PipelineAssumption DEF Tick, TypeOK, shared, loaderVars, locVars
<1>4. CASE UNCHANGED vars
  BY <1>4 DEF TypeOK, vars, shared, loaderVars, locVars
<1> QED
  BY <1>1, <1>2, <1>3, <1>4 DEF Next

\* Type correctness of the pipeline for every mode, batch family and bound.
THEOREM TypeCorrect == Spec => []TypeOK
BY InitTypeOK, NextTypeOK, PTL DEF Spec

----------------------------------------------------------------------------
(* The watermark and the retired triggers. *)

\* A step that derives the watermark from the base trigger moves it to one baseline
\* above that trigger, and so never back.
LEMMA AdvanceMonotone ==
  ASSUME TypeOK, WatermarkReach, allTriggers # {}, AdvanceWatermark
  PROVE  /\ CurrentProcessingTime' = baseTrig.time + MaxBaseLineAsTOA
         /\ CurrentProcessingTime' >= CurrentProcessingTime
         /\ CurrentProcessingTime' \in Nat
<1>1. baseTrig \in allTriggers /\ baseTrig.time \in Nat
  BY BaseType DEF TypeOK
<1>2. CurrentProcessingTime' = baseTrig.time + MaxBaseLineAsTOA
  BY BaseType DEF TypeOK, AdvanceWatermark
<1> QED
  BY <1>1, <1>2, BoundAssumption DEF TypeOK, WatermarkReach

\* The loader, the clock and the locator's steps outside the inner loop leave the
\* pending and the retired triggers and the watermark alone.
Untouched == UNCHANGED <<allTriggers, retired, CurrentProcessingTime>>

\* The part of the inductive invariant that is about allTriggers.
Pending == NoReprocess /\ RetiredBehind /\ WatermarkReach

\* Outside the inner loop, steps that leave those variables alone preserve it.
LEMMA UntouchedPending ==
  ASSUME Pending, Untouched,
         locAt' = locAt \/ (locAt # "locate" /\ locAt' # "locate")
  PROVE  Pending'
BY DEF Pending, Untouched, NoReprocess, RetiredBehind, WatermarkReach

\* Merging admits only triggers above the watermark, hence none that was retired.
LEMMA MergePending ==
  ASSUME TypeOK, Pending, MergeTriggers
  PROVE  Pending'
<1> USE DEF Pending
<1>1. \A e \in retired : e.time <= CurrentProcessingTime /\ e.time \in Nat
  BY TriggerFields DEF MergeTriggers, RetiredBehind, TypeOK
<1>2. \A t \in Fresh : t.time > CurrentProcessingTime /\ t.time \in Nat
  BY TriggerFields DEF Fresh, TypeOK
<1>3. NoReprocess'
  <2>1. retired \cap Fresh = {}
    BY <1>1, <1>2 DEF TypeOK
  <2> QED
    BY <2>1 DEF NoReprocess, MergeTriggers
<1>4. RetiredBehind'
  BY <1>1 DEF RetiredBehind, MergeTriggers
<1>5. WatermarkReach'
  BY <1>2, BoundAssumption DEF WatermarkReach, MergeTriggers, TypeOK
<1> QED
  BY <1>3, <1>4, <1>5

\* Skipping an isolated trigger leaves a later one in front, so that the skipped
\* one is behind every pending trigger.
LEMMA SkipPending ==
  ASSUME TypeOK, Pending, SkipIsolated
  PROVE  Pending'
<1> USE DEF Pending
<1>1. /\ baseTrig \in allTriggers /\ \A a \in allTriggers : baseTrig.time <= a.time
      /\ allTriggers \ {baseTrig} # {}
  BY BaseType DEF SkipIsolated, Isolated, TypeOK
<1>2. NoReprocess'
  BY DEF NoReprocess, SkipIsolated
<1>3. RetiredBehind'
  BY <1>1 DEF RetiredBehind, SkipIsolated
<1>4. WatermarkReach'
  BY DEF WatermarkReach, SkipIsolated
<1> QED
  BY <1>2, <1>3, <1>4

\* An iteration that advances the watermark and retires only triggers up to one
\* baseline above the base trigger preserves the invariant.
LEMMA AdvancePending ==
  ASSUME TypeOK, Pending, allTriggers # {}, locAt = "locate", AdvanceWatermark,
         allTriggers' \subseteq allTriggers,
         retired' = retired \cup (allTriggers \ allTriggers'),
         \A e \in allTriggers \ allTriggers' : e.time <= baseTrig.time + MaxBaseLineAsTOA
  PROVE  Pending'
<1> USE DEF Pending
<1>1. /\ CurrentProcessingTime' = baseTrig.time + MaxBaseLineAsTOA
      /\ CurrentProcessingTime' >= CurrentProcessingTime
      /\ CurrentProcessingTime' \in Nat
  BY AdvanceMonotone
<1>2. /\ baseTrig \in allTriggers /\ baseTrig.time \in Nat
      /\ \A a \in allTriggers : baseTrig.time <= a.time
  BY BaseType DEF TypeOK
<1>3. \A e \in retired : e.time \in Nat
  BY TriggerFields DEF TypeOK
<1>4. \A a \in allTriggers : a.time \in Nat
  BY TriggerFields DEF TypeOK
<1>5. NoReprocess'
  BY DEF NoReprocess
<1>6. \A e \in retired' : e.time <= CurrentProcessingTime'
  <2> TAKE e \in retired'
  <2>1. CASE e \in retired
    <3>1. e.time <= CurrentProcessingTime \/ e.time <= baseTrig.time
      BY <2>1, <1>2 DEF RetiredBehind
    <3> QED
      BY <2>1, <3>1, <1>1, <1>2, <1>3, BoundAssumption DEF TypeOK
  <2>2. CASE e \in allTriggers \ allTriggers'
    BY <2>2, <1>1
  <2> QED
    BY <2>1, <2>2
<1>7. WatermarkReach'
  BY <1>1, <1>2, <1>4, BoundAssumption DEF WatermarkReach
<1> QED
  BY <1>5, <1>6, <1>7 DEF RetiredBehind

\* main starts both threads in a state that satisfies the inductive invariant.
LEMMA InitIInv == Init => IInv
BY InitTypeOK DEF Init, IInv, NoReprocess, RetiredBehind, WatermarkReach, Shutdown

\* Every step of the inner loop preserves the part about allTriggers.
LEMMA IteratePending ==
  ASSUME TypeOK, Pending, Iterate
  PROVE  Pending'
<1>1. CASE SkipIsolated
  BY <1>1, SkipPending
<1>2. CASE WaitForNetwork
  <2>1. /\ allTriggers' = allTriggers /\ retired' = retired /\ AdvanceWatermark
        /\ allTriggers # {} /\ locAt = "locate"
    BY <1>2 DEF WaitForNetwork
  <2> QED
    BY <2>1, AdvancePending
<1>3. CASE LocateLightning
  <2>1. /\ allTriggers # {} /\ locAt = "locate" /\ AdvanceWatermark
        /\ retired' = retired \cup (allTriggers \ allTriggers')
    BY <1>3 DEF LocateLightning
  <2>2. PICK comb \in LocatedCombs(TriggerPool(allTriggers, baseTrig)) :
              allTriggers' = EraseUsed(allTriggers, baseTrig, comb)
    BY <1>3 DEF LocateLightning
  <2>3. allTriggers' \subseteq allTriggers
    BY <2>2, EraseShrinks
  <2>4. \A e \in allTriggers \ allTriggers' : e.time <= baseTrig.time + MaxBaseLineAsTOA
    BY <2>1, <2>2, CombOfCandidates, ErasedClose DEF baseTrig, TypeOK
  <2> QED
    BY <2>1, <2>3, <2>4, AdvancePending
<1>4. CASE GiveUpBase
  <2>1. /\ allTriggers # {} /\ locAt = "locate" /\ AdvanceWatermark
        /\ allTriggers' = allTriggers \ {baseTrig}
        /\ retired' = retired \cup {baseTrig}
    BY <1>4 DEF GiveUpBase
  <2>2. baseTrig \in allTriggers /\ baseTrig.time \in Nat
    BY <2>1, BaseType DEF TypeOK
  <2>3. allTriggers \ allTriggers' = {baseTrig}
    BY <2>1, <2>2
  <2>4. \A e \in allTriggers \ allTriggers' : e.time <= baseTrig.time + MaxBaseLineAsTOA
    BY <2>2, <2>3, BoundAssumption
  <2> QED
    BY <2>1, <2>3, <2>4, AdvancePending
<1>5. CASE AllConsumed
  BY <1>5 DEF AllConsumed, Pending, NoReprocess, RetiredBehind, WatermarkReach
<1> QED
  BY <1>1, <1>2, <1>3, <1>4, <1>5 DEF Iterate

\* Every step preserves the part about allTriggers.
LEMMA NextPending ==
  ASSUME TypeOK, Pending, [Next]_vars
  PROVE  Pending'
<1>1. CASE Loader
  <2>1. Untouched /\ locAt' = locAt
    BY <1>1 DEF Loader, FetchRealTime, FetchHistorical, MergeIntoTrans, LogAdded, LoaderWakes,
                NextWindow, StopLoading, Untouched, locVars
  <2> QED
    BY <2>1, UntouchedPending
<1>2. CASE LoopTest \/ IdleSleeps \/ IdleWakes
  <2>1. Untouched /\ locAt # "locate" /\ locAt' # "locate"
    BY <1>2 DEF LoopTest, IdleSleeps, IdleWakes, Untouched
  <2> QED
    BY <2>1, UntouchedPending
<1>3. CASE MergeTriggers
  BY <1>3, MergePending
<1>4. CASE Iterate
  BY <1>4, IteratePending
<1>5. CASE Tick \/ UNCHANGED vars
  <2>1. Untouched /\ locAt' = locAt
    BY <1>5 DEF Tick, vars, locVars, Untouched
  <2> QED
    BY <2>1, UntouchedPending
<1> QED
  BY <1>1, <1>2, <1>3, <1>4, <1>5 DEF Next, Locator

\* keep_loading is cleared once, after the last merge; the locator tests it before
\* it tests the size.
LEMMA NextShutdown ==
  ASSUME TypeOK, Shutdown, [Next]_vars
  PROVE  Shutdown'
<1> USE DEF Shutdown
<1>1. CASE Loader
  <2>1. loaderAt # "done" /\ keep_loading
    BY <1>1 DEF Loader, FetchRealTime, FetchHistorical, MergeIntoTrans, LogAdded, LoaderWakes,
                NextWindow, StopLoading
  <2>2. locAt' = locAt /\ locAt \notin {"size", "done"}
    BY <1>1, <2>1 DEF Loader, FetchRealTime, FetchHistorical, MergeIntoTrans, LogAdded,
                      LoaderWakes, NextWindow, StopLoading, locVars
  <2>3. keep_loading' = (loaderAt' # "done")
    BY <1>1, <2>1 DEF Loader, FetchRealTime, FetchHistorical, MergeIntoTrans, LogAdded,
                      LoaderWakes, NextWindow, StopLoading, shared, TypeOK
  <2>4. loaderAt' \in {"decide", "done"} => Mode = "reProcess"
    BY <1>1, PipelineAssumption
       DEF Loader, FetchRealTime, FetchHistorical, MergeIntoTrans, LogAdded, LoaderWakes,
           NextWindow, StopLoading
  <2> QED
    BY <2>2, <2>3, <2>4
<1>2. CASE LoopTest
  BY <1>2 DEF LoopTest, shared, loaderVars
<1>3. CASE MergeTriggers
  BY <1>3 DEF MergeTriggers, loaderVars
<1>4. CASE IdleSleeps \/ IdleWakes
  BY <1>4 DEF IdleSleeps, IdleWakes, shared, loaderVars
<1>5. CASE Iterate
  BY <1>5 DEF Iterate, SkipIsolated, WaitForNetwork, LocateLightning, GiveUpBase, AllConsumed,
              shared, loaderVars
<1>6. CASE Tick \/ UNCHANGED vars
  BY <1>6 DEF Tick, vars, shared, loaderVars, locVars
<1> QED
  BY <1>1, <1>2, <1>3, <1>4, <1>5, <1>6 DEF Next, Locator

\* Every step of either thread, and the clock, preserve the inductive invariant.
LEMMA NextIInv == IInv /\ [Next]_vars => IInv'
BY NextTypeOK, NextPending, NextShutdown DEF IInv, Pending

\* The inductive invariant holds in every reachable state.
THEOREM InductiveInvariant == Spec => []IInv
BY InitIInv, NextIInv, PTL DEF Spec

\* No trigger that ThreadLoc erased ever comes back into allTriggers, whatever the
\* server repeats and whenever it arrives.
THEOREM NeverReprocessed == Spec => []NoReprocess
<1>1. IInv => NoReprocess
  BY DEF IInv
<1> QED
  BY <1>1, InductiveInvariant, PTL

\* Between two passes of the inner loop the watermark covers everything retired.
THEOREM RetiredCovered == Spec => []RetiredBehind
<1>1. IInv => RetiredBehind
  BY DEF IInv
<1> QED
  BY <1>1, InductiveInvariant, PTL

\* ThreadLoc leaves its loop only when the loader is done and nothing is left in
\* transTriggers.
THEOREM NothingLostAtExit == Spec => []NoBatchLost
<1>1. IInv => NoBatchLost
  BY DEF IInv, Shutdown, NoBatchLost, TypeOK
<1> QED
  BY <1>1, InductiveInvariant, PTL

\* CurrentProcessingTime never decreases.
THEOREM WatermarkNeverBack == Spec => WatermarkMonotone
<1>1. IInv /\ [Next]_vars => [CurrentProcessingTime' >= CurrentProcessingTime]_vars
  <2> SUFFICES ASSUME IInv, [Next]_vars
               PROVE  CurrentProcessingTime' >= CurrentProcessingTime
    OBVIOUS
  <2>1. CASE CurrentProcessingTime' = CurrentProcessingTime
    BY <2>1 DEF IInv, TypeOK
  <2>2. CASE WaitForNetwork \/ LocateLightning \/ GiveUpBase
    <3>1. allTriggers # {} /\ AdvanceWatermark
      BY <2>2 DEF WaitForNetwork, LocateLightning, GiveUpBase
    <3> QED
      BY <3>1, AdvanceMonotone DEF IInv
  <2> QED
    BY <2>1, <2>2 DEF Next, Loader, Locator, Iterate, FetchRealTime, FetchHistorical,
       MergeIntoTrans, LogAdded, LoaderWakes, NextWindow, StopLoading, LoopTest, MergeTriggers,
       IdleSleeps, IdleWakes, SkipIsolated, AllConsumed, Tick, vars, locVars
<1> QED
  BY <1>1, InductiveInvariant, PTL DEF Spec, WatermarkMonotone

----------------------------------------------------------------------------
(* Nothing waits in a finished interval. *)

\* No trigger of a finished interval is too recent to be located.
LEMMA NeverTooRecent ==
  ASSUME Mode = "reProcess", IntervalIsOver, TypeOK, Settled, allTriggers # {}
  PROVE  ~TooRecent
<1>1. baseTrig.time \in Nat /\ baseTrig.time <= EndTime
  BY BaseType DEF TypeOK, Settled
<1>2. WholeSeconds(baseTrig.time) <= WholeSeconds(EndTime)
  BY <1>1, SMT, PipelineAssumption DEF WholeSeconds, TicksPerSecond
<1>3. WholeSeconds(baseTrig.time) \in Int /\ WholeSeconds(EndTime) \in Int
  BY <1>1, SMT, PipelineAssumption DEF WholeSeconds, TicksPerSecond
<1>4. now \in Nat /\ now >= Boot
  BY DEF TypeOK, Settled
<1> QED
  BY <1>2, <1>3, <1>4, PipelineAssumption DEF TooRecent, IntervalIsOver, ConvertGPSTimeToUnixTime

\* Every step of the inner loop goes on in it, or has consumed everything.
LEMMA IterateSettled ==
  ASSUME TypeOK, Settled, Iterate
  PROVE  Settled'
<1> SUFFICES ASSUME Mode = "reProcess", IntervalIsOver PROVE Settled'
  BY DEF Settled, IntervalIsOver
<1>1. ~WaitForNetwork
  BY NeverTooRecent DEF WaitForNetwork
<1>2. allTriggers' \subseteq allTriggers
  <2>1. CASE LocateLightning
    BY <2>1, EraseShrinks DEF LocateLightning
  <2> QED
    BY <1>1, <2>1 DEF Iterate, SkipIsolated, GiveUpBase, AllConsumed
<1>3. UNCHANGED <<cache, transTriggers, now>> /\ locAt = "locate"
  BY <1>1 DEF Iterate, SkipIsolated, LocateLightning, GiveUpBase, AllConsumed, loaderVars, shared
<1>4. locAt' # "locate" => allTriggers' = {}
  BY <1>1, <1>3 DEF Iterate, SkipIsolated, LocateLightning, GiveUpBase, AllConsumed
<1> QED
  BY <1>2, <1>3, <1>4 DEF Settled

\* Every step preserves it: what is fetched lies in the interval, and what is merged
\* is consumed before the locator leaves the inner loop.
LEMMA NextSettled == TypeOK /\ Settled /\ [Next]_vars => Settled'
<1> SUFFICES ASSUME TypeOK, Settled, [Next]_vars, Mode = "reProcess", IntervalIsOver
             PROVE  Settled'
  BY DEF Settled
<1>1. CASE Loader
  <2>1. UNCHANGED <<allTriggers, locAt, now>>
    BY <1>1 DEF Loader, FetchRealTime, FetchHistorical, MergeIntoTrans, LogAdded, LoaderWakes,
                NextWindow, StopLoading, locVars
  <2>2. \A t \in cache' \cup transTriggers' :
           t \in cache \cup transTriggers \/ t.time <= EndTime
    <3>1. CASE FetchHistorical
      BY <3>1 DEF FetchHistorical, shared
    <3> QED
      BY <1>1, <3>1 DEF Loader, FetchRealTime, MergeIntoTrans, LogAdded, LoaderWakes,
                        NextWindow, StopLoading, EndOfScope, shared
  <2> QED
    BY <2>1, <2>2 DEF Settled
<1>2. CASE LoopTest \/ IdleSleeps \/ IdleWakes
  <2>1. UNCHANGED <<cache, transTriggers, allTriggers, now>> /\ locAt # "locate"
    BY <1>2 DEF LoopTest, IdleSleeps, IdleWakes, shared, loaderVars
  <2> QED
    BY <2>1 DEF Settled
<1>3. CASE MergeTriggers
  <2>1. allTriggers' \subseteq allTriggers \cup transTriggers /\ transTriggers' = {}
    BY <1>3 DEF MergeTriggers, Fresh
  <2>2. UNCHANGED <<cache, now>> /\ locAt' = "locate"
    BY <1>3 DEF MergeTriggers, loaderVars
  <2> QED
    BY <2>1, <2>2 DEF Settled
<1>4. CASE Iterate
  BY <1>4, IterateSettled
<1>5. CASE Tick
  BY <1>5, PipelineAssumption DEF Tick, Settled, TypeOK, shared, loaderVars, locVars
<1>6. CASE UNCHANGED vars
  BY <1>6 DEF Settled, vars, shared, loaderVars, locVars
<1> QED
  BY <1>1, <1>2, <1>3, <1>4, <1>5, <1>6 DEF Next, Locator

\* When the interval of historical mode is over at the start, ThreadLoc leaves no
\* trigger unlocated behind.
THEOREM EverythingConsumed == Spec => []NothingLeftPending
<1>1. Init => TypeOK /\ Settled
  BY InitTypeOK, PipelineAssumption DEF Init, Settled
<1>2. TypeOK /\ Settled /\ [Next]_vars => (TypeOK /\ Settled)'
  BY NextTypeOK, NextSettled
<1>3. Settled => NothingLeftPending
  BY DEF Settled, NothingLeftPending
<1> QED
  BY <1>1, <1>2, <1>3, PTL DEF Spec

----------------------------------------------------------------------------
(* The historical windows. *)

\* A trigger at or after the end of one window and up to the end of the next lies in
\* the next.
LEMMA NextWindowHolds ==
  ASSUME NEW t \in Trigger, till_time \in Nat, till_time <= t.time,
         t.time <= AddMinutes(till_time, WindowMinutes)
  PROVE  InWindow(t, AddMinutes(till_time, WindowMinutes))
<1> DEFINE time == t.time
<1>1. time \in Nat
  BY TriggerFields
<1>2. WindowMinutes \in Nat
  BY PipelineAssumption
<1>3. AddMinutes(till_time, WindowMinutes) = till_time + 600000 * WindowMinutes
  BY SMT, <1>2, AddMinutesAdds
<1> HIDE DEF time
<1>4. AddMinutes(time, WindowMinutes) = time + 600000 * WindowMinutes
  BY SMT, <1>1, <1>2, AddMinutesAdds
<1>5. till_time <= time /\ time <= AddMinutes(till_time, WindowMinutes)
  BY SMT DEF time
<1>6. AddMinutes(till_time, WindowMinutes) <= AddMinutes(time, WindowMinutes)
  BY SMT, <1>1, <1>2, <1>3, <1>4, <1>5
<1> QED
  BY SMT, <1>5, <1>6 DEF InWindow, time

\* Advancing the window before it is fetched leaves no gap.
LEMMA FetchSwept ==
  ASSUME TypeOK, Swept, FetchHistorical
  PROVE  Swept'
<1>1. /\ Mode = "reProcess" /\ loaderAt = "fetch" /\ loaderAt' = "merge"
      /\ till_time' = AddMinutes(till_time, WindowMinutes)
      /\ asked' = asked \cup {t \in Trigger : InWindow(t, till_time')}
  BY DEF FetchHistorical
<1>2. till_time \in Nat /\ till_time' \in Nat
  BY <1>1, AddMinutesType, PipelineAssumption DEF TypeOK
<1>3. ASSUME NEW t \in Trigger, StartTime <= t.time, t.time <= till_time'
      PROVE  t \in asked'
  <2>1. t.time \in Nat
    BY TriggerFields
  <2>2. CASE t.time < till_time
    BY <1>1, <1>3, <2>2 DEF Swept
  <2>3. CASE till_time <= t.time
    BY <1>1, <1>2, <1>3, <2>3, NextWindowHolds
  <2> QED
    BY <1>2, <2>1, <2>2, <2>3
<1>4. \A t \in Trigger : t.time \in Nat
  BY TriggerFields
<1> QED
  BY <1>1, <1>2, <1>3, <1>4 DEF Swept

\* Every step preserves the sweep.
LEMMA NextSwept == IInv /\ Swept /\ [Next]_vars => Swept'
<1> SUFFICES ASSUME IInv, Swept, [Next]_vars PROVE Swept'
  OBVIOUS
<1> USE DEF IInv
<1>1. CASE FetchHistorical
  BY <1>1, FetchSwept
<1>2. CASE LoaderWakes \/ NextWindow
  BY <1>2 DEF LoaderWakes, NextWindow, Swept
<1>3. CASE StopLoading
  BY <1>3 DEF StopLoading, LastWindow, Swept
<1>4. CASE MergeIntoTrans \/ LogAdded
  BY <1>4 DEF MergeIntoTrans, LogAdded, Swept
<1>5. CASE FetchRealTime
  BY <1>5 DEF FetchRealTime, Swept
<1>6. CASE Locator \/ Tick \/ UNCHANGED vars
  <2>1. UNCHANGED <<loaderAt, till_time, asked>>
    BY <1>6 DEF Locator, LoopTest, MergeTriggers, IdleSleeps, IdleWakes, Iterate, SkipIsolated,
                WaitForNetwork, LocateLightning, GiveUpBase, AllConsumed, Tick, vars, loaderVars
  <2> QED
    BY <2>1 DEF Swept
<1> QED
  BY <1>1, <1>2, <1>3, <1>4, <1>5, <1>6 DEF Next, Loader

\* When the historical loader stops, its windows have covered the whole interval,
\* whatever its length is in relation to the window.
THEOREM IntervalCovered == Spec => []WindowsCover
<1>1. Init => IInv /\ Swept
  <2>1. Init => Swept
    <3> SUFFICES ASSUME Init PROVE Swept
      OBVIOUS
    <3>1. till_time = StartTime /\ loaderAt = "fetch"
      BY DEF Init
    <3>2. \A t \in Trigger : t.time \in Nat
      BY TriggerFields
    <3> QED
      BY <3>1, <3>2, PipelineAssumption DEF Swept
  <2> QED
    BY <2>1, InitIInv
<1>2. IInv /\ Swept /\ [Next]_vars => (IInv /\ Swept)'
  BY NextIInv, NextSwept
<1>3. IInv /\ Swept => WindowsCover
  <2> SUFFICES ASSUME IInv, Swept, loaderAt = "done",
                      NEW t \in Trigger, StartTime <= t.time, t.time <= EndTime
               PROVE  t \in asked
    BY DEF WindowsCover
  <2>1. Mode = "reProcess" /\ till_time >= EndTime
    BY DEF IInv, Shutdown, Swept
  <2>2. t.time \in Nat /\ till_time \in Nat
    BY TriggerFields DEF IInv, TypeOK
  <2> QED
    BY <2>1, <2>2, PipelineAssumption DEF Swept
<1> QED
  BY <1>1, <1>2, <1>3, PTL DEF Spec

----------------------------------------------------------------------------
(* The idle warning. *)

\* A positive multiple of the period is at least the period.
LEMMA MultipleOfPeriod ==
  ASSUME NEW idle \in Nat, NEW period \in Nat \ {0}, idle % period = 0, idle # 0
  PROVE  idle >= period
<1> SUFFICES ASSUME idle < period PROVE FALSE
  OBVIOUS
<1>1. idle % period = idle
  BY SMT
<1> QED
  BY <1>1

\* The counter grows by no more than the time slept.
LEMMA StillBehind ==
  ASSUME NEW last \in Nat, NEW idle \in Nat, NEW slept \in Nat, NEW time \in Nat,
         NEW after \in Int, after <= idle + slept, last + idle + slept <= time
  PROVE  last + after <= time
BY SMT

\* Every step preserves that the idle counter is behind the clock.
LEMMA NextIdleBehind == TypeOK /\ IdleBehind /\ [Next]_vars => IdleBehind'
<1> SUFFICES ASSUME TypeOK, IdleBehind, [Next]_vars PROVE IdleBehind'
  OBVIOUS
<1>1. /\ now \in Nat /\ lastLocated \in Nat /\ AccumulatedIdleTime \in Nat /\ locWake \in Nat
      /\ IdleSleep \in Nat /\ Horizon \in Nat /\ IdleWarnPeriod \in Nat /\ TickSeconds \in Nat
  BY PipelineAssumption DEF TypeOK
<1>2. CASE Loader \/ UNCHANGED vars
  <2>1. UNCHANGED <<locAt, lastLocated, AccumulatedIdleTime, locWake, now>>
    BY <1>2 DEF Loader, FetchRealTime, FetchHistorical, MergeIntoTrans, LogAdded, LoaderWakes,
                NextWindow, StopLoading, locVars, vars
  <2> QED
    BY <2>1 DEF IdleBehind
<1>3. CASE Tick
  <2>1. /\ now' = now + TickSeconds
        /\ UNCHANGED <<locAt, lastLocated, AccumulatedIdleTime, locWake>>
    BY <1>3 DEF Tick, locVars
  <2> QED
    BY <1>1, <2>1 DEF IdleBehind
<1>4. CASE LoopTest \/ AllConsumed \/ SkipIsolated \/ WaitForNetwork \/ GiveUpBase
  <2>1. /\ UNCHANGED <<lastLocated, AccumulatedIdleTime, locWake, now>>
        /\ locAt' # "sleep" /\ (locAt' = "locate" => locAt = "locate")
    BY <1>4 DEF LoopTest, AllConsumed, SkipIsolated, WaitForNetwork, GiveUpBase
  <2> QED
    BY <2>1 DEF IdleBehind
<1>5. CASE MergeTriggers
  <2>1. /\ UNCHANGED <<lastLocated, locWake, now>> /\ AccumulatedIdleTime' = 0
        /\ locAt' = "locate"
    BY <1>5 DEF MergeTriggers, ResetIdle
  <2> QED
    BY <1>1, <2>1 DEF IdleBehind
<1>6. CASE LocateLightning
  <2>1. /\ UNCHANGED <<AccumulatedIdleTime, locWake, now>> /\ lastLocated' = now
        /\ locAt = "locate" /\ locAt' = "locate"
    BY <1>6 DEF LocateLightning
  <2> QED
    BY <1>1, <2>1 DEF IdleBehind
<1>7. CASE IdleSleeps
  <2>1. /\ UNCHANGED <<lastLocated, AccumulatedIdleTime, now>> /\ locAt' = "sleep"
        /\ locWake' = WakeAfter(IdleSleep)
    BY <1>7 DEF IdleSleeps
  <2> QED
    BY <1>1, <2>1 DEF IdleBehind, WakeAfter
<1>8. CASE IdleWakes
  <2>1. /\ UNCHANGED <<lastLocated, locWake, now>> /\ locAt = "sleep" /\ locAt' = "loop"
        /\ now >= locWake /\ AccumulatedIdleTime' <= AccumulatedIdleTime + IdleSleep
        /\ AccumulatedIdleTime' \in Int
    BY <1>1, <1>8 DEF IdleWakes
  <2>2. ASSUME now < Horizon PROVE lastLocated + AccumulatedIdleTime + IdleSleep <= now
    BY <1>1, <2>1, <2>2 DEF IdleBehind
  <2>3. now' < Horizon => lastLocated' + AccumulatedIdleTime' <= now'
    <3>1. lastLocated' = lastLocated /\ now' = now
      BY <2>1
    <3>2. AccumulatedIdleTime' \in Int /\ AccumulatedIdleTime' <= AccumulatedIdleTime + IdleSleep
      BY <2>1
    <3> QED
      BY <1>1, <2>2, <3>1, <3>2, StillBehind
  <2>4. locAt' # "locate" /\ locAt' # "sleep"
    BY <2>1
  <2> QED
    BY <2>3, <2>4 DEF IdleBehind
<1> QED
  BY <1>2, <1>3, <1>4, <1>5, <1>6, <1>7, <1>8 DEF Next, Locator, Iterate

\* Whatever the period, the sleep and the order of the batches are, the warning is
\* sent only when no lightning has been located for the whole period.
THEOREM WarningIsTrue == Spec => WarningTruthful
<1>1. Init => TypeOK /\ IdleBehind
  BY InitTypeOK, PipelineAssumption DEF Init, IdleBehind
<1>2. TypeOK /\ IdleBehind /\ [Next]_vars => (TypeOK /\ IdleBehind)'
  BY NextTypeOK, NextIdleBehind
<1>3. TypeOK /\ IdleBehind =>
         [IdleWakes /\ WarningDue /\ now < Horizon => now - lastLocated >= IdleWarnPeriod]_vars
  <2> SUFFICES ASSUME TypeOK, IdleBehind, WarningDue, now < Horizon
               PROVE  now - lastLocated >= IdleWarnPeriod
    OBVIOUS
  <2>1. AccumulatedIdleTime >= IdleWarnPeriod
    BY MultipleOfPeriod, PipelineAssumption DEF WarningDue, TypeOK
  <2>2. lastLocated + AccumulatedIdleTime <= now
    BY DEF IdleBehind
  <2> QED
    BY <2>1, <2>2, PipelineAssumption DEF TypeOK
<1> QED
  BY <1>1, <1>2, <1>3, PTL DEF Spec, WarningTruthful
=============================================================================
