# LigDataParsing: a verification project

LigDataParsing locates lightning from the triggers that a network of stations
reports to a server.  The program is a C++ process with two long-lived threads
and a pool of posting threads.  This directory models its control flow in TLA+,
checks small instances with TLC and proves the central invariants with TLAPS.

All paths below are relative to the repository (`src/`).

## 1. The system

| Component | Source | State | Operations |
|---|---|---|---|
| start-up | `main.cpp` | `siteMap`, `siteTimeMap`, the two deques, `rwMutex`, `keep_loading` | load the configuration, fetch the stations, start both threads, join the locator, then the loader |
| loader | `ThreadLoadData.cpp` | `till_time`, the local `cache` | fetch a batch, merge it into `transTriggers` under `rwMutex`, log, sleep 60 s (real time) or advance a 20-minute window (historical), clear `keep_loading` at the end |
| locator | `ThreadLoc.cpp` | `allTriggers`, `CurrentProcessingTime` (the watermark), `AccumulatedIdleTime` | move fresh triggers from `transTriggers`, consume `allTriggers` from the front, post results, warn when idle |
| combinations | `LigTools.cpp` | none | enumerate coherent combinations of one trigger per station |
| trigger pool's map | `include/ordered_hash.h` (tsl) | `m_values`, `m_buckets` | find, `operator[]`, erase, iterate |
| time | `include/DataStruct.h`, `include/GPSTimeAlgorithm.h` | broken-down `GPSTime` | comparison, difference, carry, `set_second`, `mktime` |
| posting pool | `include/threadpool.h` | queue, `stop`, worker threads | `enqueue`, worker loop, destructor |
| server access | `LigDataApi.cpp` | none between calls | fetch triggers and stations (three tries at each of two servers), parse, post a result (three tries) |
| MQTT | `LigDataApi.cpp` | the client's connection | connect on demand, publish, disconnect |
| solver | `LocStruct.cpp`, `GeoTools.h` | none | grid search, least squares, distances |
| logger | `log.cpp`, `include/log.h` | the open file and its buffer | write a line, change the file daily |

How they interact.  Loader and locator share `transTriggers` (guarded by
`rwMutex`, but its size is also read without it) and `keep_loading` (a plain
`bool`, written by the loader, read by the locator).  Everything the loader
fetches goes through `transTriggers` into `allTriggers`, which only the locator
touches.  A located lightning becomes a task of the posting pool, which the
locator owns as a local variable: when `ThreadLoc` returns, the pool's
destructor drains and joins it.  The tasks and the locator use one MQTT client.

What is hard.  The two threads interleave without a common lock around the loop
conditions and the logged sizes.  The server repeats triggers (each real-time
answer covers five minutes, a fetch takes place every minute), delivers some of
them late and may deliver nothing; the watermark has to keep what is consumed
from being consumed again.  The locator waits for the network, measured with the
wall clock.  Results are erased by index from a deque that shrinks while it is
erased from.  Time differences are computed from decimal weights.  The list of
hazards in `PROJECT.json` gives the line of each.

What makes each component correct:

* loader: the windows cover the interval; the last batch is taken over before
  the locator stops; both threads end in historical mode;
* locator: nothing consumed comes back; the watermark never regresses; the
  inner loop ends; what is erased exists; a warning is true;
* one pass over a base trigger: the index and the result of the best combination
  belong together; the limits on stations hold; exactly one of "located" and
  "given up" happens;
* combinations: every coherent one is found once; the map finds every station
  of the pool, also after an erase;
* result: its time is a travel time before its earliest arrival, its peak current
  that of its earliest trigger with a gain;
* time: the carry loses nothing; a difference is never too small; what is close
  lies in one minute;
* pool: every task is run once, before the destructor returns, which it does;
* server access: a call gives up only after all its tries, mixes no answers, and
  warns when it obtained nothing, unless an exception ended it;
* posting and MQTT: every task ends, reports a failure exactly when there is one,
  repeats a POST only when an answer was lost, and nobody connects after the disconnect;
* logger: a line is in the file of its day, and neither a change of the day nor a
  restart loses one.

## 2. The modules

| Module | Models | Notes |
|---|---|---|
| `GPSTime` | time arithmetic | operators only |
| `LocPool` | trigger pool, combinations, erasure | operators only; constants for stations, triggers and limits |
| `LigTools` | the recursions that enumerate combinations | operators only; recursive functions; extends `LocPool` |
| `OrderedHash` | the hash map of the trigger pool | operators only; constant for the hash function |
| `LigPipeline` | loader and locator | state machine; extends `LocPool` |
| `LocateBase` | one pass over a base trigger, step by step, up to the posted result | state machine; extends `LigTools` and `OrderedHash`; implements `LocateChoice` |
| `LocateChoice` | the same pass in one step | abstract specification |
| `ThreadPool` | the posting pool | state machine; implements `TaskPool` |
| `TaskPool` | what a pool of tasks promises | abstract specification |
| `TriggerFetch` | the calls that ask the servers | state machine of one call |
| `ResultPublisher` | posting tasks and the shared MQTT client | state machine; composed with `TaskPool` |
| `Logger` | the daily log file, over kills and restarts | state machine; its instance is in `Log.cfg` |
| `MCLigPipeline`, `MCLocateBase`, `MCThreadPool`, `MCTriggerFetch`, `MCResultPublisher` | instances for TLC | triggers, stations, batches |
| `DataProofs` | lemmas about numbers, ranks, lists and recursion | section 5 |
| `LocPoolProofs` | theorems about times, the pool, the enumerations, the ordered map | extends `LigTools`, `OrderedHash` and `DataProofs` |
| `LigPipelineProofs`, `LocateBaseProofs`, `TriggerFetchProofs`, `ThreadPoolProofs`, `ResultPublisherProofs`, `LoggerProofs` | theorems about the state machines | section 5 |

### Time (`GPSTime`)

A time is a natural number of ticks of 0.1 ms, the tolerance that the program
adds to its comparisons.  The fields `m_Day` ... `m_Sec` are recovered by
division, and `Minus` applies the weights of `operator-` (1e2 for a minute, 1e4
for an hour, 1e6 for a day) to them, so that it is as wrong as the code.  Months
and years are folded into days: their weights differ, the shape does not.
Floating-point rounding is not modelled.  `set_second` has its two branches: a
negative second goes back one whole second from the time through `mktime`.
`SecondsOfMinute` is what the solver is given of an arrival.

### Pool, combinations, erasure (`LocPool`)

`allTriggers` is sorted and free of duplicates whenever it is read, so it is a
set, and an index is the number of smaller elements.  `TriggerPool` is what the
scan at `ThreadLoc.cpp:165` collects, `Combinations` what `getLocationPool_p`
returns, `Droppable` the stations that two rounds can remove, `LocatedCombs` the
combinations that can end up as the final one, and `EraseUsed` what is left after
the erasure by index, including that a trigger without an index erases the front.

### Loader and locator (`LigPipeline`)

Each variable of the two functions that lives across a lock, a sleep or a loop
iteration is a variable of the module, and `loaderAt` and `locAt` say where the
threads are.  A critical section is one step.  Reads of shared variables outside
the lock are steps of their own: the loop condition at `ThreadLoc.cpp:112` is
`LoopTest` (two reads), the sizes at `ThreadLoadData.cpp:44` and `54` are
`init_size` and `AddedCount`.  The test `transTriggers.size()` at
`ThreadLoc.cpp:114` is one step with the critical section that follows it,
because only the locator shrinks the deque.

The actions of an inner iteration are `SkipIsolated` (line 145),
`WaitForNetwork` (158), `LocateLightning` and `GiveUpBase` (165-334).
`ConvertGPSTimeToUnixTime` reads UTC fields with `mktime` on a host whose clock is
`HostOffset` ahead of UTC, and the code adds eight hours.  The results of the solver
are free choices.  The server is external: a real-time fetch gives any batch of
`Batches` whose triggers are at most five minutes old, a historical one any batch
inside its window; batches overlap, repeat, come late, and may be empty, which is
also what a failed fetch looks like.

Four history variables (`asked`, `retired`, `posted`, `lastLocated`) record what
the properties speak about; no action reads them.

### One pass in detail (`LocateBase`)

The scan takes one step per element, with the `continue`s and the `break`; then
the first enumeration, up to two rounds, and one step per erased index.  The pool is
a value of `OrderedHash`: its stations stand in the order of their first trigger, and
dropping the worst one is `EraseKey`, which shifts values and buckets.
`getLocationPool_p` of `LigTools` walks that order with the two recursions of the
source, so that the position of a combination is the one the code stores in
`finalCombIdx`.  `Accept` computes the posted time: the solver's `occur_t` is one of
`Delays` before the earliest arrival, in seconds within the minute, and may be
negative; `set_second` puts it into the first trigger's time.  `PeakTrigger` is the search
of `PostLigResult` for the trigger that makes the peak current.  A
residual is `"below"`, `"at"` or `"above"` the threshold.  `MinSq`,
`finalCombIdx` and `result` are overwritten by each call of
`ProcessCombinationPool`, as the code does (the comparison is commented out at
line 48).  The pass implements `LocateChoice` (section 5), whose two steps
are the ones `LigPipeline` takes: the set operators of `LocPool` are
thereby compared with the loop, the rounds and the erasure by index.

### The posting pool (`ThreadPool`)

The blocks under `queue_mutex` are steps; notifications are separate, after the
unlock, as in the code.  A waiting worker returns to its test when it is notified or
wakes up spuriously.  The destructor joins its workers in some order, which no
property distinguishes from the code's.  Tasks are numbered in the order in which
they are enqueued.  With `queued`, `running`, `finished` and `closed` read off the
state, the module implements `TaskPool`.

### Asking the servers (`TriggerFetch`)

One call of one of the three functions; `call` says which.  A request and what is
made of its answer are two steps.  An answer is reduced to its status and to
the items, and an item to its place in the order and what is wrong with it.  The
two kinds of exception are kept apart: a `Json::Exception` ends the parse and is caught
in it, so that the tries go on; one from `stoi` or `stof` leaves `parse_result` and
ends the call, with the items read so far, unsorted, and without a warning, even when
nothing has been read (`WarnedUnlessThrown` says that this is the only silent way to come
back empty in real time).  The
station list differs in that any answer with status 200 ends the tries.

### Posting and MQTT (`ResultPublisher`)

The module composes the tasks with `TaskPool`, which `ThreadPool` implements:
`Submit`, `Start`, `Finish` and `Close` are conjuncts of `EnqueueResult`, `Begin`,
`TaskEnds` and `PoolCloses`.  `sendDataViaMQTT` is a procedure that every thread can
be in; `sendAt` says where (lines 233, 234, 237 are steps), and the client is
shared.  `connect` and `publish` may throw at any time, the broker may drop the
client at any time.  A POST has three outcomes: answered, lost before the server took it, and
taken with the answer lost; `accepted` counts what the server took.  The `.loc` file
and the text of the result are not modelled.

### The log (`Logger`)

`RAW_LOG` takes the time of a line before `TryLogDaily` takes the mutex, so the stamp
and the file are two steps with any others, and midnight, in between.  The stream has a
buffer that is on disk after a flush or a close.  `Kill` loses the buffer; `Exit`
flushes it; after either the program may start again on the same directory.
An open may fail (`ok`), and the line is then lost, as `operator<<` on a closed stream
does nothing.  One instance of the program runs on a directory; two would
share the files without a common mutex.

## 3. What the runs check

| Run | Properties | What it shows |
|---|---|---|
| `real_time` | `TypeOK`, `NoReprocess`, `RetiredBehind`, `WatermarkMonotone` | one lightning, three stations, overlapping and repeated batches in any order |
| `idle` | `WarningTruthful`, `LeavesWhileFed` | the ten-minute warning is true; with new data, no trigger stays for ever |
| `reprocess` | `NoBatchLost`, `WindowsCover`, `NothingLeftPending`, `Termination` | three historical windows with triggers on their borders, the shutdown, that nothing is left over and that historical mode ends |
| `locate` | `TypeOK`, `FinalIsCurrent`, `CredibleUnlessFew`, `EraseInRange`, `LaterOnesStay`, `EveryCombinationOnce`, `SolverOnlyReads`, `SameMinute`, `ResultTime`, `PeakOfEarliest`, `RefinesLocateChoice` | one pass with the source's limits of 5, 6 and 8 stations, from the scan to the posted result |
| `pool` | `TypeOK`, `RunOnce`, `Drained`, `RefinesTaskPool`, `EveryTaskRuns`, `DestructorReturns` | three workers, three tasks, every interleaving; no wake-up is lost |
| `fetch` | `TypeOK`, `OneAnswer`, `EmptyOnlyAfterAllTries`, `WarnedUnlessThrown`, `CallReturns` | all sequences of up to six answers of the two servers |
| `publish` | `TypeOK`, `DisconnectIsFinal`, `ReportedIffUnanswered`, `TwiceOnlyAfterLoss`, `PoolDrains` | two tasks, loader and locator on one client, five configurations, lost POSTs and lost answers |
| `log` | `RightFile`, `OnlyKillsLose`, `FilesOnlyGrow` | two threads, a change of the day, kills and restarts at every step |

Four runs end in a violation.  Each states what a comment, a log message or the
configuration says and the code does not do:

| Run | Property | Disagreement |
|---|---|---|
| `late_arrivals` | `LateArrivalsMerged` | the comment at `ThreadLoc.cpp:156` reserves time for late triggers; the watermark has moved before, and they are dropped |
| `trigger_reuse` | `UsedOnce` | a second trigger of a station has no index: after a location it stays and is used again, and another trigger is erased; the tolerance at `ThreadLoc.cpp:175` lets in such a trigger of the base station too, which the comment at 174 rules out |
| `minute_boundary` | `SkipsOnlyIsolated` | across a full minute two close triggers count as 40 s apart |
| `log_count` | `LoggedIsAdded` | the logged number of new triggers wraps |

Four more observations have no run.  An isolated trigger is erased without the
wait (`ThreadLoc.cpp:146`), and nothing in the repository says it should wait.  The locator's
disconnect (line 339) never finds a connected client: the loop ends only in historical mode, which
sends nothing (`DisconnectIsFinal` holds for that reason).  The residual that
`PostLigResult` writes per trigger (line 267) is `operator-` of the arrival and the
lightning: where the lightning was before a full minute and the arrival after it, it
is 40 s and more too large, the same cause as in `minute_boundary`.  The stations are
fetched once (`main.cpp:34-35`): a trigger of a station that is not in that list has the
travel time 0 and the place 0, 0 that `operator[]` gives it (`ThreadLoc.cpp:175`, `185`), so
it joins a pool only within the tolerance; `SiteTime` may have such a station.

Every property of a passing run is accompanied by a mutant of the code that breaks
it (`"mutants"` in `PROJECT.json`; the mutated operators stand before the
originals in the modules).

### Bounds

* `Horizon`, `TickSeconds`, `Boot`: the wall clock moves in steps of 60 s (less
  where the idle path is the point) up to the horizon and stays there; sleeps then
  take no time, so that nothing is cut off.  The horizon lies beyond the network wait of
  every trigger, so that waiting, expiry of the wait and late batches all occur.
* triggers, stations, batches: each instance has the triggers of one or two
  lightnings with the constellations that matter: a second trigger of a station,
  a trigger exactly one baseline later, an isolated one, opposite polarity, both
  sides of a full minute, the borders of a window and of the interval.  The
  batches include none, all, and overlapping parts.
* station limits: 2, 2, 3 in the pipeline runs, so that three stations exercise
  dropping and the limit; 5, 6, 8, the source's, in `locate` and `trigger_reuse`.
* `SizeModulus` stands for 2^64.
* `IdleWarnPeriod`: the idle counter is only tested against zero and modulo the
  period, so it wraps from two periods to one.
* `locate`: the hashes of `MCHash` collide in a bucket, at the wrap of the table and
  after the table has grown; two of the deques lie just after and around a full
  minute, with `Delays` of nothing and of 0.6 ms, so that `occur_t` is negative for
  one and within a minute for the other; `Gains` leaves out the first stations, so
  that the search goes past triggers without a gain.
* `log`: two days and two lines of two threads are enough for every line to meet a
  full buffer, an empty one, midnight, a kill and a restart on the same day.
* `fetch`: the answers have no item, unsorted and repeated items, and each kind of
  fault in front and after good items; keys go to 3, with the station limit at 3.
* `publish`: two tasks race for the client with each other and with two more threads;
  `MaxRetries` is the source's 3.
* `MaxTasks` bounds the results that are posted; three workers are enough for a
  waiting, a testing and a running one at the same time.

### Fairness

Loader, locator and clock are each weakly fair: two threads the operating system
schedules, and time that passes.  No fairness is assumed of a particular branch,
of the server or of the solver.  `LeavesWhileFed` assumes in its statement that
batches keep arriving, which nothing in the program guarantees: without new data
a pending trigger is not looked at again (`ThreadLoc.cpp:114`).  In the pool every
worker and every owner step that follows a push or a stop is weakly fair; that
the locator goes on posting, or stops, is not assumed, and neither are spurious
wake-ups.  A task is one step of `ThreadPool`; that it ends is what `PoolDrains` shows in
`ResultPublisher`, where every task is fair, requests and MQTT calls return (httplib and
Paho have timeouts), and nothing is assumed of their outcome.  A call of
`TriggerFetch` is fair as a whole.
`CHECK_DEADLOCK` is off where the system stops: historical mode after both threads
ended, a pass that is over, a pool that is gone.

## 4. Assumptions on the constants

`TriggerAssumption` (finitely many triggers; time and station identify one, as
`TriggerInfo::operator==` has it), `SiteTimeAssumption` (travel times are
symmetric, as `main.cpp:41-50` computes them), `BoundAssumption` (5 <= 6 <= 8),
`PipelineAssumption` (types), `PoolAssumption` (a non-empty finite set of
workers), `DequesAssumption`, `HashAssumption`,
`FetchAssumption`, `PublisherAssumption` and `LoggerAssumption` (types).  TLC evaluates them in every run.

## 5. What is proved

TLAPS proves, for all values of the constants under these assumptions:

* `DataProofs`: lemmas without a source of their own: induction and recursion over
  numbers and over finite depths, the rank of an element in a finite order, lists.
* `LocPoolProofs`, times: `MinusNeverUnder` (operator- is antisymmetric and never reports
  less than the real difference), `AddActPointSecAdds` (the carry is addition),
  `CloseInSameMinute` (what `operator-` calls closer than 40 s lies in one minute) and
  `SetSecondSubtracts` (`set_second` goes back correctly over the full minute).
* `LocPoolProofs`, the pool: `CandidateClose`: a candidate is at
  most one baseline after the base; `ErasedClose` and `EraseShrinks`: what a
  location erases is close to the base, and nothing is added.  `CombInOneMinute`: the members of
  a combination lie in one minute, as long as travel times are below 40 s.
* `LocPoolProofs`, the enumeration: `LocationPoolAll`: for any lists of triggers
  `getLocationPool_p` returns every choice of one trigger per list that is coherent, and
  each once.
* `LocPoolProofs`, the ordered map, for any hash function: `LookupPresent`,
  `LookupAbsent`, `InsertMap` (also where the table grows) and `EraseMap`.
* `LigPipelineProofs`: `TypeCorrect`, `InductiveInvariant`, `NeverReprocessed`,
  `RetiredCovered`, `NothingLostAtExit`, `WatermarkNeverBack`, `EverythingConsumed`,
  `IntervalCovered`, `WarningIsTrue`: every safety property of the
  pipeline's passing runs.
* `LocateBaseProofs`, one pass: `PassInvariant`, `PassTypeCorrect`, `FinalBelongsToPool`,
  `KeepsCredible`, `ErasesInside`, `LaterUntouched`, `FindsEachOnce`, `SolverFinds`, `OneMinute`,
  `PostedTime`, `PeakIsEarliest`: every invariant of the run `locate`, for any deque,
  any network, any hash function and any choice of the solver; `ErasureInvariant`, and
  `LocateRefined`, that the pass implements `LocateChoice`.
* `TriggerFetchProofs`: `FetchInvariant`, `FetchTypeCorrect`, `FromOneAnswer`,
  `GivesUpLast`, `WarningUnlessThrown`: every safety property of the run `fetch`, for
  any answers of the servers.
* `ThreadPoolProofs`: `PoolInvariant`, `PoolTypeCorrect`, `NeverRunTwice`, `DrainedAtEnd`,
  and `Refinement`, that the pool implements `TaskPool`.
* `ResultPublisherProofs`: `PublisherInvariant`, `PublisherTypeCorrect`,
  `DisconnectedForGood`, `ReportsAreTrue`, `RepeatedOnlyAfterLoss`.
* `LoggerProofs`: `LoggerInvariant`, `LoggerTypeCorrect`, `LinesInFileOfTheirDay`,
  `NoLineLost`, `FilesAreKept`.

The argument for the pipeline.  `NoReprocess` is not inductive: that a merge
brings nothing back needs to know that what is retired lies at or below the
watermark.  That in turn fails for a moment inside the inner loop, because a skip
and an erasure do not wait for the watermark; but then the retired triggers are
not later than any pending one (`RetiredBehind`), and the next pass moves the watermark
beyond the front one.  An erasure may reach triggers up to one baseline
behind the base, which is exactly how far the watermark has been moved.  For
`WatermarkMonotone` one needs the converse bound: the watermark is at most one
baseline above any pending trigger (`WatermarkReach`), so that the next front
cannot move it back; a fresh trigger is above it by the test of the merge.
`Shutdown` relates `keep_loading` to the loader's place; the order of the two reads
in the loop condition is what makes it enough.  `IInv` is the conjunction, and was
checked with TLC before it was proved.  That a difference is never too small
(`MinusNeverUnder`) is what makes the invariant survive the decimal weights.

The argument for the pool.  Every task up to `enqueued` is in the queue, in a
worker's hands or done (`Accounted`), in only one of them (`RunOnce`), and once in the
queue (`Distinct`); a worker that has left saw the stop and an empty queue, which stays
empty because nothing is pushed after the stop (`Phases`).  When all workers are
joined the queue is empty and no hand is full, so everything is done.

Three more invariants of the pipeline have an argument of their own, apart from `IInv`.
`Swept` (everything between the start and the end of the current window has been
asked for) gives `IntervalCovered`: a window reaches back over the end of the one
before, so no trigger falls between two.  `Settled` gives `EverythingConsumed`: when the
interval ended longer ago than the wait, no trigger in the cache, in `transTriggers` or
in `allTriggers` is ever too recent, so the inner loop only ends with an empty deque.
`IdleBehind` gives `WarningIsTrue`: the last location and the idle counter together
never run ahead of the clock, because a sleep takes at least as long as the counter
grows by.

Minutes.  `operator-` adds 40 s or more whenever two times are on different sides of
a full minute (`CloseInSameMinute`), which makes it wrong for the isolation test, but for the
same reason a coherent combination is never on both sides (`CombInOneMinute`), and the
seconds within the minute that the solver gets are true differences.

The argument for posting.  `PostInv` says what each task has achieved when: an answered
task has left its loop, with no more POSTs taken than tries made, and a task that
has left it without an answer has used up its tries.  `WarnInv` ties the warning to
that, and `QuietInv` says that historical mode sends nothing, which is
why the disconnect is final.

The argument for the logger.  Only the absence of today's file closes a stream.
`StreamInv` is why that is enough: the open file always exists, so once there is a file
for today the open one is today's, because every file of today was created by
the open that followed the close.

The argument for the map.  `Table` says of the buckets what robin hood probing keeps
true (`Robin`): the bucket before an entry that is away from its ideal bucket is taken,
by an entry at most one step closer to its own.  Hence all buckets from the ideal one to the
entry are taken, none of them by an entry that a search would stop at.  A search may stop
at the first bucket that is closer to home than the searched key would be
(`LookupAbsent`), and before the key's own bucket there is none (`LookupPresent`).
`insert_index` carries the displaced entry on and leaves a table in every step
(`VisitNext`), `backward_shift` closes the gap because the run it moves ends where an entry is at
home (`ShiftTable`).  `MapOf` ties the buckets to the values: one entry for each, with its
position.  That the loop of `insert_index` ends needs a vacant bucket, which the growth at
three quarters provides.

The argument for the enumeration.  `permuteVector` extends a selection by one trigger of the next
list; `Grown` is the set of combinations that begin with a selection, and what the call
returns is that set without repetitions if it is so for the longer selections.
`getCombinations` is called with as many stations as there are, so exactly one of its
branches survives.  The prover has no induction over data; these proofs go by the least
counterexample: a set of numbers with 0 that is closed under successor up to n has all of them
(`Induction`), and an equation that asks only for deeper arguments has a solution
(`Recursion`).

The argument for a pass.  `PassInv` has five parts.  `DequeInv`: the deque is the sorted one
until the first erase.  `IndexInv`: a trigger with an index stands at it.  `PoolInv`:
during the scan the pool holds what `LocPool` admits of the elements passed
(`Scanned`), so that at the end of the scan it is `TriggerPool` (`ScannedPool`); later it is that pool or
has at least `CredibleStations` stations, because a round drops one only from a larger
pool.  `ResidualInv`: the combinations are those of the current pool, and the result is
one of them.  `EraseInv`: the indices left fall, apart from repetitions of 0, and there are no
more of them than elements, so the first is inside.  That two members may share an
index only if it is 0 comes from `IndexInv`.  The statements about times need bounds on travel
times, which are hypotheses of the theorems: 40 s between stations for
`OneMinute`, a minute for `PeakIsEarliest`, a second for travel time and
`Delays` together in `PostedTime`.  A network of lightning detectors has milliseconds.
Without a bound on `Delays` the posted time may lie before the epoch of the model, so
`TypeOK` has it in `Int`.

The argument for the refinement of a pass.  Every step but the last stutters, as `pending` is
the deque at the start until the outcome is known; the last one has to be a single step of
`LocateChoice`.  Three invariants beside `PassInv` say why it is one.  `MarkInv`: which triggers
carry an index.  The scan gives one only to the trigger with which a station enters the pool, its
place in the deque; a later trigger of the station keeps the 0 it was created with.
`DropInv`: the pool is `TriggerPool` without the stations dropped, which are
`Droppable` and no more than rounds, and whoever drops one has found a combination
before; so what is located lies in `LocatedCombs`, and a pass gives up only when it may.
`ShrinkInv`: the indices left fall, and the deque is the one at the start without the members
already erased (`ErasedTo`): a member with an index has gone if its index is no longer in the
list, and each index 0 of a member without one took what was in front
(`EraseFront`).  When the list is empty this is `EraseUsed` (`ErasedAll`), and
before that, what is gone is a member or one of the first few in front, never a trigger
behind the last member (`LaterUntouched`).

The argument for a call.  `Asked` relates the number of tries to the answers obtained from
each server, `NothingYet` says that no answer before the last held a trigger or threw, and
`AllTried` that a call which comes back empty has used its tries.  The items of an earlier
answer are gone or never came: a try goes on only while nothing has been obtained.  That
`std::sort` and `unique` keep the set of keys is `SortUniqueKeeps`.

Only model-checked: the liveness properties of the passing runs, because fairness is
beyond the prover.  Every invariant, every action property and both refinements are proved.

## 6. Not modelled, and what could follow

Not modelled, and why:

* the numeric solver and the geometric checks (`LocStruct.cpp`, `GeoTools.h`,
  `check_location_structure`): floating point without discrete state; free choices here;
* formatting, the fields of the posted JSON, the path and the lines of the `.loc` file;
* `getLocationPool`, `CalculteTime`, `TryLog` and the client-state structs: no code uses them;
* the vendored libraries (Eigen, Ceres, httplib, jsoncpp, Paho, yaml-cpp), which make up
  more than nine tenths of the lines under `src/`, and the MATLAB scripts: not
  this program's logic; only the part of `ordered_hash.h` that decides which stations
  are found is modelled;
* floating-point rounding of times, and data races in the sense of the C++ memory model
  beyond the order of the reads and writes of `keep_loading` and the size;
* two instances of the program on one log directory.

What could follow: the start-up of `main.cpp` with a server that does not answer `GetStationData`.
