----------------------------- MODULE ThreadPool -----------------------------
(***************************************************************************)
(* class ThreadPool (include/threadpool.h) with its only client: ThreadLoc *)
(* enqueues one task per posted result and destroys the pool when it       *)
(* returns.                                                                *)
(*                                                                         *)
(* A block that holds queue_mutex is one step.  notify_one and notify_all  *)
(* come after the mutex is released and are steps of their own; a waiting  *)
(* worker that is notified, or wakes up spuriously, has to take the mutex  *)
(* again and re-evaluate its predicate.                                    *)
(***************************************************************************)
EXTENDS Naturals, Sequences, FiniteSets

CONSTANTS
    Worker,   \* the pool's threads: 100 in ThreadLoc
    MaxTasks  \* bound: how many results the locator posts

ASSUME PoolAssumption ==
    /\ IsFiniteSet(Worker) /\ Worker # {}
    /\ MaxTasks \in Nat

NoTask == 0
Task   == 1 .. MaxTasks   \* tasks are numbered in the order they are enqueued

VARIABLES
    tasks,      \* the queue
    stop,
    workerAt,   \* per worker: "test", "wait", "run" or "exit"
    current,    \* per worker: the task it runs, or NoTask
    ownerAt,    \* the thread that owns the pool
    enqueued,   \* how many tasks the owner has pushed
    joined,     \* the workers that the destructor has joined
    ran         \* history: how often each task has been run to its end

vars == <<tasks, stop, workerAt, current, ownerAt, enqueued, joined, ran>>

Init ==
    /\ tasks = <<>> /\ stop = FALSE
    /\ workerAt = [w \in Worker |-> "test"] /\ current = [w \in Worker |-> NoTask]
    /\ ownerAt = "use" /\ enqueued = 0 /\ joined = {}
    /\ ran = [t \in Task |-> 0]

----------------------------------------------------------------------------
(* The workers. *)

Ready == stop \/ tasks # <<>>

\* condition.wait: the predicate is false, the mutex is released.
Waits(w) ==
    /\ workerAt[w] = "test" /\ ~Ready
    /\ workerAt' = [workerAt EXCEPT ![w] = "wait"]
    /\ UNCHANGED <<tasks, stop, current, ownerAt, enqueued, joined, ran>>

\* Mutant of Leaves: the worker leaves as soon as the pool is stopped.
LeavesAtOnce(w) ==
    /\ workerAt[w] = "test" /\ stop
    /\ workerAt' = [workerAt EXCEPT ![w] = "exit"]
    /\ UNCHANGED <<tasks, stop, current, ownerAt, enqueued, joined, ran>>

Leaves(w) ==
    /\ workerAt[w] = "test" /\ stop /\ tasks = <<>>
    /\ workerAt' = [workerAt EXCEPT ![w] = "exit"]
    /\ UNCHANGED <<tasks, stop, current, ownerAt, enqueued, joined, ran>>

\* Mutant of Takes: the front is copied and not popped.
TakesCopy(w) ==
    /\ workerAt[w] = "test" /\ tasks # <<>>
    /\ current' = [current EXCEPT ![w] = Head(tasks)]
    /\ workerAt' = [workerAt EXCEPT ![w] = "run"]
    /\ UNCHANGED <<tasks, stop, ownerAt, enqueued, joined, ran>>

Takes(w) ==
    /\ workerAt[w] = "test" /\ tasks # <<>>
    /\ current' = [current EXCEPT ![w] = Head(tasks)]
    /\ tasks' = Tail(tasks)
    /\ workerAt' = [workerAt EXCEPT ![w] = "run"]
    /\ UNCHANGED <<stop, ownerAt, enqueued, joined, ran>>

\* task(): a packaged_task, which keeps an exception to itself.
Runs(w) ==
    /\ workerAt[w] = "run"
    /\ ran' = [ran EXCEPT ![current[w]] = @ + 1]
    /\ current' = [current EXCEPT ![w] = NoTask]
    /\ workerAt' = [workerAt EXCEPT ![w] = "test"]
    /\ UNCHANGED <<tasks, stop, ownerAt, enqueued, joined>>

\* Mutant of WakesSpuriously: wait without a predicate, so that the worker goes on
\* with the front of a queue that may be empty.
GoesOnUntested(w) ==
    /\ workerAt[w] = "wait"
    /\ workerAt' = [workerAt EXCEPT ![w] = "run"]
    /\ UNCHANGED <<tasks, stop, current, ownerAt, enqueued, joined, ran>>

\* wait(lock, predicate) tests again after every wake-up.
WakesSpuriously(w) ==
    /\ workerAt[w] = "wait"
    /\ workerAt' = [workerAt EXCEPT ![w] = "test"]
    /\ UNCHANGED <<tasks, stop, current, ownerAt, enqueued, joined, ran>>

WorkerStep(w) == Waits(w) \/ Leaves(w) \/ Takes(w) \/ Runs(w)

----------------------------------------------------------------------------
(* The owner. *)

Waiting == {w \in Worker : workerAt[w] = "wait"}

\* enqueue, up to the release of the mutex; it throws once the pool is stopped.
Enqueue ==
    /\ ownerAt = "use" /\ ~stop /\ enqueued < MaxTasks
    /\ enqueued' = enqueued + 1
    /\ tasks' = Append(tasks, enqueued')
    /\ ownerAt' = "notify"
    /\ UNCHANGED <<stop, workerAt, current, joined, ran>>

\* Mutant of NotifyOne: no worker is notified.
NotifyNone ==
    /\ ownerAt = "notify"
    /\ ownerAt' = "use"
    /\ UNCHANGED <<tasks, stop, workerAt, current, enqueued, joined, ran>>

\* condition.notify_one: one of the waiting workers, if there is any.
NotifyOne ==
    /\ ownerAt = "notify"
    /\ \/ /\ Waiting = {} /\ UNCHANGED workerAt
       \/ \E w \in Waiting : workerAt' = [workerAt EXCEPT ![w] = "test"]
    /\ ownerAt' = "use"
    /\ UNCHANGED <<tasks, stop, current, enqueued, joined, ran>>

\* ThreadLoc returns; ~ThreadPool sets the flag under the mutex.
Stop ==
    /\ ownerAt = "use"
    /\ stop' = TRUE
    /\ ownerAt' = "notifyAll"
    /\ UNCHANGED <<tasks, workerAt, current, enqueued, joined, ran>>

\* Mutant of NotifyAll: notify_one in the destructor.
NotifyOnlyOne ==
    /\ ownerAt = "notifyAll"
    /\ \/ /\ Waiting = {} /\ UNCHANGED workerAt
       \/ \E w \in Waiting : workerAt' = [workerAt EXCEPT ![w] = "test"]
    /\ ownerAt' = "join"
    /\ UNCHANGED <<tasks, stop, current, enqueued, joined, ran>>

NotifyAll ==
    /\ ownerAt = "notifyAll"
    /\ workerAt' = [w \in Worker |-> IF w \in Waiting THEN "test" ELSE workerAt[w]]
    /\ ownerAt' = "join"
    /\ UNCHANGED <<tasks, stop, current, enqueued, joined, ran>>

Join(w) ==
    /\ ownerAt = "join" /\ w \notin joined
    /\ workerAt[w] = "exit"
    /\ joined' = joined \cup {w}
    /\ UNCHANGED <<tasks, stop, workerAt, current, ownerAt, enqueued, ran>>

Destroyed ==
    /\ ownerAt = "join" /\ joined = Worker
    /\ ownerAt' = "gone"
    /\ UNCHANGED <<tasks, stop, workerAt, current, enqueued, joined, ran>>

Owner == \/ Enqueue \/ NotifyOne \/ Stop \/ NotifyAll \/ Destroyed
         \/ \E w \in Worker : Join(w)

Next == \/ Owner
        \/ \E w \in Worker : WorkerStep(w) \/ WakesSpuriously(w)

\* Every thread is scheduled; nothing promises a spurious wake-up.  The locator may
\* keep using the pool, so only what follows a push or a stop is fair.
Fairness ==
    /\ \A w \in Worker : WF_vars(WorkerStep(w))
    /\ WF_vars(NotifyOne) /\ WF_vars(NotifyAll) /\ WF_vars(Destroyed)
    /\ \A w \in Worker : WF_vars(Join(w))

Spec     == Init /\ [][Next]_vars
FairSpec == Spec /\ Fairness

----------------------------------------------------------------------------
(* Properties. *)

Elements(q) == {q[i] : i \in 1 .. Len(q)}
InQueue == Elements(tasks)
InHand  == {current[w] : w \in Worker} \ {NoTask}

\* Type invariant of the pool's members and of its threads' places: a worker holds
\* a task exactly while it runs it.
TypeOK ==
    /\ tasks \in Seq(Task) /\ stop \in BOOLEAN
    /\ workerAt \in [Worker -> {"test", "wait", "run", "exit"}]
    /\ current \in [Worker -> Task \cup {NoTask}]
    /\ ownerAt \in {"use", "notify", "notifyAll", "join", "gone"}
    /\ enqueued \in 0 .. MaxTasks /\ joined \subseteq Worker
    /\ ran \in [Task -> Nat]
    /\ \A w \in Worker : workerAt[w] = "run" <=> current[w] # NoTask

\* A posted result is in one place: in the queue, in the hands of one worker, or
\* done once.  (A result posted twice is a duplicate in the database.)
RunOnce ==
    \A t \in Task :
        /\ ran[t] <= 1
        /\ t \in InQueue => t \notin InHand /\ ran[t] = 0
        /\ t \in InHand => ran[t] = 0
        /\ \A w, v \in Worker : current[w] = t /\ current[v] = t => w = v

\* ~ThreadPool drains the queue: when it has joined the workers every task that was
\* enqueued has been run.
Drained == ownerAt = "gone" => \A t \in 1 .. enqueued : ran[t] = 1

\* Auxiliary parts of the inductive invariant: a task is queued once, every task
\* is accounted for, and where owner and workers can be once the pool is stopped.
Distinct(q) == \A i, k \in 1 .. Len(q) : q[i] = q[k] => i = k

Accounted ==
    \A t \in Task : t <= enqueued <=> t \in InQueue \/ t \in InHand \/ ran[t] # 0

Phases ==
    /\ stop <=> ownerAt \in {"notifyAll", "join", "gone"}
    /\ \A w \in Worker : workerAt[w] = "exit" => stop /\ tasks = <<>>
    /\ \A w \in joined : workerAt[w] = "exit"
    /\ ownerAt = "gone" => joined = Worker

IInv == TypeOK /\ RunOnce /\ Distinct(tasks) /\ Accounted /\ Phases

\* No wake-up is lost between enqueue's push and notify_one, which run apart, and a
\* worker that is about to wait: every enqueued task is run, without the help of
\* spurious wake-ups.
EveryTaskRuns == \A t \in Task : t \in InQueue ~> ran[t] = 1

\* ~ThreadPool returns: no worker sleeps through the stop.
DestructorReturns == ownerAt = "notifyAll" ~> ownerAt = "gone"

\* The pool keeps what ThreadLoc relies on.
Abstract == INSTANCE TaskPool WITH
    queued   <- InQueue,
    running  <- InHand,
    finished <- {t \in Task : ran[t] > 0},
    closed   <- ownerAt = "gone"

RefinesTaskPool == Abstract!TaskSpec
=============================================================================
