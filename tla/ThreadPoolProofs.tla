-------------------------- MODULE ThreadPoolProofs --------------------------
(* ThreadPool runs every task once, for any number of workers and tasks. *)
EXTENDS ThreadPool, TLAPS

\* Popping the front of a queue without duplicates removes its element.
LEMMA TailElements ==
  ASSUME NEW S, NEW q \in Seq(S), q # <<>>, Distinct(q)
  PROVE  /\ Tail(q) \in Seq(S) /\ Distinct(Tail(q))
         /\ Head(q) \in Elements(q) /\ Head(q) \in S
         /\ Elements(Tail(q)) = Elements(q) \ {Head(q)}
<1>1. Len(q) \in Nat \ {0} /\ Head(q) = q[1] /\ Tail(q) \in Seq(S)
  OBVIOUS
<1>2. Len(Tail(q)) = Len(q) - 1 /\ \A i \in 1 .. Len(q) - 1 : Tail(q)[i] = q[i + 1]
  OBVIOUS
<1>3. Distinct(Tail(q))
  BY <1>1, <1>2 DEF Distinct
<1>4. Elements(Tail(q)) \subseteq Elements(q) \ {Head(q)}
  BY <1>1, <1>2 DEF Elements, Distinct
<1>5. ASSUME NEW x \in Elements(q) \ {Head(q)} PROVE x \in Elements(Tail(q))
  <2>1. PICK i \in 1 .. Len(q) : x = q[i]
    BY DEF Elements
  <2>2. i # 1 /\ i - 1 \in 1 .. Len(q) - 1 /\ (i - 1) + 1 = i
    BY <1>1, <2>1
  <2>3. Tail(q)[i - 1] = x
    BY <1>2, <2>1, <2>2
  <2> QED
    BY <1>1, <1>2, <2>2, <2>3 DEF Elements
<1>6. Head(q) \in Elements(q) /\ Head(q) \in S
  BY <1>1 DEF Elements
<1> QED
  BY <1>1, <1>3, <1>4, <1>5, <1>6

\* Pushing a new element keeps a queue free of duplicates.
LEMMA AppendElements ==
  ASSUME NEW S, NEW q \in Seq(S), NEW x \in S, x \notin Elements(q), Distinct(q)
  PROVE  /\ Append(q, x) \in Seq(S) /\ Distinct(Append(q, x)) /\ Append(q, x) # <<>>
         /\ Elements(Append(q, x)) = Elements(q) \cup {x}
<1> DEFINE r == Append(q, x)
<1>1. /\ Len(q) \in Nat /\ r \in Seq(S) /\ Len(r) = Len(q) + 1 /\ r[Len(q) + 1] = x
      /\ \A i \in 1 .. Len(q) : r[i] = q[i]
  OBVIOUS
<1> HIDE DEF r
<1>2. \A i \in 1 .. Len(r) : i \in 1 .. Len(q) \/ i = Len(q) + 1
  BY <1>1
<1>3. \A i \in 1 .. Len(q) : q[i] # x
  BY DEF Elements
<1>4. Distinct(r)
  BY <1>1, <1>2, <1>3 DEF Distinct
<1>5. Elements(r) = Elements(q) \cup {x}
  BY <1>1, <1>2 DEF Elements
<1>6. r # <<>>
  BY <1>1
<1> QED
  BY <1>1, <1>4, <1>5, <1>6 DEF r

\* An empty queue has no elements, and no other queue is empty.
LEMMA EmptyElements ==
  ASSUME NEW S, NEW q \in Seq(S)
  PROVE  q = <<>> <=> Elements(q) = {}
<1>1. CASE q = <<>>
  BY <1>1 DEF Elements
<1>2. CASE q # <<>>
  <2>1. 1 \in 1 .. Len(q)
    BY <1>2
  <2> QED
    BY <1>2, <2>1 DEF Elements
<1> QED
  BY <1>1, <1>2

-----------------------------------------------------------------------------
(* The inductive invariant. *)

\* The pool starts empty, with every worker about to test the queue.
LEMMA InitIInv == Init => IInv
<1> SUFFICES ASSUME Init PROVE IInv
  OBVIOUS
<1>1. InQueue = {} /\ InHand = {} /\ Distinct(tasks)
  BY DEF Init, InQueue, Elements, InHand, Distinct
<1>2. TypeOK
  <2>1. tasks = <<>> /\ stop = FALSE /\ enqueued = 0
    BY DEF Init
  <2>2. stop \in BOOLEAN
    BY <2>1
  <2>3. tasks \in Seq(Task) /\ enqueued \in 0 .. MaxTasks
    BY <2>1, PoolAssumption
  <2>4. \A w \in Worker : workerAt[w] = "test" /\ current[w] = NoTask
    BY DEF Init
  <2>5. /\ workerAt \in [Worker -> {"test", "wait", "run", "exit"}]
        /\ current \in [Worker -> Task \cup {NoTask}] /\ ran \in [Task -> Nat]
    BY DEF Init
  <2>6. ownerAt \in {"use", "notify", "notifyAll", "join", "gone"} /\ joined \subseteq Worker
    BY DEF Init
  <2> QED
    BY <2>2, <2>3, <2>4, <2>5, <2>6 DEF TypeOK
<1>3. RunOnce
  BY <1>1, PoolAssumption DEF Init, RunOnce, NoTask, Task
<1>4. Accounted
  BY <1>1 DEF Init, Accounted, Task
<1>5. Phases
  BY DEF Init, Phases
<1> QED
  BY <1>1, <1>2, <1>3, <1>4, <1>5 DEF IInv

\* Steps that leave the queue and the tasks alone.
Bookkeeping == <<tasks, current, enqueued, ran>>

\* A step that touches neither the queue nor a task keeps everything said of tasks.
LEMMA BookkeepingKeeps ==
  ASSUME IInv, UNCHANGED Bookkeeping
  PROVE  RunOnce' /\ Distinct(tasks)' /\ Accounted'
         /\ InQueue' = InQueue /\ InHand' = InHand
<1>1. tasks' = tasks /\ current' = current /\ enqueued' = enqueued /\ ran' = ran
  BY DEF Bookkeeping
<1>2. InQueue' = InQueue /\ InHand' = InHand
  BY <1>1 DEF InQueue, Elements, InHand
<1>3. RunOnce'
  BY <1>1, <1>2 DEF IInv, RunOnce
<1>4. Distinct(tasks)'
  BY <1>1 DEF IInv, Distinct
<1>5. Accounted'
  BY <1>1, <1>2 DEF IInv, Accounted
<1> QED
  BY <1>2, <1>3, <1>4, <1>5

\* Steps of a worker that change only where it is.
LEMMA WorkerMovesIInv ==
  ASSUME IInv, NEW w \in Worker, Waits(w) \/ Leaves(w) \/ WakesSpuriously(w)
  PROVE  IInv'
<1>1. UNCHANGED Bookkeeping
  BY DEF Bookkeeping, Waits, Leaves, WakesSpuriously
<1>2. TypeOK'
  BY DEF IInv, TypeOK, Waits, Leaves, WakesSpuriously
<1>3. Phases'
  BY DEF IInv, TypeOK, Phases, Waits, Leaves, WakesSpuriously
<1> QED
  BY <1>1, <1>2, <1>3, BookkeepingKeeps DEF IInv

\* What Takes does to the sets of tasks.
LEMMA TakesSets ==
  ASSUME IInv, NEW w \in Worker, Takes(w)
  PROVE  /\ Head(tasks) \in Task /\ Head(tasks) \in InQueue
         /\ InQueue' = InQueue \ {Head(tasks)}
         /\ InHand' = InHand \cup {Head(tasks)}
         /\ tasks' \in Seq(Task) /\ Distinct(tasks)'
<1>1. /\ tasks \in Seq(Task) /\ Distinct(tasks) /\ tasks # <<>> /\ tasks' = Tail(tasks)
      /\ current \in [Worker -> Task \cup {NoTask}] /\ current[w] = NoTask
      /\ current' = [current EXCEPT ![w] = Head(tasks)]
  BY DEF IInv, TypeOK, Takes
<1>2. /\ Tail(tasks) \in Seq(Task) /\ Distinct(Tail(tasks)) /\ Head(tasks) \in InQueue
      /\ Head(tasks) \in Task /\ Elements(Tail(tasks)) = InQueue \ {Head(tasks)}
  BY <1>1, TailElements DEF InQueue
<1>3. Distinct(tasks)' /\ InQueue' = InQueue \ {Head(tasks)}
  <2>1. InQueue' = Elements(Tail(tasks))
    BY <1>1 DEF InQueue, Elements
  <2>2. Distinct(tasks)'
    BY <1>1, <1>2 DEF Distinct
  <2> QED
    BY <1>2, <2>1, <2>2
<1>4. Head(tasks) # NoTask
  BY <1>2 DEF Task, NoTask
<1>5. InHand' = InHand \cup {Head(tasks)}
  BY <1>1, <1>4 DEF InHand
<1> QED
  BY <1>1, <1>2, <1>3, <1>5

\* Takes preserves the inductive invariant.
LEMMA TakesIInv ==
  ASSUME IInv, NEW w \in Worker, Takes(w)
  PROVE  IInv'
<1>1. /\ Head(tasks) \in Task /\ Head(tasks) \in InQueue /\ Head(tasks) \notin InHand
      /\ InQueue' = InQueue \ {Head(tasks)}
      /\ InHand' = InHand \cup {Head(tasks)}
      /\ tasks' \in Seq(Task) /\ Distinct(tasks)' /\ ran' = ran /\ enqueued' = enqueued
      /\ current' = [current EXCEPT ![w] = Head(tasks)]
      /\ current \in [Worker -> Task \cup {NoTask}]
  BY TakesSets DEF IInv, TypeOK, RunOnce, Takes
<1>2. TypeOK'
  BY <1>1 DEF IInv, TypeOK, Takes, Task, NoTask
<1>3. RunOnce'
  <2> SUFFICES ASSUME NEW t \in Task
               PROVE  /\ ran[t] <= 1
                      /\ t \in InQueue' => t \notin InHand' /\ ran[t] = 0
                      /\ t \in InHand' => ran[t] = 0
                      /\ \A u, v \in Worker : current'[u] = t /\ current'[v] = t => u = v
    BY <1>1 DEF RunOnce
  <2>1. /\ ran[t] <= 1 /\ (t \in InQueue => t \notin InHand /\ ran[t] = 0)
        /\ (t \in InHand => ran[t] = 0)
        /\ \A u, v \in Worker : current[u] = t /\ current[v] = t => u = v
    BY DEF IInv, RunOnce
  <2>2. \A u \in Worker : current[u] # Head(tasks)
    BY <1>1 DEF InHand, Task, NoTask
  <2>3. \A u, v \in Worker : current'[u] = t /\ current'[v] = t => u = v
    BY <1>1, <2>1, <2>2
  <2> QED
    BY <1>1, <2>1, <2>3
<1>4. Accounted'
  BY <1>1 DEF IInv, Accounted
<1>5. Phases'
  BY DEF IInv, TypeOK, Phases, Takes
<1> QED
  BY <1>1, <1>2, <1>3, <1>4, <1>5 DEF IInv

\* What Runs does to the sets of tasks.
LEMMA RunsSets ==
  ASSUME IInv, NEW w \in Worker, Runs(w)
  PROVE  /\ current[w] \in Task /\ current[w] \in InHand
         /\ InQueue' = InQueue /\ InHand' = InHand \ {current[w]}
<1>1. /\ current \in [Worker -> Task \cup {NoTask}] /\ current[w] # NoTask
      /\ current' = [current EXCEPT ![w] = NoTask] /\ tasks' = tasks
  BY DEF IInv, TypeOK, Runs
<1>2. \A v \in Worker : current[v] = current[w] => v = w
  BY <1>1 DEF IInv, RunOnce
<1>3. InHand' = InHand \ {current[w]}
  BY <1>1, <1>2 DEF InHand
<1> QED
  BY <1>1, <1>3 DEF InHand, InQueue, Elements

\* Runs preserves the inductive invariant.
LEMMA RunsIInv ==
  ASSUME IInv, NEW w \in Worker, Runs(w)
  PROVE  IInv'
<1> DEFINE done == current[w]
<1>1. /\ done \in Task /\ done \in InHand /\ InQueue' = InQueue
      /\ InHand' = InHand \ {done}
  BY RunsSets
<1>2. /\ ran' = [ran EXCEPT ![done] = ran[done] + 1] /\ ran \in [Task -> Nat]
      /\ current' = [current EXCEPT ![w] = NoTask] /\ enqueued' = enqueued /\ tasks' = tasks
      /\ current \in [Worker -> Task \cup {NoTask}]
  BY DEF IInv, TypeOK, Runs
<1>3. ran[done] = 0 /\ done \notin InQueue
  BY <1>1 DEF IInv, RunOnce
<1>4. ran'[done] = 1 /\ \A t \in Task : t # done => ran'[t] = ran[t]
  BY <1>1, <1>2, <1>3
<1>5. TypeOK'
  BY <1>1, <1>2 DEF IInv, TypeOK, Runs, NoTask
<1>6. RunOnce'
  <2> SUFFICES ASSUME NEW t \in Task
               PROVE  /\ ran'[t] <= 1
                      /\ t \in InQueue' => t \notin InHand' /\ ran'[t] = 0
                      /\ t \in InHand' => ran'[t] = 0
                      /\ \A u, v \in Worker : current'[u] = t /\ current'[v] = t => u = v
    BY DEF RunOnce
  <2>1. /\ ran[t] <= 1 /\ (t \in InQueue => t \notin InHand /\ ran[t] = 0)
        /\ (t \in InHand => ran[t] = 0)
        /\ \A u, v \in Worker : current[u] = t /\ current[v] = t => u = v
    BY DEF IInv, RunOnce
  <2>2. t # NoTask
    BY DEF Task, NoTask
  <2> QED
    BY <1>1, <1>2, <1>3, <1>4, <2>1, <2>2
<1>7. Accounted'
  BY <1>1, <1>2, <1>3, <1>4 DEF IInv, Accounted
<1>8. Phases'
  BY DEF IInv, TypeOK, Phases, Runs
<1>9. Distinct(tasks)'
  BY <1>2 DEF IInv, Distinct
<1> QED
  BY <1>5, <1>6, <1>7, <1>8, <1>9 DEF IInv

\* What Enqueue does to the sets of tasks: the task it pushes is new.
LEMMA EnqueueSets ==
  ASSUME IInv, Enqueue
  PROVE  /\ enqueued' = enqueued + 1 /\ enqueued' \in Task
         /\ enqueued' \notin InQueue /\ enqueued' \notin InHand /\ ran[enqueued'] = 0
         /\ InQueue' = InQueue \cup {enqueued'} /\ InHand' = InHand
         /\ tasks' \in Seq(Task) /\ Distinct(tasks)' /\ tasks' # <<>>
<1>1. /\ enqueued' = enqueued + 1 /\ enqueued \in 0 .. MaxTasks /\ enqueued < MaxTasks
      /\ tasks \in Seq(Task) /\ tasks' = Append(tasks, enqueued + 1) /\ current' = current
  BY DEF IInv, TypeOK, Enqueue
<1>2. enqueued + 1 \in Task /\ ~(enqueued + 1 <= enqueued)
  BY <1>1, PoolAssumption DEF Task
<1>3. enqueued + 1 \notin InQueue /\ enqueued + 1 \notin InHand /\ ran[enqueued + 1] = 0
  BY <1>2 DEF IInv, Accounted
<1>4. /\ Append(tasks, enqueued + 1) \in Seq(Task) /\ Distinct(Append(tasks, enqueued + 1))
      /\ Append(tasks, enqueued + 1) # <<>>
      /\ Elements(Append(tasks, enqueued + 1)) = Elements(tasks) \cup {enqueued + 1}
  BY <1>1, <1>2, <1>3, AppendElements DEF IInv, InQueue
<1>5. Distinct(tasks)' /\ InQueue' = InQueue \cup {enqueued + 1}
  BY <1>1, <1>4 DEF Distinct, InQueue, Elements
<1> QED
  BY <1>1, <1>2, <1>3, <1>4, <1>5 DEF InHand

\* Enqueue preserves the inductive invariant.
LEMMA EnqueueIInv ==
  ASSUME IInv, Enqueue
  PROVE  IInv'
<1>1. /\ enqueued' = enqueued + 1 /\ enqueued' \in Task
      /\ enqueued' \notin InQueue /\ enqueued' \notin InHand /\ ran[enqueued'] = 0
      /\ InQueue' = InQueue \cup {enqueued'} /\ InHand' = InHand
      /\ tasks' \in Seq(Task) /\ Distinct(tasks)' /\ tasks' # <<>>
  BY EnqueueSets
<1>2. ran' = ran /\ current' = current /\ ~stop /\ stop' = stop /\ workerAt' = workerAt
      /\ joined' = joined /\ ownerAt = "use" /\ ownerAt' = "notify"
  BY DEF Enqueue
<1>3. TypeOK'
  BY <1>1, <1>2, PoolAssumption DEF IInv, TypeOK, Task
<1>4. RunOnce'
  BY <1>1, <1>2 DEF IInv, RunOnce
<1>5. Accounted'
  BY <1>1, <1>2, PoolAssumption DEF IInv, TypeOK, Accounted, Task
<1>6. Phases'
  BY <1>2 DEF IInv, TypeOK, Phases
<1> QED
  BY <1>1, <1>3, <1>4, <1>5, <1>6 DEF IInv

\* The owner's other steps leave the tasks alone.
LEMMA OwnerIInv ==
  ASSUME IInv,
         NotifyOne \/ Stop \/ NotifyAll \/ Destroyed \/ \E w \in Worker : Join(w)
  PROVE  IInv'
<1>1. UNCHANGED Bookkeeping
  BY DEF Bookkeeping, NotifyOne, Stop, NotifyAll, Destroyed, Join
<1>2. TypeOK' /\ Phases'
  <2>1. CASE NotifyOne
    BY <2>1 DEF IInv, TypeOK, Phases, NotifyOne, Waiting
  <2>2. CASE Stop
    BY <2>2 DEF IInv, TypeOK, Phases, Stop
  <2>3. CASE NotifyAll
    BY <2>3 DEF IInv, TypeOK, Phases, NotifyAll, Waiting
  <2>4. CASE Destroyed
    BY <2>4 DEF IInv, TypeOK, Phases, Destroyed
  <2>5. CASE \E w \in Worker : Join(w)
    BY <2>5 DEF IInv, TypeOK, Phases, Join
  <2> QED
    BY <2>1, <2>2, <2>3, <2>4, <2>5
<1> QED
  BY <1>1, <1>2, BookkeepingKeeps DEF IInv

\* Every step preserves the inductive invariant.
LEMMA NextIInv == IInv /\ [Next]_vars => IInv'
<1> SUFFICES ASSUME IInv, [Next]_vars PROVE IInv'
  OBVIOUS
<1>1. CASE Enqueue
  BY <1>1, EnqueueIInv
<1>2. CASE NotifyOne \/ Stop \/ NotifyAll \/ Destroyed \/ \E w \in Worker : Join(w)
  BY <1>2, OwnerIInv
<1>3. ASSUME NEW w \in Worker, WorkerStep(w) \/ WakesSpuriously(w) PROVE IInv'
  BY <1>3, WorkerMovesIInv, TakesIInv, RunsIInv DEF WorkerStep
<1>4. CASE UNCHANGED vars
  <2>1. UNCHANGED Bookkeeping
    BY <1>4 DEF vars, Bookkeeping
  <2>2. TypeOK' /\ Phases'
    BY <1>4 DEF IInv, TypeOK, Phases, vars
  <2> QED
    BY <2>1, <2>2, BookkeepingKeeps DEF IInv
<1> QED
  BY <1>1, <1>2, <1>3, <1>4 DEF Next, Owner

\* The inductive invariant holds in every reachable state of the pool.
THEOREM PoolInvariant == Spec => []IInv
BY InitIInv, NextIInv, PTL DEF Spec

\* The pool's members and the places of its threads keep their types.
THEOREM PoolTypeCorrect == Spec => []TypeOK
<1>1. IInv => TypeOK
  BY DEF IInv
<1> QED
  BY <1>1, PoolInvariant, PTL

\* However many workers there are, no task is ever run twice or held by two workers.
THEOREM NeverRunTwice == Spec => []RunOnce
<1>1. IInv => RunOnce
  BY DEF IInv
<1> QED
  BY <1>1, PoolInvariant, PTL

\* ~ThreadPool returns only when every task that was enqueued has been run.
THEOREM DrainedAtEnd == Spec => []Drained
<1>1. IInv => Drained
  <2> SUFFICES ASSUME IInv, ownerAt = "gone", NEW t \in 1 .. enqueued
               PROVE  ran[t] = 1
    BY DEF Drained
  <2>1. t \in Task /\ t <= enqueued /\ ran[t] \in Nat /\ ran[t] <= 1
    BY PoolAssumption DEF IInv, TypeOK, RunOnce, Task
  <2>2. \A w \in Worker : workerAt[w] = "exit" /\ current[w] = NoTask
    BY DEF IInv, TypeOK, Phases
  <2>3. tasks = <<>> /\ InHand = {}
    BY <2>2, PoolAssumption DEF IInv, Phases, InHand
  <2>4. InQueue = {}
    BY <2>3 DEF InQueue, Elements
  <2> QED
    BY <2>1, <2>3, <2>4 DEF IInv, Accounted
<1> QED
  BY <1>1, PoolInvariant, PTL

-----------------------------------------------------------------------------
(* The pool implements TaskPool. *)

Finished == {t \in Task : ran[t] > 0}

\* A step that leaves the tasks alone and does not destroy the pool is a stutter.
LEMMA BookkeepingStutters ==
  ASSUME IInv, UNCHANGED Bookkeeping, (ownerAt = "gone") <=> (ownerAt' = "gone")
  PROVE  UNCHANGED Abstract!taskVars
<1>1. InQueue' = InQueue /\ InHand' = InHand /\ ran' = ran
  BY BookkeepingKeeps DEF Bookkeeping
<1>2. (ownerAt = "gone")' = (ownerAt = "gone")
  OBVIOUS
<1> QED
  BY <1>1, <1>2 DEF Abstract!taskVars

\* Every step of the pool is a step of TaskPool or leaves TaskPool's variables alone.
LEMMA StepImplements ==
  ASSUME IInv, [Next]_vars
  PROVE  [Abstract!TaskNext]_(Abstract!taskVars)
<1> USE DEF Abstract!taskVars
<1>1. CASE Enqueue
  <2>1. /\ enqueued' \in Task /\ ran[enqueued'] = 0
        /\ enqueued' \notin InQueue /\ enqueued' \notin InHand
        /\ InQueue' = InQueue \cup {enqueued'} /\ InHand' = InHand
    BY <1>1, EnqueueSets
  <2>2. ran' = ran /\ ownerAt = "use" /\ ownerAt' = "notify"
    BY <1>1 DEF Enqueue
  <2>3. enqueued' \notin Finished
    BY <2>1 DEF Finished
  <2>4. Abstract!Submit(enqueued')
    BY <2>1, <2>2, <2>3 DEF Abstract!Submit, Finished
  <2> QED
    BY <2>1, <2>4 DEF Abstract!TaskNext
<1>2. ASSUME NEW w \in Worker, Takes(w) PROVE Abstract!TaskNext
  <2>1. /\ Head(tasks) \in Task /\ Head(tasks) \in InQueue
        /\ InQueue' = InQueue \ {Head(tasks)} /\ InHand' = InHand \cup {Head(tasks)}
    BY <1>2, TakesSets
  <2>2. ran' = ran /\ ownerAt' = ownerAt
    BY <1>2 DEF Takes
  <2>3. Abstract!Start(Head(tasks))
    BY <2>1, <2>2 DEF Abstract!Start
  <2> QED
    BY <2>1, <2>3 DEF Abstract!TaskNext
<1>3. ASSUME NEW w \in Worker, Runs(w) PROVE Abstract!TaskNext
  <2>1. /\ current[w] \in Task /\ current[w] \in InHand
        /\ InQueue' = InQueue /\ InHand' = InHand \ {current[w]}
    BY <1>3, RunsSets
  <2>2. /\ ran \in [Task -> Nat] /\ ran' = [ran EXCEPT ![current[w]] = ran[current[w]] + 1]
        /\ ownerAt' = ownerAt
    BY <1>3 DEF IInv, TypeOK, Runs
  <2>3. PICK t \in Task : t = current[w]
    BY <2>1
  <2>4. Finished' = Finished \cup {t}
    BY <2>2, <2>3 DEF Finished
  <2>5. Abstract!Finish(t)
    BY <2>1, <2>2, <2>3, <2>4 DEF Abstract!Finish, Finished
  <2> QED
    BY <2>5 DEF Abstract!TaskNext
<1>4. CASE Destroyed
  <2>1. \A w \in Worker : workerAt[w] = "exit" /\ current[w] = NoTask
    BY <1>4 DEF Destroyed, IInv, TypeOK, Phases
  <2>2. tasks = <<>> /\ InHand = {}
    BY <2>1, PoolAssumption DEF IInv, Phases, InHand
  <2>3. InQueue = {}
    BY <2>2 DEF InQueue, Elements
  <2>4. UNCHANGED Bookkeeping /\ ownerAt' = "gone"
    BY <1>4 DEF Destroyed, Bookkeeping
  <2>5. InQueue' = InQueue /\ InHand' = InHand /\ ran' = ran
    BY <2>4, BookkeepingKeeps DEF Bookkeeping
  <2>6. Abstract!Close
    BY <2>2, <2>3, <2>4, <2>5 DEF Abstract!Close
  <2> QED
    BY <2>6 DEF Abstract!TaskNext
<1>5. CASE NotifyOne \/ Stop \/ NotifyAll \/ \E w \in Worker : Join(w)
  <2>1. UNCHANGED Bookkeeping /\ ((ownerAt = "gone") <=> (ownerAt' = "gone"))
    BY <1>5 DEF Bookkeeping, NotifyOne, Stop, NotifyAll, Join
  <2> QED
    BY <2>1, BookkeepingStutters
<1>6. ASSUME NEW w \in Worker, Waits(w) \/ Leaves(w) \/ WakesSpuriously(w)
      PROVE  UNCHANGED Abstract!taskVars
  <2>1. UNCHANGED Bookkeeping /\ ownerAt' = ownerAt
    BY <1>6 DEF Bookkeeping, Waits, Leaves, WakesSpuriously
  <2> QED
    BY <2>1, BookkeepingStutters
<1>7. CASE UNCHANGED vars
  <2>1. UNCHANGED Bookkeeping /\ ownerAt' = ownerAt
    BY <1>7 DEF Bookkeeping, vars
  <2> QED
    BY <2>1, BookkeepingStutters
<1> QED
  BY <1>1, <1>2, <1>3, <1>4, <1>5, <1>6, <1>7 DEF Next, Owner, WorkerStep

\* The pool keeps the promise that ThreadLoc relies on, for any number of workers:
\* every submitted task is started once, finished once, and before the pool is gone.
THEOREM Refinement == Spec => RefinesTaskPool
<1>1. Init => Abstract!TaskInit
  <2> SUFFICES ASSUME Init PROVE Abstract!TaskInit
    OBVIOUS
  <2>1. InQueue = {} /\ InHand = {} /\ Finished = {}
    BY DEF Init, InQueue, Elements, InHand, Finished
  <2>2. (ownerAt = "gone") = FALSE
    BY DEF Init
  <2> QED
    BY <2>1, <2>2 DEF Abstract!TaskInit, Finished
<1>2. IInv /\ [Next]_vars => [Abstract!TaskNext]_(Abstract!taskVars)
  BY StepImplements
<1> QED
  BY <1>1, <1>2, PoolInvariant, PTL DEF Spec, RefinesTaskPool, Abstract!TaskSpec
=============================================================================
