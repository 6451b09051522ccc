----------------------- MODULE ResultPublisherProofs -----------------------
(***************************************************************************)
(* ResultPublisher for any number of tasks, any configurations and any     *)
(* number of retries: what the server and the broker have been given, in   *)
(* every interleaving of the tasks with the loader and the locator.        *)
(***************************************************************************)
EXTENDS ResultPublisher, TLAPS

\* A task has warned that no POST was answered.
Warned(t) == [from |-> t, topic |-> "warning/LDP"] \in sent

\* What the retry loop of a task has achieved.
PostInv ==
    \A t \in Task :
        /\ t \in answered => /\ taskAt[t] # "post" /\ retry_count[t] < MaxRetries
                             /\ accepted[t] \in 1 .. retry_count[t] + 1
        /\ t \notin answered => accepted[t] <= retry_count[t]
        /\ taskAt[t] # "post" /\ config.OutputDataBase /\ t \notin answered
              => retry_count[t] = MaxRetries
        /\ ~config.OutputDataBase => retry_count[t] = 0 /\ t \notin answered

\* Which tasks have warned.
WarnInv ==
    \A t \in Task :
        /\ taskAt[t] \in {"post", "warn"} => ~Warned(t)
        /\ taskAt[t] \in {"result", "end"} =>
              (Warned(t) <=> config.OutputDataBase /\ t \notin answered /\ Sends("warning/LDP"))

\* Only real-time mode sends, and only historical mode leaves the loop.
QuietInv ==
    /\ config.mode # "realTime" => ~connected /\ \A th \in Thread : sendAt[th] = "idle"
    /\ locatorAt = "return" => config.mode = "reProcess"

PInv == TypeOK /\ PostInv /\ WarnInv /\ QuietInv

\* The steps that concern the client alone, and those of the pool.
ClientStep == BrokerDrops \/ \E th \in Thread : Sending(th)
PoolStep   == PoolCloses \/ \E t \in Task : Begin(t) \/ TaskEnds(t) \/ EnqueueResult(t)

\* What a call of sendDataViaMQTT leaves behind.
LEMMA StartSendingEffect ==
  ASSUME TypeOK, NEW th \in Thread, NEW top \in {"warning/LDP", "ltg-beta"},
         StartSending(th, top)
  PROVE  /\ sendAt' \in [Thread -> {"idle", "test", "connect", "publish"}]
         /\ sent' = sent \cup (IF Sends(top) THEN {[from |-> th, topic |-> top]} ELSE {})
         /\ sent' \subseteq [from : Thread, topic : {"warning/LDP", "ltg-beta"}]
         /\ connected' = connected
         /\ config.mode # "realTime" =>
               \A other \in Thread : sendAt[other] = "idle" => sendAt'[other] = "idle"
<1>1. config.mode # "realTime" => ~Sends(top)
  BY DEF Sends
<1> QED
  BY <1>1 DEF StartSending, TypeOK

\* Initially nothing has been posted or sent.
LEMMA InitPInv == Init => PInv
<1> SUFFICES ASSUME Init PROVE PInv
  OBVIOUS
<1>1. /\ \A t \in Task : taskAt[t] = "post" /\ retry_count[t] = 0 /\ accepted[t] = 0
      /\ \A th \in Thread : sendAt[th] = "idle"
      /\ answered = {} /\ sent = {} /\ connected = FALSE /\ locatorAt = "run"
  BY DEF Init
<1>2. TypeOK
  <2>1. 0 \in 0 .. MaxRetries
    BY PublisherAssumption
  <2>2. config \in Configs /\ connected \in BOOLEAN /\ locatorAt \in {"run", "return"}
    BY DEF Init
  <2>3. /\ taskAt \in [Task -> {"post", "warn", "result", "end"}]
        /\ sendAt \in [Thread -> {"idle", "test", "connect", "publish"}]
    BY DEF Init
  <2>4. retry_count \in [Task -> 0 .. MaxRetries] /\ accepted \in [Task -> 0 .. MaxRetries]
    BY <2>1 DEF Init
  <2> QED
    BY <1>1, <2>2, <2>3, <2>4 DEF TypeOK
<1>3. PostInv
  <2> SUFFICES ASSUME NEW t \in Task
               PROVE  accepted[t] <= retry_count[t] /\ retry_count[t] = 0
    BY <1>1, Zenon DEF PostInv
  <2> QED
    BY <1>1
<1>4. WarnInv
  BY <1>1 DEF WarnInv, Warned
<1>5. QuietInv
  BY <1>1 DEF QuietInv
<1> QED
  BY <1>2, <1>3, <1>4, <1>5 DEF PInv

\* Testing, connecting, publishing and a drop of the connection.
LEMMA ClientStepPInv == PInv /\ ClientStep => PInv'
<1> SUFFICES ASSUME PInv, ClientStep PROVE PInv'
  OBVIOUS
<1>1. UNCHANGED <<config, postVars, sent, locatorAt>>
  BY DEF ClientStep, BrokerDrops, Sending, TestConnected, Connect, Publish, SendThrows
<1>2. /\ sendAt' \in [Thread -> {"idle", "test", "connect", "publish"}]
      /\ connected' \in BOOLEAN
  BY DEF ClientStep, BrokerDrops, Sending, TestConnected, Connect, Publish, SendThrows, PInv, TypeOK
<1>3. config.mode = "realTime" \/ (connected' = FALSE /\ sendAt' = sendAt)
  BY DEF ClientStep, BrokerDrops, Sending, TestConnected, Connect, Publish, SendThrows, PInv, QuietInv
<1> QED
  BY <1>1, <1>2, <1>3
     DEF PInv, TypeOK, PostInv, WarnInv, QuietInv, Warned, Sends, postVars

\* Steps of the pool leave everything else alone.
LEMMA PoolStepPInv == PInv /\ PoolStep => PInv'
<1> SUFFICES ASSUME PInv, PoolStep PROVE PInv'
  OBVIOUS
<1>1. UNCHANGED <<config, postVars, mqttVars, locatorAt>>
  BY DEF PoolStep, PoolCloses, Begin, TaskEnds, EnqueueResult
<1> QED
  BY <1>1 DEF PInv, TypeOK, PostInv, WarnInv, QuietInv, Warned, Sends, postVars, mqttVars

\* One try of the retry loop, and its end.
LEMMA PostPInv ==
  ASSUME PInv, NEW t \in Task, PostSucceeds(t) \/ PostFails(t) \/ PostOver(t)
  PROVE  PInv'
<1> USE DEF PInv
<1>1. taskAt[t] = "post" /\ t \notin answered /\ ~Warned(t)
  BY DEF PostSucceeds, PostFails, PostOver, At, PostInv, WarnInv
<1>2. UNCHANGED <<config, mqttVars, locatorAt>>
  BY DEF PostSucceeds, PostFails, PostOver
<1>3. /\ retry_count[t] \in 0 .. MaxRetries /\ accepted[t] \in 0 .. MaxRetries
      /\ accepted[t] <= retry_count[t] /\ MaxRetries \in Nat \ {0}
  BY <1>1, PublisherAssumption DEF TypeOK, PostInv
<1>4. CASE PostSucceeds(t)
  <2>1. /\ retry_count[t] < MaxRetries /\ config.OutputDataBase
        /\ answered' = answered \cup {t}
        /\ accepted' = [accepted EXCEPT ![t] = @ + 1]
        /\ taskAt' = [taskAt EXCEPT ![t] = "warn"] /\ retry_count' = retry_count
    BY <1>4 DEF PostSucceeds, MayPost, Accept, GoTo
  <2>2. accepted[t] + 1 \in 1 .. retry_count[t] + 1 /\ accepted[t] + 1 \in 0 .. MaxRetries
    BY <1>3, <2>1
  <2>3. TypeOK'
    BY <1>2, <2>1, <2>2 DEF TypeOK, mqttVars
  <2>4. PostInv'
    BY <1>2, <2>1, <2>2 DEF PostInv, TypeOK
  <2>5. WarnInv'
    BY <1>1, <1>2, <2>1 DEF WarnInv, Warned, Sends, TypeOK, mqttVars
  <2> QED
    BY <1>2, <2>3, <2>4, <2>5 DEF QuietInv, mqttVars
<1>5. CASE PostFails(t)
  <2>1. /\ retry_count[t] < MaxRetries /\ config.OutputDataBase
        /\ UNCHANGED <<answered, taskAt>>
        /\ retry_count' = [retry_count EXCEPT ![t] = @ + 1]
        /\ accepted' = [accepted EXCEPT ![t] = @ + 1] \/ accepted' = accepted
    BY <1>5 DEF PostFails, MayPost, Accept
  <2>2. /\ accepted[t] + 1 \in 0 .. MaxRetries /\ retry_count[t] + 1 \in 0 .. MaxRetries
        /\ accepted[t] + 1 <= retry_count[t] + 1 /\ accepted[t] <= retry_count[t] + 1
    BY <1>3, <2>1
  <2>3. TypeOK'
    BY <1>2, <2>1, <2>2 DEF TypeOK, mqttVars
  <2>4. PostInv'
    <3>1. accepted'[t] <= retry_count'[t]
      BY <2>1, <2>2 DEF TypeOK
    <3>2. \A s \in Task \ {t} : accepted'[s] = accepted[s] /\ retry_count'[s] = retry_count[s]
      BY <2>1 DEF TypeOK
    <3> QED
      BY <1>1, <1>2, <2>1, <3>1, <3>2 DEF PostInv
  <2>5. WarnInv'
    BY <1>1, <1>2, <2>1 DEF WarnInv, Warned, Sends, mqttVars
  <2> QED
    BY <1>2, <2>3, <2>4, <2>5 DEF QuietInv, mqttVars
<1>6. CASE PostOver(t)
  <2>1. /\ ~(retry_count[t] < MaxRetries /\ config.OutputDataBase)
        /\ UNCHANGED <<answered, accepted, retry_count>>
        /\ taskAt' = [taskAt EXCEPT ![t] = "warn"]
    BY <1>6 DEF PostOver, MayPost, GoTo
  <2>2. config.OutputDataBase => retry_count[t] = MaxRetries
    BY <1>3, <2>1
  <2>3. TypeOK'
    BY <1>2, <2>1 DEF TypeOK, mqttVars
  <2>4. PostInv'
    BY <1>1, <1>2, <2>1, <2>2 DEF PostInv, TypeOK
  <2>5. WarnInv'
    BY <1>1, <1>2, <2>1 DEF WarnInv, Warned, Sends, TypeOK, mqttVars
  <2> QED
    BY <1>2, <2>3, <2>4, <2>5 DEF QuietInv, mqttVars
<1> QED
  BY <1>4, <1>5, <1>6

\* The warning of a task, and then its result.
LEMMA TellPInv ==
  ASSUME PInv, NEW t \in Task, Warn(t) \/ PublishResult(t)
  PROVE  PInv'
<1> USE DEF PInv
<1>1. UNCHANGED <<config, retry_count, answered, accepted, locatorAt>> /\ t \in Thread
  BY DEF Warn, PublishResult, Thread
<1>2. CASE Warn(t)
  <2>1. taskAt[t] = "warn" /\ taskAt' = [taskAt EXCEPT ![t] = "result"] /\ ~Warned(t)
    BY <1>2 DEF Warn, At, GoTo, WarnInv
  <2>2. MaxReached(t) <=> config.OutputDataBase /\ t \notin answered
    BY <2>1, PublisherAssumption DEF PostInv, MaxReached, TypeOK
  <2>3. /\ sendAt' \in [Thread -> {"idle", "test", "connect", "publish"}]
        /\ sent' = sent \cup (IF MaxReached(t) /\ Sends("warning/LDP")
                              THEN {[from |-> t, topic |-> "warning/LDP"]} ELSE {})
        /\ sent' \subseteq [from : Thread, topic : {"warning/LDP", "ltg-beta"}]
        /\ connected' = connected
        /\ config.mode # "realTime" =>
              \A other \in Thread : sendAt[other] = "idle" => sendAt'[other] = "idle"
    <3>1. CASE MaxReached(t)
      BY <1>1, <1>2, <3>1, StartSendingEffect DEF Warn
    <3>2. CASE ~MaxReached(t)
      BY <1>2, <3>2 DEF Warn, mqttVars, TypeOK
    <3> QED
      BY <3>1, <3>2
  <2>4. TypeOK' /\ PostInv'
    BY <1>1, <2>1, <2>3 DEF TypeOK, PostInv
  <2>5. WarnInv'
    BY <1>1, <2>1, <2>2, <2>3 DEF WarnInv, Warned, Sends, TypeOK
  <2> QED
    BY <1>1, <2>3, <2>4, <2>5 DEF QuietInv
<1>3. CASE PublishResult(t)
  <2>1. taskAt[t] = "result" /\ taskAt' = [taskAt EXCEPT ![t] = "end"]
    BY <1>3 DEF PublishResult, At, GoTo
  <2>2. /\ sendAt' \in [Thread -> {"idle", "test", "connect", "publish"}]
        /\ sent' = sent \cup (IF Sends("ltg-beta") THEN {[from |-> t, topic |-> "ltg-beta"]} ELSE {})
        /\ sent' \subseteq [from : Thread, topic : {"warning/LDP", "ltg-beta"}]
        /\ connected' = connected
        /\ config.mode # "realTime" =>
              \A other \in Thread : sendAt[other] = "idle" => sendAt'[other] = "idle"
    BY <1>1, <1>3, StartSendingEffect DEF PublishResult
  <2>3. \A s \in Task : Warned(s)' <=> Warned(s)
    BY <2>2 DEF Warned
  <2>4. TypeOK' /\ PostInv'
    BY <1>1, <2>1, <2>2 DEF TypeOK, PostInv
  <2>5. WarnInv'
    BY <1>1, <2>1, <2>3 DEF WarnInv, Sends, TypeOK
  <2> QED
    BY <1>1, <2>2, <2>4, <2>5 DEF QuietInv
<1> QED
  BY <1>2, <1>3

\* The warnings of the two other threads, and the disconnect.
LEMMA OthersPInv == PInv /\ (LoaderWarns \/ IdleWarning \/ LeaveLoop) => PInv'
<1> SUFFICES ASSUME PInv, LoaderWarns \/ IdleWarning \/ LeaveLoop PROVE PInv'
  OBVIOUS
<1> USE DEF PInv
<1>1. CASE LoaderWarns \/ IdleWarning
  <2>1. PICK th \in {Loader, Locator} : StartSending(th, "warning/LDP")
    BY <1>1 DEF LoaderWarns, IdleWarning
  <2>2. UNCHANGED <<config, postVars, locatorAt>> /\ th \in Thread /\ th \notin Task
    BY <1>1, PublisherAssumption DEF LoaderWarns, IdleWarning, Thread
  <2>3. /\ sendAt' \in [Thread -> {"idle", "test", "connect", "publish"}]
        /\ sent' = sent \cup (IF Sends("warning/LDP")
                              THEN {[from |-> th, topic |-> "warning/LDP"]} ELSE {})
        /\ sent' \subseteq [from : Thread, topic : {"warning/LDP", "ltg-beta"}]
        /\ connected' = connected
        /\ config.mode # "realTime" =>
              \A other \in Thread : sendAt[other] = "idle" => sendAt'[other] = "idle"
    BY <2>1, <2>2, StartSendingEffect
  <2>4. \A t \in Task : Warned(t)' <=> Warned(t)
    BY <2>2, <2>3 DEF Warned
  <2> QED
    BY <2>2, <2>3, <2>4 DEF TypeOK, PostInv, WarnInv, QuietInv, Sends, postVars
<1>2. CASE LeaveLoop
  BY <1>2 DEF LeaveLoop, TypeOK, PostInv, WarnInv, QuietInv, Warned, Sends, postVars
<1> QED
  BY <1>1, <1>2

\* Every step preserves the invariant.
LEMMA NextPInv == PInv /\ [Next]_vars => PInv'
<1> SUFFICES ASSUME PInv, [Next]_vars PROVE PInv'
  OBVIOUS
<1>1. CASE ClientStep
  BY <1>1, ClientStepPInv
<1>2. CASE PoolStep
  BY <1>2, PoolStepPInv
<1>3. CASE \E t \in Task : PostSucceeds(t) \/ PostFails(t) \/ PostOver(t)
  BY <1>3, PostPInv
<1>4. CASE \E t \in Task : Warn(t) \/ PublishResult(t)
  BY <1>4, TellPInv
<1>5. CASE LoaderWarns \/ IdleWarning \/ LeaveLoop
  BY <1>5, OthersPInv
<1>6. CASE UNCHANGED vars
  BY <1>6 DEF PInv, TypeOK, PostInv, WarnInv, QuietInv, Warned, Sends, vars, postVars, mqttVars
<1> QED
  BY <1>1, <1>2, <1>3, <1>4, <1>5, <1>6 DEF Next, TaskStep, ClientStep, PoolStep

\* The invariant holds in every reachable state.
THEOREM PublisherInvariant == Spec => []PInv
BY InitPInv, NextPInv, PTL DEF Spec

\* Type correctness: no task tries more often than it may.
THEOREM PublisherTypeCorrect == Spec => []TypeOK
<1>1. PInv => TypeOK
  BY DEF PInv
<1> QED
  BY <1>1, PublisherInvariant, PTL

\* Nobody connects again after the disconnect of ThreadLoc.
THEOREM DisconnectedForGood == Spec => []DisconnectIsFinal
<1>1. PInv => DisconnectIsFinal
  BY DEF PInv, QuietInv, DisconnectIsFinal
<1> QED
  BY <1>1, PublisherInvariant, PTL

\* "Max retries reached" is told of a result exactly when no POST was answered.
THEOREM ReportsAreTrue == Spec => []ReportedIffUnanswered
<1>1. PInv => ReportedIffUnanswered
  BY DEF PInv, WarnInv, Warned, ReportedIffUnanswered
<1> QED
  BY <1>1, PublisherInvariant, PTL

\* The server has a result twice only if an answer was lost.
THEOREM RepeatedOnlyAfterLoss == Spec => []TwiceOnlyAfterLoss
<1>1. PInv => TwiceOnlyAfterLoss
  BY DEF PInv, PostInv, TwiceOnlyAfterLoss
<1> QED
  BY <1>1, PublisherInvariant, PTL
=============================================================================
