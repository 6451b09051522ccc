-------------------------- MODULE ResultPublisher --------------------------
(***************************************************************************)
(* What happens to a located lightning: PostLigResult, run by the posting  *)
(* pool, posts the result up to three times and publishes it through the   *)
(* MQTT client that all tasks, the locator and the loader share without a  *)
(* lock.  When the locator has left its loop it disconnects the client and *)
(* then, at its return, waits for the pool.                                *)
(*                                                                         *)
(* The pool is TaskPool, which ThreadPool implements.  The three MQTT      *)
(* calls of a message (is_connected, connect, publish) are steps of their  *)
(* own; connect and publish may throw, also when another thread has        *)
(* connected in between, and the broker may drop the client.               *)
(***************************************************************************)
EXTENDS TaskPool, Naturals, FiniteSets

CONSTANTS
    Loader, Locator,   \* the two other threads that send
    Configs,           \* the configurations: mode and what is output
    MaxRetries         \* 3 in the source

ASSUME PublisherAssumption ==
    /\ Task \cap {Loader, Locator} = {} /\ Loader # Locator
    /\ MaxRetries \in Nat \ {0}
    /\ Configs \subseteq
          [mode : {"realTime", "reProcess"}, OutputDataBase : BOOLEAN, OutputMQTT : BOOLEAN,
           OutputWarningMQTT : BOOLEAN]

Thread == Task \cup {Loader, Locator}

VARIABLES
    config,
    taskAt,      \* per task: "post", "warn", "result" or "end"
    retry_count, \* per task
    sendAt,      \* per thread: "idle", "test", "connect" or "publish"
    connected,   \* the state of the shared MQTT client
    locatorAt,   \* "run" or "return"
    answered,    \* history: the tasks whose POST was answered with 200
    accepted,    \* history: per task, the POSTs that the server has carried out
    sent         \* history: the messages handed to the client, [from, topic]

postVars == <<taskAt, retry_count, answered, accepted>>
mqttVars == <<sendAt, connected, sent>>
vars == <<config, postVars, mqttVars, locatorAt, taskVars>>

Init ==
    /\ TaskInit
    /\ config \in Configs
    /\ taskAt = [t \in Task |-> "post"] /\ retry_count = [t \in Task |-> 0]
    /\ sendAt = [th \in Thread |-> "idle"]
    /\ connected = FALSE /\ locatorAt = "run"
    /\ answered = {} /\ accepted = [t \in Task |-> 0] /\ sent = {}

----------------------------------------------------------------------------
(* sendDataViaMQTT. *)

\* Mutant of Sends: the mode is not looked at.
SendsAlways(top) ==
    \/ top = "warning/LDP" /\ config.OutputWarningMQTT
    \/ top = "ltg-beta" /\ config.OutputMQTT

Sends(top) ==
    /\ config.mode = "realTime"
    /\ \/ top = "warning/LDP" /\ config.OutputWarningMQTT
       \/ top = "ltg-beta" /\ config.OutputMQTT

\* The call: it returns at once when nothing is to be sent.
StartSending(th, top) ==
    /\ sendAt' = [sendAt EXCEPT ![th] = IF Sends(top) THEN "test" ELSE "idle"]
    /\ sent' = sent \cup {m \in {[from |-> th, topic |-> top]} : Sends(top)}
    /\ UNCHANGED connected

TestConnected(th) ==
    /\ sendAt[th] = "test"
    /\ sendAt' = [sendAt EXCEPT ![th] = IF connected THEN "publish" ELSE "connect"]
    /\ UNCHANGED <<config, postVars, connected, sent, locatorAt, taskVars>>

Connect(th) ==
    /\ sendAt[th] = "connect"
    /\ connected' = TRUE
    /\ sendAt' = [sendAt EXCEPT ![th] = "publish"]
    /\ UNCHANGED <<config, postVars, sent, locatorAt, taskVars>>

Publish(th) ==
    /\ sendAt[th] = "publish" /\ connected
    /\ sendAt' = [sendAt EXCEPT ![th] = "idle"]
    /\ UNCHANGED <<config, postVars, connected, sent, locatorAt, taskVars>>

\* mqtt::exception from connect or publish: the message is gone.
SendThrows(th) ==
    /\ sendAt[th] \in {"connect", "publish"}
    /\ sendAt' = [sendAt EXCEPT ![th] = "idle"]
    /\ UNCHANGED <<config, postVars, connected, sent, locatorAt, taskVars>>

Sending(th) == TestConnected(th) \/ Connect(th) \/ Publish(th) \/ SendThrows(th)

BrokerDrops ==
    /\ connected /\ connected' = FALSE
    /\ UNCHANGED <<config, postVars, sendAt, sent, locatorAt, taskVars>>

----------------------------------------------------------------------------
(* PostLigResult. *)

Begin(t) ==
    /\ Start(t)
    /\ UNCHANGED <<config, postVars, mqttVars, locatorAt>>

At(t, place) == t \in running /\ sendAt[t] = "idle" /\ taskAt[t] = place

GoTo(t, place) == taskAt' = [taskAt EXCEPT ![t] = place]

\* Mutant of MayPost: a fourth try.
MayPostAgain(t) == retry_count[t] <= MaxRetries /\ config.OutputDataBase

\* The condition of the retry loop.
MayPost(t) == retry_count[t] < MaxRetries /\ config.OutputDataBase

Accept(t) == accepted' = [accepted EXCEPT ![t] = @ + 1]

\* Mutant of PostSucceeds: without the break.
PostSucceedsAndGoesOn(t) ==
    /\ At(t, "post") /\ MayPost(t)
    /\ answered' = answered \cup {t} /\ Accept(t)
    /\ UNCHANGED <<config, taskAt, retry_count, mqttVars, locatorAt, taskVars>>

PostSucceeds(t) ==
    /\ At(t, "post") /\ MayPost(t)
    /\ answered' = answered \cup {t} /\ Accept(t)
    /\ GoTo(t, "warn")
    /\ UNCHANGED <<config, retry_count, mqttVars, locatorAt, taskVars>>

\* Mutant of PostFails: an answer with another status starts the count again.
PostFailsResets(t) ==
    /\ At(t, "post") /\ MayPost(t)
    /\ \E count \in {0, retry_count[t] + 1} : retry_count' = [retry_count EXCEPT ![t] = count]
    /\ UNCHANGED <<config, taskAt, answered, accepted, mqttVars, locatorAt, taskVars>>

\* No answer, or another status.  The server may have carried out the POST all the same.
PostFails(t) ==
    /\ At(t, "post") /\ MayPost(t)
    /\ retry_count' = [retry_count EXCEPT ![t] = @ + 1]
    /\ Accept(t) \/ UNCHANGED accepted
    /\ UNCHANGED <<config, taskAt, answered, mqttVars, locatorAt, taskVars>>

PostOver(t) ==
    /\ At(t, "post") /\ ~MayPost(t)
    /\ GoTo(t, "warn")
    /\ UNCHANGED <<config, retry_count, answered, accepted, mqttVars, locatorAt, taskVars>>

\* Mutant of MaxReached: one failure too early.
MaxReachedEarly(t) == retry_count[t] >= MaxRetries - 1

MaxReached(t) == retry_count[t] = MaxRetries

\* "Max retries reached" is sent, or nothing, and the result is next.
Warn(t) ==
    /\ At(t, "warn")
    /\ IF MaxReached(t) THEN StartSending(t, "warning/LDP") ELSE UNCHANGED mqttVars
    /\ GoTo(t, "result")
    /\ UNCHANGED <<config, retry_count, answered, accepted, locatorAt, taskVars>>

PublishResult(t) ==
    /\ At(t, "result")
    /\ StartSending(t, "ltg-beta")
    /\ GoTo(t, "end")
    /\ UNCHANGED <<config, retry_count, answered, accepted, locatorAt, taskVars>>

TaskEnds(t) ==
    /\ At(t, "end") /\ Finish(t)
    /\ UNCHANGED <<config, postVars, mqttVars, locatorAt>>

TaskStep(t) ==
    \/ Begin(t) \/ PostSucceeds(t) \/ PostFails(t) \/ PostOver(t)
    \/ Warn(t) \/ PublishResult(t) \/ TaskEnds(t)

----------------------------------------------------------------------------
(* The loader's warning, and the locator. *)

\* GetRealTimeTriggerData obtained nothing.  Only the real-time loader calls it.
LoaderWarns ==
    /\ config.mode = "realTime" /\ sendAt[Loader] = "idle"
    /\ StartSending(Loader, "warning/LDP")
    /\ UNCHANGED <<config, postVars, locatorAt, taskVars>>

LocatorInLoop == locatorAt = "run" /\ sendAt[Locator] = "idle"

IdleWarning ==
    /\ LocatorInLoop
    /\ StartSending(Locator, "warning/LDP")
    /\ UNCHANGED <<config, postVars, locatorAt, taskVars>>

EnqueueResult(t) ==
    /\ LocatorInLoop /\ Submit(t)
    /\ UNCHANGED <<config, postVars, mqttVars, locatorAt>>

\* The loop ends only in historical mode: the real-time loader never clears
\* keep_loading.  Then disconnect; the test of is_connected is one step with it.
LeaveLoop ==
    /\ LocatorInLoop /\ config.mode = "reProcess"
    /\ connected' = FALSE
    /\ locatorAt' = "return"
    /\ UNCHANGED <<config, postVars, sendAt, sent, taskVars>>

\* ThreadLoc returns, and the destructor of postThreadPool with it.
PoolCloses ==
    /\ locatorAt = "return" /\ ~closed /\ Close
    /\ UNCHANGED <<config, postVars, mqttVars, locatorAt>>

Next ==
    \/ \E t \in Task : TaskStep(t) \/ EnqueueResult(t)
    \/ \E th \in Thread : Sending(th)
    \/ BrokerDrops \/ LoaderWarns \/ IdleWarning \/ LeaveLoop \/ PoolCloses

\* Workers and locator are scheduled, and requests and MQTT calls return.
Fairness ==
    /\ \A t \in Task : WF_vars(TaskStep(t)) /\ WF_vars(Sending(t))
    /\ WF_vars(PoolCloses)

Spec     == Init /\ [][Next]_vars
FairSpec == Spec /\ Fairness

----------------------------------------------------------------------------
(* Properties. *)

\* Type invariant of the tasks, the senders and the shared client.
TypeOK ==
    /\ config \in Configs /\ connected \in BOOLEAN
    /\ taskAt \in [Task -> {"post", "warn", "result", "end"}]
    /\ retry_count \in [Task -> 0 .. MaxRetries] /\ answered \subseteq Task
    /\ accepted \in [Task -> 0 .. MaxRetries]
    /\ sendAt \in [Thread -> {"idle", "test", "connect", "publish"}]
    /\ locatorAt \in {"run", "return"}
    /\ sent \subseteq [from : Thread, topic : {"warning/LDP", "ltg-beta"}]

\* ThreadLoc disconnects before the pool is drained at its return, and a task that
\* sends would connect again.  That does not happen: only historical mode gets
\* there, and only real-time mode sends.
DisconnectIsFinal == locatorAt = "return" => ~connected

\* A task reports "Max retries reached" exactly when none of its three POSTs was
\* answered, and not when the last one was.
ReportedIffUnanswered ==
    \A t \in Task :
        taskAt[t] = "end" /\ sendAt[t] = "idle" =>
            ([from |-> t, topic |-> "warning/LDP"] \in sent
               <=> config.OutputDataBase /\ t \notin answered /\ Sends("warning/LDP"))

\* A POST whose answer is lost is sent again and may be carried out again; for every
\* other reason the server has a result once at most, and once for certain when it
\* has answered.
TwiceOnlyAfterLoss ==
    \A t \in Task :
        IF t \in answered THEN accepted[t] \in 1 .. retry_count[t] + 1
                         ELSE accepted[t] <= retry_count[t]

\* ThreadLoc returns: every task comes to its end, however the server and the broker
\* behave, so the pool is drained.
PoolDrains == locatorAt = "return" ~> closed
=============================================================================
