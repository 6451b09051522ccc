------------------------------ MODULE TaskPool ------------------------------
(***************************************************************************)
(* What ThreadLoc relies on when it hands PostLigResult calls to a         *)
(* ThreadPool: a submitted task is run once, and the pool is gone only     *)
(* when every submitted task has been run.                                 *)
(***************************************************************************)
CONSTANT Task

VARIABLES queued, running, finished, closed

taskVars == <<queued, running, finished, closed>>

TaskInit == queued = {} /\ running = {} /\ finished = {} /\ closed = FALSE

Submit(t) == /\ ~closed /\ t \notin queued \cup running \cup finished
             /\ queued' = queued \cup {t}
             /\ UNCHANGED <<running, finished, closed>>

Start(t)  == /\ t \in queued
             /\ queued' = queued \ {t} /\ running' = running \cup {t}
             /\ UNCHANGED <<finished, closed>>

Finish(t) == /\ t \in running
             /\ running' = running \ {t} /\ finished' = finished \cup {t}
             /\ UNCHANGED <<queued, closed>>

Close     == /\ queued = {} /\ running = {} /\ closed' = TRUE
             /\ UNCHANGED <<queued, running, finished>>

TaskNext == \/ Close
            \/ \E t \in Task : Submit(t) \/ Start(t) \/ Finish(t)

TaskSpec == TaskInit /\ [][TaskNext]_taskVars
=============================================================================
