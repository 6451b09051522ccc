---------------------------- MODULE LocateChoice ----------------------------
(***************************************************************************)
(* What one pass of ThreadLoc over a base trigger promises, and what       *)
(* LigPipeline assumes of it in one step: either some combination around   *)
(* the base trigger is located and erased, or the base trigger is erased.  *)
(***************************************************************************)
EXTENDS LocPool

CONSTANT Deques   \* the contents that allTriggers can have at the start

VARIABLES pending, outcome

choiceVars == <<pending, outcome>>

ChoiceInit == pending \in Deques /\ outcome = "open"

Locate ==
    /\ outcome = "open" /\ outcome' = "located"
    /\ \E comb \in LocatedCombs(TriggerPool(pending, Front(pending))) :
          pending' = EraseUsed(pending, Front(pending), comb)

GiveUp ==
    /\ outcome = "open" /\ outcome' = "givenUp"
    /\ pending' = pending \ {Front(pending)}

ChoiceSpec == ChoiceInit /\ [][Locate \/ GiveUp]_choiceVars
=============================================================================
