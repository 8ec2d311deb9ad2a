----------------------------- MODULE RuntimeStory -----------------------------
(***************************************************************************)
(* One run of the plain runtime over its pauses.  A paused call of         *)
(* AgentRuntime.run returns a snapshot, which execute_run stores; a later  *)
(* call resumes from it (resume_context, resume_phase).  Core resumes no   *)
(* run itself: a product does, which has the snapshot and the RunSteps.    *)
(* The plain runtime leaves context.current_phase empty, so the phase to   *)
(* resume from is the one after that of the last RunStep.                  *)
(***************************************************************************)
EXTENDS AgentRuntime

CONSTANT MaxPauses  \* bound: how often the run is resumed

ASSUME StoryAssumption == MaxPauses \in Nat

VARIABLES
  last,   \* the place of the phase that was executed last, in any call
  pauses

storyVars == <<rtVars, last, pauses>>

(* The places of the phases of an uninterrupted run are 1, 2, ...          *)
Place(i, p) == 4 * i + p

StoryTypeOK == RuntimeTypeOK /\ last \in 0..4 * (MaxIterations + 1) /\ pauses \in 0..MaxPauses

StoryInit ==
  /\ RuntimeInit
  /\ last = Place(it, ph) - 1
  /\ pauses = 0

(* A call of AgentRuntime.run takes a step.                                *)
Runs ==
  /\ RuntimeNext
  /\ last' = IF pc = "execute" /\ pc' = "process" THEN Place(it, ph) ELSE last
  /\ UNCHANGED pauses

(* The call that resumes: the iteration is the snapshot's, and so is what  *)
(* the run has used; the events are new ones.                              *)
Resume ==
  /\ pc = "returned" /\ status = "paused" /\ pauses < MaxPauses
  /\ pc' = "boundary"
  /\ it' = snap /\ ph' = (last % 4) + 1
  /\ status' = "completed" /\ err' = FALSE /\ snap' = NoSnap
  /\ cancel' = FALSE /\ pause' = FALSE /\ unchecked' = FALSE
  /\ pauses' = pauses + 1
  /\ UNCHANGED <<exceeded, nsteps, last>>

StoryNext == Runs \/ Resume

StorySpec == StoryInit /\ [][StoryNext]_storyVars /\ WF_rtVars(LoopStep)

-----------------------------------------------------------------------------
(* Properties                                                              *)

(* However often a run is paused, wherever, and resumed, its phases are    *)
(* executed in the order of an uninterrupted run: none twice, none left    *)
(* out.                                                                    *)
PhasesInOrder ==
  [][pc = "execute" /\ pc' = "process" => Place(it, ph) = last + 1]_storyVars
=============================================================================
