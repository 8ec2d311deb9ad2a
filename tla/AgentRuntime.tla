---------------------------- MODULE AgentRuntime ----------------------------
(***************************************************************************)
(* AgentRuntime.run (motoro/engine/runtime.py): the plain loop sense,      *)
(* reason, plan, act.  Cancel and pause are events another task sets at    *)
(* any time; the loop looks at them before every phase, then asks the      *)
(* resource-limit checker, then runs the phase.                            *)
(*                                                                         *)
(* It is the reference PatternOrchestrator is compared with.               *)
(***************************************************************************)
EXTENDS Integers

CONSTANTS
  MaxIterations,  \* AgentConfig.max_iterations
  Limits,         \* a product installed a resource-limit checker
  Starts          \* where runs start: a fresh one at [iteration |-> 0,
                  \* phase |-> 1], a resumed one where its snapshot says

ASSUME RuntimeAssumption ==
  /\ MaxIterations \in Nat \ {0}
  /\ Limits \in BOOLEAN
  /\ \A s \in Starts : s.iteration \in 0..MaxIterations /\ s.phase \in 1..4

VARIABLES
  pc,         \* where the loop is
  it,         \* context.iteration
  ph,         \* index of the next phase in the phase sequence
  status,     \* status of the run so far
  err,        \* error_msg is set
  snap,       \* context_snapshot: the iteration it records, or NoSnap
  cancel,     \* cancel_event.is_set()
  pause,      \* pause_event.is_set()
  exceeded,   \* what the run has used is over the limits set on its agent
  unchecked,  \* the last call of the installed checker raised
  nsteps      \* RunSteps recorded by _execute_phase

rtVars == <<pc, it, ph, status, err, snap, cancel, pause, exceeded, unchecked, nsteps>>

_PHASE_SEQUENCE == <<"sense", "reason", "plan", "act">>

Phases == {"sense", "reason", "plan", "act"}

NoSnap == -1

(* Every phase runs once in an iteration.                                  *)
MaxRunSteps == 4 * MaxIterations

RuntimeTypeOK ==
  /\ pc \in {"boundary", "limits", "execute", "process", "over", "returned"}
  /\ it \in 0..MaxIterations
  /\ ph \in 1..4
  /\ status \in {"completed", "failed", "cancelled", "paused"}
  /\ err \in BOOLEAN
  /\ snap \in NoSnap..MaxIterations
  /\ cancel \in BOOLEAN /\ pause \in BOOLEAN
  /\ exceeded \in BOOLEAN /\ unchecked \in BOOLEAN
  /\ nsteps \in 0..MaxRunSteps

RuntimeInit ==
  /\ pc = "boundary"
  /\ \E s \in Starts : it = s.iteration /\ ph = s.phase
  /\ status = "completed" /\ err = FALSE /\ snap = NoSnap
  /\ cancel = FALSE /\ pause = FALSE
  /\ exceeded \in IF Limits THEN BOOLEAN ELSE {FALSE}
  /\ unchecked = FALSE
  /\ nsteps = 0

-----------------------------------------------------------------------------
(* Another task sets an event, before or after the loop looks at it.       *)
SetCancel ==
  /\ ~cancel /\ cancel' = TRUE
  /\ UNCHANGED <<pc, it, ph, status, err, snap, pause, exceeded, unchecked, nsteps>>

SetPause ==
  /\ ~pause /\ pause' = TRUE
  /\ UNCHANGED <<pc, it, ph, status, err, snap, cancel, exceeded, unchecked, nsteps>>

(* Mutant of Interrupt: context.iteration is still that of the last phase. *)
InterruptBehind ==
  /\ pc = "boundary" /\ it < MaxIterations
  /\ cancel \/ pause
  /\ status' = IF cancel THEN "cancelled" ELSE "paused"
  /\ snap' = IF cancel THEN snap ELSE IF ph = 1 /\ it > 0 THEN it - 1 ELSE it
  /\ pc' = "over"
  /\ UNCHANGED <<it, ph, err, cancel, pause, exceeded, unchecked, nsteps>>

(* _check_interrupt: cancel wins over pause.                               *)
Interrupt ==
  /\ pc = "boundary" /\ it < MaxIterations
  /\ cancel \/ pause
  /\ status' = IF cancel THEN "cancelled" ELSE "paused"
  /\ snap' = IF cancel THEN snap ELSE it
  /\ pc' = "over"
  /\ UNCHANGED <<it, ph, err, cancel, pause, exceeded, unchecked, nsteps>>

PassBoundary ==
  /\ pc = "boundary" /\ it < MaxIterations
  /\ ~cancel /\ ~pause
  /\ pc' = "limits"
  /\ UNCHANGED <<it, ph, status, err, snap, cancel, pause, exceeded, unchecked, nsteps>>

(* Mutant of NothingLeft: off by one, a run resumed at its end hangs.      *)
NothingLeftLate ==
  /\ pc = "boundary" /\ it > MaxIterations
  /\ pc' = "over"
  /\ UNCHANGED <<it, ph, status, err, snap, cancel, pause, exceeded, unchecked, nsteps>>

(* A run resumed at or past max_iterations has an empty range to run.      *)
NothingLeft ==
  /\ pc = "boundary" /\ it >= MaxIterations
  /\ pc' = "over"
  /\ UNCHANGED <<it, ph, status, err, snap, cancel, pause, exceeded, unchecked, nsteps>>

(* Mutant of CheckLimits: what the checker says is ignored.                *)
CheckLimitsIgnored ==
  /\ pc = "limits" /\ pc' = "execute"
  /\ UNCHANGED <<it, ph, status, err, snap, cancel, pause, exceeded, unchecked, nsteps>>

(* _check_resource_limits.  A checker that raises counts as no limit.      *)
CheckLimits ==
  /\ pc = "limits"
  /\ \/ /\ Limits /\ exceeded
        /\ status' = "failed" /\ err' = TRUE /\ pc' = "over" /\ unchecked' = FALSE
     \/ /\ ~(Limits /\ exceeded)
        /\ pc' = "execute" /\ unchecked' = FALSE /\ UNCHANGED <<status, err>>
     \/ /\ Limits
        /\ pc' = "execute" /\ unchecked' = TRUE /\ UNCHANGED <<status, err>>
  /\ UNCHANGED <<it, ph, snap, cancel, pause, exceeded, nsteps>>

(* _execute_phase: the phase ran, its usage is added (which may exceed the *)
(* limits) and its RunStep committed.                                      *)
PhaseRuns ==
  /\ pc = "execute"
  /\ nsteps' = nsteps + 1
  /\ exceeded' \in IF Limits THEN {exceeded, TRUE} ELSE {exceeded}
  /\ pc' = "process"
  /\ UNCHANGED <<it, ph, status, err, snap, cancel, pause, unchecked>>

(* The phase or its commit raises.  The number of the error step is used.  *)
PhaseRaises ==
  /\ pc = "execute"
  /\ nsteps' = nsteps + 1
  /\ status' = "failed" /\ err' = TRUE /\ pc' = "over"
  /\ UNCHANGED <<it, ph, snap, cancel, pause, exceeded, unchecked>>

(* Mutant of Process: the iteration after act is not counted.              *)
ProcessUncounted ==
  /\ pc = "process"
  /\ ph' = (ph % 4) + 1 /\ pc' = "boundary"
  /\ UNCHANGED <<it, status, err, snap, cancel, pause, exceeded, unchecked, nsteps>>

(* A plan that is complete, or an act that should not continue, ends the   *)
(* run; otherwise the next phase or the next iteration follows.  An        *)
(* exception of the working memory's add_entry after act fails the run.    *)
Process ==
  /\ pc = "process"
  /\ \/ /\ _PHASE_SEQUENCE[ph] \in {"plan", "act"}
        /\ pc' = "over" /\ UNCHANGED <<it, ph, status, err>>
     \/ /\ _PHASE_SEQUENCE[ph] = "act"
        /\ status' = "failed" /\ err' = TRUE /\ pc' = "over" /\ UNCHANGED <<it, ph>>
     \/ /\ ph < 4
        /\ ph' = ph + 1 /\ pc' = "boundary" /\ UNCHANGED <<it, status, err>>
     \/ /\ ph = 4 /\ it + 1 < MaxIterations
        /\ it' = it + 1 /\ ph' = 1 /\ pc' = "boundary" /\ UNCHANGED <<status, err>>
     \/ /\ ph = 4 /\ it + 1 = MaxIterations    \* "Max iterations reached."
        /\ pc' = "over" /\ UNCHANGED <<it, ph, status, err>>
  /\ UNCHANGED <<snap, cancel, pause, exceeded, unchecked, nsteps>>

(* The episode is stored, working memory cleaned up (both bounded, their   *)
(* errors swallowed) and the AgentRunResult returned.                      *)
Return ==
  /\ pc = "over"
  /\ pc' = "returned"
  /\ UNCHANGED <<it, ph, status, err, snap, cancel, pause, exceeded, unchecked, nsteps>>

LoopStep == \/ Interrupt \/ PassBoundary \/ NothingLeft \/ CheckLimits
            \/ PhaseRuns \/ PhaseRaises \/ Process \/ Return

RuntimeNext == SetCancel \/ SetPause \/ LoopStep

RuntimeSpec == RuntimeInit /\ [][RuntimeNext]_rtVars /\ WF_rtVars(LoopStep)

-----------------------------------------------------------------------------
(* Properties                                                              *)

(* The check before each phase is what makes "an already-exceeded budget   *)
(* not incur another LLM call": once the run has used more than its limits *)
(* allow no further phase is executed, wherever the loop is, unless the    *)
(* installed checker raised when it was asked.                             *)
PhasesWithinLimits ==
  [][Limits /\ exceeded /\ ~unchecked => nsteps' = nsteps]_rtVars

(* Whatever is set while it runs, the loop comes to its end, each time it  *)
(* is started.                                                             *)
RuntimeReturns == []<>(pc = "returned")
=============================================================================
