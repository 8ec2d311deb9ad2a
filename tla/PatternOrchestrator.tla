------------------------ MODULE PatternOrchestrator ------------------------
(***************************************************************************)
(* PatternOrchestrator.run (motoro/engine/patterns/orchestrator.py): the   *)
(* loop every production run goes through.  It activates the plugins of    *)
(* the run's patterns, asks their LOOP_CONTROL hooks for the phases of     *)
(* each iteration, runs PRE and POST hooks around each phase, ON_COMPLETION*)
(* or ON_ERROR hooks at the end, and deactivates the plugins.              *)
(*                                                                         *)
(* Plugins are arbitrary code: every outcome of a hook the orchestrator    *)
(* tells apart is possible at every call.                                  *)
(***************************************************************************)
EXTENDS Integers, Sequences, RunResult

CONSTANTS
  MaxIterations,    \* context.max_iterations
  Limits,           \* a product installed a resource-limit checker
  Starts,           \* where runs start (see AgentRuntime), and with which
                    \* fail_on_hook_error
  PluginSeq,        \* the plugins, in the order they are activated
  LoadBearing,      \* the plugins of category "execution"
  HookSeq,          \* the plugins with a hook, per hook point and in order
  CustomSeqs,       \* what LOOP_CONTROL hooks may put in "phase_sequence"
  NoCustom,         \* metadata without "phase_sequence"
  StrictTypes       \* fail_on_type_mismatch

VARIABLES
  pc, it, ph, status, err, snap, cancel, pause, exceeded, nsteps,
  seq,        \* the phases of this iteration
  hi,         \* index of the next hook at the current hook point
  active,     \* how many plugins were activated
  deactive,   \* how many of those were deactivated again
  override,   \* metadata holds "final_output_override"
  partial,    \* metadata["abort_error"]: "none", "partial" or "other"
  custom,     \* metadata["phase_sequence"]
  errs,       \* _consecutive_hook_errors
  stop,       \* the current phase's output ends the run (is_complete, not should_continue)
  start,      \* where this run started
  first,      \* history: the first phase executed, or "none"
  late        \* history: phases executed after cancel was requested

rtState == <<cancel, pause, exceeded, nsteps>>
meta == <<override, partial, custom>>
life == <<active, deactive>>
ghost == <<first, late>>
vars == <<pc, it, ph, status, err, snap, rtState, seq, hi, life, meta, errs, stop, start, ghost>>

_MAX_CONSECUTIVE_HOOK_ERRORS == 3

_PHASE_SEQUENCE == <<"sense", "reason", "plan", "act">>

Phases == {"sense", "reason", "plan", "act"}

HookPoint == ({"pre", "post"} \X Phases) \cup {<<"loop", "control">>, <<"on", "completion">>, <<"on", "error">>}

Plugins == {PluginSeq[i] : i \in 1..Len(PluginSeq)}

NoSnap == -1

ASSUME OrchestratorAssumption ==
  /\ MaxIterations \in Nat \ {0}
  /\ Limits \in BOOLEAN /\ StrictTypes \in BOOLEAN
  /\ Starts \subseteq [iteration: 0..MaxIterations, phase: 1..4, fail_on_hook_error: BOOLEAN]
  /\ PluginSeq \in Seq(Plugins) /\ LoadBearing \subseteq Plugins
  /\ HookSeq \in [HookPoint -> Seq(Plugins)]
  /\ NoCustom \notin CustomSeqs

(* _get_phase_sequence: unknown names are dropped; nothing left means the  *)
(* default, an explicitly empty list means that the run is done.           *)
PhaseSequence(c) ==
  LET known == SelectSeq(c, LAMBDA n : n \in Phases)
  IN IF c = <<>> THEN <<>> ELSE IF known = <<>> THEN _PHASE_SEQUENCE ELSE known

(* What SelectSeq returns is a sequence of what it selects.                *)
ASSUME SequenceAssumption == \A c \in CustomSeqs : PhaseSequence(c) \in Seq(Phases)

OrchestratorTypeOK ==
  /\ pc \in {"activate", "acterror", "control", "boundary", "pre", "execute", "post",
             "retry", "process", "completion", "onerror", "deactivate", "returned"}
  /\ it \in 0..MaxIterations
  /\ ph \in Nat \ {0}
  /\ status \in {"completed", "failed", "cancelled", "paused"}
  /\ err \in BOOLEAN
  /\ snap \in NoSnap..MaxIterations
  /\ cancel \in BOOLEAN /\ pause \in BOOLEAN /\ exceeded \in BOOLEAN /\ stop \in BOOLEAN
  /\ nsteps \in Nat
  /\ seq \in Seq(Phases)
  /\ hi \in Nat \ {0}
  /\ active \in 0..Len(PluginSeq) /\ deactive \in 0..active
  /\ override \in BOOLEAN /\ partial \in {"none", "partial", "other"}
  /\ custom \in CustomSeqs \cup {NoCustom}
  /\ errs \in [Plugins \X HookPoint -> 0.._MAX_CONSECUTIVE_HOOK_ERRORS]
  /\ start \in Starts
  /\ first \in Phases \cup {"none"} /\ late \in Nat

Init ==
  /\ pc = "activate" /\ start \in Starts /\ it = start.iteration /\ ph = start.phase
  /\ status = "completed" /\ err = FALSE /\ snap = NoSnap
  /\ cancel = FALSE /\ pause = FALSE /\ exceeded = FALSE /\ nsteps = 0
  /\ seq = _PHASE_SEQUENCE /\ hi = 1
  /\ active = 0 /\ deactive = 0
  /\ override = FALSE /\ partial = "none" /\ custom = NoCustom
  /\ errs = [k \in Plugins \X HookPoint |-> 0]
  /\ stop = FALSE
  /\ first = "none" /\ late = 0

-----------------------------------------------------------------------------
(* The events other tasks set                                              *)

SetCancel ==
  /\ ~cancel /\ cancel' = TRUE
  /\ UNCHANGED <<pc, it, ph, status, err, snap, pause, exceeded, nsteps, seq, hi, life, meta, errs,
                 stop, start, ghost>>

SetPause ==
  /\ ~pause /\ pause' = TRUE
  /\ UNCHANGED <<pc, it, ph, status, err, snap, cancel, exceeded, nsteps, seq, hi, life, meta, errs,
                 stop, start, ghost>>

-----------------------------------------------------------------------------
(* Activation                                                              *)

Activate ==
  /\ pc = "activate" /\ active < Len(PluginSeq)
  /\ active' = active + 1
  /\ UNCHANGED <<pc, it, ph, status, err, snap, rtState, seq, hi, deactive, meta, errs, stop, start, ghost>>

(* on_activate raises: the ON_ERROR hooks of the plugins activated so far  *)
(* run, with their errors suppressed.                                      *)
ActivateRaises ==
  /\ pc = "activate" /\ active < Len(PluginSeq)
  /\ status' = "failed" /\ err' = TRUE
  /\ pc' = "acterror" /\ hi' = 1
  /\ UNCHANGED <<it, ph, snap, rtState, seq, life, meta, errs, stop, start, ghost>>

(* Mutant of ActivationErrorHook: an early return skips deactivation.      *)
ActivationErrorReturns ==
  /\ pc = "acterror" /\ pc' = "returned"
  /\ UNCHANGED <<it, ph, status, err, snap, rtState, seq, hi, life, meta, errs, stop, start, ghost>>

ActivationErrorHook ==
  /\ pc = "acterror"
  /\ \/ /\ hi <= Len(HookSeq[<<"on", "error">>])
        /\ hi' = hi + 1 /\ pc' = pc
     \/ /\ hi > Len(HookSeq[<<"on", "error">>])
        /\ pc' = "deactivate" /\ hi' = hi
  /\ UNCHANGED <<it, ph, status, err, snap, rtState, seq, life, meta, errs, stop, start, ghost>>

(* All plugins are active.  A run resumed at its last iteration is over.   *)
Activated ==
  /\ pc = "activate" /\ active = Len(PluginSeq)
  /\ pc' = IF it >= MaxIterations THEN "completion" ELSE "control"
  /\ UNCHANGED <<it, ph, status, err, snap, rtState, seq, hi, life, meta, errs, stop, start, ghost>>

-----------------------------------------------------------------------------
(* The loop                                                                *)

(* Mutant of Raise: the error message is lost.                             *)
RaiseSilently == status' = "failed" /\ err' = err /\ pc' = "onerror" /\ hi' = 1

(* An exception leaves the loop: the run failed, ON_ERROR hooks follow.    *)
Raise ==
  /\ status' = "failed" /\ err' = TRUE
  /\ pc' = "onerror" /\ hi' = 1

(* The loop is left by a break with the status it has.                     *)
Leave ==
  /\ pc' = IF status' = "completed" THEN "completion" ELSE "deactivate"
  /\ hi' = 1

(* Mutant of FirstPhase: a resumed run begins its iteration anew.          *)
FirstPhaseOfIteration == 1

(* Where the phases of this iteration start.                               *)
FirstPhase == IF it = start.iteration THEN start.phase ELSE 1

(* The LOOP_CONTROL hooks ran (or failed: without fail_on_hook_error what  *)
(* an earlier iteration put in "phase_sequence" stays), and the sequence   *)
(* for iteration it is known.                                              *)
LoopControl ==
  /\ pc = "control"
  /\ IF HookSeq[<<"loop", "control">>] = <<>> THEN UNCHANGED <<custom, override>>
     ELSE /\ custom' \in CustomSeqs \cup {custom}
          /\ override' \in {override, TRUE}
  /\ LET s == IF custom' = NoCustom THEN _PHASE_SEQUENCE ELSE PhaseSequence(custom')
     IN \/ /\ s = <<>> /\ (override' \/ it # start.iteration)
           /\ UNCHANGED <<status, err, ph, seq>>
           /\ Leave
        \/ /\ s = <<>> /\ ~override' /\ it = start.iteration
           /\ Raise /\ UNCHANGED <<ph, seq>>
        \/ /\ s # <<>>
           /\ seq' = s
           /\ ph' = FirstPhase
           /\ pc' = "boundary"
           /\ UNCHANGED <<status, err, hi>>
  /\ UNCHANGED <<it, snap, rtState, life, partial, errs, stop, start, ghost>>

LoopControlRaises ==
  /\ pc = "control" /\ start.fail_on_hook_error /\ HookSeq[<<"loop", "control">>] # <<>>
  /\ Raise
  /\ UNCHANGED <<it, ph, snap, rtState, seq, life, meta, errs, stop, start, ghost>>

(* On to the next phase of the iteration, the next iteration, or out of    *)
(* the exhausted range.  status' is assigned before it is used.            *)
NextPhase ==
  \/ /\ ph < Len(seq)
     /\ ph' = ph + 1 /\ pc' = "boundary" /\ UNCHANGED <<it, hi>>
  \/ /\ ph >= Len(seq) /\ it + 1 < MaxIterations
     /\ it' = it + 1 /\ ph' = 1 /\ pc' = "control" /\ UNCHANGED hi
  \/ /\ ph >= Len(seq) /\ it + 1 >= MaxIterations
     /\ Leave /\ UNCHANGED <<it, ph>>

(* Mutant of NoPhaseToResume: nothing follows an iteration without phases. *)
NoPhaseToResumeStuck == FALSE

(* A run resumed behind the end of its iteration's phase sequence.         *)
NoPhaseToResume ==
  /\ pc = "boundary" /\ ph > Len(seq)
  /\ UNCHANGED <<status, err>>
  /\ NextPhase
  /\ UNCHANGED <<snap, rtState, seq, life, meta, errs, stop, start, ghost>>

(* Mutant of Interrupt: the pause is not snapshotted.                      *)
InterruptWithoutSnapshot ==
  /\ pc = "boundary" /\ ph <= Len(seq)
  /\ cancel \/ pause
  /\ status' = IF cancel THEN "cancelled" ELSE "paused"
  /\ Leave
  /\ UNCHANGED <<it, ph, err, snap, rtState, seq, life, meta, errs, stop, start, ghost>>

(* Mutant of Interrupt: a paused run waits instead of returning.           *)
InterruptWaits ==
  /\ pc = "boundary" /\ ph <= Len(seq)
  /\ cancel /\ status' = "cancelled"
  /\ Leave
  /\ UNCHANGED <<it, ph, err, snap, rtState, seq, life, meta, errs, stop, start, ghost>>

(* current_phase, the heartbeat (its failures are swallowed) and           *)
(* _check_interrupt, which looks at cancel before pause.                   *)
Interrupt ==
  /\ pc = "boundary" /\ ph <= Len(seq)
  /\ cancel \/ pause
  /\ status' = IF cancel THEN "cancelled" ELSE "paused"
  /\ snap' = IF cancel THEN snap ELSE it
  /\ Leave
  /\ UNCHANGED <<it, ph, err, rtState, seq, life, meta, errs, stop, start, ghost>>

(* Mutant of PassBoundary: the events are not looked at.                   *)
PassBoundaryUnchecked ==
  /\ pc = "boundary" /\ ph <= Len(seq)
  /\ pc' = "pre" /\ hi' = 1
  /\ UNCHANGED <<it, ph, status, err, snap, rtState, seq, life, meta, errs, stop, start, ghost>>

PassBoundary ==
  /\ pc = "boundary" /\ ph <= Len(seq)
  /\ ~cancel /\ ~pause
  /\ pc' = "pre" /\ hi' = 1
  /\ UNCHANGED <<it, ph, status, err, snap, rtState, seq, life, meta, errs, stop, start, ghost>>

(* _execute_phase uses a step number whether the phase returns or raises.  *)
Executes ==
  /\ nsteps' = nsteps + 1
  /\ first' = IF first = "none" THEN seq[ph] ELSE first
  /\ late' = IF cancel THEN late + 1 ELSE late

PhaseRuns ==
  /\ pc \in {"execute", "retry"}
  /\ Executes
  /\ exceeded' \in IF Limits THEN {exceeded, TRUE} ELSE {exceeded}
  /\ stop' \in IF seq[ph] \in {"plan", "act"} THEN BOOLEAN ELSE {FALSE}
  /\ pc' = IF pc = "execute" THEN "post" ELSE "process"
  /\ hi' = 1
  /\ UNCHANGED <<it, ph, status, err, snap, cancel, pause, seq, life, meta, errs, start>>

PhaseRaises ==
  /\ pc \in {"execute", "retry"}
  /\ Executes
  /\ Raise
  /\ UNCHANGED <<it, ph, snap, cancel, pause, exceeded, seq, life, meta, errs, stop, start>>

(* What follows a phase and its hooks: a plan that is complete, or an act  *)
(* that should not continue, ends the run.                                 *)
Process ==
  /\ pc = "process"
  /\ UNCHANGED <<status, err>>
  /\ \/ stop /\ Leave /\ UNCHANGED <<it, ph>>
     \/ ~stop /\ NextPhase
  /\ UNCHANGED <<snap, rtState, seq, life, meta, errs, stop, start, ghost>>

(* The working memory's add_entry raises after act.                        *)
ProcessRaises ==
  /\ pc = "process" /\ seq[ph] = "act"
  /\ Raise
  /\ UNCHANGED <<it, ph, snap, rtState, seq, life, meta, errs, stop, start, ghost>>

-----------------------------------------------------------------------------
(* Hooks: _run_hooks, one call of a hook per step                          *)

AtHooks == pc \in {"pre", "post", "completion", "onerror"}

Point == CASE pc = "pre" -> <<"pre", seq[ph]>>
           [] pc = "post" -> <<"post", seq[ph]>>
           [] pc = "completion" -> <<"on", "completion">>
           [] pc = "onerror" -> <<"on", "error">>

HasHook == AtHooks /\ hi <= Len(HookSeq[Point])

Slug == HookSeq[Point][hi]

(* _resolve_abort: an override makes the abort a success, an abort_error   *)
(* that announces partial results a success with an error.                 *)
Abort(ov, ab) ==
  /\ status' = IF ov \/ ab = "partial" THEN "completed" ELSE "failed"
  /\ err' = ~ov
  /\ Leave
  /\ UNCHANGED <<it, ph, snap>>

(* What the caller of _run_hooks does with the action it got back.  The    *)
(* metadata the hooks leave behind is ov and ab.                           *)
ActOn(action, ov, ab) ==
  \/ /\ pc \in {"completion", "onerror"}
     /\ pc' = "deactivate" /\ hi' = 1
     /\ UNCHANGED <<it, ph, status, err, snap>>
  \/ /\ pc \in {"pre", "post"} /\ action = "abort"
     /\ Abort(ov, ab)
  \/ /\ pc \in {"pre", "post"} /\ action = "pause"
     /\ status' = "paused" /\ snap' = it
     /\ Leave
     /\ UNCHANGED <<it, ph, err>>
  \/ /\ pc = "pre" /\ action = "skip"
     /\ UNCHANGED <<status, err, snap>>
     /\ NextPhase
  \/ /\ pc = "pre" /\ action \in {"none", "retry"}
     /\ pc' = "execute" /\ hi' = 1
     /\ UNCHANGED <<it, ph, status, err, snap>>
  \/ /\ pc = "post" /\ action \in {"none", "skip", "retry"}
     /\ pc' = IF action = "retry" THEN "retry" ELSE "process"
     /\ hi' = 1
     /\ UNCHANGED <<it, ph, status, err, snap>>

NextHook == hi' = hi + 1 /\ UNCHANGED <<pc, it, ph, status, err, snap>>

(* A hook may write the metadata the orchestrator reads, whatever it does  *)
(* next.                                                                   *)
WriteMeta ==
  /\ override' \in {override, TRUE}
  /\ partial' \in {partial, "partial"}

HooksDone ==
  /\ AtHooks /\ ~HasHook
  /\ ActOn("none", override, partial)
  /\ UNCHANGED <<rtState, seq, life, meta, errs, stop, start, ghost>>

(* A hook returned: its error count is reset.  A HookAction ends the round,*)
(* a model of the phase's output type replaces the output, a model of      *)
(* another type or any other value is dropped, or aborts in strict mode.   *)
HookReturns ==
  /\ HasHook
  /\ errs' = [errs EXCEPT ![<<Slug, Point>>] = 0]
  /\ UNCHANGED custom
  /\ \E result \in {"none", "output", "mistyped", "skip", "retry", "abort", "pause"} :
       \/ /\ result \in {"skip", "retry", "abort", "pause"}
          /\ WriteMeta
          /\ ActOn(result, override', partial')
          /\ UNCHANGED stop
       \/ /\ result = "none" /\ WriteMeta /\ NextHook /\ UNCHANGED stop
       \/ /\ result = "output"
          /\ stop' \in IF pc = "post" /\ seq[ph] \in {"plan", "act"} THEN BOOLEAN ELSE {stop}
          /\ NextHook /\ UNCHANGED <<override, partial>>
       \/ /\ result = "mistyped" /\ ~StrictTypes
          /\ NextHook /\ UNCHANGED <<override, partial, stop>>
       \/ /\ result = "mistyped" /\ StrictTypes
          /\ partial' = "other" /\ UNCHANGED <<override, stop>>
          /\ ActOn("abort", override, partial')
  /\ UNCHANGED <<rtState, seq, life, start, first, late>>

(* Mutant of TooManyErrors: off by one.                                    *)
TooManyErrorsLate(k) == errs[k] >= _MAX_CONSECUTIVE_HOOK_ERRORS

TooManyErrors(k) == errs[k] + 1 >= _MAX_CONSECUTIVE_HOOK_ERRORS

(* A hook raised or ran into hook_timeout.                                 *)
HookFails ==
  /\ HasHook
  /\ LET k == <<Slug, Point>>
     IN \/ /\ start.fail_on_hook_error \/ Slug \in LoadBearing
           /\ partial' = IF partial = "none" THEN "other" ELSE partial
           /\ ActOn("abort", override, partial')
           /\ UNCHANGED errs
        \/ /\ ~(start.fail_on_hook_error \/ Slug \in LoadBearing)
           /\ errs' = [errs EXCEPT ![k] = @ + 1]
           /\ IF TooManyErrors(k)
              THEN partial' = "other" /\ ActOn("abort", override, partial')
              ELSE NextHook /\ UNCHANGED partial
  /\ UNCHANGED <<rtState, seq, life, override, custom, stop, start, first, late>>

-----------------------------------------------------------------------------
(* The end                                                                 *)

(* on_deactivate of the next plugin that was activated; its errors are     *)
(* swallowed.                                                              *)
Deactivate ==
  /\ pc = "deactivate" /\ deactive < active
  /\ deactive' = deactive + 1
  /\ UNCHANGED <<pc, it, ph, status, err, snap, rtState, seq, hi, active, meta, errs, stop, start, ghost>>

(* The episode, the working memory's cleanup and the AgentRunResult.       *)
Return ==
  /\ pc = "deactivate" /\ deactive = active
  /\ pc' = "returned"
  /\ UNCHANGED <<it, ph, status, err, snap, rtState, seq, hi, life, meta, errs, stop, start, ghost>>

RunStep ==
  \/ Activate \/ ActivateRaises \/ ActivationErrorHook \/ Activated
  \/ LoopControl \/ LoopControlRaises \/ NoPhaseToResume
  \/ Interrupt \/ PassBoundary \/ PhaseRuns \/ PhaseRaises \/ Process \/ ProcessRaises
  \/ HooksDone \/ HookReturns \/ HookFails
  \/ Deactivate \/ Return

Next == SetCancel \/ SetPause \/ RunStep

Spec == Init /\ [][Next]_vars

(* The task that runs the loop keeps running: hooks are bounded by         *)
(* hook_timeout, model and tool calls by their own timeouts.               *)
FairSpec == Spec /\ WF_vars(RunStep)

-----------------------------------------------------------------------------
(* Properties                                                              *)

(* Whatever plugins do and whenever the run is interrupted, the result is  *)
(* one execute_run can record: a failed run has an error, a paused run and *)
(* only a paused run has the snapshot it is resumed from.                  *)
ResultWellFormed ==
  pc = "returned" => /\ [status |-> status, error |-> err] \in Results
                     /\ status = "paused" <=> snap # NoSnap

(* Every plugin that was activated, and no other, is deactivated exactly   *)
(* once before the run returns, and no phase and no hook of the loop runs  *)
(* outside the time all plugins are active.                                *)
LifecyclePaired ==
  /\ pc = "returned" => deactive = active
  /\ AtHooks \/ pc \in {"control", "boundary", "execute", "retry", "process"}
       => active = Len(PluginSeq) /\ deactive = 0

(* A cancelled run stops soon: after cancel_event is set at most the phase *)
(* already let through the check is executed, and retried once.            *)
CancelStopsSoon == late <= 2

(* Every run returns: no sequence of hook results, retries, skipped phases *)
(* or failing hooks keeps the loop going for ever.                         *)
RunReturns == <>(pc = "returned")

(* AgentRuntime.run's docstring on resume_phase: "the phase to resume from"*)
ResumesAtResumePhase ==
  start.phase > 1 => first \in {"none", _PHASE_SEQUENCE[start.phase]}

(* "already-exceeded budget doesn't incur another LLM call": no phase runs *)
(* once the installed checker reports exceeded limits.                     *)
PhasesWithinLimits ==
  [][Limits /\ exceeded => nsteps' = nsteps]_vars

(* Without plugins the orchestrator behaves as the plain runtime does      *)
(* (class docstring).                                                      *)
RuntimePc ==
  CASE pc \in {"activate", "control", "boundary"} -> "boundary"
    [] pc = "pre" -> "limits"
    [] pc \in {"post", "retry"} -> "process"
    [] pc \in {"acterror", "completion", "onerror", "deactivate"} -> "over"
    [] OTHER -> pc

\* It asks no checker, so none raises.
Runtime == INSTANCE AgentRuntime WITH pc <- RuntimePc, unchecked <- FALSE

BehavesAsRuntime == Runtime!RuntimeSpec
=============================================================================
