------------------------------ MODULE ReasonAct ------------------------------
(***************************************************************************)
(* The default execution pattern (motoro/engine/patterns/builtin/          *)
(* reason_act.py) under the orchestrator: every iteration is one model     *)
(* request.  The turns of the conversation are only appended, a window of  *)
(* them is sent, and a provider rejects a request in which a tool call has *)
(* no answering tool turn or a tool turn has no call.                      *)
(*                                                                         *)
(* The orchestrator's loop is restricted to this plugin's hooks; what      *)
(* other plugins add to it is in PatternOrchestrator.                      *)
(***************************************************************************)
EXTENDS Naturals, Sequences, SequencesExt

CONSTANTS
  max_iterations,  \* the plugin's parameter, copied to context.max_iterations
  window,          \* scratchpad_window, or 0 without include_scratchpad
  MaxCalls         \* bound: tool calls the model asks for in one turn

ASSUME ReasonActAssumption ==
  /\ max_iterations \in Nat \ {0}
  /\ window \in Nat
  /\ MaxCalls \in Nat

VARIABLES
  pc,           \* where the orchestrator is
  iteration,    \* context.iteration
  messages,     \* metadata["reason_act_messages"], the history of turns
  step_count,   \* metadata["reason_act_step_count"]
  pending,      \* metadata["reason_act_pending_calls"]: ids of calls for Act
  answer,       \* metadata["reason_act_final_answer"]: the turn it was given in, or 0
  terminated,   \* metadata["reason_act_termination"]
  max_hit,      \* metadata["reason_act_max_iterations_hit"]
  act_output,   \* final_output of the run: none, from tools, the ceiling's, or the answer
  status,       \* status of the run so far
  recorded,     \* the RunSteps recorded: <<phase, sequence>> in order
  _step_sequence,
  request       \* the last request sent to the model

vars == <<pc, iteration, messages, step_count, pending, answer, terminated, max_hit,
          act_output, status, recorded, _step_sequence, request>>

-----------------------------------------------------------------------------
(* Turns                                                                   *)

(* A call is known by the turn and the position it was issued at; the kind *)
(* says who answers it: the terminator, the skill tools, or Act.           *)
Kinds == {"final_answer", "skill", "tool"}

IssuedCalls(kinds) == [i \in 1..Len(kinds) |-> [id |-> <<step_count + 1, i>>, kind |-> kinds[i]]]

Turn(role, calls) == [role |-> role, calls |-> calls]

(* The calls that have one kind, in their order.                           *)
OfKind(calls, kind) ==
  LET at == {i \in 1..Len(calls) : calls[i].kind = kind}
      nth(k) == CHOOSE i \in at : Cardinality({j \in at : j <= i}) = k
  IN [k \in 1..Cardinality(at) |-> calls[nth(k)]]

ToolTurns(calls) == [i \in 1..Len(calls) |-> Turn("tool", <<calls[i]>>)]

build_initial_messages == <<Turn("system", <<>>), Turn("user", <<>>)>>

(* Mutant of window_messages: the window counts turns of every role.       *)
window_last_turns(ms, w) ==
  IF Len(ms) <= w + 2 THEN ms ELSE SubSeq(ms, 1, 2) \o SubSeq(ms, Len(ms) - w + 1, Len(ms))

(* The leading system and user turns and the last w assistant turns, each  *)
(* with the tool turns that answer it.                                     *)
window_messages(ms, w) ==
  LET others == {i \in 1..Len(ms) : ms[i].role \notin {"system", "user"}}
      p == IF others = {} THEN Len(ms) ELSE Min(others) - 1
      assistants == {i \in (p + 1)..Len(ms) : ms[i].role = "assistant"}
  IN IF w = 0 THEN SubSeq(ms, 1, p)
     ELSE IF Cardinality(assistants) <= w THEN ms
     ELSE LET start == CHOOSE i \in assistants : Cardinality({j \in assistants : j >= i}) = w
          IN SubSeq(ms, 1, p) \o SubSeq(ms, start, Len(ms))

-----------------------------------------------------------------------------
Init ==
  /\ pc = "control" /\ iteration = 0
  /\ messages = <<>> /\ step_count = 0 /\ pending = <<>>
  /\ answer = 0 /\ terminated = "incomplete" /\ max_hit = FALSE
  /\ act_output = "none" /\ status = "completed"
  /\ recorded = <<>> /\ _step_sequence = 0
  /\ request = <<>>

conversation == <<messages, step_count, pending>>
ending == <<answer, terminated, max_hit>>
trace == <<recorded, _step_sequence>>

(* Mutant of Record: one number for all steps of a turn.                   *)
RecordOneNumber(phases) ==
  /\ recorded' = recorded \o [i \in 1..Len(phases) |-> <<phases[i], _step_sequence>>]
  /\ _step_sequence' = _step_sequence + Len(phases)

(* A RunStep gets the next number, whether _record_step or the runtime's   *)
(* _create_step made it.                                                   *)
Record(phases) ==
  /\ recorded' = recorded \o [i \in 1..Len(phases) |-> <<phases[i], _step_sequence + i - 1>>]
  /\ _step_sequence' = _step_sequence + Len(phases)

(* Mutant of NextIteration: the last iteration's answer is not looked for. *)
NextIterationBlind(output) ==
  \/ /\ iteration + 1 < max_iterations
     /\ iteration' = iteration + 1 /\ pc' = "control" /\ act_output' = output
  \/ /\ iteration + 1 = max_iterations
     /\ pc' = "deactivate" /\ UNCHANGED iteration
     /\ act_output' = IF output = "none" THEN "max" ELSE output

(* On to the next iteration.  After the last permitted one there is no     *)
(* LOOP_CONTROL to see the answer, so the exhausted loop reads it.         *)
NextIteration(output) ==
  \/ /\ iteration + 1 < max_iterations
     /\ iteration' = iteration + 1 /\ pc' = "control" /\ act_output' = output
  \/ /\ iteration + 1 = max_iterations
     /\ pc' = "deactivate" /\ UNCHANGED iteration
     /\ act_output' = IF answer' # 0 THEN "answer" ELSE IF output = "none" THEN "max" ELSE output

(* Mutant of _loop_control: an answer does not end the loop.               *)
_loop_control_open ==
  /\ pc = "control"
  /\ pc' = IF iteration = 0 THEN "sense" ELSE "pre_act"
  /\ UNCHANGED <<iteration, conversation, ending, act_output, status, trace, request>>

(* Mutant of _loop_control: an iteration without phases is tried again.    *)
_loop_control_again ==
  /\ pc = "control" /\ answer = 0
  /\ pc' = IF iteration = 0 THEN "sense" ELSE "pre_act"
  /\ UNCHANGED <<iteration, conversation, ending, act_output, status, trace, request>>

(* _loop_control: no phases once there is an answer.                       *)
_loop_control ==
  /\ pc = "control"
  /\ IF answer # 0 THEN pc' = "deactivate" /\ act_output' = "answer"
     ELSE pc' = (IF iteration = 0 THEN "sense" ELSE "pre_act") /\ UNCHANGED act_output
  /\ UNCHANGED <<iteration, conversation, ending, status, trace, request>>

(* cancel or pause, seen by the orchestrator before a phase.               *)
Interrupted ==
  /\ pc \in {"sense", "pre_act"}
  /\ status' \in {"cancelled", "paused"}
  /\ act_output' = "none" /\ pc' = "deactivate"
  /\ UNCHANGED <<iteration, conversation, ending, trace, request>>

Sense ==
  /\ pc = "sense"
  /\ Record(<<"sense">>)
  /\ pc' = "pre_act"
  /\ UNCHANGED <<iteration, conversation, ending, act_output, status, request>>

(* Sense or Act raises: the error step takes a number, the run failed.     *)
PhaseRaises ==
  /\ pc \in {"sense", "act"}
  /\ Record(<<pc>>)
  /\ status' = "failed" /\ act_output' = "none" /\ pc' = "deactivate"
  /\ UNCHANGED <<iteration, conversation, ending, request>>

-----------------------------------------------------------------------------
(* _pre_act; the standard Reason phase before it is skipped                *)

History == IF messages = <<>> THEN build_initial_messages ELSE messages

Requested ==
  /\ pc = "pre_act"
  /\ request' = window_messages(History, window)

(* The request fails (or the hook times out): a load-bearing hook aborts.  *)
RequestFails ==
  /\ Requested
  /\ messages' = History
  /\ status' = "failed" /\ pc' = "deactivate"
  /\ UNCHANGED <<iteration, step_count, pending, ending, act_output, trace>>

(* The model asked to finish, or answered in prose with no call at all.    *)
(* Other calls of the same turn are dropped.                               *)
_conclude(calls) ==
  /\ Requested
  /\ \/ calls = <<>> /\ terminated' = "implicit_final_answer"
     \/ /\ \E i \in 1..Len(calls) : calls[i].kind = "final_answer"
        /\ terminated' = "final_answer"
  /\ step_count' = step_count + 1
  /\ messages' = Append(History, Turn("assistant", calls))
  /\ answer' = step_count + 1 /\ max_hit' = FALSE
  /\ Record(<<"reason", "act">>)
  /\ NextIteration(act_output)
  /\ UNCHANGED <<pending, status>>

(* Mutant of Ceiling: off by one.                                          *)
CeilingLate == IF step_count' > max_iterations
               THEN max_hit' = TRUE /\ terminated' = "max_iterations"
               ELSE UNCHANGED <<max_hit, terminated>>

Ceiling == IF step_count' >= max_iterations
           THEN max_hit' = TRUE /\ terminated' = "max_iterations"
           ELSE UNCHANGED <<max_hit, terminated>>

(* Mutant of Dispatched: calls that were answered are dispatched too.      *)
DispatchedAll(calls) == calls

Dispatched(calls) == OfKind(calls, "tool")

(* Calls of the skill tools are answered at once; the others are left to   *)
(* Act.  With nothing to dispatch, Act is skipped.                         *)
CallsTools(calls) ==
  LET skills == OfKind(calls, "skill")
      dispatch == Dispatched(calls)
  IN /\ Requested
     /\ calls # <<>> /\ \A i \in 1..Len(calls) : calls[i].kind # "final_answer"
     /\ step_count' = step_count + 1
     /\ messages' = Append(History, Turn("assistant", calls)) \o ToolTurns(skills)
     /\ pending' = dispatch
     /\ Record(<<"reason">>)
     /\ UNCHANGED answer
     /\ \/ dispatch = <<>> /\ Ceiling /\ NextIteration(act_output)
        \/ /\ dispatch # <<>> /\ pc' = "act"
           /\ UNCHANGED <<terminated, max_hit, iteration, act_output>>
     /\ UNCHANGED status

(* A skill tool raises, or the hook times out while a script runs: the     *)
(* turn is recorded, some of its calls have no answer, and the run failed. *)
SkillFails(calls) ==
  LET skills == OfKind(calls, "skill")
  IN /\ Requested
     /\ skills # <<>> /\ \A i \in 1..Len(calls) : calls[i].kind # "final_answer"
     /\ step_count' = step_count + 1
     /\ messages' = Append(History, Turn("assistant", calls)) \o ToolTurns(Front(skills))
     /\ Record(<<"reason">>)
     /\ status' = "failed" /\ pc' = "deactivate"
     /\ UNCHANGED <<pending, ending, iteration, act_output>>

_pre_act ==
  \E n \in 0..MaxCalls : \E kinds \in [1..n -> Kinds] :
    LET calls == IssuedCalls(kinds) IN _conclude(calls) \/ CallsTools(calls) \/ SkillFails(calls)

-----------------------------------------------------------------------------
(* Act ran the pending calls; _post_act adds one tool turn for each, with  *)
(* a result or a failure, and keeps the loop going.                        *)
Act ==
  /\ pc = "act"
  /\ Record(<<"act">>)
  /\ pc' = "post_act"
  /\ UNCHANGED <<iteration, conversation, ending, act_output, status, request>>

_post_act ==
  /\ pc = "post_act"
  /\ messages' = messages \o ToolTurns(pending)
  /\ pending' = <<>>
  /\ UNCHANGED <<step_count, answer>>
  /\ Ceiling
  /\ NextIteration("tools")
  /\ UNCHANGED <<status, trace, request>>

(* on_deactivate drops the scratch keys and persists the loop summary; the *)
(* result is returned.                                                     *)
on_deactivate ==
  /\ pc = "deactivate"
  /\ pending' = <<>>
  /\ pc' = "returned"
  /\ UNCHANGED <<iteration, messages, step_count, ending, act_output, status, trace, request>>

Step == \/ _loop_control \/ Sense \/ PhaseRaises \/ RequestFails \/ _pre_act
        \/ Act \/ _post_act \/ on_deactivate

Next == Interrupted \/ Step

Spec == Init /\ [][Next]_vars

(* The model answers or the request fails (its client times out).          *)
FairSpec == Spec /\ WF_vars(Step)

-----------------------------------------------------------------------------
(* Properties                                                              *)

TurnTypeOK(m) ==
  /\ m.role \in {"system", "user", "assistant", "tool"}
  /\ \A i \in 1..Len(m.calls) : m.calls[i].kind \in Kinds

ReasonActTypeOK ==
  /\ pc \in {"control", "sense", "pre_act", "act", "post_act", "deactivate", "returned"}
  /\ iteration \in 0..(max_iterations - 1)
  /\ \A i \in 1..Len(messages) : TurnTypeOK(messages[i])
  /\ step_count \in 0..max_iterations
  /\ \A i \in 1..Len(pending) : pending[i].kind = "tool"
  /\ answer \in 0..max_iterations
  /\ terminated \in {"incomplete", "final_answer", "implicit_final_answer", "max_iterations"}
  /\ max_hit \in BOOLEAN
  /\ act_output \in {"none", "tools", "max", "answer"}
  /\ status \in {"completed", "failed", "cancelled", "paused"}
  /\ _step_sequence = Len(recorded)

(* Every request the provider sees is well formed: each call of an         *)
(* assistant turn is answered by exactly one tool turn before the next     *)
(* assistant turn, and no tool turn is without its call, whatever the      *)
(* window cut off and whoever answered (skill tools at once, Act later).   *)
RequestWellFormed ==
  \A i \in 1..Len(request) :
    LET m == request[i]
        Closes(j) == j = Len(request) + 1 \/ request[j].role = "assistant"
        next == CHOOSE j \in (i + 1)..(Len(request) + 1) :
                  Closes(j) /\ \A k \in (i + 1)..(j - 1) : ~Closes(k)
    IN /\ m.role = "assistant" =>
            \A c \in ToSet(m.calls) :
              Cardinality({j \in (i + 1)..(next - 1) : c \in ToSet(request[j].calls)}) = 1
       /\ m.role = "tool" =>
            \E j \in 1..(i - 1) : /\ request[j].role = "assistant"
                                  /\ m.calls[1] \in ToSet(request[j].calls)

(* An answer the model gave is the output of the run, even when it came on *)
(* the last permitted iteration and earlier iterations left tool output.   *)
AnswerDelivered ==
  pc = "returned" /\ answer # 0 /\ status = "completed" => act_output = "answer"

(* The persisted loop summary tells the truth about how the loop ended: a  *)
(* completed run was cut off by the ceiling exactly when no answer came,   *)
(* and then it used every permitted model request.                         *)
TerminationTruthful ==
  pc = "returned" /\ status = "completed" =>
    /\ max_hit <=> answer = 0
    /\ max_hit <=> terminated = "max_iterations"
    /\ max_hit => step_count = max_iterations

(* Once the model concluded, it is not asked again.                        *)
NoRequestAfterAnswer ==
  [][answer # 0 => step_count' = step_count /\ messages' = messages]_vars

(* In the trace of a run every act step follows the reason step of the     *)
(* same turn, and the two sources of step numbers never produce a gap or a *)
(* duplicate.                                                              *)
TraceOrdered ==
  /\ \A i \in 1..Len(recorded) : recorded[i][2] = i - 1
  /\ \A i \in 1..Len(recorded) :
       recorded[i][1] = "act" => i > 1 /\ recorded[i - 1][1] = "reason"

(* The run ends.                                                           *)
RunReturns == <>(pc = "returned")
=============================================================================
