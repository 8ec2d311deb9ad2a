------------------------------ MODULE ActPhase ------------------------------
(***************************************************************************)
(* ActPhase.execute (engine/act.py): the steps of a plan in order, each    *)
(* with the requests it makes of the LLM service (LLMService), the tool    *)
(* calls (ToolCall) and the peers it consults (engine/agent_channel.py).   *)
(* The plan, what the run may use, the answers and the failures are the    *)
(* environment.                                                            *)
(***************************************************************************)
EXTENDS LLMService, ToolCall, SequencesExt

CONSTANTS MaxSteps, \* steps of a plan
          MaxCalls  \* calls of one turn

ASSUME ActAssumption == MaxSteps \in Nat /\ MaxCalls \in Nat \ {0}

VARIABLES plan,  \* what each step names: a tool or a peer of the run, or nothing
          run,   \* what the run has: tools, peers, suppress_final_synthesis
          act,   \* where the phase is
          out,   \* results and final_parts of the phase
          made   \* history: the calls dispatched, in order

actvars == <<plan, run, act, out, made>>
vars == <<llm, tool, actvars>>

Call == {"tool", "peer", "unknown"}

Start == [pc |-> "step", step |-> 1, queue |-> <<>>, single |-> FALSE, prose |-> FALSE,
          tools |-> <<>>, peers |-> <<>>]

Init ==
    /\ plan \in SeqOf({"none", "tool", "peer"}, MaxSteps)
    /\ run \in [tools : BOOLEAN, peers : BOOLEAN, suppress : BOOLEAN]
    /\ act = Start
    /\ out = [results |-> <<>>, parts |-> <<>>]
    /\ made = <<>>
    /\ LLMInit /\ ToolInit

\* A result of call n of the step (0: of no call); of = "tool" has a tool_call.
Result(n, of, ok) == [step |-> act.step, call |-> n, of |-> of, ok |-> ok]

At(pc) == act' = [act EXCEPT !.pc = pc]

\* One await of the phase: a request, a tool call.  A budget callback may or may not refuse:
\* with one the service does all that it does without.
Ask(kind, pc) ==
    /\ At(pc)
    /\ Request(kind, kind = "text", TRUE)

Run(pc, n) ==
    /\ At(pc)
    /\ Dispatch
    /\ made' = Append(made, <<act.step, n>>)

\* The bottom of the loop in execute: what the step adds, and the next one.
StepDone(results, parts) ==
    /\ out' = [results |-> out.results \o results, parts |-> out.parts \o parts]
    /\ act' = [Start EXCEPT !.step = act.step + 1,
                            !.pc = IF act.step = Len(plan) THEN "close" ELSE "step"]

\* What a text request that succeeded adds to final_parts: an empty answer adds "".
Text == IF llm.end = "empty" THEN "blank" ELSE "prose"

Prose == StepDone(<<Result(0, "text", TRUE)>>, <<Text>>)

\* The generic handler of execute.
StepError == StepDone(<<Result(0, "error", FALSE)>>, <<>>)

-----------------------------------------------------------------------------
(***************************************************************************)
(* _execute_single_step up to its first await.                             *)
(***************************************************************************)
HasStep == act.pc = "step" /\ act.step <= Len(plan)
PlannedPeer == plan[act.step] = "peer" /\ run.peers
PlannedTool == plan[act.step] = "tool" /\ run.tools

ConsultPlanned ==
    /\ HasStep /\ PlannedPeer
    /\ made' = Append(made, <<act.step, 1>>)
    /\ \E ok \in BOOLEAN : StepDone(<<Result(1, "peer", ok)>>, <<"reply">>)
    /\ UNCHANGED <<plan, run, llm, tool>>

RunPlanned ==
    /\ HasStep /\ PlannedTool
    /\ Run("planned", 1)
    /\ UNCHANGED <<plan, run, out, llm>>

AskPlain ==
    /\ HasStep /\ ~PlannedPeer /\ ~PlannedTool /\ ~run.tools /\ ~run.peers
    /\ Ask("text", "text")
    /\ UNCHANGED <<plan, run, out, made, tool>>

AskTools ==
    /\ run.tools \/ run.peers
    /\ HasStep /\ ~PlannedPeer /\ ~PlannedTool
    /\ Ask("tools", "turn")
    /\ UNCHANGED <<plan, run, out, made, tool>>

-----------------------------------------------------------------------------
(***************************************************************************)
(* The native turn and its calls.                                          *)
(***************************************************************************)
Turn(answer) == act.pc = "turn" /\ llm.pc = "done" /\ llm.end = answer

TurnText ==
    /\ Turn("text")
    /\ Prose
    /\ UNCHANGED <<plan, run, made, llm, tool>>

TurnEmpty ==
    /\ Turn("empty")
    /\ Ask("text", "text")
    /\ UNCHANGED <<plan, run, out, made, tool>>

TurnCalls ==
    /\ Turn("calls")
    /\ \E queue \in SeqOf(Call, MaxCalls) \ {<<>>}, prose \in BOOLEAN :
          act' = [act EXCEPT !.pc = "calls", !.queue = queue, !.prose = prose,
                             !.single = Len(queue) = 1]
    /\ UNCHANGED <<plan, run, out, made, llm, tool>>

\* A provider that rejects the payload must still be able to act.
TurnFails ==
    /\ act.pc = "turn" /\ llm.pc = "raised" /\ llm.end # "budget"
    /\ IF run.tools THEN Ask("model", "select") ELSE Ask("text", "text")
    /\ UNCHANGED <<plan, run, out, made, tool>>

TurnRefused ==
    /\ act.pc = "turn" /\ llm.pc = "raised" /\ llm.end = "budget"
    /\ StepError
    /\ UNCHANGED <<plan, run, made, llm, tool>>

Calls == act.pc = "calls" /\ act.queue # <<>>
Handled == (Head(act.queue) = "peer" /\ run.peers) \/ (Head(act.queue) = "tool" /\ run.tools)

\* The number of the call at the head of the queue.
Number == Len(act.tools) + Len(act.peers) + 1

\* Its result goes to one of the two lists of _StepOutcome.
Collected(of, ok) ==
    act' = [act EXCEPT !.pc = "calls", !.queue = Tail(@),
              ![IF of = "peer" THEN "peers" ELSE "tools"] = Append(@, Result(Number, of, ok))]

CallPeer ==
    /\ Calls /\ Handled /\ Head(act.queue) = "peer"
    /\ made' = Append(made, <<act.step, Number>>)
    /\ \E ok \in BOOLEAN : Collected("peer", ok)
    /\ UNCHANGED <<plan, run, out, llm, tool>>

CallTool ==
    /\ Calls /\ Handled /\ Head(act.queue) = "tool"
    /\ Run("calling", Number)
    /\ UNCHANGED <<plan, run, out, llm>>

\* A lone call of something the run does not have becomes prose,
AnswerInstead ==
    /\ Calls /\ ~Handled /\ act.single
    /\ Ask("text", "text")
    /\ UNCHANGED <<plan, run, out, made, tool>>

\* one of several is recorded as not found.
CallUnknown ==
    /\ Calls /\ ~Handled /\ ~act.single
    /\ Collected("tool", FALSE)
    /\ UNCHANGED <<plan, run, out, made, llm, tool>>

CallReturns ==
    /\ act.pc = "calling" /\ tool.pc = "done"
    /\ Collected("tool", tool.end = "ok")
    /\ UNCHANGED <<plan, run, out, made, llm, tool>>

\* Mutant of CallRaises: one failing call of a batch fails the step.
CallRaisesStep ==
    /\ act.pc = "calling" /\ tool.pc = "raised" /\ ~act.single
    /\ StepError
    /\ UNCHANGED <<plan, run, made, llm, tool>>

CallRaises ==
    /\ act.pc = "calling" /\ tool.pc = "raised" /\ ~act.single
    /\ Collected("tool", FALSE)
    /\ UNCHANGED <<plan, run, out, made, llm, tool>>

\* Prose first, then the tools' results, then the peers', whatever the order of the calls.
CallsOver ==
    /\ act.pc = "calls" /\ act.queue = <<>>
    /\ StepDone((IF act.prose THEN <<Result(0, "text", TRUE)>> ELSE <<>>) \o act.tools \o act.peers,
                (IF act.prose THEN <<"prose">> ELSE <<>>)
                  \o [i \in DOMAIN act.tools |-> "dump"] \o [i \in DOMAIN act.peers |-> "reply"])
    /\ UNCHANGED <<plan, run, made, llm, tool>>

-----------------------------------------------------------------------------
(***************************************************************************)
(* _select_tool_fallback, planned tools and plain text.                    *)
(***************************************************************************)
Selected ==
    /\ act.pc = "select" /\ llm.pc = "done" /\ llm.end = "use"
    /\ Run("planned", 1)
    /\ UNCHANGED <<plan, run, out, llm>>

SelectedNone ==
    /\ act.pc = "select" /\ llm.pc = "done" /\ llm.end = "skip"
    /\ Ask("text", "text")
    /\ UNCHANGED <<plan, run, out, made, tool>>

PlannedReturns ==
    /\ act.pc = "planned" /\ tool.pc = "done"
    /\ StepDone(<<Result(1, "tool", tool.end = "ok")>>, <<"dump">>)
    /\ UNCHANGED <<plan, run, made, llm, tool>>

TextAnswers ==
    /\ act.pc = "text" /\ llm.pc = "done"
    /\ Prose
    /\ UNCHANGED <<plan, run, made, llm, tool>>

TextFails ==
    /\ act.pc \in {"text", "select"} /\ llm.pc = "raised"
    /\ StepError
    /\ UNCHANGED <<plan, run, made, llm, tool>>

\* A ToolExecutionError that reaches execute: prose instead of the tool's result.
ToolError ==
    /\ tool.pc = "raised"
    /\ act.pc = "planned" \/ (act.pc = "calling" /\ act.single)
    /\ Ask("text", "fallback")
    /\ UNCHANGED <<plan, run, out, made, tool>>

\* Either way the result keeps the record of the call that failed.
Fallback ==
    /\ act.pc = "fallback" /\ ~Busy
    /\ IF llm.pc = "done"
       THEN StepDone(<<Result(1, "tool", TRUE)>>, <<Text>>)
       ELSE StepDone(<<Result(1, "tool", FALSE)>>, <<>>)
    /\ UNCHANGED <<plan, run, made, llm, tool>>

-----------------------------------------------------------------------------
(***************************************************************************)
(* The closing turn.                                                       *)
(***************************************************************************)
\* Mutant of EndsOnTool: judged by what was planned.
EndsOnPlannedTool == plan # <<>> /\ Last(plan) = "tool"

EndsOnTool == out.results # <<>> /\ Last(out.results).of = "tool"

Return ==
    /\ act.pc = "close" \/ (act.pc = "step" /\ plan = <<>>)
    /\ ~EndsOnTool \/ run.suppress
    /\ At("returned")
    /\ UNCHANGED <<plan, run, out, made, llm, tool>>

AskSynthesis ==
    /\ act.pc = "close" /\ EndsOnTool /\ ~run.suppress
    /\ Ask("text", "synthesis")
    /\ UNCHANGED <<plan, run, out, made, tool>>

\* Mutant of Synthesis: asked again until the service answers.
SynthesisAgain ==
    /\ act.pc = "synthesis" /\ ~Busy
    /\ IF llm.pc = "done"
       THEN At("returned") /\ out' = [out EXCEPT !.parts = Append(@, Text)] /\ UNCHANGED llm
       ELSE Ask("text", "synthesis") /\ UNCHANGED out
    /\ UNCHANGED <<plan, run, made, tool>>

Synthesis ==
    /\ act.pc = "synthesis" /\ ~Busy
    /\ At("returned")
    /\ out' = IF llm.pc = "done"
              THEN [results |-> Append(out.results, [Result(0, "text", TRUE)
                                                      EXCEPT !.step = Len(out.results) + 1]),
                    parts |-> Append(out.parts, Text)]
              ELSE out
    /\ UNCHANGED <<plan, run, made, llm, tool>>

-----------------------------------------------------------------------------
Serving == Serve /\ UNCHANGED <<actvars, tool>>
Executing == Execute /\ UNCHANGED <<actvars, llm>>

Next ==
    \/ ConsultPlanned \/ RunPlanned \/ AskPlain \/ AskTools
    \/ TurnText \/ TurnEmpty \/ TurnCalls \/ TurnFails \/ TurnRefused
    \/ CallPeer \/ CallTool \/ AnswerInstead \/ CallUnknown
    \/ CallReturns \/ CallRaises \/ CallsOver
    \/ Selected \/ SelectedNone \/ PlannedReturns \/ TextAnswers \/ TextFails
    \/ ToolError \/ Fallback \/ Return \/ AskSynthesis \/ Synthesis
    \/ Serving \/ Executing

\* Every await has a deadline of its own, but for a peer's reply (one step here) and
\* a tool call whose cancellation is suppressed (MCPClient), taken to end all the same.
Spec == Init /\ [][Next]_vars /\ WF_vars(Next)

-----------------------------------------------------------------------------
ActTypeOK ==
    /\ LLMTypeOK /\ ToolTypeOK
    /\ act.pc \in {"step", "turn", "calls", "calling", "select", "planned", "text",
                   "fallback", "close", "synthesis", "returned"}
    /\ act.step \in 1..MaxSteps + 1
    /\ act.queue \in Seq(Call)
    /\ \A r \in ToSet(out.results) :
          r.call \in 0..MaxCalls /\ r.of \in {"text", "tool", "peer", "error"}
    /\ ToSet(out.parts) \subseteq {"prose", "blank", "dump", "reply"}

(* What the steps did reaches the next phases: the results are in the      *)
(* order of the plan, every step that is over has one, and every tool call *)
(* and consultation that was dispatched was dispatched once and has        *)
(* exactly one result of its own kind, whatever failed beside it: the      *)
(* other calls of a batch, the tool itself, the prose that replaces it.    *)
CallsReported ==
    LET Of(s, n) == {i \in DOMAIN out.results : out.results[i].step = s /\ out.results[i].call = n}
    IN /\ \A i, j \in DOMAIN out.results : i < j => out.results[i].step <= out.results[j].step
       /\ \A s \in 1..act.step - 1 \cap DOMAIN plan : \E r \in ToSet(out.results) : r.step = s
       /\ IsInjective(made)
       /\ \A c \in ToSet(made) :
             c[1] < act.step => \E i \in Of(c[1], c[2]) :
                                   Of(c[1], c[2]) = {i} /\ out.results[i].of \in {"tool", "peer"}

NoText == llm.pc = "raised" \/ (llm.pc = "done" /\ llm.end = "empty")

\* What a reader sees last of these parts is the raw dump of a tool's result.
EndsInDump(parts) ==
    \E i \in DOMAIN parts :
       parts[i] = "dump" /\ \A j \in DOMAIN parts : i < j => parts[j] = "blank"

(* The final response does not end in the raw dump of a tool's result,     *)
(* unless the pattern writes the answer itself (suppress_final_synthesis)  *)
(* or the last request to the LLM brought no text: it failed, or succeeded *)
(* with an empty answer.  It was the closing turn, or that of a last step  *)
(* whose result is not a tool's: after that no closing turn is made.       *)
EndsInProse ==
    act.pc = "returned" /\ EndsInDump(out.parts) => run.suppress \/ NoText

(* The phase returns: no answer of a provider, a server or a peer, in any  *)
(* order and however often they fail, keeps it retrying.                   *)
ActReturns == <>(act.pc = "returned")
=============================================================================
