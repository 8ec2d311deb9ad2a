----------------------------- MODULE LLMService -----------------------------
(***************************************************************************)
(* One request to the LLM service at a time (services/llm_service.py):     *)
(* complete_text, complete_with_tools and complete try each configuration  *)
(* in turn; under them tenacity repeats a request that failed in transport *)
(* and complete_with_tools asks again when the arguments of a tool call do *)
(* not match their schema.  The provider, instructor's own repairs (inside *)
(* one attempt of complete) and the budget callback are the environment.   *)
(***************************************************************************)
EXTENDS Naturals

CONSTANTS Models,      \* the configuration and its fallback_models
          MaxAttempts, \* stop_after_attempt(3)
          MaxRepairs   \* settings.llm_structured_max_retries

ASSUME LLMAssumption == Models \in Nat \ {0} /\ MaxAttempts \in Nat \ {0} /\ MaxRepairs \in Nat

VARIABLE llm \* the request in progress, or how the last one ended

Kind == {"text", "tools", "model"}

\* "text" and "empty" are completions without calls, "use" and "skip" decisions.
\* complete_text returns "" as a success when the provider sends no choices or no content.
Answers(kind) == CASE kind = "text"  -> {"text", "empty"}
                   [] kind = "tools" -> {"text", "empty", "calls"}
                   [] kind = "model" -> {"use", "skip"}

NoRequest == [pc |-> "idle", kind |-> "text", deadline |-> FALSE, check |-> FALSE,
              model |-> 1, attempt |-> 1, repair |-> 0, end |-> "none",
              spent |-> 0] \* history: what it has sent to the providers

Requests == [pc : {"idle", "sent", "asleep", "done", "raised"}, kind : Kind,
             deadline : BOOLEAN, check : BOOLEAN, model : 1..Models,
             attempt : 1..MaxAttempts, repair : 0..MaxRepairs,
             end : {"none", "text", "empty", "calls", "use", "skip",
                    "budget", "rejected", "failed", "timeout"},
             spent : Nat]

LLMTypeOK == llm \in Requests

LLMInit == llm = NoRequest

Busy == llm.pc \in {"sent", "asleep"}

-----------------------------------------------------------------------------
\* complete_text, complete_with_tools and complete up to their first request.
\* deadline: the caller wraps the call in a wait_for as long as one attempt's.
Request(kind, deadline, check) ==
    /\ ~Busy
    /\ llm' = [NoRequest EXCEPT !.pc = "sent", !.kind = kind, !.spent = 1,
                                !.deadline = deadline, !.check = check]

Sent(next) == llm' = [next EXCEPT !.pc = "sent", !.spent = @ + 1]
Done(answer) == llm' = [NoRequest EXCEPT !.pc = "done", !.end = answer]
Raised(why) == llm' = [NoRequest EXCEPT !.pc = "raised", !.end = why]

Answered(a) ==
    /\ llm.pc = "sent" /\ a \in Answers(llm.kind)
    /\ Done(a)

\* Mutant of BadArguments: repairs are not counted.
BadArgumentsUncounted ==
    /\ llm.pc = "sent" /\ llm.kind = "tools"
    /\ Sent([llm EXCEPT !.attempt = 1])

\* The turn is rejected as a whole; when no repair is left it is returned without its calls.
BadArguments ==
    /\ llm.pc = "sent" /\ llm.kind = "tools"
    /\ IF llm.repair < MaxRepairs
       THEN Sent([llm EXCEPT !.repair = @ + 1, !.attempt = 1])
       ELSE \E a \in {"text", "empty"} : Done(a)

\* for idx, cfg in enumerate(configs_to_try)
NextModel ==
    IF llm.model < Models
    THEN Sent([llm EXCEPT !.model = @ + 1, !.attempt = 1, !.repair = 0])
    ELSE Raised("failed")

\* An error that tenacity does not retry: no credentials, an invalid structure.
Hard == llm.pc = "sent" /\ NextModel

\* One that it does retry.  There is no sleep, and no check, after the last attempt.
Transient ==
    /\ llm.pc = "sent"
    /\ IF llm.attempt < MaxAttempts
       THEN llm' = [llm EXCEPT !.pc = "asleep"]
       ELSE NextModel

\* before_sleep lets the next attempt through,
Retry ==
    /\ llm.pc = "asleep"
    /\ Sent([llm EXCEPT !.attempt = @ + 1])

\* or the callback of the caller raises LLMBudgetExceededError.
Refuse == llm.pc = "asleep" /\ llm.check /\ Raised("budget")

\* BadRequestError and SamplingConfigurationError end the request.
Reject == llm.pc = "sent" /\ Raised("rejected")

Deadline == Busy /\ llm.deadline /\ Raised("timeout")

Serve ==
    \/ \E a \in Answers(llm.kind) : Answered(a)
    \/ BadArguments \/ Hard \/ Transient \/ Retry \/ Refuse \/ Reject \/ Deadline

-----------------------------------------------------------------------------
(* One logical request costs at most (1 + fallbacks) x (1 + repairs) x 3   *)
(* requests to the providers: the loops of the three layers multiply, and  *)
(* none of them starts over.                                               *)
RequestsBounded ==
    llm.spent <= Models * MaxAttempts * (IF llm.kind = "tools" THEN MaxRepairs + 1 ELSE 1)
=============================================================================
