----------------------- MODULE MCPatternOrchestrator -----------------------
(* TLC instances of PatternOrchestrator.                                   *)
EXTENDS PatternOrchestrator, TLC

CONSTANTS x, q  \* an execution pattern and an advisory one

Start(i, p, f) == [iteration |-> i, phase |-> p, fail_on_hook_error |-> f]

Fresh == {Start(0, 1, FALSE)}

(* Every place a snapshot may resume a run at.                             *)
Resumed == {Start(i, p, FALSE) : i \in 0..MaxIterations, p \in 1..4}

(* Fresh and resumed runs, forgiving hooks or not.                         *)
Mixed == {Start(0, 1, FALSE), Start(0, 1, TRUE), Start(1, 4, FALSE)}

At(points, s) == [p \in HookPoint |-> IF p \in points THEN s ELSE <<>>]

(* No plugins.                                                             *)
NoPlugins == <<>>
NoHooks == At({}, <<>>)
NoSeqs == {}

(* An execution pattern that controls the loop, with an advisory one that  *)
(* has two hooks at one point.                                             *)
BothPlugins == <<x, q>>
BothHooks == [At({<<"pre", "act">>, <<"on", "error">>}, <<x, q>>) EXCEPT
                ![<<"loop", "control">>] = <<x>>,
                ![<<"post", "act">>] = <<q, q>>,
                ![<<"on", "completion">>] = <<q>>]
ActSeqs == {<<>>, <<"reason", "act">>, <<"bogus", "act">>}

(* reason_act's sequences, no other hooks.                                 *)
ExecPlugin == <<x>>
ControlOnly == At({<<"loop", "control">>}, <<x>>)
ReasonActSeqs == {<<"reason", "act">>}
=============================================================================
