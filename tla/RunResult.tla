----------------------------- MODULE RunResult -----------------------------
(***************************************************************************)
(* What the agent loop hands back to execute_run (AgentRunResult): the     *)
(* vocabulary that RunLifecycle, which consumes results, shares with       *)
(* PatternOrchestrator, which is shown to produce only these.              *)
(***************************************************************************)

_TERMINAL_RUN_STATUSES == {"completed", "failed", "cancelled"}

(* The status of a result and whether it carries an error.  A completed    *)
(* run carries one when an abort asked for partial results.                *)
Results == {r \in [status: {"completed", "failed", "cancelled", "paused"}, error: BOOLEAN] :
              /\ r.status = "failed" => r.error
              /\ r.status \in {"cancelled", "paused"} => ~r.error}

NoResult == [status |-> "none", error |-> FALSE]
=============================================================================
