--------------------------- MODULE MCAgentRuntime ---------------------------
(* TLC instances of AgentRuntime and RuntimeStory.                         *)
EXTENDS RuntimeStory

(* A fresh run, and every place a snapshot may resume one at.              *)
AllStarts == [iteration: 0..MaxIterations, phase: 1..4]
=============================================================================
