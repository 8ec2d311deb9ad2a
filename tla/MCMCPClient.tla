----------------------------- MODULE MCMCPClient -----------------------------
(***************************************************************************)
(* Values for checking MCPClient.                                          *)
(***************************************************************************)
EXTENDS MCPClient

CONSTANTS a1, a2, h1, d1

MCCalls  == {a1, a2}
MCTimed  == {a1}
MCProbes == {h1}
MCStops  == {d1}
=============================================================================
