---------------------------- MODULE MCMCPRegistry ----------------------------
(***************************************************************************)
(* Values for checking MCPRegistry.                                        *)
(***************************************************************************)
EXTENDS MCPRegistry, TLC

CONSTANTS p1, p2, o1, o2, o3

MCProcs == {p1, p2}
MCOps   == {o1, o2, o3}

Interchangeable == Permutations(MCProcs) \cup Permutations(MCOps)
=============================================================================
