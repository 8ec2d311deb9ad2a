----------------------------- MODULE MCMCPOAuth -----------------------------
(***************************************************************************)
(* Values for checking MCPOAuth.                                           *)
(***************************************************************************)
EXTENDS MCPOAuth, TLC

CONSTANTS t1, t2, c1, c2, k1, w1, w2, u1, u2

MCTxns      == {t1, t2}
MCCallbacks == {c1, c2}
MCClears    == {k1}
MCWorkers   == {w1, w2}
MCUrls      == {u1, u2}

Interchangeable == Permutations(MCTxns) \cup Permutations(MCCallbacks)
                     \cup Permutations(MCWorkers) \cup Permutations(MCUrls)
=============================================================================
