--------------------------- MODULE MCRunLifecycle ---------------------------
(* TLC instances of RunLifecycle.                                          *)
EXTENDS RunLifecycle, TLC

CONSTANTS e1, e2, s1, s2

MCExecutors == {e1, e2}
MCSweepers == {s1, s2}
MCOneSweeper == {s1}
MCNoSweeper == {}

(* The calls of one kind are interchangeable.                              *)
MCSymmetry == Permutations({e1, e2}) \cup Permutations({s1, s2})
=============================================================================
