-------------------------- MODULE MCWorkingMemory --------------------------
(* TLC instances of WorkingMemory.                                         *)
EXTENDS WorkingMemory, TLC

CONSTANTS c1, c2, c3, m1, m2

ThreeCalls == {c1, c2, c3}

(* One task per manager, and a second task on the first one's manager.     *)
TwoProcesses == [c \in Calls |-> IF c = c2 THEN m2 ELSE m1]

(* Calls on the same manager are interchangeable.                          *)
MCSymmetry == Permutations(Calls \ {c2})
=============================================================================
