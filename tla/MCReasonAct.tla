---------------------------- MODULE MCReasonAct ----------------------------
(* TLC instances of ReasonAct: the constants are given in the .cfg files.  *)
EXTENDS ReasonAct
=============================================================================
