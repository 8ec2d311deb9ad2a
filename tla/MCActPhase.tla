----------------------------- MODULE MCActPhase -----------------------------
(***************************************************************************)
(* ActPhase checked by TLC; its constants are numbers.                     *)
(***************************************************************************)
EXTENDS ActPhase
=============================================================================
