-------------------------- MODULE MCAssistantSession --------------------------
(***************************************************************************)
(* AssistantSession for TLC.  The turns differ in their names only.        *)
(***************************************************************************)
EXTENDS AssistantSession, TLC

TurnSymmetry == Permutations(Turn)
===============================================================================
