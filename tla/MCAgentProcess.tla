--------------------------- MODULE MCAgentProcess ---------------------------
(***************************************************************************)
(* AgentProcess for TLC.  The slots of the automatic restarts are          *)
(* interchangeable: a safety run may identify the states that differ only  *)
(* in which slot a restart took.                                           *)
(***************************************************************************)
EXTENDS AgentProcess, TLC

RestarterSymmetry == Permutations(Restarters)

=============================================================================
