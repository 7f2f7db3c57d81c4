---------------------------- MODULE MCAgentSpool ----------------------------
(***************************************************************************)
(* AgentSpool for TLC.                                                      *)
(***************************************************************************)
EXTENDS AgentSpool, TLC

CONSTANTS j1, j2

=============================================================================
