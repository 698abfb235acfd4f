------------------------- MODULE MCAgentController -------------------------
(***************************************************************************)
(* Instances of AgentController for TLC.                                   *)
(***************************************************************************)
EXTENDS AgentController
=============================================================================
