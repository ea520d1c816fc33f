---------------------------- MODULE MCAgentCache ----------------------------
(* The parameters of AgentCache for TLC. *)
EXTENDS AgentCache
=============================================================================
