---------------------------- MODULE MCAgentStream ----------------------------
(* AgentStream on a few submissions and messages, for TLC.                 *)
EXTENDS AgentStream
=============================================================================
