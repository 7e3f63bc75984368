------------------------------ MODULE MCAgentJobs -----------------------------
(* Model-checking instance of AgentJobs. *)
EXTENDS AgentJobs

=============================================================================
