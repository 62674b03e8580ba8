------------------------------ MODULE MC_Agent ------------------------------
(* The agent's worker management, instantiated for TLC. *)
EXTENDS AgentWorkers

=============================================================================
