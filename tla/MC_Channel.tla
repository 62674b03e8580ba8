----------------------------- MODULE MC_Channel -----------------------------
(* The runtime channel and the worker's calls, instantiated for TLC. *)
EXTENDS RuntimeChannel

=============================================================================
