----------------------------- MODULE MC_Session -----------------------------
(* TLC instance: a session worker with a few bars and concurrent stops.    *)
EXTENDS SessionLifecycle, TLC

StopSymmetry == Permutations(Stops)
=============================================================================
