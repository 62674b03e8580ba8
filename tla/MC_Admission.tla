---------------------------- MODULE MC_Admission ----------------------------
(* The admission of sessions, instantiated for TLC. *)
EXTENDS RunAdmission

\* At first no gate refuses, or one does, or any two do.
MCWorlds ==
  {w \in SUBSET (RequestGates \cup PlatformGates) : Cardinality(w) <= 2}

=============================================================================
