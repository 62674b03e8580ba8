---------------------------- MODULE MC_Indicators ----------------------------
(* The indicator collection, instantiated for TLC. *)
EXTENDS IndicatorBuffer

=============================================================================
