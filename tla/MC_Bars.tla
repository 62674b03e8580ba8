------------------------------ MODULE MC_Bars ------------------------------
(* Two streams, one of twice the interval of the other.                    *)
EXTENDS BarReplay
MCSteps == <<2, 1>>
=============================================================================
