------------------------------ MODULE MC_Orders ------------------------------
(* TLC instances of the settlement: all orders are for one key.            *)
EXTENDS OrderSettlement

CONSTANT Key

OneKey == {Key}
AllOnKey == [o \in Orders |-> Key]
=============================================================================
