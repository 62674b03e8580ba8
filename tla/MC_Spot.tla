------------------------------- MODULE MC_Spot -------------------------------
EXTENDS SpotLedger

MCOrders == {"b1", "b2", "s1"}
MCBuys == {"b1", "b2"}
MCLimit == [b1 |-> 0, b2 |-> 1, s1 |-> 2]
=============================================================================
