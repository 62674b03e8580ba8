----------------------------- MODULE MC_Futures -----------------------------
EXTENDS FuturesBook

MCSymbols == {"A", "B"}
MCFuturesOrders == {"a1", "a2", "b1"}
MCSymbolOf == [a1 |-> "A", a2 |-> "A", b1 |-> "B"]
MCSign == [a1 |-> 1, a2 |-> -1, b1 |-> -1]
MCSize == [a1 |-> 1, a2 |-> 3, b1 |-> 1]
MCLimitPrice == [a1 |-> 24, a2 |-> 0, b1 |-> 0]
MCLeverage == [A |-> 2, B |-> 3]

\* B comes without risk metadata.
MCBrackets ==
    [A |-> << [floor |-> 0, cap |-> 30, ratio |-> 1, cum |-> 0],
              [floor |-> 30, cap |-> 60, ratio |-> 2, cum |-> 3] >>,
     B |-> <<>>]

Nothing == [wallet |-> 0, available |-> 0, margin |-> 0]
FlatIn  == [qty |-> 0, entry |-> 0, even |-> 0, wallet |-> 0, mark |-> 0,
            initial |-> 0, margin |-> 0, orders |-> 0, maint |-> 0,
            liq |-> [num |-> 0, den |-> 1]]
Modes(a, b) == [A |-> a, B |-> b]

\* A new cross account, whose balance is its initial one.
NewCross ==
    [account |-> [isolated |-> FALSE, initial |-> 60, mode |-> Modes(FALSE, FALSE)],
     totals |-> Nothing, positions |-> [A |-> FlatIn]]

\* A new isolated account: the balance is the sum of its seeds.
NewIsolated ==
    [account |-> [isolated |-> TRUE, initial |-> 0, mode |-> Modes(TRUE, TRUE)],
     totals |-> Nothing, positions |-> [A |-> [FlatIn EXCEPT !.initial = 90]]]

\* An account with an isolated long position whose wallet is a part of the
\* balance, and a cross symbol.
Mixed ==
    [account |-> [isolated |-> TRUE, initial |-> 0, mode |-> Modes(TRUE, FALSE)],
     totals |-> [wallet |-> 70, available |-> 64, margin |-> 70],
     positions |-> [A |-> [FlatIn EXCEPT !.qty = 1, !.entry = 12, !.even = 15,
                             !.mark = 12, !.wallet = 20, !.margin = 6,
                             !.maint = 1]]]

\* A cross account with a short position of the symbol without brackets; its
\* maintenance margin and its liquidation price are told, or not.
Short(maint, liq) ==
    [account |-> [isolated |-> FALSE, initial |-> 0, mode |-> Modes(FALSE, FALSE)],
     totals |-> [wallet |-> 40, available |-> 36, margin |-> 40],
     positions |-> [B |-> [FlatIn EXCEPT !.qty = -1, !.entry = 12, !.even = 12,
                             !.mark = 12, !.margin = 4, !.orders = 1,
                             !.maint = maint, !.liq.num = liq]]]

MCSnapshots == {NewCross, NewIsolated, Mixed, Short(0, 0), Short(6, 0), Short(6, 40)}
=============================================================================
