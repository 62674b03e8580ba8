----------------------------- MODULE SpotLedger -----------------------------
(***************************************************************************)
(* The spot side of a session's wallet (wallet/spot.py) together with the  *)
(* balance guard that reads it before an order is placed and the           *)
(* settlement that calls it (strategy/base.py).                            *)
(*                                                                         *)
(* The wallet keeps one pool of locked quote money for all buy orders and  *)
(* one pool of locked base per asset for all sell orders, and every open   *)
(* order remembers its own share.  An order enters the wallet with its     *)
(* first fill: one that rests at the exchange unfilled has no lock.  An    *)
(* operation that raises leaves what it changed before.                    *)
(*                                                                         *)
(* Quantities, prices and fees are integers, and one asset is traded; the  *)
(* average entry price is left out, and the mark price is whatever it is   *)
(* when an order is checked.  The exchange, which reserves what a limit    *)
(* order may take and fills a market order at any price while there is     *)
(* money for it, is external.                                              *)
(***************************************************************************)
EXTENDS Integers, Sequences, FiniteSets, FiniteSetsExt

CONSTANTS
    Orders,         \* the orders the strategy may place
    Buys,           \* those of them that buy; the others sell
    Limit,          \* the price of every order; 0: a market order
    MaxPrice,       \* bound: no trade and no mark is dearer
    Qty,            \* quantity of every order
    Fee,            \* fee of every trade, in quote money
    Free0, Base0    \* what the wallet and the exchange start with

ASSUME SpotAssumption ==
    /\ IsFiniteSet(Orders)
    /\ Buys \subseteq Orders
    /\ MaxPrice \in Nat
    /\ Limit \in [Orders -> 0..MaxPrice]
    /\ Qty \in Nat \ {0}
    /\ Fee \in Nat
    /\ Free0 \in Nat
    /\ Base0 \in Nat
    \* a fee is no more than the sale of a unit brings
    /\ \A o \in Orders \ Buys : Fee <= IF Limit[o] = 0 THEN 1 ELSE Limit[o]

Terminal == {"FILLED", "CANCELED"}
Statuses == Terminal \cup {"PARTIALLY_FILLED"}

VARIABLES
    \* the exchange (external)
    st,         \* none, live, FILLED, CANCELED
    exec,       \* executed quantity of every order
    unseen,     \* its trades that no event has reported yet
    spent,      \* the prices of its other trades, added up
    xFree,      \* quote money not reserved by an order
    xBase,      \* base not reserved by an order
    log,        \* the fill events not yet handled
    \* the engine
    answer,     \* the fills of an answer still to settle
    settled,    \* _sync_settled_order_quantities
    failed,     \* a settlement of an answer raised: the session ends
    \* SpotWallet
    w,          \* the balances
    open,       \* open_orders: executed quantity and locks
    \* history
    lack,       \* per order: what the wallet lacked for the first of its fills
                \* that it refused, or 0
    checked,    \* the order placed last, if it is the only one on its way: the
                \* price of its check, and whether no trade was dearer
    mixed,      \* a fill was paid from the lock of another order
    torn,       \* an operation raised after it had changed the wallet
    twice       \* orders a fill of which was booked with more or less than its
                \* new quantity

exchangeVars == <<st, exec, unseen, spent, xFree, xBase, log>>
engineVars   == <<answer, settled, failed>>
walletVars   == <<w, open>>
historyVars  == <<lack, checked, mixed, torn, twice>>
vars == <<exchangeVars, engineVars, walletVars, historyVars>>

Unchecked == [order |-> "None", price |-> 0, kept |-> FALSE]
NoOrder == [exec |-> 0, quote |-> 0, base |-> 0, in |-> FALSE]

\* free and locked quote money, quantity and locked quantity of the asset;
\* booked is the quote money the fills have brought or cost so far.
Wallet0 == [free |-> Free0, locked |-> 0, qty |-> Base0, held |-> 0,
            booked |-> 0]

Init ==
    /\ st = [o \in Orders |-> "none"]
    /\ exec = [o \in Orders |-> 0]
    /\ unseen = [o \in Orders |-> <<>>]
    /\ spent = [o \in Orders |-> 0]
    /\ xFree = Free0
    /\ xBase = Base0
    /\ log = <<>>
    /\ answer = <<>>
    /\ settled = [o \in Orders |-> 0]
    /\ failed = FALSE
    /\ w = Wallet0
    /\ open = [o \in Orders |-> NoOrder]
    /\ lack = [o \in Orders |-> 0]
    /\ checked = Unchecked
    /\ mixed = FALSE
    /\ torn = FALSE
    /\ twice = {}

-----------------------------------------------------------------------------
(* The operations of the wallet.  Each yields the wallet after it and      *)
(* whether it ran to its end (ok) or raised, for lack of money or base.    *)

Done(x)     == [w |-> x, ok |-> TRUE, lack |-> 0]
Raise(x, n) == [w |-> x, ok |-> FALSE, lack |-> n]

AtLeast0(n) == IF n < 0 THEN 0 ELSE n

\* A slip: the shortfall is locked and taken from the free money, but the
\* lock itself is not drawn.
ApplyBuyFillUndrawn(x, q, price) ==
    LET cost  == q * price + Fee
        short == AtLeast0(cost - x.locked)
    IN  IF x.free < short THEN Raise(x, short - x.free)
        ELSE Done([x EXCEPT !.free = @ - short, !.qty = @ + q,
                            !.booked = @ - cost])

\* _apply_buy_fill: the locked pool pays, free money what it lacks.
ApplyBuyFill(x, q, price) ==
    LET cost  == q * price + Fee
        short == AtLeast0(cost - x.locked)
    IN  IF x.free < short THEN Raise(x, short - x.free)
        ELSE Done([x EXCEPT !.free = @ - short, !.locked = @ + short - cost,
                            !.qty = @ + q, !.booked = @ - cost])

\* A slip: the sold base stays locked.
ApplySellFillHeld(x, q, price) ==
    LET gain == q * price - Fee IN
    IF x.qty < q THEN Raise(x, q - x.qty)
    ELSE Done([x EXCEPT !.qty = @ - q, !.free = @ + gain, !.booked = @ + gain])

\* _apply_sell_fill: the locked base is sold, and available base what it
\* lacks; the asset has changed when the proceeds turn out to be too small.
ApplySellFill(x, q, price) ==
    LET short == AtLeast0(q - x.held)
        gain  == q * price - Fee
        sold  == [x EXCEPT !.held = @ + short - q, !.qty = @ - q]
    IN  IF x.qty - x.held < short THEN Raise(x, short - (x.qty - x.held))
        ELSE IF x.free + gain < 0 THEN Raise(sold, -(x.free + gain))
        ELSE Done([sold EXCEPT !.free = @ + gain, !.booked = @ + gain])

\* _apply_direct_fill: an order that is filled at once needs no lock.
ApplyDirectFill(x, buy, q, price) ==
    LET cost == q * price + Fee
        gain == q * price - Fee
    IN  IF buy
          THEN IF x.free < cost THEN Raise(x, cost - x.free)
               ELSE Done([x EXCEPT !.free = @ - cost, !.qty = @ + q,
                                   !.booked = @ - cost])
          ELSE IF q > x.qty - x.held THEN Raise(x, q - (x.qty - x.held))
               ELSE Done([x EXCEPT !.free = @ + gain, !.qty = @ - q,
                                   !.booked = @ + gain])

\* _sync_quote_lock, from the order's lock to the desired one.
SyncQuoteLock(x, has, desired) ==
    LET delta == desired - has IN
    IF delta > 0
      THEN IF x.free < delta THEN Raise(x, delta - x.free)
           ELSE Done([x EXCEPT !.free = @ - delta, !.locked = @ + delta])
      ELSE Done([x EXCEPT !.free = @ - delta, !.locked = AtLeast0(@ + delta)])

\* _sync_base_lock
SyncBaseLock(x, has, desired) ==
    LET delta == desired - has IN
    IF delta > 0 /\ x.qty - x.held < delta
      THEN Raise(x, delta - (x.qty - x.held))
    ELSE Done([x EXCEPT !.held = AtLeast0(@ + delta)])

\* fill_delta of _extract_order_state: an order that is not open counts from
\* zero.
Delta(e) == AtLeast0(e.cum - open[e.order].exec)

\* The fill part of on_order.
Fill(x, e) ==
    LET buy   == e.order \in Buys
        delta == Delta(e)
    IN  CASE delta = 0 -> Done(x)
          [] delta > 0 /\ ~open[e.order].in /\ e.status = "FILLED"
                       -> ApplyDirectFill(x, buy, delta, e.price)
          [] delta > 0 /\ (open[e.order].in \/ e.status # "FILLED") /\ buy
                       -> ApplyBuyFill(x, delta, e.price)
          [] OTHER     -> ApplySellFill(x, delta, e.price)

\* The locks of the order after its fill.
QuoteLeft(e) ==
    IF e.order \in Buys /\ Delta(e) > 0
      THEN AtLeast0(open[e.order].quote - (Delta(e) * e.price + Fee))
      ELSE open[e.order].quote

BaseLeft(e) ==
    IF e.order \notin Buys /\ Delta(e) > 0
      THEN AtLeast0(open[e.order].base - Delta(e))
      ELSE open[e.order].base

\* _desired_order_lock, then _sync_quote_lock or _sync_base_lock.  The
\* remaining quantity of a terminal event is locked too, before it is freed.
Lock(x, e) ==
    IF e.order \in Buys
      THEN SyncQuoteLock(x, QuoteLeft(e), e.rem * e.lockPrice)
      ELSE SyncBaseLock(x, BaseLeft(e), e.rem)

\* A slip: the lock of an order that ended is forgotten, not released.
UnlockForgotten(x, e) == Done(x)

\* The order ends: both locks are brought to zero.
Unlock(x, e) ==
    IF e.order \in Buys THEN SyncQuoteLock(x, e.rem * e.lockPrice, 0)
                        ELSE SyncBaseLock(x, e.rem, 0)

Ends(e) == e.status \in Terminal \/ e.rem = 0

\* on_order: what the wallet is afterwards, and whether it raised.
OnOrder(e) ==
    LET filled == Fill(w, e)
        locked == Lock(filled.w, e)
    IN  IF ~filled.ok THEN filled
        ELSE IF ~locked.ok \/ ~Ends(e) THEN locked
        ELSE Unlock(locked.w, e)

\* open_orders after on_order: untouched when it raised.
Opened(e) ==
    IF Ends(e) THEN [open EXCEPT ![e.order] = NoOrder]
    ELSE [open EXCEPT ![e.order] =
            [exec  |-> e.cum, in |-> TRUE,
             quote |-> IF e.order \in Buys THEN e.rem * e.lockPrice ELSE 0,
             base  |-> IF e.order \in Buys THEN 0 ELSE e.rem]]

\* The fill is paid from a lock that belongs to another order.
Borrows(e) ==
    /\ Delta(e) > 0
    /\ open[e.order].in \/ e.status # "FILLED"
    /\ IF e.order \in Buys
         THEN /\ Delta(e) * e.price + Fee > open[e.order].quote
              /\ w.locked > open[e.order].quote
         ELSE /\ Delta(e) > open[e.order].base
              /\ w.held > open[e.order].base

\* _apply_order_to_wallet: the event is booked as e, and its fill goes up to
\* the cumulative quantity cum.
Book(e, cum) ==
    LET r == OnOrder(e) IN
    /\ w' = r.w
    /\ open' = IF r.ok THEN Opened(e) ELSE open
    /\ lack' = IF lack[e.order] = 0 THEN [lack EXCEPT ![e.order] = r.lack]
               ELSE lack
    /\ mixed' = (mixed \/ Borrows(e))
    /\ torn' = (torn \/ (~r.ok /\ r.w # w))
    /\ twice' = IF Delta(e) = AtLeast0(cum - settled[e.order]) THEN twice
                ELSE twice \cup {e.order}

\* _record_order_settlement
Record(o, cum) ==
    settled' = IF cum > settled[o] THEN [settled EXCEPT ![o] = cum] ELSE settled

-----------------------------------------------------------------------------
(* The exchange *)

\* A fill event: lockPrice is the price of the order that it tells.
Event(o, cum, price, lockPrice, status) ==
    [order |-> o, cum |-> cum, price |-> price, status |-> status,
     rem |-> Qty - cum, lockPrice |-> lockPrice]

IsMarket(o) == Limit[o] = 0

\* A buy is filled at its limit or cheaper, a sell at its limit or dearer, a
\* market order at any price.
Prices(o) ==
    IF IsMarket(o) THEN 1..MaxPrice
    ELSE IF o \in Buys THEN 1..Limit[o] ELSE Limit[o]..MaxPrice

\* What the exchange reserves for an order, and for the rest of one: the base
\* of a sell, the money of a buy at its limit.
Reserve(o, q) ==
    IF o \notin Buys THEN q ELSE IF IsMarket(o) THEN 0 ELSE q * (Limit[o] + Fee)

\* The free money that n units at price p bring, the reserved money apart.
Proceeds(o, n, p) ==
    IF o \notin Buys THEN n * (p - Fee)
    ELSE IF IsMarket(o) THEN -(n * (p + Fee)) ELSE n * (Limit[o] - p)

\* A trade that is dearer than the price of the check.
Dearer(o, p) ==
    IF o \in Buys /\ checked.order = o /\ p > checked.price
      THEN [checked EXCEPT !.kept = FALSE] ELSE checked

\* One unit of a live order is traded; the event may come later, when the
\* fee of the trade is known.
Trade(o) ==
    /\ st[o] = "live"
    /\ \E p \in Prices(o) :
        /\ exec' = [exec EXCEPT ![o] = @ + 1]
        /\ st' = [st EXCEPT ![o] = IF exec[o] + 1 = Qty THEN "FILLED" ELSE @]
        /\ unseen' = [unseen EXCEPT ![o] = Append(@, p)]
        /\ xFree + Proceeds(o, 1, p) >= 0
        /\ xFree' = xFree + Proceeds(o, 1, p)
        /\ xBase' = xBase + (IF o \in Buys THEN 1 ELSE 0)
        /\ checked' = Dearer(o, p)
    /\ UNCHANGED <<spent, log, engineVars, walletVars, lack, mixed, torn,
                   twice>>

\* The rest of a live order is canceled.  No event of it reaches the
\* wallet: order_response_from_update converts fills only.
Cancel(o) ==
    /\ st[o] = "live"
    /\ st' = [st EXCEPT ![o] = "CANCELED"]
    /\ LET back == Reserve(o, Qty - exec[o]) IN
        IF o \in Buys THEN xFree' = xFree + back /\ xBase' = xBase
                      ELSE xBase' = xBase + back /\ xFree' = xFree
    /\ UNCHANGED <<exec, unseen, spent, log, engineVars, walletVars, historyVars>>

\* The oldest unreported trade of an order is reported, with the state the
\* order has by now and the average price (avg_price) of its trades so far,
\* which is rounded as floats are.
Report(o) ==
    LET cum == exec[o] - Len(unseen[o]) + 1
        all == spent[o] + Head(unseen[o])
        now == IF st[o] = "live" \/ (st[o] = "FILLED" /\ cum < Qty)
                 THEN "PARTIALLY_FILLED" ELSE st[o]
    IN
    /\ unseen[o] # <<>>
    /\ log' = Append(log, Event(o, cum, Head(unseen[o]), all \div cum, now))
    /\ unseen' = [unseen EXCEPT ![o] = Tail(@)]
    /\ spent' = [spent EXCEPT ![o] = all]
    /\ UNCHANGED <<st, exec, xFree, xBase, engineVars, walletVars, historyVars>>

-----------------------------------------------------------------------------
(* The engine *)

Idle == answer = <<>> /\ ~failed

\* balance_check_price: the limit, or the mark of a market order.
CheckPrice(o, mark) == IF IsMarket(o) THEN mark ELSE Limit[o]

\* A slip: the guard of a buy is left out.
BalanceGuardOfSells(o, price) ==
    o \in Buys \/ w.qty - w.held >= Qty

\* The balance guard of _execute_prepared_order.
BalanceGuard(o, price) ==
    IF o \in Buys THEN w.free >= Qty * price ELSE w.qty - w.held >= Qty

\* The events of an answer with n trades at the given price, and the order's
\* status: the trades of a filled order but the last are partial.  An order
\* that ended without a trade is settled too, an open one is not.  A market
\* order tells no price of its own: its fills tell it, and none if there is
\* none.
AnswerEvents(o, n, price, status) ==
    LET Kind(i)  == IF status = "FILLED" /\ i < n THEN "PARTIALLY_FILLED"
                                                  ELSE status
        Own(i)   == IF i = 0 THEN Limit[o] ELSE CheckPrice(o, price)
        Fills(i) == Event(o, i, price, Own(i), Kind(i))
    IN  IF n = 0 /\ status = "CANCELED" THEN << Fills(0) >>
        ELSE [i \in 1..n |-> Fills(i)]

\* No order is live, and the wallet has every trade.
AllSettled ==
    /\ log = <<>>
    /\ \A x \in Orders : st[x] # "live" /\ unseen[x] = <<>>

\* The order passes the guard, the exchange takes it, and n units are
\* traded before the answer, which leaves the order resting or ended.
Place(o) ==
    /\ Idle
    /\ st[o] = "none"
    /\ IF o \in Buys THEN xFree >= Reserve(o, Qty) ELSE xBase >= Reserve(o, Qty)
    /\ \E n \in 0..Qty, p \in Prices(o), mark \in 1..MaxPrice, rests \in BOOLEAN :
        LET now  == IF n = Qty THEN "FILLED"
                    ELSE IF rests THEN "live" ELSE "CANCELED"
            back == IF now = "CANCELED" THEN Reserve(o, Qty - n) ELSE 0
            told == IF now = "live" THEN "PARTIALLY_FILLED" ELSE now
            price == CheckPrice(o, mark)
        IN  /\ BalanceGuard(o, price)
            /\ st' = [st EXCEPT ![o] = now]
            /\ exec' = [exec EXCEPT ![o] = n]
            /\ spent' = [spent EXCEPT ![o] = n * p]
            /\ IF o \in Buys
                 THEN /\ xFree' = xFree - Reserve(o, Qty) + back
                                        + Proceeds(o, n, p)
                      /\ xFree' >= 0
                      /\ xBase' = xBase + n
                 ELSE /\ xFree' = xFree + Proceeds(o, n, p)
                      /\ xBase' = xBase - Reserve(o, Qty) + back
            /\ answer' = AnswerEvents(o, n, p, told)
            /\ checked' =
                 IF AllSettled
                   THEN [order |-> o, price |-> price,
                         kept |-> (o \in Buys /\ n > 0 => p <= price)]
                   ELSE Unchecked
    /\ UNCHANGED <<unseen, log, settled, failed, walletVars, lack, mixed,
                   torn, twice>>

\* One event of the answer; an exception leaves the strategy run.
SettleAnswer ==
    LET e == Head(answer) IN
    /\ answer # <<>>
    /\ Book(e, e.cum)
    /\ IF OnOrder(e).ok
         THEN Record(e.order, e.cum) /\ answer' = Tail(answer) /\ UNCHANGED failed
         ELSE answer' = <<>> /\ failed' = TRUE /\ UNCHANGED settled
    /\ UNCHANGED <<exchangeVars, checked>>

\* _adjust_lifecycle_order_response: an order that was settled before and is
\* not open in the wallet is settled by the difference.
Adjusted(e) ==
    IF settled[e.order] > 0 /\ ~open[e.order].in
      THEN [e EXCEPT !.cum = @ - settled[e.order]] ELSE e

\* handle_order_update: an exception is logged, and the event is not read
\* again.  The adjustment has recorded the quantity before the wallet raises.
HandleUpdate ==
    LET e == Head(log)
        a == Adjusted(e)
    IN
    /\ Idle
    /\ log # <<>>
    /\ log' = Tail(log)
    /\ IF e.cum <= settled[e.order]
         THEN UNCHANGED <<walletVars, settled, lack, mixed, torn, twice>>
         ELSE /\ Book(a, e.cum)
              /\ IF OnOrder(a).ok \/ a # e
                   THEN Record(e.order, e.cum) ELSE UNCHANGED settled
    /\ UNCHANGED <<st, exec, unseen, spent, xFree, xBase, answer, failed, checked>>

Next ==
    \/ \E o \in Orders : Place(o) \/ Trade(o) \/ Cancel(o) \/ Report(o)
    \/ SettleAnswer
    \/ HandleUpdate

Spec == Init /\ [][Next]_vars

-----------------------------------------------------------------------------
(* Properties *)

Total(f) == MapThenSumSet(LAMBDA o : f[o], Orders)

QuoteLocks == Total([o \in Orders |-> open[o].quote])
BaseLocks  == Total([o \in Orders |-> open[o].base])

\* Balances and locks are never negative, and the wallet never has more base
\* locked than it holds.
SpotTypeOK ==
    /\ w.free \in Nat /\ w.locked \in Nat /\ w.booked \in Int
    /\ w.qty \in Nat /\ w.held \in 0..w.qty
    /\ \A o \in Orders : open[o] \in [exec : 0..Qty, quote : Nat, base : Nat,
                                      in : BOOLEAN]
    /\ settled \in [Orders -> 0..Qty]
    /\ xFree \in Nat /\ xBase \in Nat

\* Whatever the order of fills, answers and late events, the quote money of
\* the wallet is what it started with and what its fills brought, unless a
\* fill was paid from another order's lock or broken off half-way.
MoneyConserved ==
    ~mixed /\ ~torn => w.free + w.locked = Free0 + w.booked

\* The locked pools are exactly the locks of the open orders, unless a fill
\* was paid from another order's lock or broken off half-way.
LocksBelongToOrders ==
    ~mixed /\ ~torn => w.locked = QuoteLocks /\ w.held = BaseLocks

\* Together: free, locked and held amounts account for fills and locks.
LedgerSound == SpotTypeOK /\ MoneyConserved /\ LocksBelongToOrders

\* What the guard let through the wallet can book but for the fees, which the
\* guard leaves out: the wallet lacks nothing for a fill of a sell, and no
\* more than the order's fees for one of a buy, if the order was checked when
\* the wallet had every trade and no other order was live, no other is placed
\* meanwhile, no trade is dearer than the price of the check, and none of its
\* fills is booked twice.  This holds with a limit or without, whatever locks
\* of canceled orders the wallet keeps and in whatever parts the fills come:
\* the lock of the rest never takes what a fill needs.
CheckedIsBooked ==
    checked.kept /\ checked.order \notin twice =>
        lack[checked.order] <= IF checked.order \in Buys THEN Qty * Fee ELSE 0

-----------------------------------------------------------------------------
(* Not kept by the code *)

\* What the guard is for: the wallet refuses no fill that the exchange made.
\* The guard reads a wallet that does not have every trade, leaves the orders
\* that are live without a fill and the fees out of account, and checks a
\* market order with the mark.
NoFillIsRefused == \A o \in Orders : lack[o] = 0
=============================================================================
