---------------------------- MODULE FuturesBook ----------------------------
(***************************************************************************)
(* The futures side of a session's wallet (wallet/binance.py) in one-way   *)
(* position mode, with the balance guard that reads it before an order is  *)
(* placed (strategy/base.py).                                              *)
(*                                                                         *)
(* A position is kept as its signed quantity, its basis (quantity times    *)
(* entry price), the cost its break-even price carries, its isolated       *)
(* wallet, its mark price (0 stands for no mark yet), its initial balance  *)
(* and what the snapshot told of it: order margin, maintenance margin and  *)
(* liquidation price (the oracle fields).  Every handler of the book ends  *)
(* with a refresh of the derived fields, so these are operators here.      *)
(* Prices and fees are integers; a division that is not exact stands for   *)
(* the rounding of floats.                                                 *)
(*                                                                         *)
(* The fills of different orders arrive in any order; the ones of an order *)
(* in the order of their cumulative quantity (module OrderSettlement).     *)
(*                                                                         *)
(* A book is built from a wallet state of the platform (external): one it  *)
(* has of the exchange, or the one that was pushed last, which it stores   *)
(* as it is.  A backtest pushes its own wallet while it runs and the one   *)
(* it started with when it has ended; the next book of the portfolio sees  *)
(* its own wallet if the worker died or the last push failed.  The next    *)
(* book of a portfolio with an exchange starts from what the exchange      *)
(* says, that is, at FuturesInit.                                          *)
(*                                                                         *)
(* Not modelled: hedge mode, whose answers carry no position side and are  *)
(* rejected, and ledger events, which nothing in the program sends.        *)
(***************************************************************************)
EXTENDS Integers, Sequences, FiniteSets, FiniteSetsExt

CONSTANTS
    Symbols,
    FuturesOrders,
    SymbolOf,       \* the symbol of every order
    Sign,           \* 1 for a buy, -1 for a sell
    Size,           \* quantity of every order
    LimitPrice,     \* limit of every order; 0: a market order
    Quotes,         \* prices of trades and ticks
    Fees,           \* fees of a settled fill
    Leverage,       \* leverage configured for every symbol
    Snapshots,      \* wallet states that the platform may have at the start
    Brackets,       \* sorted risk brackets of every symbol, none where the
                    \* snapshot has no metadata: floor, cap, ratio in parts
                    \* of Scale and cumulative amount
    Scale,
    MaxTicks,       \* bound: ticks of a behaviour
    MaxReloads      \* bound: books built from a pushed wallet

\* An amount over a quantity: a price.
Fractions == [num : Nat, den : Nat \ {0}]

\* A position as the wallet state has it, entry and break-even price times
\* the quantity: the fields proto_to_portfolio_spec reads.  An open position
\* has a mark price there.
StatePositions ==
    {r \in [qty : Int, entry : Nat, even : Int, wallet : Int,
            mark : Nat, initial : Nat, margin : Nat, orders : Nat,
            maint : Nat, liq : Fractions] : r.qty # 0 => r.mark # 0}

\* The account's margin mode and initial balance with the margin mode of
\* every symbol, the totals, and the positions of some symbols.
GoodSnapshot(m) ==
    /\ m.account \in [isolated : BOOLEAN, initial : Nat,
                      mode : [Symbols -> BOOLEAN]]
    /\ m.totals \in [wallet : Int, available : Int, margin : Int]
    /\ DOMAIN m.positions \subseteq Symbols
    /\ \A s \in DOMAIN m.positions : m.positions[s] \in StatePositions

ASSUME FuturesAssumption ==
    /\ IsFiniteSet(Symbols) /\ IsFiniteSet(FuturesOrders)
    /\ "None" \notin FuturesOrders
    /\ SymbolOf \in [FuturesOrders -> Symbols]
    /\ Sign \in [FuturesOrders -> {1, -1}]
    /\ Size \in [FuturesOrders -> Nat \ {0}]
    /\ LimitPrice \in [FuturesOrders -> Nat]
    /\ Quotes \subseteq Nat \ {0}
    /\ Fees \subseteq Nat
    /\ Leverage \in [Symbols -> Nat \ {0}]
    /\ \A m \in Snapshots : GoodSnapshot(m)
    /\ Brackets \in
         [Symbols -> Seq([floor : Nat, cap : Nat, ratio : Nat, cum : Nat])]
    /\ Scale \in Nat \ {0}
    /\ MaxTicks \in Nat
    /\ MaxReloads \in Nat

VARIABLES
    account,    \* margin modes of account and symbols, initial balance
    balance,    \* wallet_balance
    pos,        \* positions
    entries,    \* open_orders: executed and remaining quantity
    stage,      \* of every order: none, live or ended
    last,       \* the view: price of the symbol's last bar, or 0
    trigger,    \* the symbol of the bar being handled, or "None"
    restore,    \* backtest_restore_wallet, as it will be pushed
    ticks,
    reloads,
    \* history, reckoned from the first book
    cash,       \* per symbol: what its fills brought, their fees apart
    held,       \* per symbol: the quantity its fills add up to
    paid,       \* per symbol: its fees
    net,        \* per symbol: profit less fees since its position was opened
    origin,     \* balance and isolated wallets of the first book
    began,      \* cash, held, paid and net when the session began
    lone,       \* an order placed while no other is live, and filled at once,
                \* with nothing in between; or None
    zeroed      \* a book was built from a wallet with a zero that is read as a
                \* missing value

bookVars == <<account, balance, pos, entries>>
viewVars == <<last, trigger>>
histVars == <<cash, held, paid, net>>
startVars == <<restore, origin, began>>
futuresVars == <<bookVars, stage, viewVars, startVars, ticks, reloads, histVars,
                 lone, zeroed>>

None == [order |-> "None", price |-> 0, filled |-> FALSE, low |-> 0]
NoPrice == [num |-> 0, den |-> 1]
Flat == [qty |-> 0, basis |-> 0, carry |-> 0, wallet |-> 0, mark |-> 0,
         initial |-> 0, told |-> 0, maint |-> 0, liq |-> NoPrice, in |-> FALSE]
NoEntry == [in |-> FALSE, exec |-> 0, rem |-> 0, price |-> 0]

Abs(n)   == IF n < 0 THEN -n ELSE n
SignOf(n) == IF n > 0 THEN 1 ELSE IF n < 0 THEN -1 ELSE 0
Plus(n)  == IF n < 0 THEN 0 ELSE n
Sum(f, S) == MapThenSumSet(LAMBDA x : f[x], S)

-----------------------------------------------------------------------------
(* Derived fields, refreshed at the end of every handler *)

\* BinancePosition.get_unrealized_pnl
UnrealizedPnl(s) ==
    IF pos[s].qty = 0 \/ pos[s].mark = 0 THEN 0
    ELSE pos[s].qty * pos[s].mark - pos[s].basis

Notional(s) == Abs(pos[s].qty * pos[s].mark)

PositionMargin(s) == Notional(s) \div Leverage[s]

\* _opening_remaining_qty: what would not close the position.  Every order
\* counts the whole position as its own to close.
OpeningRemainingQty(o) ==
    LET room == Plus(-Sign[o] * pos[SymbolOf[o]].qty)
    IN  Plus(entries[o].rem - room)

\* _compute_order_open_margin: at the mark, or at the order's price.
OrderOpenMargin(o) ==
    LET s     == SymbolOf[o]
        price == IF pos[s].mark # 0 THEN pos[s].mark ELSE entries[o].price
    IN  (OpeningRemainingQty(o) * price) \div Leverage[s]

OpenOrders == {o \in FuturesOrders : entries[o].in}

\* _refresh_order_margins, for one position: without open orders the margin
\* that the snapshot told still counts.
SymbolOrderMargin(s) ==
    LET orders == {o \in OpenOrders : SymbolOf[o] = s} IN
    IF orders = {} THEN pos[s].told
    ELSE Sum([o \in orders |-> OrderOpenMargin(o)], orders)

OpenMargin == Sum([s \in Symbols |-> SymbolOrderMargin(s)], Symbols)

TotalUnrealizedPnl(S) == Sum([s \in S |-> UnrealizedPnl(s)], S)

MarginBalance == balance + TotalUnrealizedPnl(Symbols)

TotalPositionMargin == Sum([s \in Symbols |-> PositionMargin(s)], Symbols)

\* The amount that _compute_available_balance raises to zero if negative.
Headroom == MarginBalance - TotalPositionMargin - OpenMargin

AvailableBalance == Plus(Headroom)

NoBrackets(s) == Brackets[s] = <<>>

\* _select_bracket where there is one: the first that the notional fits, else
\* the last.
SelectBracket(s) ==
    LET table == Brackets[s]
        fits  == {i \in DOMAIN table :
                    /\ Notional(s) >= table[i].floor
                    /\ table[i].cap = 0 \/ Notional(s) <= table[i].cap}
    IN  IF fits = {} THEN table[Len(table)] ELSE table[Min(fits)]

\* _compute_maint_margin, in parts of Scale: without brackets it is what the
\* snapshot told.
MaintMargin(s) ==
    IF pos[s].qty = 0 THEN 0
    ELSE IF NoBrackets(s) THEN pos[s].maint
    ELSE LET b == SelectBracket(s)
         IN  Plus(Notional(s) * b.ratio - b.cum * Scale)

\* The maintenance ratio, in parts of scale, and the cumulative amount: the
\* bracket's, or the ratio that _infer_maint_margin_ratio makes of the
\* maintenance margin told.
Risk(s) ==
    IF ~NoBrackets(s)
      THEN LET b == SelectBracket(s)
           IN  [ratio |-> b.ratio, scale |-> Scale, cum |-> b.cum]
    ELSE IF Notional(s) = 0 \/ pos[s].maint = 0
      THEN [ratio |-> 0, scale |-> Scale, cum |-> 0]
      ELSE [ratio |-> pos[s].maint, scale |-> Scale * Notional(s), cum |-> 0]

TotalMaintMargin(S) == Sum([s \in S |-> MaintMargin(s)], S)

Others(s) == Symbols \ {s}

\* isolated_wallet, or when that is zero the first other amount that is not.
IsolatedBacking(s) ==
    IF pos[s].wallet # 0 THEN pos[s].wallet
    ELSE IF pos[s].initial # 0 THEN pos[s].initial ELSE PositionMargin(s)

\* A slip: the losses of the other positions count as gains.
LiquidationBalanceCrossed(s) ==
    IF account.mode[s] THEN Scale * IsolatedBacking(s)
    ELSE Scale * (balance - TotalUnrealizedPnl(Others(s)))
           - TotalMaintMargin(Others(s))

\* The money that keeps a position from liquidation, in parts of Scale: its
\* isolated wallet, or the balance, the profit of the other positions less
\* their maintenance margin.
LiquidationBalance(s) ==
    IF account.mode[s] THEN Scale * IsolatedBacking(s)
    ELSE Scale * (balance + TotalUnrealizedPnl(Others(s)))
           - TotalMaintMargin(Others(s))

\* _compute_liquidation_formula before rounding, as a fraction; a negative
\* price is raised to zero.
LiquidationFormula(s) ==
    LET k    == Risk(s)
        q    == Scale * Abs(pos[s].qty)
        cost == Scale * Abs(pos[s].basis)
        have == LiquidationBalance(s) + Scale * k.cum
    IN  IF pos[s].qty > 0
          THEN [num |-> Plus((cost - have) * k.scale),
                den |-> q * (k.scale - k.ratio)]
          ELSE [num |-> Plus((cost + have) * k.scale),
                den |-> q * (k.scale + k.ratio)]

\* The price told is taken: there are no brackets and it is known, or the
\* ratio leaves the formula of a long position nothing to divide by.
PriceIsTold(s) ==
    \/ NoBrackets(s) /\ pos[s].liq.num > 0
    \/ pos[s].qty > 0 /\ Risk(s).ratio >= Risk(s).scale

\* _compute_liquidation_price
LiquidationPrice(s) ==
    IF pos[s].qty = 0 THEN NoPrice
    ELSE IF PriceIsTold(s) THEN pos[s].liq ELSE LiquidationFormula(s)

-----------------------------------------------------------------------------
(* A fill *)

\* A slip: a fill larger than the position closes it at the entry price of
\* the whole fill.
RealizedOfFill(p, d, price) ==
    LET close == Abs(d) IN
    SignOf(p.qty) * close * price - (p.basis * close) \div Abs(p.qty)

\* The profit of the part of fill d that closes position p.
Realized(p, d, price) ==
    LET close == Min({Abs(p.qty), Abs(d)}) IN
    SignOf(p.qty) * close * price - (p.basis * close) \div Abs(p.qty)

Adds(p, d) == p.qty = 0 \/ SignOf(p.qty) = SignOf(d)

\* BinancePosition.apply_fill: quantity and basis; a fill beyond the
\* position opens the other side at its own price.
Filled(p, d, price) ==
    CASE Adds(p, d) ->
            [p EXCEPT !.qty = @ + d, !.basis = @ + d * price]
      [] ~Adds(p, d) /\ Abs(d) <= Abs(p.qty) ->
            [p EXCEPT !.qty = @ + d,
                      !.basis = @ - (@ * Abs(d)) \div Abs(p.qty)]
      [] OTHER ->
            [p EXCEPT !.qty = @ + d, !.basis = (p.qty + d) * price]

\* A slip: a partial close shrinks the carried cost in proportion.
CarryShrunk(p, d, profit, fee) ==
    IF Adds(p, d) THEN p.carry + fee
    ELSE IF Abs(d) = Abs(p.qty) THEN 0
    ELSE IF Abs(d) < Abs(p.qty)
      THEN (p.carry * (Abs(p.qty) - Abs(d))) \div Abs(p.qty) + fee
    ELSE (fee * (Abs(d) - Abs(p.qty))) \div Abs(d)

\* The carried cost: fees and lost profit of the open position; when the
\* fill turns the position, the share of its fee that opens the new one.
Carry(p, d, profit, fee) ==
    IF Adds(p, d) THEN p.carry + fee
    ELSE IF Abs(d) = Abs(p.qty) THEN 0
    ELSE IF Abs(d) < Abs(p.qty) THEN p.carry - profit + fee
    ELSE (fee * (Abs(d) - Abs(p.qty))) \div Abs(d)

\* A slip: the fill does not mark a position that has no mark.
MarkKept(p, d, price) == p.mark

\* The first fill of a position without a mark marks it.
MarkAfter(p, d, price) == IF p.qty + d # 0 /\ p.mark = 0 THEN price ELSE p.mark

\* _ensure_position: the position a fill is booked on, made when there is
\* none.
EnsurePosition(s) == [pos[s] EXCEPT !.in = TRUE]

\* _apply_fill
ApplyFill(s, d, price, fee) ==
    LET p      == EnsurePosition(s)
        profit == IF Adds(p, d) THEN 0 ELSE Realized(p, d, price)
        turned == ~Adds(p, d) /\ Abs(d) > Abs(p.qty)
        gone   == p.qty + d = 0
    IN  /\ pos' = [pos EXCEPT ![s] =
                    [Filled(p, d, price) EXCEPT
                        !.carry  = Carry(p, d, profit, fee),
                        !.mark   = MarkAfter(p, d, price),
                        !.wallet = IF account.mode[s] THEN @ + profit - fee
                                                      ELSE @]]
        /\ balance' = balance + profit - fee
        /\ cash' = [cash EXCEPT ![s] = @ - d * price]
        /\ held' = [held EXCEPT ![s] = @ + d]
        /\ paid' = [paid EXCEPT ![s] = @ + fee]
        /\ net' = [net EXCEPT ![s] =
                    IF gone THEN 0
                    ELSE IF turned
                      THEN -((fee * (Abs(d) - Abs(p.qty))) \div Abs(d))
                    ELSE @ + profit - fee]

-----------------------------------------------------------------------------
(* Handlers *)

\* on_market_data: only the positions the book has are marked.
Marked(s, price) == IF pos[s].in THEN [pos EXCEPT ![s].mark = price] ELSE pos

\* A bar arrives: the view and the book take its price.
OnMarketData(s, price) ==
    /\ ticks < MaxTicks
    /\ ticks' = ticks + 1
    /\ last' = [last EXCEPT ![s] = price]
    /\ trigger' = s
    /\ pos' = Marked(s, price)
    /\ lone' = None
    /\ UNCHANGED <<account, balance, entries, stage, reloads, histVars,
                   startVars, zeroed>>

\* A slip: the guard reads the wallet balance.
MarginGuardGross(o, price) ==
    LET s   == SymbolOf[o]
        lev == IF pos[s].in THEN Leverage[s] ELSE 1
    IN  \/ /\ pos[s].qty * Sign[o] < 0
           /\ Size[o] <= Abs(pos[s].qty)
        \/ balance * lev >= Size[o] * price

\* The balance guard of _execute_prepared_order: the order reduces the
\* position, or its margin is available.  A symbol without a position is
\* checked with leverage 1.
MarginGuard(o, price) ==
    LET s   == SymbolOf[o]
        lev == IF pos[s].in THEN Leverage[s] ELSE 1
    IN  \/ /\ pos[s].qty * Sign[o] < 0
           /\ Size[o] <= Abs(pos[s].qty)
        \/ AvailableBalance * lev >= Size[o] * price

\* _resolve_mark_price: the price of the symbol's last bar, else the limit.
ResolveMarkPrice(o) ==
    IF last[SymbolOf[o]] # 0 THEN last[SymbolOf[o]] ELSE LimitPrice[o]

\* balance_check_price: the limit, if the order has one.
BalanceCheckPrice(o) ==
    IF LimitPrice[o] # 0 THEN LimitPrice[o] ELSE ResolveMarkPrice(o)

\* _execute_prepared_order up to the call, while a bar is handled: the guard
\* reads the book with the price of the check; then the mark price is
\* marked there, unless the order is for the symbol of the bar.
PlaceOrder(o) ==
    LET s == SymbolOf[o] IN
    /\ stage[o] = "none"
    /\ trigger # "None"
    /\ ResolveMarkPrice(o) # 0
    /\ MarginGuard(o, BalanceCheckPrice(o))
    /\ stage' = [stage EXCEPT ![o] = "live"]
    /\ pos' = IF trigger = s THEN pos ELSE Marked(s, ResolveMarkPrice(o))
    /\ lone' = IF pos' = pos /\ \A x \in FuturesOrders : stage[x] # "live"
                 THEN [order |-> o, price |-> BalanceCheckPrice(o),
                       filled |-> FALSE, low |-> Min({0, Headroom})]
                 ELSE None
    /\ UNCHANGED <<account, balance, entries, viewVars, ticks, reloads, histVars,
                   startVars, zeroed>>

\* A slip: only a filled order leaves open_orders.
EntryUntilFilled(o, d, price, ends) ==
    LET rem == Size[o] - entries[o].exec - d IN
    IF rem = 0 THEN NoEntry
    ELSE [in |-> TRUE, exec |-> entries[o].exec + d, rem |-> rem,
          price |-> price]

\* The order's entry in open_orders after a fill; none once it ended.
Entry(o, d, price, ends) ==
    LET rem == Size[o] - entries[o].exec - d IN
    IF ends \/ rem = 0 THEN NoEntry
    ELSE [in |-> TRUE, exec |-> entries[o].exec + d, rem |-> rem,
          price |-> price]

\* The exchange keeps to the order's limit (external).
WithinLimit(o, price) ==
    LimitPrice[o] = 0 \/ Sign[o] * price <= Sign[o] * LimitPrice[o]

\* What a fill at the price may cost beyond what the guard reckoned with, the
\* position marked with mark after it: the part of the margin that the mark
\* needs and the checked price did not, and the loss at the mark.
Overrun(o, check, price, mark) ==
    LET lev == Leverage[SymbolOf[o]] IN
    (Size[o] * Plus(mark - check) + lev - 1) \div lev
      + Size[o] * Plus(Sign[o] * (price - mark))

\* on_order for a fill event of an order: d more units, and a status that
\* ends the order early or not.  A canceled rest is reported with a fill or
\* never.
OnFuturesOrder(o, d, price, fee, ends) ==
    LET rem  == Size[o] - entries[o].exec - d
        mark == MarkAfter(pos[SymbolOf[o]], Sign[o] * d, price)
    IN
    /\ stage[o] = "live"
    /\ rem >= 0
    /\ WithinLimit(o, price)
    /\ ApplyFill(SymbolOf[o], Sign[o] * d, price, fee)
    /\ entries' = [entries EXCEPT ![o] = Entry(o, d, price, ends)]
    /\ stage' = [stage EXCEPT ![o] = IF ends \/ rem = 0 THEN "ended" ELSE @]
    /\ lone' = IF lone.order = o /\ ~lone.filled /\ d = Size[o]
                 THEN [lone EXCEPT !.filled = TRUE,
                         !.low = @ - fee - Overrun(o, lone.price, price, mark)]
                 ELSE None
    /\ UNCHANGED <<account, viewVars, ticks, reloads, startVars, zeroed>>

-----------------------------------------------------------------------------
(* The wallet state that is pushed, and the book built from one *)

\* The break-even price, as an amount over the quantity like the entry price.
BreakEven(p) == Abs(p.basis) + SignOf(p.qty) * p.carry

\* _serialize_future_wallet, for one position: raw is its field qty.
SerializePosition(s) ==
    [raw     |-> pos[s].qty,
     qty     |-> pos[s].qty,
     entry   |-> Abs(pos[s].basis),
     even    |-> IF pos[s].qty = 0 THEN 0 ELSE BreakEven(pos[s]),
     wallet  |-> pos[s].wallet,
     mark    |-> pos[s].mark,
     initial |-> pos[s].initial,
     margin  |-> PositionMargin(s),
     orders  |-> SymbolOrderMargin(s),
     maint   |-> MaintMargin(s),
     liq     |-> LiquidationPrice(s)]

\* The totals of the pushed wallet: _get_wallet_balance and its like.
Totals == [wallet |-> balance, available |-> AvailableBalance,
           margin |-> MarginBalance, rawMargin |-> MarginBalance]

SerializeWallet ==
    [totals |-> Totals,
     positions |-> [s \in {x \in Symbols : pos[x].in} |-> SerializePosition(s)]]

\* _strict_position_qty: a raw quantity without the canonical one is refused.
StrictPosition(r) == r.raw # 0 => r.qty # 0

\* _strict_margin_balance
StrictTotals(t) == t.rawMargin # 0 => t.margin # 0

Strict(m) ==
    StrictTotals(m.totals) /\ \A s \in DOMAIN m.positions :
                                  StrictPosition(m.positions[s])

\* proto_to_portfolio_spec: raw fields are checked and not used.
ReadPosition(r) == [f \in DOMAIN r \ {"raw"} |-> r[f]]

ReadWallet(m) ==
    [totals    |-> [f \in DOMAIN m.totals \ {"rawMargin"} |-> m.totals[f]],
     positions |-> [s \in DOMAIN m.positions |-> ReadPosition(m.positions[s])]]

\* isolated_wallet, or when that is zero the first other amount that is not.
WalletOf(r, mode) ==
    IF ~mode \/ r.wallet # 0 THEN r.wallet
    ELSE IF r.initial # 0 THEN r.initial
    ELSE IF r.margin # 0 THEN r.margin ELSE r.orders

\* A slip: the sign of a short position is forgotten.
CarryOfLong(r) ==
    IF r.qty = 0 \/ r.even = 0 THEN 0 ELSE r.even - r.entry

\* The carried cost is reckoned back from the break-even price.
CarryOf(r) ==
    IF r.qty = 0 \/ r.even = 0 THEN 0 ELSE SignOf(r.qty) * (r.even - r.entry)

\* BinancePosition.from_canonical
FromCanonical(r, mode) ==
    [qty |-> r.qty, basis |-> SignOf(r.qty) * r.entry, carry |-> CarryOf(r),
     wallet |-> WalletOf(r, mode), mark |-> r.mark, initial |-> r.initial,
     told |-> r.orders, maint |-> r.maint, liq |-> r.liq, in |-> TRUE]

BuildPositions(state, mode) ==
    [s \in Symbols |->
       IF s \in DOMAIN state.positions
         THEN FromCanonical(state.positions[s], mode[s]) ELSE Flat]

InitialSum(state) ==
    Sum([s \in DOMAIN state.positions |-> state.positions[s].initial],
        DOMAIN state.positions)

\* _bootstrap_wallet_balance, without deposits.
Bootstrap(state, a) == IF a.isolated THEN InitialSum(state) ELSE a.initial

\* _should_bootstrap_wallet_balance: all totals are zero, an initial balance
\* is not.
ShouldBootstrap(state, a) ==
    /\ state.totals = [wallet |-> 0, available |-> 0, margin |-> 0]
    /\ a.initial # 0 \/ \E s \in DOMAIN state.positions :
                            state.positions[s].initial # 0

BuildBalance(state, a) ==
    IF ShouldBootstrap(state, a) THEN Bootstrap(state, a)
                                 ELSE state.totals.wallet

\* BinanceFuturesBook.__init__ at the start of a session: the book that is
\* kept to be restored is built from the same state.
FuturesInit ==
    /\ \E m \in Snapshots :
        /\ account = m.account
        /\ balance = BuildBalance(m, m.account)
        /\ pos = BuildPositions(m, m.account.mode)
    /\ entries = [o \in FuturesOrders |-> NoEntry]
    /\ stage = [o \in FuturesOrders |-> "none"]
    /\ last = [s \in Symbols |-> 0]
    /\ trigger = "None"
    /\ ticks = 0
    /\ reloads = 0
    /\ cash = [s \in Symbols |-> -pos[s].basis]
    /\ held = [s \in Symbols |-> pos[s].qty]
    /\ paid = [s \in Symbols |-> 0]
    /\ net = [s \in Symbols |-> -pos[s].carry]
    /\ origin = [balance |-> balance, wallet |-> [s \in Symbols |-> pos[s].wallet]]
    /\ began = [cash |-> cash, held |-> held, paid |-> paid, net |-> net]
    /\ restore = SerializeWallet
    /\ lone = None
    /\ zeroed = FALSE

\* A zero of the wallet is taken for a missing value.
ZeroRead(state) ==
    \/ ShouldBootstrap(state, account)
    \/ \E s \in DOMAIN state.positions :
         LET r == state.positions[s] IN
         \/ WalletOf(r, account.mode[s]) # r.wallet
         \/ r.qty # 0 /\ r.even = 0

\* A slip: the backtest's own wallet is what the next session starts with.
LeftBehindOwn(kept) == SerializeWallet

\* What the platform has after a backtest: update_portfolio_wallet_state
\* with the wallet of the start, the last push of the finally block; or with
\* the backtest's own wallet if the worker died before it or it failed.
LeftBehind(kept) == IF kept THEN SerializeWallet ELSE restore

\* The end of a backtest, and build_portfolio_wallet_from_snapshot at the
\* start of the next: open orders are not part of the state, and the next
\* session does not hear of them.
Reload(kept) ==
    LET m     == LeftBehind(kept)
        state == ReadWallet(m)
        h     == IF kept THEN [cash |-> cash, held |-> held, paid |-> paid,
                               net |-> net]
                         ELSE began
    IN
    /\ reloads < MaxReloads
    /\ Strict(m)
    /\ UNCHANGED <<account, ticks, origin>>
    /\ reloads' = reloads + 1
    /\ pos' = BuildPositions(state, account.mode)
    /\ balance' = BuildBalance(state, account)
    /\ entries' = [o \in FuturesOrders |-> NoEntry]
    /\ stage' = [o \in FuturesOrders |->
                   IF stage[o] = "live" THEN "ended" ELSE stage[o]]
    /\ last' = [s \in Symbols |-> 0]
    /\ trigger' = "None"
    /\ cash' = h.cash /\ held' = h.held /\ paid' = h.paid /\ net' = h.net
    /\ began' = h
    /\ restore' = SerializeWallet'
    /\ zeroed' = (zeroed \/ ZeroRead(state))
    /\ lone' = None

FuturesNext ==
    \/ \E kept \in BOOLEAN : Reload(kept)
    \/ \E s \in Symbols, p \in Quotes : OnMarketData(s, p)
    \/ \E o \in FuturesOrders : PlaceOrder(o)
    \/ \E o \in FuturesOrders, p \in Quotes, fee \in Fees, ends \in BOOLEAN :
          \E d \in 1..Size[o] : OnFuturesOrder(o, d, p, fee, ends)

FuturesSpec == FuturesInit /\ [][FuturesNext]_futuresVars

-----------------------------------------------------------------------------
(* Properties *)

\* An open order of the book is partly filled, and the position of its
\* symbol exists; a position without quantity has no basis and carries no
\* cost.
FuturesTypeOK ==
    /\ balance \in Int
    /\ \A s \in Symbols :
        /\ pos[s] \in [qty : Int, basis : Int, carry : Int, wallet : Int,
                       mark : Nat, initial : Nat, told : Nat,
                       maint : Nat, liq : Fractions, in : BOOLEAN]
        /\ pos[s].qty = 0 => pos[s].basis = 0 /\ pos[s].carry = 0
        /\ pos[s].qty * pos[s].basis >= 0
    /\ \A o \in OpenOrders :
        /\ stage[o] = "live"
        /\ entries[o].exec + entries[o].rem = Size[o]
        /\ pos[SymbolOf[o]].in

\* The money the fills of a symbol brought and their fees took, what its open
\* position cost set apart.
Earned(s) == cash[s] + pos[s].basis - paid[s]

\* Whatever book a session starts with and in whatever order the fills of all
\* orders arrive, a position is the one it started with and its fills, the
\* balance the one it started with and the money of all fills, and an
\* isolated wallet the one it started with and the money of its own symbol's
\* fills: the part of the balance that is no isolated wallet never pays for an
\* isolated position, nor gets its profit.  The book after a backtest is the
\* one from before it, or continues it if the wallet was not restored, unless
\* it took a zero for a missing value.
BooksBalance ==
    /\ \A s \in Symbols : pos[s].qty = held[s]
    /\ ~zeroed =>
        /\ balance = origin.balance + Sum([s \in Symbols |-> Earned(s)], Symbols)
        /\ \A s \in Symbols : account.mode[s] =>
             pos[s].wallet = origin.wallet[s] + Earned(s)

\* At the break-even price a position earns exactly what it has cost since
\* it was opened: the carried cost is the fees less the profit of that time.
BreakEvenRecovers == ~zeroed => \A s \in Symbols : pos[s].carry = -net[s]

\* Together: positions, balance, isolated wallets and carried cost account
\* for every fill.
BooksSound == FuturesTypeOK /\ BooksBalance /\ BreakEvenRecovers

\* An open position always has a mark, so that margins and unrealized profit
\* never collapse to zero before its first tick.
OpenIsMarked == \A s \in Symbols : pos[s].qty # 0 => pos[s].mark # 0

\* An order that was checked while no other was live, and filled at once,
\* leaves the account covered, or no worse if it was not covered before, but
\* for the fee, the loss of the fill against the mark, and the margin for
\* which the mark is above the price of the check.  The last two are the
\* account's when a limit or a slipped fill is off the mark.
GuardCovers ==
    lone.filled => Headroom >= lone.low

\* Together: the margin the guard reckons with is real, and what an order
\* may cost beyond it is known.
MarginSound == OpenIsMarked /\ GuardCovers

\* What is left over the maintenance margin of an open position at a price,
\* in parts of Scale times the scale of its risk: what backs it, and its
\* profit at the price.
Surplus(s, price) ==
    LET k == Risk(s)
        backing == IF account.mode[s] THEN Scale * pos[s].wallet
                   ELSE Scale * (MarginBalance - UnrealizedPnl(s))
                        - TotalMaintMargin(Symbols \ {s})
    IN  k.scale * (backing + Scale * (pos[s].qty * price - pos[s].basis)
                     + Scale * k.cum)
          - Scale * Abs(pos[s].qty) * price * k.ratio

\* The prices of the run and the two next to a fraction.
PricesAround(l) ==
    {p \in {l.num \div l.den, (l.num \div l.den) + 1} : p > 0} \cup Quotes

\* The liquidation price parts the prices at which a position keeps its
\* maintenance margin from those at which it does not: a long position keeps
\* it above and a short one below.  A price of zero, where the formula yields
\* a negative one, says that a long position keeps it at every price and a
\* short one at none.  A price that was told is the platform's word and left
\* out, and so is an isolated wallet of zero, read as missing.
LiquidationAtMaintenance ==
    \A s \in Symbols :
        /\ pos[s].qty # 0
        /\ account.mode[s] => pos[s].wallet # 0
        /\ ~PriceIsTold(s)
        => LET l == LiquidationPrice(s) IN
           \A p \in PricesAround(l) :
             /\ p * l.den > l.num => SignOf(pos[s].qty) * Surplus(s, p) > 0
             /\ p * l.den < l.num => SignOf(pos[s].qty) * Surplus(s, p) < 0

-----------------------------------------------------------------------------
(* Not kept by the code *)

\* What the guard is for: an order that it let through while no other was
\* live leaves the account covered.  A limit off the mark, a fill off the
\* check or the fee is enough to break it.
GuardSuffices == lone.filled => Headroom >= 0
=============================================================================
