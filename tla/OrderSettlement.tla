--------------------------- MODULE OrderSettlement ---------------------------
(***************************************************************************)
(* How the executions of a session's orders reach its wallet               *)
(* (strategy/base.py, order_client.py, the order part of wallet/binance.py *)
(* and ProxyOrderClient of platform_proxy.py).                             *)
(*                                                                         *)
(* An execution is reported twice: in the answer of PlaceOrder, as a list  *)
(* of fills, and later as lifecycle events of the order, each with the     *)
(* cumulative executed quantity.  The worker settles both into one wallet  *)
(* and remembers per order the cumulative quantity it settled.  An order   *)
(* whose state the answer leaves open blocks its key (exchange, market,    *)
(* symbol) until a terminal event arrives.                                 *)
(*                                                                         *)
(* One thread of the worker places orders and handles events, so no event  *)
(* is handled while a PlaceOrder call is out; the exchange goes on.  The   *)
(* exchange and the platform's event log are external.                     *)
(***************************************************************************)
EXTENDS Integers, Sequences

CONSTANTS
    Orders,     \* the orders the strategy may place
    Keys,       \* (exchange, market, symbol) triples
    KeyOf,      \* the key of every order
    Qty,        \* quantity of every order
    InOrder     \* events are delivered completely and in order of their ids

ASSUME SettlementAssumption ==
    /\ KeyOf \in [Orders -> Keys]
    /\ Qty \in Nat \ {0}
    /\ InOrder \in BOOLEAN

\* "CANCELED" stands for CANCELED and EXPIRED, which the code treats alike.
WalletTerminal == {"FILLED", "CANCELED"}
EventTerminal  == WalletTerminal \cup {"RECOVERY_EXPIRED"}

Events == [order : Orders, kind : {"fill", "state"}, cum : 0..Qty,
           st : {"PARTIALLY_FILLED"} \cup EventTerminal, fee : BOOLEAN]

VARIABLES
    \* the exchange and the platform (external)
    st,         \* none, live, FILLED, CANCELED or dead (never came to exist)
    exec,       \* executed quantity
    cums,       \* the executed quantity after every trade
    feeLate,    \* some trade's fee is not known yet
    log,        \* the session's order lifecycle events; the id is the index
    \* BaseStrategy
    asked,      \* orders for which PlaceOrder was called
    phase,      \* idle, sent (the call is out), settle (its fills are applied)
    cur,        \* the order of the call
    left,       \* fills of the answer still to apply, by cumulative quantity
    final,      \* order status of the answer
    cursor,     \* _order_event_cursor
    settled,    \* _sync_settled_order_quantities, 0 for no entry
    blocked,    \* _blocked_order_keys
    wallet,     \* per order: quantity applied, and the entry in open_orders
    \* history
    unresolved, \* orders answered as unresolved, no terminal event since
    split,      \* orders answered CANCELED with more than one fill
    reopened    \* orders open in the wallet after they had been closed there

exchangeVars == <<st, exec, cums, feeLate, log>>
callVars     == <<asked, phase, cur, left, final>>
ledgerVars   == <<cursor, settled, blocked, wallet>>
historyVars  == <<unresolved, split, reopened>>
vars == <<exchangeVars, callVars, ledgerVars, historyVars>>

NoOrder == "NoOrder"

Ended == {"FILLED", "CANCELED", "dead"}

Init ==
    /\ st = [o \in Orders |-> "none"]
    /\ exec = [o \in Orders |-> 0]
    /\ cums = [o \in Orders |-> {}]
    /\ feeLate = [o \in Orders |-> FALSE]
    /\ log = <<>>
    /\ asked = {}
    /\ phase = "idle"
    /\ cur = NoOrder
    /\ left = {}
    /\ final = "none"
    /\ cursor = 0
    /\ settled = [o \in Orders |-> 0]
    /\ blocked = {}
    /\ wallet = [o \in Orders |-> [qty |-> 0, open |-> FALSE, exec |-> 0]]
    /\ unresolved = {}
    /\ split = {}
    /\ reopened = {}

-----------------------------------------------------------------------------
(* The exchange and the platform *)

Event(o, kind, cum, status, fee) ==
    [order |-> o, kind |-> kind, cum |-> cum, st |-> status, fee |-> fee]

\* The request reaches the exchange, perhaps after its caller gave up.
Accept(o) ==
    /\ o \in asked
    /\ st[o] = "none"
    /\ st' = [st EXCEPT ![o] = "live"]
    /\ UNCHANGED <<exec, cums, feeLate, log, callVars, ledgerVars, historyVars>>

Trade(o, fee) ==
    /\ st[o] = "live"
    /\ \E cum \in (exec[o] + 1)..Qty :
        LET now == IF cum = Qty THEN "FILLED" ELSE "PARTIALLY_FILLED" IN
        /\ exec' = [exec EXCEPT ![o] = cum]
        /\ cums' = [cums EXCEPT ![o] = @ \cup {cum}]
        /\ st' = [st EXCEPT ![o] = IF cum = Qty THEN "FILLED" ELSE "live"]
        /\ feeLate' = [feeLate EXCEPT ![o] = @ \/ ~fee]
        /\ log' = Append(log, Event(o, "fill", cum, now, fee))
    /\ UNCHANGED <<callVars, ledgerVars, historyVars>>

\* The order is canceled or expires.
End(o) ==
    /\ st[o] = "live"
    /\ st' = [st EXCEPT ![o] = "CANCELED"]
    /\ log' = Append(log, Event(o, "state", exec[o], "CANCELED", TRUE))
    /\ UNCHANGED <<exec, cums, feeLate, callVars, ledgerVars, historyVars>>

\* The fee of a trade becomes known: the fill is reported again.
FeeKnown(o) ==
    /\ feeLate[o]
    /\ feeLate' = [feeLate EXCEPT ![o] = FALSE]
    /\ log' = Append(log, Event(o, "fill", exec[o],
                 IF st[o] = "live" THEN "PARTIALLY_FILLED" ELSE st[o], TRUE))
    /\ UNCHANGED <<st, exec, cums, callVars, ledgerVars, historyVars>>

\* The platform gives up recovering an attempt that never became an order.
RecoveryExpires(o) ==
    /\ o \in unresolved
    /\ st[o] = "none"
    /\ st' = [st EXCEPT ![o] = "dead"]
    /\ log' = Append(log, Event(o, "state", 0, "RECOVERY_EXPIRED", TRUE))
    /\ UNCHANGED <<exec, cums, feeLate, callVars, ledgerVars, historyVars>>

-----------------------------------------------------------------------------
(* The wallet: BinanceFuturesBook.on_order, reduced to quantities.  The    *)
(* delta of an order event is its cumulative quantity minus the one of the *)
(* open order it belongs to, if the wallet has that order.                 *)

OnOrder(w, cum, status, remaining) ==
    LET before == IF w.open THEN w.exec ELSE 0
        delta  == IF cum > before THEN cum - before ELSE 0
        closes == status \in WalletTerminal \/ remaining = 0
    IN  [qty  |-> w.qty + delta,
         open |-> ~closes,
         exec |-> IF closes THEN 0 ELSE cum]

\* _record_order_settlement
Record(before, cum) == IF cum > before THEN cum ELSE before

-----------------------------------------------------------------------------
(* PlaceOrder and its answer *)

\* _execute_prepared_order up to the call; a blocked key skips the order,
\* as do the balance checks, which change nothing.
PlaceOrder(o) ==
    /\ phase = "idle"
    /\ o \notin asked
    /\ KeyOf[o] \notin blocked
    /\ asked' = asked \cup {o}
    /\ phase' = "sent"
    /\ cur' = o
    /\ UNCHANGED <<left, final, exchangeVars, ledgerVars, historyVars>>

Return == phase' = "idle" /\ cur' = NoOrder /\ UNCHANGED <<asked, left, final>>

Block(o)   == blocked' = blocked \cup {KeyOf[o]}
Unblock(o) == blocked' = blocked \ {KeyOf[o]}

\* attempt_status FAILED: no order exists.
AnswerFailed ==
    /\ phase = "sent"
    /\ st[cur] = "none"
    /\ st' = [st EXCEPT ![cur] = "dead"]
    /\ Unblock(cur)
    /\ Return
    /\ UNCHANGED <<exec, cums, feeLate, log, cursor, settled, wallet, historyVars>>

\* UNKNOWN, RECOVERING or RECOVERY_FAILED, or the call and its one resolve
\* call both failed: the order may or may not exist.
AnswerUnknown ==
    /\ phase = "sent"
    /\ Block(cur)
    /\ unresolved' = unresolved \cup {cur}
    /\ Return
    /\ UNCHANGED <<exchangeVars, cursor, settled, wallet, split, reopened>>

\* pending_fill_confirmation: executed, but the fills are missing or lack
\* their fees, so _build_fill_events returned none.
AnswerPending ==
    /\ phase = "sent"
    /\ exec[cur] > 0
    /\ Block(cur)
    /\ unresolved' = unresolved \cup {cur}
    /\ Return
    /\ UNCHANGED <<exchangeVars, cursor, settled, wallet, split, reopened>>

\* ACCEPTED or RECOVERED with nothing to settle: no order payload, no fill
\* yet, or a terminal status without a fill (on_order then drops an open
\* order the wallet does not have).  An order resting at the exchange is
\* not entered in the wallet.
AnswerNoFill ==
    /\ phase = "sent"
    /\ st[cur] # "none"
    /\ Unblock(cur)
    /\ Return
    /\ UNCHANGED <<exchangeVars, cursor, settled, wallet, historyVars>>

\* ACCEPTED or RECOVERED with fills: all of them, or the oldest ones when
\* the fills lag behind the status of the order.
AnswerFills ==
    /\ phase = "sent"
    /\ ~feeLate[cur]
    /\ \E last \in cums[cur] :
        /\ left' = {c \in cums[cur] : c <= last}
        /\ split' = IF st[cur] = "CANCELED" /\ left' # {last}
                      THEN split \cup {cur} ELSE split
    /\ Unblock(cur)
    /\ final' = IF st[cur] = "live" THEN "PARTIALLY_FILLED" ELSE st[cur]
    /\ phase' = "settle"
    /\ UNCHANGED <<exchangeVars, asked, cur, cursor, settled, wallet,
                   unresolved, reopened>>

\* _build_fill_events: the fills before the last are partial only when the
\* order is FILLED; otherwise every fill carries the order's status.
FillStatus(cum) ==
    IF final = "FILLED" /\ left # {cum} THEN "PARTIALLY_FILLED" ELSE final

\* One round of the loop over feedback.fill_events, oldest fill first.
SettleFill ==
    /\ phase = "settle"
    /\ \E cum \in left :
        /\ \A c \in left : cum <= c
        /\ wallet' = [wallet EXCEPT
                        ![cur] = OnOrder(@, cum, FillStatus(cum), Qty - cum)]
        /\ settled' = [settled EXCEPT ![cur] = Record(@, cum)]
        /\ left' = left \ {cum}
        /\ IF left = {cum}
             THEN phase' = "idle" /\ cur' = NoOrder /\ final' = "none"
             ELSE UNCHANGED <<phase, cur, final>>
    /\ UNCHANGED <<exchangeVars, asked, cursor, blocked, historyVars>>

-----------------------------------------------------------------------------
(* handle_order_update.  An event with an id up to the cursor is dropped   *)
(* at once, so deliveries of it change nothing.                            *)

Deliverable(i) ==
    /\ phase = "idle"
    /\ i > cursor
    /\ InOrder => i = cursor + 1

\* order_response_from_update: the event carries a fill the wallet can take.
Settleable(e) == e.kind = "fill" /\ e.fee

\* A slip: only FILLED counts as terminal.
UnblockOnFilled(e) ==
    /\ blocked' = IF e.st = "FILLED" THEN blocked \ {KeyOf[e.order]}
                                     ELSE blocked
    /\ unresolved' = IF e.st \in EventTerminal THEN unresolved \ {e.order}
                                               ELSE unresolved

\* _is_order_update_terminal, and the key discarded from the blocked ones.
UnblockOn(e) ==
    /\ blocked' = IF e.st \in EventTerminal THEN blocked \ {KeyOf[e.order]}
                                            ELSE blocked
    /\ unresolved' = IF e.st \in EventTerminal THEN unresolved \ {e.order}
                                               ELSE unresolved

\* A slip: an order is settled at most once.
SkipsKnownOrder(e) == ~Settleable(e) \/ settled[e.order] > 0

\* An event without a fill, with a fill without its fee, or with a
\* cumulative quantity that was settled before.
Skips(e) == ~Settleable(e) \/ e.cum <= settled[e.order]

SkipUpdate(i) ==
    /\ Deliverable(i)
    /\ Skips(log[i])
    /\ UnblockOn(log[i])
    /\ cursor' = i
    /\ UNCHANGED <<exchangeVars, callVars, settled, wallet, split, reopened>>

\* A slip: the event is settled as it comes.
AdjustedNever(e) == e.cum

\* _adjust_lifecycle_order_response: an order that was settled before and
\* is not open in the wallet is settled by the difference.
Adjusted(e) ==
    IF settled[e.order] > 0 /\ ~wallet[e.order].open
      THEN e.cum - settled[e.order] ELSE e.cum

ApplyUpdate(i) ==
    LET e == log[i] IN
    /\ Deliverable(i)
    /\ ~Skips(e)
    /\ wallet' = [wallet EXCEPT
                    ![e.order] = OnOrder(@, Adjusted(e), e.st, Qty - e.cum)]
    /\ settled' = [settled EXCEPT ![e.order] = Record(@, e.cum)]
    /\ UnblockOn(e)
    /\ cursor' = i
    /\ reopened' = IF Adjusted(e) # e.cum /\ wallet'[e.order].open
                     THEN reopened \cup {e.order} ELSE reopened
    /\ UNCHANGED <<exchangeVars, callVars, split>>

-----------------------------------------------------------------------------
Exchange(o) ==
    \/ Accept(o)
    \/ \E fee \in BOOLEAN : Trade(o, fee)
    \/ End(o)
    \/ FeeKnown(o)
    \/ RecoveryExpires(o)

Answer ==
    \/ AnswerFailed
    \/ AnswerUnknown
    \/ AnswerPending
    \/ AnswerNoFill
    \/ AnswerFills

HandleUpdate == \E i \in 1..Len(log) : SkipUpdate(i) \/ ApplyUpdate(i)

Next ==
    \/ \E o \in Orders : Exchange(o) \/ PlaceOrder(o)
    \/ Answer
    \/ SettleFill
    \/ HandleUpdate

Spec == Init /\ [][Next]_vars

-----------------------------------------------------------------------------
(* Properties *)

\* All orders but those that the two paths reported as findings have hit:
\* answered CANCELED with several fills, and reopened in the wallet.
Regular == Orders \ (split \cup reopened)

TypeOK ==
    /\ st \in [Orders -> {"none", "live"} \cup Ended]
    /\ exec \in [Orders -> 0..Qty]
    /\ cums \in [Orders -> SUBSET (1..Qty)]
    /\ feeLate \in [Orders -> BOOLEAN]
    /\ log \in Seq(Events)
    /\ asked \in SUBSET Orders
    /\ phase \in {"idle", "sent", "settle"}
    /\ cur \in Orders \cup {NoOrder}
    /\ left \in SUBSET (1..Qty)
    /\ final \in {"none", "PARTIALLY_FILLED"} \cup WalletTerminal
    /\ cursor \in 0..Len(log)
    /\ settled \in [Orders -> 0..Qty]
    /\ blocked \in SUBSET Keys
    /\ wallet \in [Orders -> [qty : Nat, open : BOOLEAN, exec : 0..Qty]]
    /\ unresolved \in SUBSET Orders
    /\ split \in SUBSET Orders
    /\ reopened \in SUBSET Orders

\* An execution reported in the answer and in any number of lifecycle
\* events, lost, repeated or late, counts once: the wallet holds what the
\* worker recorded as settled, and never more than was executed.
CountedOnce ==
    \A o \in Regular :
        /\ wallet[o].qty = settled[o]
        /\ wallet[o].qty <= exec[o]

\* When every event was handled, in order, the wallet holds all that was
\* executed and whose fee is known: cumulative quantities, the skipped
\* duplicates and the differences leave no execution out.
QuietIsSettled ==
    InOrder /\ phase = "idle" /\ cursor = Len(log) =>
        \A o \in Regular : feeLate[o] \/ wallet[o].qty = exec[o]

\* A key stays blocked only while something will unblock it: one of its
\* unresolved orders has not ended, or the event of its end is on the way.
BlockedHasReason ==
    InOrder =>
        \A k \in blocked : \E o \in unresolved :
            /\ KeyOf[o] = k
            /\ \/ st[o] \notin Ended
               \/ \E i \in (cursor + 1)..Len(log) :
                    log[i].order = o /\ log[i].st \in EventTerminal

\* An order the wallet shows as open was really partly executed, and the
\* quantity the next event is measured against is the one it settled.
OpenIsPartial ==
    \A o \in Regular :
        wallet[o].open => /\ wallet[o].exec = settled[o]
                          /\ 0 < settled[o] /\ settled[o] < Qty

-----------------------------------------------------------------------------
(* Liveness, when the exchange ends every order, reports every fee, and    *)
(* the platform answers every call and delivers every event.               *)

FairSpec ==
    /\ Spec
    /\ \A o \in Orders : WF_vars(Exchange(o))
    /\ WF_vars(Answer)
    /\ WF_vars(SettleFill)
    /\ WF_vars(HandleUpdate)

\* Every key that gets blocked is unblocked again.
KeysUnblock == \A k \in Keys : k \in blocked ~> k \notin blocked

\* In the end the wallet agrees with the exchange.
WalletConverges ==
    <>[](\A o \in Regular : wallet[o].qty = exec[o])

-----------------------------------------------------------------------------
(* What the comments and tests say and the code does not keep *)

\* "test_ioc_partial_expired_settles_filled_qty_without_open_order": the
\* wallet of an order that expired after partial fills holds what was
\* filled, never more.
ExpiredSettlesFilledQty ==
    \A o \in Orders \ reopened : wallet[o].qty <= exec[o]

\* "test_lifecycle_after_synchronous_partial_settles_only_new_delta": an
\* event after an answer adds only what the answer did not settle.
EventAddsOnlyNewDelta ==
    \A o \in Orders \ split : wallet[o].qty <= exec[o]

\* "skip order on blocked symbol while execution state unresolved": the key
\* of an order stays blocked until the order's own state is resolved.
UnresolvedStaysBlocked ==
    \A o \in unresolved : KeyOf[o] \in blocked

=============================================================================
