------------------------ MODULE OrderSettlement_proofs ------------------------
(* Proofs about OrderSettlement: executions are counted once, none is left *)
(* out, and a blocked key is always going to be unblocked.                 *)
EXTENDS OrderSettlement, TLAPS

\* What the exchange and the call in progress look like.
ExchangeInv ==
    /\ \A o \in Orders :
        /\ cums[o] \subseteq 1..exec[o]
        /\ exec[o] > 0 => st[o] \notin {"none", "dead"}
        /\ st[o] = "live" => exec[o] < Qty
        /\ feeLate[o] => exec[o] > 0
    /\ \A i \in 1..Len(log) : log[i].cum <= exec[log[i].order]

CallInv ==
    /\ phase # "idle" => cur \in asked
    /\ phase = "settle" => left \subseteq 1..exec[cur]

TypeInv == TypeOK /\ ExchangeInv /\ CallInv

\* What appending an event to the log does.
LEMMA AppendLog ==
    ASSUME NEW S, NEW s \in Seq(S), NEW e \in S
    PROVE  /\ Append(s, e) \in Seq(S)
           /\ Len(Append(s, e)) = Len(s) + 1
           /\ Len(s) \in Nat
           /\ \A i \in 1..Len(s) : Append(s, e)[i] = s[i]
           /\ Append(s, e)[Len(s) + 1] = e
OBVIOUS

\* The part of the type invariant that a growing log and growing executed
\* quantities keep.
LEMMA LogGrows ==
    ASSUME TypeInv, NEW e \in Events, log' = Append(log, e),
           exec' \in [Orders -> 0..Qty], \A o \in Orders : exec[o] <= exec'[o],
           e.cum <= exec'[e.order], UNCHANGED <<callVars, cursor>>
    PROVE  /\ log' \in Seq(Events) /\ Len(log') = Len(log) + 1
           /\ \A i \in 1..Len(log') : log'[i].cum <= exec'[log'[i].order]
           /\ CallInv'
           /\ cursor' \in 0..Len(log')
<1> USE SettlementAssumption DEF TypeInv, TypeOK
<1>1. /\ log' \in Seq(Events) /\ Len(log') = Len(log) + 1 /\ Len(log) \in Nat
      /\ \A i \in 1..Len(log) : log'[i] = log[i]
      /\ log'[Len(log) + 1] = e
    <2>1. log \in Seq(Events)
        OBVIOUS
    <2> QED
        BY <2>1, AppendLog
<1>2. ASSUME NEW i \in 1..Len(log') PROVE log'[i].cum <= exec'[log'[i].order]
    <2>1. CASE i = Len(log) + 1
        BY <1>1, <2>1
    <2>2. CASE i \in 1..Len(log)
        <3>1. log[i] \in Events
            BY <1>1, <2>2
        <3> DEFINE o == log[i].order  c == log[i].cum
        <3>2. o \in Orders /\ c \in 0..Qty
            BY <3>1 DEF Events
        <3>3. c <= exec[o]
            BY <2>2 DEF ExchangeInv
        <3>4. c <= exec'[o]
            <4> HIDE DEF o, c
            <4>1. exec[o] \in Nat /\ exec'[o] \in Nat /\ c \in Nat /\ exec[o] <= exec'[o]
                BY <3>2
            <4> QED
                BY <3>3, <4>1
        <3>8. log'[i] = log[i]
            BY <1>1, <2>2
        <3> QED
            BY <3>4, <3>8
    <2>3. \A n \in Nat : \A j \in 1..(n + 1) : j = n + 1 \/ j \in 1..n
        BY SMT
    <2>4. Len(log) \in Nat /\ i \in 1..(Len(log) + 1)
        BY <1>1
    <2>5. i = Len(log) + 1 \/ i \in 1..Len(log)
        BY <2>3, <2>4
    <2> QED
        BY <2>1, <2>2, <2>5, Zenon
<1>3. CallInv'
    <2>1. ASSUME phase = "settle" PROVE left \subseteq 1..exec'[cur]
        <3>1. cur \in Orders /\ left \subseteq 1..exec[cur]
            BY <2>1 DEF CallInv
        <3> QED
            BY <3>1
    <2> QED
        BY <2>1 DEF CallInv, callVars
<1> QED
    BY <1>1, <1>2, <1>3

LEMMA InitTypeInv == Init => TypeInv
BY SettlementAssumption DEF Init, TypeInv, TypeOK, ExchangeInv, CallInv

LEMMA NextTypeInv == TypeInv /\ [Next]_vars => TypeInv'
<1> SUFFICES ASSUME TypeInv, [Next]_vars PROVE TypeInv'
    OBVIOUS
<1> USE SettlementAssumption DEF TypeInv, TypeOK, ExchangeInv, CallInv, vars, exchangeVars, callVars, ledgerVars, historyVars, WalletTerminal, EventTerminal, Ended
<1>1. ASSUME NEW o \in Orders, Accept(o) PROVE TypeInv'
    BY <1>1 DEF Accept
<1>2. ASSUME NEW o \in Orders, NEW fee \in BOOLEAN, Trade(o, fee) PROVE TypeInv'
    <2>1. PICK cum \in (exec[o] + 1)..Qty :
            /\ exec' = [exec EXCEPT ![o] = cum]
            /\ cums' = [cums EXCEPT ![o] = @ \cup {cum}]
            /\ st' = [st EXCEPT ![o] = IF cum = Qty THEN "FILLED" ELSE "live"]
            /\ feeLate' = [feeLate EXCEPT ![o] = @ \/ ~fee]
            /\ log' = Append(log, Event(o, "fill", cum, IF cum = Qty THEN "FILLED" ELSE "PARTIALLY_FILLED", fee))
        BY <1>2 DEF Trade
    <2>2. Event(o, "fill", cum, IF cum = Qty THEN "FILLED" ELSE "PARTIALLY_FILLED", fee) \in Events
        BY DEF Event, Events
    <2>3. UNCHANGED <<callVars, ledgerVars, historyVars>>
        BY <1>2 DEF Trade
    <2>4. exec' \in [Orders -> 0..Qty] /\ \A p \in Orders : exec[p] <= exec'[p]
        BY <2>1
    <2>5. /\ log' \in Seq(Events)
          /\ \A i \in 1..Len(log') : log'[i].cum <= exec'[log'[i].order]
          /\ CallInv' /\ cursor' \in 0..Len(log')
        <3> HIDE DEF TypeInv, TypeOK, ExchangeInv, CallInv
        <3>1. exec'[o] = cum
            BY <2>1 DEF TypeInv, TypeOK
        <3> QED
            BY <2>1, <2>2, <2>3, <2>4, <3>1, LogGrows DEF Event
    <2>6. st' \in [Orders -> {"none", "live"} \cup Ended] /\ cums' \in [Orders -> SUBSET (1..Qty)] /\ feeLate' \in [Orders -> BOOLEAN]
        BY <2>1
    <2>7. ASSUME NEW p \in Orders
          PROVE  /\ cums'[p] \subseteq 1..exec'[p]
                 /\ exec'[p] > 0 => st'[p] \notin {"none", "dead"}
                 /\ st'[p] = "live" => exec'[p] < Qty
                 /\ feeLate'[p] => exec'[p] > 0
        BY <2>1
    <2> QED
        BY <2>3, <2>4, <2>5, <2>6, <2>7
<1>3. ASSUME NEW o \in Orders, End(o) PROVE TypeInv'
    <2>1. Event(o, "state", exec[o], "CANCELED", TRUE) \in Events
        BY DEF Event, Events
    <2>2. /\ log' \in Seq(Events)
          /\ \A i \in 1..Len(log') : log'[i].cum <= exec'[log'[i].order]
          /\ CallInv' /\ cursor' \in 0..Len(log')
        <3> HIDE DEF TypeInv, TypeOK, ExchangeInv, CallInv
        <3>1. exec \in [Orders -> 0..Qty]
            BY DEF TypeInv, TypeOK
        <3> QED
            BY <1>3, <2>1, <3>1, LogGrows DEF End, Event
    <2> QED
        BY <1>3, <2>2 DEF End
<1>4. ASSUME NEW o \in Orders, FeeKnown(o) PROVE TypeInv'
    <2>1. Event(o, "fill", exec[o], IF st[o] = "live" THEN "PARTIALLY_FILLED" ELSE st[o], TRUE) \in Events
        BY <1>4 DEF FeeKnown, Event, Events
    <2>2. /\ log' \in Seq(Events)
          /\ \A i \in 1..Len(log') : log'[i].cum <= exec'[log'[i].order]
          /\ CallInv' /\ cursor' \in 0..Len(log')
        <3> HIDE DEF TypeInv, TypeOK, ExchangeInv, CallInv
        <3>1. exec \in [Orders -> 0..Qty]
            BY DEF TypeInv, TypeOK
        <3> QED
            BY <1>4, <2>1, <3>1, LogGrows DEF FeeKnown, Event
    <2> QED
        BY <1>4, <2>2 DEF FeeKnown
<1>5. ASSUME NEW o \in Orders, RecoveryExpires(o) PROVE TypeInv'
    <2>1. Event(o, "state", 0, "RECOVERY_EXPIRED", TRUE) \in Events
        BY DEF Event, Events
    <2>2. /\ log' \in Seq(Events)
          /\ \A i \in 1..Len(log') : log'[i].cum <= exec'[log'[i].order]
          /\ CallInv' /\ cursor' \in 0..Len(log')
        <3> HIDE DEF TypeInv, TypeOK, ExchangeInv, CallInv
        <3>1. exec \in [Orders -> 0..Qty]
            BY DEF TypeInv, TypeOK
        <3>2. exec[o] \in Nat /\ 0 <= exec[o]
            BY <3>1
        <3> QED
            BY <1>5, <2>1, <3>1, <3>2, LogGrows DEF RecoveryExpires, Event
    <2> QED
        BY <1>5, <2>2 DEF RecoveryExpires
<1>6. ASSUME NEW o \in Orders, PlaceOrder(o) PROVE TypeInv'
    BY <1>6 DEF PlaceOrder
<1>7. CASE AnswerFailed
    BY <1>7 DEF AnswerFailed, Return, Unblock
<1>8. CASE AnswerUnknown
    BY <1>8 DEF AnswerUnknown, Return, Block
<1>9. CASE AnswerPending
    BY <1>9 DEF AnswerPending, Return, Block
<1>10. CASE AnswerNoFill
    BY <1>10 DEF AnswerNoFill, Return, Unblock
<1>11. CASE AnswerFills
    BY <1>11 DEF AnswerFills, Unblock
<1>12. CASE SettleFill
    <2>1. PICK cum \in left :
            /\ wallet' = [wallet EXCEPT ![cur] = OnOrder(@, cum, FillStatus(cum), Qty - cum)]
            /\ settled' = [settled EXCEPT ![cur] = Record(@, cum)]
            /\ left' = left \ {cum}
            /\ IF left = {cum} THEN phase' = "idle" /\ cur' = NoOrder /\ final' = "none"
                               ELSE UNCHANGED <<phase, cur, final>>
        BY <1>12 DEF SettleFill
    <2>2. OnOrder(wallet[cur], cum, FillStatus(cum), Qty - cum) \in [qty : Nat, open : BOOLEAN, exec : 0..Qty]
        BY <2>1, <1>12 DEF SettleFill, OnOrder
    <2>3. Record(settled[cur], cum) \in 0..Qty
        BY <2>1, <1>12 DEF SettleFill, Record
    <2> QED
        <3>1. wallet' \in [Orders -> [qty : Nat, open : BOOLEAN, exec : 0..Qty]] /\ settled' \in [Orders -> 0..Qty]
            BY <2>1, <2>2, <2>3
        <3> QED
            BY <2>1, <3>1, <1>12 DEF SettleFill
<1>13. ASSUME NEW i \in 1..Len(log), SkipUpdate(i) PROVE TypeInv'
    BY <1>13 DEF SkipUpdate, Deliverable, UnblockOn
<1>14. ASSUME NEW i \in 1..Len(log), ApplyUpdate(i) PROVE TypeInv'
    <2> DEFINE e == log[i]
    <2>0. log \in Seq(Events)
        OBVIOUS
    <2>1. e \in Events /\ e.order \in Orders /\ e.cum \in 0..Qty
        <3>1. e \in Events
            BY <2>0
        <3> QED
            BY <3>1 DEF Events
    <2>2. Adjusted(e) \in 0..Qty
        BY <1>14, <2>1 DEF ApplyUpdate, Skips, Adjusted
    <2>3. OnOrder(wallet[e.order], Adjusted(e), e.st, Qty - e.cum) \in [qty : Nat, open : BOOLEAN, exec : 0..Qty]
        BY <2>1, <2>2 DEF OnOrder
    <2>4. Record(settled[e.order], e.cum) \in 0..Qty
        BY <2>1 DEF Record
    <2>5. wallet' \in [Orders -> [qty : Nat, open : BOOLEAN, exec : 0..Qty]]
        <3>1. wallet' = [wallet EXCEPT ![e.order] = OnOrder(@, Adjusted(e), e.st, Qty - e.cum)]
            BY <1>14 DEF ApplyUpdate
        <3> HIDE DEF e
        <3> QED
            BY <2>1, <2>3, <3>1
    <2>6. settled' \in [Orders -> 0..Qty]
        <3>1. settled' = [settled EXCEPT ![e.order] = Record(@, e.cum)]
            BY <1>14 DEF ApplyUpdate
        <3> HIDE DEF e
        <3> QED
            BY <2>1, <2>4, <3>1
    <2>7. blocked' \subseteq Keys /\ unresolved' \subseteq Orders /\ reopened' \subseteq Orders
        BY <1>14, <2>1 DEF ApplyUpdate, UnblockOn
    <2>8. phase = "idle" /\ cursor' \in 0..Len(log') /\ UNCHANGED <<exchangeVars, callVars, split>>
        BY <1>14 DEF ApplyUpdate, Deliverable
    <2> QED
        BY <2>5, <2>6, <2>7, <2>8
<1>15. CASE UNCHANGED vars
    BY <1>15
<1> QED
    BY <1>1, <1>2, <1>3, <1>4, <1>5, <1>6, <1>7, <1>8, <1>9, <1>10, <1>11, <1>12, <1>13, <1>14, <1>15
    DEF Next, Exchange, Answer, HandleUpdate

\* Every variable keeps its type in every behaviour: in particular the
\* settled quantity and the wallet's open quantity never exceed the order.
THEOREM TypeCorrect == Spec => []TypeOK
<1>1. Spec => []TypeInv
    BY InitTypeInv, NextTypeInv, PTL DEF Spec
<1> QED
    BY <1>1, PTL DEF TypeInv

-----------------------------------------------------------------------------
(* Counted once *)

\* The wallet keeps an order open, with the quantity of the event, exactly
\* when the event is not terminal and leaves something to fill.
LEMMA OnOrderOpens ==
    ASSUME NEW w, NEW cum, NEW status, NEW remaining
    PROVE  /\ OnOrder(w, cum, status, remaining).open
                <=> status \notin WalletTerminal /\ remaining # 0
           /\ OnOrder(w, cum, status, remaining).open
                => OnOrder(w, cum, status, remaining).exec = cum
<1>1. CASE status \in WalletTerminal \/ remaining = 0
    BY <1>1, Zenon DEF OnOrder
<1>2. CASE ~(status \in WalletTerminal \/ remaining = 0)
    BY <1>2, Zenon DEF OnOrder
<1> QED
    BY <1>1, <1>2

\* An order of which nothing was settled yet.
Fresh(o) == settled[o] = 0 /\ ~wallet[o].open /\ wallet[o].qty = 0

\* An order not asked for, or not yet answered, is fresh.
AskedInv ==
    /\ \A o \in Orders : o \notin asked \/ (phase = "sent" /\ o = cur) => Fresh(o)
    /\ \A o \in Orders : o \notin asked => st[o] = "none"
    /\ \A i \in 1..Len(log) : log[i].order \in asked
    /\ unresolved \subseteq asked

\* The fills of the answer in progress are larger than what is settled.
SettleInv ==
    phase = "settle" =>
        /\ final = "PARTIALLY_FILLED" => \A c \in left : c < Qty
        /\ final = "CANCELED" /\ cur \notin split => \A c, d \in left : c = d
        /\ \/ Fresh(cur)
           \/ /\ \A c \in left : settled[cur] < c
              /\ cur \in Regular => wallet[cur].open /\ final # "CANCELED"

\* The record, the wallet's quantity and the quantity of the open order move
\* together.
CountInv ==
    /\ CountedOnce
    /\ OpenIsPartial
    /\ \A o \in Orders : settled[o] <= exec[o]
    /\ AskedInv
    /\ SettleInv

LEMMA InitCountInv == Init => CountInv
BY SettlementAssumption DEF Init, CountInv, CountedOnce, OpenIsPartial, Regular, Fresh, AskedInv, SettleInv

\* A step of the exchange concerns one order that was asked for; executed
\* quantities grow and the worker is not touched.
LEMMA ExchangeStep ==
    ASSUME TypeInv, TypeInv', AskedInv, NEW o \in Orders, Exchange(o)
    PROVE  /\ o \in asked
           /\ \A p \in Orders : p # o => st'[p] = st[p]
           /\ \A p \in Orders : exec[p] <= exec'[p]
           /\ \A i \in 1..Len(log') : log'[i].order \in asked
           /\ UNCHANGED <<callVars, ledgerVars, historyVars>>
<1>0. /\ log \in Seq(Events)
      /\ exec \in [Orders -> 0..Qty] /\ Qty \in Nat
      /\ st \in [Orders -> {"none", "live"} \cup Ended]
      /\ feeLate[o] => exec[o] > 0
      /\ exec[o] > 0 => st[o] \notin {"none", "dead"}
      /\ \A p \in Orders : exec[p] <= exec[p]
    <2>1. /\ log \in Seq(Events)
          /\ exec \in [Orders -> 0..Qty] /\ Qty \in Nat
          /\ st \in [Orders -> {"none", "live"} \cup Ended]
        BY SettlementAssumption DEF TypeInv, TypeOK
    <2>2. /\ feeLate[o] => exec[o] > 0
          /\ exec[o] > 0 => st[o] \notin {"none", "dead"}
        BY DEF TypeInv, ExchangeInv
    <2>3. \A p \in Orders : exec[p] <= exec[p]
        BY <2>1
    <2> QED
        BY <2>1, <2>2, <2>3
<1>1. CASE Accept(o)
    <2>1. /\ o \in asked /\ UNCHANGED <<exec, log, callVars, ledgerVars, historyVars>>
          /\ st' = [st EXCEPT ![o] = "live"]
        BY <1>1 DEF Accept
    <2>2. \A i \in 1..Len(log') : log'[i].order \in asked
        BY <2>1 DEF AskedInv
    <2>3. \A p \in Orders : exec[p] <= exec'[p]
        BY <1>0, <2>1
    <2> QED
        BY <1>0, <2>1, <2>2, <2>3
<1>2. ASSUME NEW e \in Events, e.order = o, o \in asked, log' = Append(log, e)
      PROVE  \A i \in 1..Len(log') : log'[i].order \in asked
    <2>1. /\ Len(log') = Len(log) + 1 /\ Len(log) \in Nat
          /\ \A i \in 1..Len(log) : log'[i] = log[i]
          /\ log'[Len(log) + 1] = e
        BY <1>0, <1>2, AppendLog
    <2>2. ASSUME NEW i \in 1..Len(log') PROVE log'[i].order \in asked
        <3>1. CASE i \in 1..Len(log)
            BY <2>1, <3>1 DEF AskedInv
        <3>2. CASE i = Len(log) + 1
            BY <2>1, <1>2, <3>2
        <3> QED
            BY <2>1, <3>1, <3>2
    <2> QED
        BY <2>2
<1>3. ASSUME NEW fee \in BOOLEAN, Trade(o, fee)
      PROVE  /\ o \in asked
             /\ \A p \in Orders : p # o => st'[p] = st[p]
             /\ \A p \in Orders : exec[p] <= exec'[p]
             /\ \A i \in 1..Len(log') : log'[i].order \in asked
    <2>1. o \in asked
        BY <1>0, <1>3 DEF Trade, AskedInv
    <2>2. PICK cum \in (exec[o] + 1)..Qty :
            /\ exec' = [exec EXCEPT ![o] = cum]
            /\ st' = [st EXCEPT ![o] = IF cum = Qty THEN "FILLED" ELSE "live"]
            /\ log' = Append(log, Event(o, "fill", cum, IF cum = Qty THEN "FILLED" ELSE "PARTIALLY_FILLED", fee))
        BY <1>3 DEF Trade
    <2>3. Event(o, "fill", cum, IF cum = Qty THEN "FILLED" ELSE "PARTIALLY_FILLED", fee) \in Events
        BY <1>0 DEF Event, Events, EventTerminal, WalletTerminal
    <2>4. \A i \in 1..Len(log') : log'[i].order \in asked
        BY <2>1, <2>2, <2>3, <1>2 DEF Event
    <2>5. \A p \in Orders : exec[p] <= exec'[p]
        BY <1>0, <2>2
    <2> QED
        BY <1>0, <2>1, <2>2, <2>4, <2>5
<1>4. CASE End(o)
    <2>1. o \in asked
        BY <1>0, <1>4 DEF End, AskedInv
    <2>2. Event(o, "state", exec[o], "CANCELED", TRUE) \in Events
        BY <1>0 DEF Event, Events, EventTerminal, WalletTerminal
    <2>3. \A i \in 1..Len(log') : log'[i].order \in asked
        BY <1>4, <2>1, <2>2, <1>2 DEF End, Event
    <2> QED
        BY <1>0, <1>4, <2>1, <2>3 DEF End
<1>5. CASE FeeKnown(o)
    <2>1. o \in asked /\ st[o] \in {"live", "FILLED", "CANCELED"}
        BY <1>0, <1>5 DEF FeeKnown, AskedInv, Ended
    <2>2. Event(o, "fill", exec[o], IF st[o] = "live" THEN "PARTIALLY_FILLED" ELSE st[o], TRUE) \in Events
        BY <1>0, <2>1 DEF Event, Events, EventTerminal, WalletTerminal
    <2>3. \A i \in 1..Len(log') : log'[i].order \in asked
        BY <1>5, <2>1, <2>2, <1>2 DEF FeeKnown, Event
    <2> QED
        BY <1>0, <1>5, <2>1, <2>3 DEF FeeKnown
<1>6. CASE RecoveryExpires(o)
    <2>1. o \in asked
        BY <1>0, <1>6 DEF RecoveryExpires, AskedInv
    <2>2. Event(o, "state", 0, "RECOVERY_EXPIRED", TRUE) \in Events
        BY <1>0 DEF Event, Events, EventTerminal, WalletTerminal
    <2>3. \A i \in 1..Len(log') : log'[i].order \in asked
        BY <1>6, <2>1, <2>2, <1>2 DEF RecoveryExpires, Event
    <2> QED
        BY <1>0, <1>6, <2>1, <2>3 DEF RecoveryExpires
<1> QED
    BY <1>1, <1>3, <1>4, <1>5, <1>6 DEF Exchange, Trade

LEMMA NextCountInv == TypeInv /\ TypeInv' /\ CountInv /\ [Next]_vars => CountInv'
<1> SUFFICES ASSUME TypeInv, TypeInv', CountInv, [Next]_vars PROVE CountInv'
    OBVIOUS
<1>0. /\ exec \in [Orders -> 0..Qty] /\ exec' \in [Orders -> 0..Qty]
      /\ settled \in [Orders -> 0..Qty] /\ Qty \in Nat
      /\ wallet \in [Orders -> [qty : Nat, open : BOOLEAN, exec : 0..Qty]]
      /\ left \subseteq 1..Qty /\ asked \subseteq Orders
      /\ cums \in [Orders -> SUBSET (1..Qty)]
      /\ log \in Seq(Events) /\ Len(log) \in Nat
      /\ phase # "idle" => cur \in asked
    <2>1. log \in Seq(Events)
        BY DEF TypeInv, TypeOK
    <2>2. Len(log) \in Nat
        BY <2>1
    <2>3. exec' \in [Orders -> 0..Qty]
        BY DEF TypeInv, TypeOK
    <2>4. phase # "idle" => cur \in asked
        BY DEF TypeInv, CallInv
    <2> QED
        BY <2>1, <2>2, <2>3, <2>4, SettlementAssumption DEF TypeInv, TypeOK
<1>1. ASSUME NEW o \in Orders, Exchange(o) PROVE CountInv'
    <2>1. /\ o \in asked
          /\ \A p \in Orders : p # o => st'[p] = st[p]
          /\ \A p \in Orders : exec[p] <= exec'[p]
          /\ \A i \in 1..Len(log') : log'[i].order \in asked
          /\ UNCHANGED <<callVars, ledgerVars, historyVars>>
        BY <1>1, ExchangeStep DEF CountInv
    <2>2. UNCHANGED <<asked, phase, cur, left, final, settled, wallet, unresolved, split, reopened>>
        BY <2>1 DEF callVars, ledgerVars, historyVars
    <2>3. AskedInv'
        BY <2>1, <2>2 DEF CountInv, AskedInv, Fresh
    <2>4. SettleInv' /\ OpenIsPartial'
        BY <2>2 DEF CountInv, SettleInv, OpenIsPartial, Fresh, Regular
    <2>5. \A p \in Orders : settled'[p] <= exec'[p]
        BY <1>0, <2>1, <2>2 DEF CountInv
    <2>6. CountedOnce'
        BY <1>0, <2>1, <2>2 DEF CountInv, CountedOnce, Regular
    <2> QED
        BY <2>3, <2>4, <2>5, <2>6 DEF CountInv
<1>2. ASSUME NEW o \in Orders, PlaceOrder(o) PROVE CountInv'
    BY <1>0, <1>2 DEF PlaceOrder, exchangeVars, ledgerVars, historyVars, CountInv, AskedInv, SettleInv, OpenIsPartial, CountedOnce, Fresh, Regular
<1>3. ASSUME AnswerFailed \/ AnswerUnknown \/ AnswerPending \/ AnswerNoFill PROVE CountInv'
    <2>1. /\ phase = "sent" /\ phase' = "idle" /\ cur \in asked
          /\ UNCHANGED <<asked, exec, log, settled, wallet, split, reopened>>
          /\ unresolved' \subseteq unresolved \cup {cur}
          /\ \A p \in Orders : p # cur => st'[p] = st[p]
        <3>1. st \in [Orders -> {"none", "live"} \cup Ended]
            BY DEF TypeInv, TypeOK
        <3>2. CASE AnswerFailed
            BY <1>0, <3>1, <3>2 DEF AnswerFailed, Return, historyVars
        <3>3. CASE AnswerUnknown \/ AnswerPending
            BY <1>0, <3>3 DEF AnswerUnknown, AnswerPending, Return, exchangeVars
        <3>4. CASE AnswerNoFill
            BY <1>0, <3>4 DEF AnswerNoFill, Return, exchangeVars, historyVars
        <3> QED
            BY <1>3, <3>2, <3>3, <3>4
    <2> QED
        BY <1>0, <2>1 DEF CountInv, AskedInv, SettleInv, OpenIsPartial, CountedOnce, Fresh, Regular
<1>4. CASE AnswerFills
    <2>1. PICK last \in cums[cur] :
            /\ left' = {c \in cums[cur] : c <= last}
            /\ split' = IF st[cur] = "CANCELED" /\ left' # {last} THEN split \cup {cur} ELSE split
        BY <1>4 DEF AnswerFills
    <2>2. /\ phase = "sent" /\ phase' = "settle" /\ cur' = cur /\ cur \in asked /\ cur \in Orders
          /\ UNCHANGED <<asked, st, exec, log, settled, wallet, unresolved, reopened>>
          /\ final' = IF st[cur] = "live" THEN "PARTIALLY_FILLED" ELSE st[cur]
        BY <1>0, <1>4 DEF AnswerFills, exchangeVars
    <2>3. Fresh(cur)
        BY <2>2 DEF CountInv, AskedInv
    <2>4. ASSUME final' = "PARTIALLY_FILLED" PROVE \A c \in left' : c < Qty
        <3>1. st[cur] = "live"
            BY <2>2, <2>4 DEF TypeInv, TypeOK, Ended
        <3>2. exec[cur] < Qty /\ cums[cur] \subseteq 1..exec[cur]
            BY <2>2, <3>1 DEF TypeInv, ExchangeInv
        <3> QED
            BY <1>0, <2>1, <2>2, <3>2
    <2>5. ASSUME final' = "CANCELED", cur \notin split' PROVE \A c, d \in left' : c = d
        <3>1. st[cur] = "CANCELED"
            BY <2>2, <2>5
        <3>2. left' = {last}
            BY <2>1, <2>5, <3>1
        <3> QED
            BY <3>2
    <2>6. SettleInv'
        BY <2>2, <2>3, <2>4, <2>5 DEF SettleInv, Fresh
    <2>7. AskedInv'
        BY <2>2 DEF CountInv, AskedInv, Fresh
    <2>8. split \subseteq split'
        BY <2>1
    <2> QED
        BY <2>2, <2>6, <2>7, <2>8 DEF CountInv, OpenIsPartial, CountedOnce, Regular
<1>5. CASE SettleFill
    <2>1. PICK cum \in left :
            /\ \A c \in left : cum <= c
            /\ wallet' = [wallet EXCEPT ![cur] = OnOrder(@, cum, FillStatus(cum), Qty - cum)]
            /\ settled' = [settled EXCEPT ![cur] = Record(@, cum)]
            /\ left' = left \ {cum}
            /\ IF left = {cum} THEN phase' = "idle" /\ cur' = NoOrder /\ final' = "none"
                               ELSE UNCHANGED <<phase, cur, final>>
        BY <1>5 DEF SettleFill
    <2>2. /\ phase = "settle" /\ cur \in Orders /\ cur \in asked
          /\ UNCHANGED <<asked, st, exec, log, unresolved, split, reopened>>
        BY <1>0, <1>5 DEF SettleFill, exchangeVars, historyVars
    <2>3. cum \in 1..Qty /\ cum <= exec[cur] /\ exec[cur] \in 0..Qty /\ settled[cur] \in 0..Qty
        <3>1. left \subseteq 1..exec[cur]
            BY <2>2 DEF TypeInv, CallInv
        <3> QED
            BY <1>0, <2>1, <2>2, <3>1
    <2> DEFINE w == wallet[cur]
    <2>4. w.qty \in Nat /\ w.open \in BOOLEAN /\ w.exec \in 0..Qty
        BY <1>0, <2>2
    <2>5. settled[cur] < cum /\ settled'[cur] = cum
        <3>1. settled[cur] < cum
            BY <2>1, <2>2, <2>3 DEF CountInv, SettleInv, Fresh
        <3> QED
            BY <1>0, <2>1, <2>2, <3>1 DEF Record
    <2>6. \A p \in Orders : p # cur => settled'[p] = settled[p] /\ wallet'[p] = wallet[p]
        BY <1>0, <2>1
    <2>7. wallet'[cur] = OnOrder(w, cum, FillStatus(cum), Qty - cum)
        BY <1>0, <2>1, <2>2
    <2>8. cur \in Regular => wallet'[cur].qty = cum
        <3> SUFFICES ASSUME cur \in Regular PROVE wallet'[cur].qty = cum
            OBVIOUS
        <3>1. w.qty = settled[cur] /\ (w.open => w.exec = settled[cur]) /\ (~w.open => settled[cur] = 0)
            BY <2>2 DEF CountInv, CountedOnce, OpenIsPartial, SettleInv, Fresh
        <3> HIDE DEF w
        <3>2. OnOrder(w, cum, FillStatus(cum), Qty - cum).qty = cum
            BY <2>3, <2>4, <2>5, <3>1 DEF OnOrder
        <3> QED
            BY <2>7, <3>2
    <2>9. wallet'[cur].open => wallet'[cur].exec = cum /\ cum < Qty
        <3> HIDE DEF w
        <3> QED
            BY <1>0, <2>3, <2>7, OnOrderOpens
    <2>10. ASSUME phase' = "settle"
           PROVE  /\ \A c \in left' : settled'[cur] < c
                  /\ cur \in Regular => wallet'[cur].open /\ final # "CANCELED"
        <3>1. cur' = cur /\ final' = final /\ left # {cum}
            BY <2>1, <2>10
        <3>2. \A c \in left' : cum < c
            BY <1>0, <2>1, <2>3
        <3>3. PICK d \in left : d # cum
            BY <2>1, <3>1
        <3>4. d \in 1..Qty /\ cum < d
            BY <1>0, <2>1, <2>3, <3>3
        <3>5. cur \in Regular => final # "CANCELED"
            BY <2>1, <2>2, <3>3 DEF CountInv, SettleInv, Regular
        <3>6. final \in {"none", "PARTIALLY_FILLED", "FILLED", "CANCELED"}
            BY DEF TypeInv, TypeOK, WalletTerminal
        <3>7. cur \in Regular => wallet'[cur].open
            <4> SUFFICES ASSUME cur \in Regular PROVE wallet'[cur].open
                OBVIOUS
            <4>1. FillStatus(cum) \notin WalletTerminal
                BY <3>1, <3>5, <3>6 DEF FillStatus, WalletTerminal
            <4>2. Qty - cum # 0
                BY <1>0, <2>3, <3>4
            <4> HIDE DEF w
            <4> QED
                BY <2>7, <4>1, <4>2, OnOrderOpens
        <3> QED
            BY <2>5, <3>2, <3>5, <3>7
    <2>11. SettleInv'
        <3> SUFFICES ASSUME phase' = "settle" PROVE SettleInv'
            BY DEF SettleInv
        <3>1. cur' = cur /\ final' = final /\ left' \subseteq left
            BY <2>1
        <3> QED
            BY <2>2, <2>10, <3>1 DEF CountInv, SettleInv, Regular
    <2>12. AskedInv'
        <3>1. phase' # "sent"
            BY <2>1, <2>2
        <3> QED
            BY <2>2, <2>6, <3>1 DEF CountInv, AskedInv, Fresh
    <2>13. CountedOnce' /\ \A p \in Orders : settled'[p] <= exec'[p]
        BY <2>2, <2>3, <2>5, <2>6, <2>8 DEF CountInv, CountedOnce, Regular
    <2>14. OpenIsPartial'
        BY <2>2, <2>3, <2>5, <2>6, <2>9 DEF CountInv, OpenIsPartial, Regular
    <2> QED
        BY <2>11, <2>12, <2>13, <2>14 DEF CountInv
<1>6. ASSUME NEW i \in 1..Len(log), SkipUpdate(i) PROVE CountInv'
    <2>1. /\ phase = "idle" /\ UNCHANGED <<asked, phase, cur, st, exec, log, settled, wallet, split, reopened>>
          /\ unresolved' \subseteq unresolved
        BY <1>6 DEF SkipUpdate, Deliverable, UnblockOn, exchangeVars, callVars
    <2> QED
        BY <2>1 DEF CountInv, AskedInv, SettleInv, OpenIsPartial, CountedOnce, Fresh, Regular
<1>7. ASSUME NEW i \in 1..Len(log), ApplyUpdate(i) PROVE CountInv'
    <2> DEFINE e == log[i]
    <2> DEFINE o == log[i].order
    <2> DEFINE w == wallet[o]
    <2>1. e \in Events
        BY <1>0
    <2>2. o \in Orders /\ e.cum \in 0..Qty
        BY <2>1 DEF Events
    <2>3. /\ phase = "idle" /\ UNCHANGED <<asked, phase, cur, st, exec, log, split>>
          /\ unresolved' \subseteq unresolved /\ e.cum > settled[o]
          /\ wallet' = [wallet EXCEPT ![o] = OnOrder(@, Adjusted(e), e.st, Qty - e.cum)]
          /\ settled' = [settled EXCEPT ![o] = Record(@, e.cum)]
          /\ reopened' = IF Adjusted(e) # e.cum /\ wallet'[o].open THEN reopened \cup {o} ELSE reopened
        <3>1. e.cum > settled[o]
            BY <1>0, <1>7, <2>2 DEF ApplyUpdate, Skips
        <3> QED
            BY <1>7, <3>1 DEF ApplyUpdate, Deliverable, UnblockOn, exchangeVars, callVars
    <2>4. e.cum <= exec[o] /\ o \in asked
        BY DEF TypeInv, ExchangeInv, CountInv, AskedInv
    <2>5. settled'[o] = e.cum /\ settled[o] \in 0..Qty /\ exec[o] \in 0..Qty
        <3> HIDE DEF o, e
        <3> QED
            BY <1>0, <2>2, <2>3 DEF Record
    <2>6. \A p \in Orders : p # o => settled'[p] = settled[p] /\ wallet'[p] = wallet[p]
        BY <1>0, <2>3
    <2>7. wallet'[o] = OnOrder(w, Adjusted(e), e.st, Qty - e.cum)
        BY <1>0, <2>2, <2>3
    <2>8. w.qty \in Nat /\ w.open \in BOOLEAN /\ w.exec \in 0..Qty
        BY <1>0, <2>2
    <2>9. Adjusted(e) = IF settled[o] > 0 /\ ~w.open THEN e.cum - settled[o] ELSE e.cum
        BY DEF Adjusted
    <2>10. o \in Regular => wallet'[o].qty = e.cum
        <3> SUFFICES ASSUME o \in Regular PROVE wallet'[o].qty = e.cum
            OBVIOUS
        <3>1. w.qty = settled[o] /\ (w.open => w.exec = settled[o])
            BY <2>2 DEF CountInv, CountedOnce, OpenIsPartial
        <3> HIDE DEF w, o, e
        <3>2. OnOrder(w, Adjusted(e), e.st, Qty - e.cum).qty = e.cum
            BY <2>2, <2>3, <2>5, <2>8, <2>9, <3>1 DEF OnOrder
        <3> QED
            BY <2>7, <3>2
    <2>11. wallet'[o].open => wallet'[o].exec = Adjusted(e) /\ e.cum < Qty
        <3> HIDE DEF w, o, e
        <3> QED
            BY <1>0, <2>2, <2>7, OnOrderOpens
    <2>12. o \in Regular' => o \in Regular /\ (wallet'[o].open => wallet'[o].exec = e.cum)
        BY <2>3, <2>11 DEF Regular
    <2>13. \A p \in Orders : p # o /\ p \in Regular' => p \in Regular
        BY <2>3 DEF Regular
    <2> HIDE DEF w, o, e
    <2>14. CountedOnce' /\ \A p \in Orders : settled'[p] <= exec'[p]
        <3>1. ASSUME NEW p \in Orders PROVE settled'[p] <= exec'[p] /\ (p \in Regular' => wallet'[p].qty = settled'[p])
            <4>1. CASE p = o
                BY <2>2, <2>3, <2>4, <2>5, <2>10, <2>12, <4>1
            <4>2. CASE p # o
                BY <2>3, <2>6, <2>13, <4>2 DEF CountInv, CountedOnce
            <4> QED
                BY <4>1, <4>2
        <3> QED
            BY <3>1 DEF CountedOnce, Regular
    <2>15. OpenIsPartial'
        <3>1. ASSUME NEW p \in Orders, p \in Regular', wallet'[p].open
              PROVE  wallet'[p].exec = settled'[p] /\ 0 < settled'[p] /\ settled'[p] < Qty
            <4>1. CASE p = o
                BY <1>0, <2>2, <2>3, <2>5, <2>11, <2>12, <3>1, <4>1
            <4>2. CASE p # o
                BY <2>6, <2>13, <3>1, <4>2 DEF CountInv, OpenIsPartial
            <4> QED
                BY <4>1, <4>2
        <3> QED
            BY <3>1 DEF OpenIsPartial, Regular
    <2>16. AskedInv'
        BY <2>2, <2>3, <2>4, <2>6 DEF CountInv, AskedInv, Fresh
    <2>17. SettleInv'
        BY <2>3 DEF SettleInv
    <2> QED
        BY <2>14, <2>15, <2>16, <2>17 DEF CountInv
<1>15. CASE UNCHANGED vars
    BY <1>15 DEF vars, exchangeVars, callVars, ledgerVars, historyVars, CountInv, AskedInv, SettleInv, OpenIsPartial, CountedOnce, Fresh, Regular
<1> QED
    BY <1>1, <1>2, <1>3, <1>4, <1>5, <1>6, <1>7, <1>15 DEF Next, Answer, HandleUpdate

\* Whatever is delivered, repeated, reordered or lost, an execution reaches
\* the wallet once: handle_order_update and _execute_prepared_order agree.
THEOREM ExecutionsCountOnce == Spec => []CountedOnce
<1>1. Spec => [](TypeInv /\ CountInv)
    BY InitTypeInv, NextTypeInv, InitCountInv, NextCountInv, PTL DEF Spec
<1> QED
    BY <1>1, PTL DEF CountInv

\* An order open in the wallet is partly executed, and the next event is
\* measured against the quantity it settled.
THEOREM OpenOrdersArePartial == Spec => []OpenIsPartial
<1>1. Spec => [](TypeInv /\ CountInv)
    BY InitTypeInv, NextTypeInv, InitCountInv, NextCountInv, PTL DEF Spec
<1> QED
    BY <1>1, PTL DEF CountInv

-----------------------------------------------------------------------------
(* Nothing left out *)

\* An event of order o that the worker has still to handle and that takes
\* the wallet to the executed quantity.
Outstanding(o, i) ==
    /\ i > cursor
    /\ log[i].order = o /\ Settleable(log[i]) /\ log[i].cum = exec[o]

PendInv ==
    InOrder => \A o \in Orders :
        ~feeLate[o] /\ settled[o] < exec[o]
            => \E i \in 1..Len(log) : Outstanding(o, i)

LEMMA InitPendInv == Init => PendInv
BY SettlementAssumption DEF Init, PendInv

\* Events that are outstanding stay so while the log grows and the order is
\* not executed further.
LEMMA OutstandingStays ==
    ASSUME TypeInv, NEW e \in Events, log' = Append(log, e), UNCHANGED cursor,
           NEW o \in Orders, exec'[o] = exec[o],
           \E i \in 1..Len(log) : Outstanding(o, i)
    PROVE  \E i \in 1..Len(log') : Outstanding(o, i)'
<1>1. log \in Seq(Events)
    BY DEF TypeInv, TypeOK
<1>2. /\ Len(log') = Len(log) + 1 /\ Len(log) \in Nat
      /\ \A i \in 1..Len(log) : log'[i] = log[i]
    BY <1>1, AppendLog
<1>3. PICK i \in 1..Len(log) : Outstanding(o, i)
    OBVIOUS
<1>4. i \in 1..Len(log') /\ log'[i] = log[i]
    BY <1>2
<1>5. Outstanding(o, i)'
    BY <1>3, <1>4 DEF Outstanding, Settleable
<1> QED
    BY <1>4, <1>5

LEMMA NextPendInv == TypeInv /\ TypeInv' /\ PendInv /\ [Next]_vars => PendInv'
<1> SUFFICES ASSUME TypeInv, TypeInv', PendInv, [Next]_vars, InOrder,
                    NEW o \in Orders, ~feeLate'[o], settled'[o] < exec'[o]
             PROVE  \E i \in 1..Len(log') : Outstanding(o, i)'
    BY DEF PendInv
<1>0. /\ log \in Seq(Events) /\ Len(log) \in Nat /\ cursor \in 0..Len(log)
      /\ exec \in [Orders -> 0..Qty] /\ settled \in [Orders -> 0..Qty] /\ Qty \in Nat
      /\ feeLate \in [Orders -> BOOLEAN]
      /\ st \in [Orders -> {"none", "live"} \cup Ended]
    <2>1. log \in Seq(Events) /\ cursor \in 0..Len(log)
        BY DEF TypeInv, TypeOK
    <2>2. Len(log) \in Nat
        BY <2>1
    <2> QED
        BY <2>1, <2>2, SettlementAssumption DEF TypeInv, TypeOK
<1>1. ASSUME UNCHANGED <<log, cursor, exec, feeLate>>, settled'[o] >= settled[o]
      PROVE  \E i \in 1..Len(log') : Outstanding(o, i)'
    <2>1. settled[o] < exec[o]
        <3>1. settled[o] \in Int /\ exec[o] \in Int /\ settled'[o] \in Int
            BY <1>0 DEF TypeInv, TypeOK
        <3> QED
            BY <1>1, <3>1
    <2>2. PICK i \in 1..Len(log) : Outstanding(o, i)
        BY <1>1, <2>1 DEF PendInv
    <2> QED
        BY <1>1, <2>2 DEF Outstanding, Settleable
<1>2. ASSUME UNCHANGED <<log, cursor, exec, feeLate, settled>>
      PROVE  \E i \in 1..Len(log') : Outstanding(o, i)'
    BY <1>0, <1>1, <1>2
<1>3. ASSUME NEW p \in Orders, NEW fee \in BOOLEAN, Trade(p, fee)
      PROVE  \E i \in 1..Len(log') : Outstanding(o, i)'
    <2>1. PICK cum \in (exec[p] + 1)..Qty :
            /\ exec' = [exec EXCEPT ![p] = cum]
            /\ feeLate' = [feeLate EXCEPT ![p] = @ \/ ~fee]
            /\ log' = Append(log, Event(p, "fill", cum, IF cum = Qty THEN "FILLED" ELSE "PARTIALLY_FILLED", fee))
        BY <1>3 DEF Trade
    <2>2. cursor' = cursor /\ settled' = settled
        BY <1>3 DEF Trade, ledgerVars
    <2> DEFINE e == Event(p, "fill", cum, IF cum = Qty THEN "FILLED" ELSE "PARTIALLY_FILLED", fee)
    <2>3. e \in Events
        BY <1>0 DEF Event, Events, EventTerminal, WalletTerminal
    <2>4. CASE p = o
        <3>1. fee
            BY <1>0, <2>1, <2>4
        <3>2. PICK n \in Nat : n = Len(log) + 1
            BY <1>0
        <3>3. n \in 1..Len(log') /\ n > cursor /\ log'[n] = e
            BY <1>0, <2>1, <2>3, <3>2, AppendLog
        <3>4. exec'[o] = cum
            BY <1>0, <2>1, <2>4
        <3>5. Outstanding(o, n)'
            BY <2>2, <2>4, <3>1, <3>3, <3>4 DEF Outstanding, Settleable, Event
        <3> QED
            BY <3>3, <3>5
    <2>5. CASE p # o
        <3>1. exec'[o] = exec[o] /\ ~feeLate[o] /\ settled[o] < exec[o]
            BY <1>0, <2>1, <2>2, <2>5
        <3>2. \E i \in 1..Len(log) : Outstanding(o, i)
            BY <3>1 DEF PendInv
        <3> HIDE DEF e
        <3>3. log' = Append(log, e)
            BY <2>1 DEF e
        <3> QED
            BY <2>2, <2>3, <3>1, <3>2, <3>3, OutstandingStays
    <2> QED
        BY <2>4, <2>5
<1>4. ASSUME NEW p \in Orders, FeeKnown(p)
      PROVE  \E i \in 1..Len(log') : Outstanding(o, i)'
    <2> DEFINE e == Event(p, "fill", exec[p], IF st[p] = "live" THEN "PARTIALLY_FILLED" ELSE st[p], TRUE)
    <2>1. /\ feeLate' = [feeLate EXCEPT ![p] = FALSE]
          /\ log' = Append(log, e) /\ UNCHANGED <<exec, cursor, settled>>
        BY <1>4 DEF FeeKnown, ledgerVars
    <2>2. st[p] \in {"live", "FILLED", "CANCELED"}
        <3>1. exec[p] > 0 /\ (exec[p] > 0 => st[p] \notin {"none", "dead"})
            BY <1>4 DEF FeeKnown, TypeInv, ExchangeInv
        <3> QED
            BY <1>0, <3>1 DEF Ended
    <2>3. e \in Events
        BY <1>0, <2>2 DEF Event, Events, EventTerminal, WalletTerminal
    <2>4. CASE p = o
        <3>2. PICK n \in Nat : n = Len(log) + 1
            BY <1>0
        <3>3. n \in 1..Len(log') /\ n > cursor /\ log'[n] = e
            <4> HIDE DEF e
            <4> QED
                BY <1>0, <2>1, <2>3, <3>2, AppendLog
        <3>4. e.order = p /\ e.kind = "fill" /\ e.fee /\ e.cum = exec[p]
            BY DEF Event
        <3>5. Outstanding(o, n)'
            <4> HIDE DEF e
            <4> QED
                BY <2>1, <2>4, <3>3, <3>4 DEF Outstanding, Settleable
        <3> QED
            BY <3>3, <3>5
    <2>5. CASE p # o
        <3>1. exec'[o] = exec[o] /\ ~feeLate[o] /\ settled[o] < exec[o]
            BY <1>0, <2>1, <2>5
        <3>2. \E i \in 1..Len(log) : Outstanding(o, i)
            BY <3>1 DEF PendInv
        <3> HIDE DEF e
        <3> QED
            BY <2>1, <2>3, <3>1, <3>2, OutstandingStays
    <2> QED
        BY <2>4, <2>5
<1>5. ASSUME NEW p \in Orders, End(p) \/ RecoveryExpires(p)
      PROVE  \E i \in 1..Len(log') : Outstanding(o, i)'
    <2>1. PICK e \in Events : log' = Append(log, e)
        <3>1. /\ Event(p, "state", exec[p], "CANCELED", TRUE) \in Events
              /\ Event(p, "state", 0, "RECOVERY_EXPIRED", TRUE) \in Events
            BY <1>0 DEF Event, Events, EventTerminal, WalletTerminal
        <3> QED
            BY <1>5, <3>1 DEF End, RecoveryExpires
    <2>2. UNCHANGED <<exec, cursor, settled, feeLate>>
        BY <1>5 DEF End, RecoveryExpires, ledgerVars
    <2>3. \E i \in 1..Len(log) : Outstanding(o, i)
        BY <2>2 DEF PendInv
    <2> QED
        BY <2>1, <2>2, <2>3, OutstandingStays
<1>6. CASE SettleFill
    <2>1. UNCHANGED <<log, cursor, exec, feeLate>>
        BY <1>6 DEF SettleFill, exchangeVars
    <2>2. settled'[o] >= settled[o]
        <3>1. PICK cum \in left : settled' = [settled EXCEPT ![cur] = Record(@, cum)]
            BY <1>6 DEF SettleFill
        <3>2. cum \in Nat /\ settled[o] \in Nat
            BY <1>0, <3>1 DEF TypeInv, TypeOK
        <3> QED
            BY <1>0, <3>1, <3>2 DEF Record
    <2> QED
        BY <1>1, <2>1, <2>2
<1>7. ASSUME NEW i \in 1..Len(log), SkipUpdate(i) \/ ApplyUpdate(i)
      PROVE  \E j \in 1..Len(log') : Outstanding(o, j)'
    <2>1. /\ i = cursor + 1 /\ cursor' = i /\ UNCHANGED <<log, exec, feeLate>>
        BY <1>7 DEF SkipUpdate, ApplyUpdate, Deliverable, exchangeVars
    <2>2. log[i] \in Events /\ log[i].order \in Orders /\ log[i].cum \in 0..Qty
        <3>1. log[i] \in Events
            BY <1>0
        <3> QED
            BY <3>1 DEF Events
    <2>3. settled[o] <= settled'[o] /\ settled'[o] \in 0..Qty
        <3>1. settled' \in [Orders -> 0..Qty]
            BY DEF TypeInv, TypeOK
        <3>2. CASE SkipUpdate(i)
            BY <1>0, <3>2 DEF SkipUpdate
        <3>3. CASE ApplyUpdate(i)
            <4>1. settled' = [settled EXCEPT ![log[i].order] = Record(@, log[i].cum)]
                BY <3>3 DEF ApplyUpdate
            <4> DEFINE p == log[i].order  c == log[i].cum
            <4> HIDE DEF p, c
            <4>2. settled' = [settled EXCEPT ![p] = Record(@, c)] /\ c \in 0..Qty
                BY <2>2, <4>1 DEF p, c
            <4> QED
                BY <1>0, <4>2 DEF Record
        <3> QED
            BY <1>7, <3>1, <3>2, <3>3
    <2>4. ~feeLate[o] /\ settled[o] < exec[o]
        BY <1>0, <2>1, <2>3
    <2>5. PICK j \in 1..Len(log) : Outstanding(o, j)
        BY <2>4 DEF PendInv
    <2>6. j # i
        <3> SUFFICES ASSUME j = i PROVE FALSE
            OBVIOUS
        <3>1. log[i].order = o /\ Settleable(log[i]) /\ log[i].cum = exec[o]
            BY <2>5 DEF Outstanding
        <3>2. ~Skips(log[i])
            BY <1>0, <2>4, <3>1 DEF Skips
        <3>3. settled' = [settled EXCEPT ![o] = Record(@, exec[o])]
            BY <1>7, <3>1, <3>2 DEF SkipUpdate, ApplyUpdate
        <3>4. settled'[o] = exec[o]
            BY <1>0, <2>4, <3>3 DEF Record
        <3> QED
            BY <1>0, <2>1, <3>4
    <2>7. j > cursor'
        BY <1>0, <2>1, <2>5, <2>6 DEF Outstanding
    <2> QED
        BY <2>1, <2>5, <2>7 DEF Outstanding, Settleable
<1>8. CASE AnswerFailed \/ AnswerUnknown \/ AnswerPending \/ AnswerNoFill \/ AnswerFills
    <2>1. UNCHANGED <<log, cursor, exec, feeLate, settled>>
        BY <1>8 DEF AnswerFailed, AnswerUnknown, AnswerPending, AnswerNoFill, AnswerFills, exchangeVars
    <2> QED
        BY <1>2, <2>1
<1>9. ASSUME NEW p \in Orders, Accept(p) \/ PlaceOrder(p)
      PROVE  \E i \in 1..Len(log') : Outstanding(o, i)'
    BY <1>2, <1>9 DEF Accept, PlaceOrder, exchangeVars, ledgerVars
<1>10. CASE UNCHANGED vars
    BY <1>2, <1>10 DEF vars, exchangeVars, ledgerVars
<1> QED
    BY <1>3, <1>4, <1>5, <1>6, <1>7, <1>8, <1>9, <1>10 DEF Next, Exchange, Answer, HandleUpdate

\* When all events were handled in order, the wallet holds every execution
\* whose fee is known: no path of handle_order_update loses one.
THEOREM NothingLeftOut == Spec => []QuietIsSettled
<1>1. Spec => [](TypeInv /\ CountInv /\ PendInv)
    BY InitTypeInv, NextTypeInv, InitCountInv, NextCountInv, InitPendInv, NextPendInv, PTL DEF Spec
<1>2. TypeInv /\ CountInv /\ PendInv => QuietIsSettled
    <2> SUFFICES ASSUME TypeInv, CountInv, PendInv, InOrder, cursor = Len(log),
                        NEW o \in Regular, ~feeLate[o]
                 PROVE  wallet[o].qty = exec[o]
        BY DEF QuietIsSettled
    <2>1. o \in Orders /\ log \in Seq(Events) /\ exec[o] \in 0..Qty /\ settled[o] \in 0..Qty /\ Qty \in Nat
        BY SettlementAssumption DEF Regular, TypeInv, TypeOK
    <2>2. Len(log) \in Nat
        BY <2>1
    <2>3. ~\E i \in 1..Len(log) : Outstanding(o, i)
        BY <2>2 DEF Outstanding
    <2>4. ~(settled[o] < exec[o])
        BY <2>1, <2>3 DEF PendInv
    <2>5. wallet[o].qty = settled[o] /\ wallet[o].qty <= exec[o]
        BY DEF CountInv, CountedOnce
    <2> QED
        BY <2>1, <2>4, <2>5
<1> QED
    BY <1>1, <1>2, PTL

-----------------------------------------------------------------------------
(* Blocked keys *)

\* Orders whose end the worker has to hear of.
Waiting(o) == o \in unresolved \/ (phase = "sent" /\ o = cur)

\* An event still to be handled that ends order o.
Ending(o, i) == i > cursor /\ log[i].order = o /\ log[i].st \in EventTerminal

BlockInv ==
    /\ phase # "idle" => cur \notin unresolved
    /\ \A k \in blocked : \E o \in unresolved : KeyOf[o] = k
    /\ InOrder => \A o \in Orders :
        Waiting(o) /\ st[o] \in Ended => \E i \in 1..Len(log) : Ending(o, i)

LEMMA InitBlockInv == Init => BlockInv
BY DEF Init, BlockInv, Waiting

LEMMA EndingStays ==
    ASSUME TypeInv, NEW e \in Events, log' = Append(log, e), UNCHANGED cursor,
           NEW o \in Orders, \E i \in 1..Len(log) : Ending(o, i)
    PROVE  \E i \in 1..Len(log') : Ending(o, i)'
<1>1. log \in Seq(Events)
    BY DEF TypeInv, TypeOK
<1>2. /\ Len(log') = Len(log) + 1 /\ Len(log) \in Nat
      /\ \A i \in 1..Len(log) : log'[i] = log[i]
    BY <1>1, AppendLog
<1>3. PICK i \in 1..Len(log) : Ending(o, i)
    OBVIOUS
<1>4. i \in 1..Len(log') /\ log'[i] = log[i]
    BY <1>2
<1>5. Ending(o, i)'
    BY <1>3, <1>4 DEF Ending
<1> QED
    BY <1>4, <1>5

\* A terminal event at the end of the log is one to be handled.
LEMMA EndingAppended ==
    ASSUME TypeInv, NEW e \in Events, log' = Append(log, e), UNCHANGED cursor,
           e.st \in EventTerminal
    PROVE  \E i \in 1..Len(log') : Ending(e.order, i)'
<1>1. log \in Seq(Events) /\ cursor \in 0..Len(log)
    BY DEF TypeInv, TypeOK
<1>2. Len(log) \in Nat
    BY <1>1
<1>3. PICK n \in Nat : n = Len(log) + 1
    BY <1>2
<1>4. n \in 1..Len(log') /\ n > cursor /\ log'[n] = e
    BY <1>1, <1>2, <1>3, AppendLog
<1>5. Ending(e.order, n)'
    BY <1>4 DEF Ending
<1> QED
    BY <1>4, <1>5

\* A step of the exchange keeps the invariant: it ends an order only
\* together with the event that says so.
LEMMA ExchangeBlockInv ==
    ASSUME TypeInv, TypeInv', AskedInv, BlockInv, NEW p \in Orders, Exchange(p)
    PROVE  BlockInv'
<1>0. /\ exec \in [Orders -> 0..Qty] /\ Qty \in Nat
      /\ st \in [Orders -> {"none", "live"} \cup Ended]
    BY SettlementAssumption DEF TypeInv, TypeOK
<1>1. /\ \A q \in Orders : q # p => st'[q] = st[q]
      /\ UNCHANGED <<phase, cur, blocked, unresolved, cursor>>
    BY ExchangeStep DEF callVars, ledgerVars, historyVars
<1>2. SUFFICES ASSUME InOrder, NEW o \in Orders, Waiting(o), st'[o] \in Ended
               PROVE  \E i \in 1..Len(log') : Ending(o, i)'
    BY <1>1 DEF BlockInv, Waiting
<1>3. ASSUME st[o] \in Ended, NEW e \in Events, log' = Append(log, e)
      PROVE  \E i \in 1..Len(log') : Ending(o, i)'
    <2>1. \E i \in 1..Len(log) : Ending(o, i)
        BY <1>2, <1>3 DEF BlockInv
    <2> QED
        BY <1>1, <1>3, <2>1, EndingStays
<1>4. CASE Accept(p)
    <2>1. log' = log /\ o # p
        BY <1>0, <1>2, <1>4 DEF Accept, Ended
    <2>2. \E i \in 1..Len(log) : Ending(o, i)
        BY <1>1, <1>2, <2>1 DEF BlockInv
    <2> QED
        BY <1>1, <2>1, <2>2 DEF Ending
<1>5. ASSUME NEW fee \in BOOLEAN, Trade(p, fee)
      PROVE  \E i \in 1..Len(log') : Ending(o, i)'
    <2>1. PICK cum \in (exec[p] + 1)..Qty :
            /\ st' = [st EXCEPT ![p] = IF cum = Qty THEN "FILLED" ELSE "live"]
            /\ log' = Append(log, Event(p, "fill", cum, IF cum = Qty THEN "FILLED" ELSE "PARTIALLY_FILLED", fee))
        BY <1>5 DEF Trade
    <2> DEFINE e == Event(p, "fill", cum, IF cum = Qty THEN "FILLED" ELSE "PARTIALLY_FILLED", fee)
    <2>2. e \in Events /\ e.order = p
        BY <1>0 DEF Event, Events, EventTerminal, WalletTerminal
    <2>3. CASE o # p
        BY <1>1, <1>2, <1>3, <2>1, <2>2, <2>3
    <2>4. CASE o = p
        <3>1. cum = Qty
            BY <1>0, <1>2, <2>1, <2>4 DEF Ended
        <3>2. e.st \in EventTerminal
            BY <3>1 DEF Event, EventTerminal, WalletTerminal
        <3> HIDE DEF e
        <3>3. log' = Append(log, e)
            BY <2>1 DEF e
        <3> QED
            BY <1>1, <2>2, <2>4, <3>2, <3>3, EndingAppended
    <2> QED
        BY <2>3, <2>4
<1>6. CASE End(p)
    <2> DEFINE e == Event(p, "state", exec[p], "CANCELED", TRUE)
    <2>1. e \in Events /\ e.order = p /\ e.st \in EventTerminal
        BY <1>0 DEF Event, Events, EventTerminal, WalletTerminal
    <2>2. log' = Append(log, e)
        BY <1>6 DEF End
    <2> HIDE DEF e
    <2> QED
        BY <1>1, <1>2, <1>3, <2>1, <2>2, EndingAppended
<1>7. CASE RecoveryExpires(p)
    <2> DEFINE e == Event(p, "state", 0, "RECOVERY_EXPIRED", TRUE)
    <2>1. e \in Events /\ e.order = p /\ e.st \in EventTerminal
        BY <1>0 DEF Event, Events, EventTerminal, WalletTerminal
    <2>2. log' = Append(log, e)
        BY <1>7 DEF RecoveryExpires
    <2> HIDE DEF e
    <2> QED
        BY <1>1, <1>2, <1>3, <2>1, <2>2, EndingAppended
<1>8. CASE FeeKnown(p)
    <2> DEFINE e == Event(p, "fill", exec[p], IF st[p] = "live" THEN "PARTIALLY_FILLED" ELSE st[p], TRUE)
    <2>1. exec[p] > 0 /\ (exec[p] > 0 => st[p] \notin {"none", "dead"})
        BY <1>8 DEF FeeKnown, TypeInv, ExchangeInv
    <2>2. e \in Events
        BY <1>0, <2>1 DEF Event, Events, EventTerminal, WalletTerminal, Ended
    <2>3. log' = Append(log, e) /\ st' = st
        BY <1>8 DEF FeeKnown
    <2> HIDE DEF e
    <2> QED
        BY <1>2, <1>3, <2>2, <2>3
<1> QED
    BY <1>4, <1>5, <1>6, <1>7, <1>8 DEF Exchange

LEMMA NextBlockInv ==
    TypeInv /\ TypeInv' /\ CountInv /\ BlockInv /\ [Next]_vars => BlockInv'
<1> SUFFICES ASSUME TypeInv, TypeInv', CountInv, BlockInv, [Next]_vars PROVE BlockInv'
    OBVIOUS
<1>0. /\ st \in [Orders -> {"none", "live"} \cup Ended] /\ unresolved \subseteq asked
      /\ asked \subseteq Orders /\ log \in Seq(Events) /\ cursor \in 0..Len(log)
      /\ phase # "idle" => cur \in asked
    BY DEF TypeInv, TypeOK, CallInv, CountInv, AskedInv
<1>1. ASSUME NEW p \in Orders, Exchange(p) PROVE BlockInv'
    BY <1>1, ExchangeBlockInv DEF CountInv
<1>2. ASSUME NEW p \in Orders, PlaceOrder(p) PROVE BlockInv'
    <2>1. /\ p \notin asked /\ phase' = "sent" /\ cur' = p /\ phase = "idle"
          /\ UNCHANGED <<st, log, cursor, blocked, unresolved>>
        BY <1>2 DEF PlaceOrder, exchangeVars, ledgerVars, historyVars
    <2>2. st[p] = "none"
        BY <2>1 DEF CountInv, AskedInv
    <2> QED
        BY <1>0, <2>1, <2>2 DEF BlockInv, Waiting, Ending, Ended
<1>3. CASE AnswerFailed
    BY <1>0, <1>3 DEF AnswerFailed, Return, Unblock, BlockInv, Waiting, Ending, historyVars
<1>4. CASE AnswerUnknown \/ AnswerPending
    BY <1>0, <1>4 DEF AnswerUnknown, AnswerPending, Return, Block, BlockInv, Waiting, Ending, exchangeVars
<1>5. CASE AnswerNoFill
    BY <1>0, <1>5 DEF AnswerNoFill, Return, Unblock, BlockInv, Waiting, Ending, exchangeVars, historyVars
<1>6. CASE AnswerFills
    BY <1>0, <1>6 DEF AnswerFills, Unblock, BlockInv, Waiting, Ending, exchangeVars
<1>7. CASE SettleFill
    <2>1. /\ phase = "settle" /\ (phase' # "idle" => phase' = "settle" /\ cur' = cur)
          /\ UNCHANGED <<st, log, cursor, blocked, unresolved>>
        BY <1>7 DEF SettleFill, exchangeVars, historyVars
    <2> QED
        BY <2>1 DEF BlockInv, Waiting, Ending
<1>8. ASSUME NEW i \in 1..Len(log), SkipUpdate(i) \/ ApplyUpdate(i) PROVE BlockInv'
    <2> DEFINE e == log[i]
    <2>1. /\ phase = "idle" /\ (InOrder => i = cursor + 1) /\ cursor' = i
          /\ UNCHANGED <<st, log, phase, cur>> /\ UnblockOn(e)
        BY <1>8 DEF SkipUpdate, ApplyUpdate, Deliverable, exchangeVars, callVars
    <2>2. \A k \in blocked' : \E o \in unresolved' : KeyOf[o] = k
        BY <2>1 DEF UnblockOn, BlockInv
    <2>3. ASSUME InOrder, NEW o \in Orders, Waiting(o)', st'[o] \in Ended
          PROVE  \E j \in 1..Len(log') : Ending(o, j)'
        <3>1. o \in unresolved' /\ o \in unresolved
            BY <2>1, <2>3 DEF Waiting, UnblockOn
        <3>2. PICK j \in 1..Len(log) : Ending(o, j)
            BY <2>1, <2>3, <3>1 DEF BlockInv, Waiting
        <3>3. j # i
            BY <2>1, <3>1, <3>2 DEF Ending, UnblockOn
        <3>4. j > cursor'
            <4>1. Len(log) \in Nat
                BY <1>0
            <4> QED
                BY <1>0, <2>1, <2>3, <3>2, <3>3, <4>1 DEF Ending
        <3> QED
            BY <2>1, <3>2, <3>4 DEF Ending
    <2> QED
        BY <2>1, <2>2, <2>3 DEF BlockInv
<1>9. CASE UNCHANGED vars
    BY <1>9 DEF vars, exchangeVars, callVars, ledgerVars, historyVars, BlockInv, Waiting, Ending
<1> QED
    BY <1>1, <1>2, <1>3, <1>4, <1>5, <1>6, <1>7, <1>8, <1>9 DEF Next, Answer, HandleUpdate

\* No key stays blocked without a way out: some unresolved order of the key
\* has not ended, or the event that will unblock the key is on the way.
THEOREM BlockedKeysHaveAReason == Spec => []BlockedHasReason
<1>1. Spec => [](TypeInv /\ CountInv /\ BlockInv)
    BY InitTypeInv, NextTypeInv, InitCountInv, NextCountInv, InitBlockInv, NextBlockInv, PTL DEF Spec
<1>2. TypeInv /\ CountInv /\ BlockInv => BlockedHasReason
    <2> SUFFICES ASSUME TypeInv, BlockInv, InOrder, NEW k \in blocked
                 PROVE  \E o \in unresolved :
                            /\ KeyOf[o] = k
                            /\ \/ st[o] \notin Ended
                               \/ \E i \in (cursor + 1)..Len(log) :
                                    log[i].order = o /\ log[i].st \in EventTerminal
        BY DEF BlockedHasReason
    <2>1. PICK o \in unresolved : KeyOf[o] = k
        BY DEF BlockInv
    <2>2. o \in Orders /\ log \in Seq(Events) /\ cursor \in 0..Len(log)
        BY DEF TypeInv, TypeOK
    <2>3. CASE st[o] \in Ended
        <3>1. PICK i \in 1..Len(log) : Ending(o, i)
            BY <2>2, <2>3 DEF BlockInv, Waiting
        <3>2. Len(log) \in Nat
            BY <2>2
        <3>3. i \in (cursor + 1)..Len(log)
            BY <2>2, <3>1, <3>2 DEF Ending
        <3> QED
            BY <2>1, <3>1, <3>3 DEF Ending
    <2> QED
        BY <2>1, <2>3
<1> QED
    BY <1>1, <1>2, PTL

=============================================================================
