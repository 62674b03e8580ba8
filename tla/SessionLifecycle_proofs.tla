---------------------- MODULE SessionLifecycle_proofs ----------------------
(* Proofs about the session lifecycle, for every number of concurrent      *)
(* StopStrategy calls, order targets, bars and failures.                   *)
EXTENDS SessionLifecycle, FiniteSetTheorems, TLAPS

(* A bar in progress is one of the MaxBars bars of the range.              *)
BarsLeft == run \in {"bar", "barstore", "check", "guard"} /\ Environment = 0 => bars < MaxBars

(* An actor that applies a fill has sent an order.                         *)
OrderIsThere ==
    \A a \in Actors : pc[a] \in {"apply", "store"} => Unsent(a) # {}

TypeInv == TypeOK /\ BarsLeft /\ OrderIsThere

USE DEF Up, Statuses, Active, Terminal

LEMMA InitTypeInv == Init => TypeInv
<1> SUFFICES ASSUME Init PROVE TypeInv
    OBVIOUS
<1>1. pos \in [Symbols -> Int] /\ trade \in [Symbols -> {-1, 0, 1}] /\ exch \in [Symbols -> 0..MaxPos]
    BY LifecycleAssumption DEF Init
<1>2. todo \in [Actors -> [Symbols -> Int]] /\ fill \in [Actors -> Nat] /\ seen \in [Actors -> Int]
    BY DEF Init
<1>3. /\ pc \in [Actors -> ActorPcs]
      /\ act \in [Actors -> StopActions]
      /\ rd \in [Actors -> Statuses]
    BY DEF Init, ActorPcs, StopActions
<1>4. /\ bars \in 0..MaxBars
      /\ fails \in 0..MaxFailures
      /\ BarsLeft
    BY LifecycleAssumption DEF Init, BarsLeft
<1>5. /\ finErr \in BOOLEAN
      /\ stopRuntime \in {"none", "ready"}
      /\ leases \in {"none", "held"}
      /\ subs \in {"none", "active"}
      /\ status \in Statuses /\ runRead \in Statuses /\ db \in Statuses
      /\ run \in RunPcs
    BY DEF Init, RunPcs
<1>7. settling \in SUBSET Symbols /\ runSeen \in Int /\ raced \in SUBSET Symbols
    BY DEF Init
<1>6. OrderIsThere
    BY DEF Init, OrderIsThere
<1> QED
    BY <1>1, <1>2, <1>3, <1>4, <1>5, <1>6, <1>7 DEF Init, TypeInv, TypeOK

LEMMA OrderStaysThere ==
    ASSUME TypeOK, OrderIsThere, [Next]_vars
    PROVE  OrderIsThere'
<1> USE DEF TypeOK, OrderIsThere, Unsent, actorVars, vars
<1>1. CASE UNCHANGED <<pc, todo>>
    BY <1>1
<1>2. CASE RunGuardTriggers
    BY <1>2 DEF RunGuardTriggers, Actors
<1>3. ASSUME NEW s \in Stops, StopCall(s) PROVE OrderIsThere'
    BY <1>3 DEF StopCall, Actors
<1>4. ASSUME NEW a \in Actors,
             \/ StopEnter(a) \/ StopRead(a) \/ StopWriteStopping(a) \/ StopWriteFinal(a)
             \/ CloseOrder(a) \/ CloseRead(a) \/ CloseCheckFlat(a)
      PROVE  OrderIsThere'
    BY <1>4 DEF StopEnter, StopRead, StopWriteStopping, StopWriteFinal, CloseOrder, CloseRead, CloseCheckFlat
<1>5. ASSUME NEW a \in Actors, CloseBuild(a) \/ CloseApply(a) \/ StopSettle(a)
      PROVE  OrderIsThere'
    <2>1. \A b \in Actors : b # a => pc'[b] = pc[b] /\ todo'[b] = todo[b]
        BY <1>5 DEF CloseBuild, CloseApply, StopSettle
    <2>2. pc'[a] \notin {"apply", "store"}
        BY <1>5 DEF CloseBuild, CloseApply, StopSettle
    <2> QED
        BY <2>1, <2>2
<1>6. CASE RunStart \/ RunStartFails \/ RunLease \/ RunLive \/ RunNextBar \/ RunBreak \/ RunStopSeen
        \/ RunDataEnd \/ RunRaise \/ RunOrder \/ RunApply \/ RunSettle \/ RunBarDone \/ RunGuardPasses
    BY <1>1, <1>6 DEF RunStart, RunStartFails, RunLease, RunLive, RunNextBar, RunBreak, RunStopSeen, RunDataEnd, RunRaise, RunOrder, RunApply, RunSettle, RunBarDone, RunGuardPasses
<1>7. CASE RunGuardReturns \/ RunRead \/ RunWrite \/ RunEnd \/ RunFinish
        \/ FinLeases \/ FinSubscriptions \/ FinSnapshot \/ FinRestore \/ FinMark \/ FinRead \/ FinWrite
    BY <1>1, <1>7 DEF RunGuardReturns, RunRead, RunWrite, RunEnd, RunFinish, FinLeases, FinSubscriptions, FinSnapshot, FinRestore, FinMark, FinRead, FinWrite
<1>8. CASE HeartWake \/ HeartRenew \/ PollExit \/ AgentKill \/ AgentMarkRecoverable \/ LeaseExpire \/ Gone
    BY <1>1, <1>8 DEF HeartWake, HeartRenew, PollExit, AgentKill, AgentMarkRecoverable, LeaseExpire, Gone
<1>9. CASE UNCHANGED vars
    BY <1>1, <1>9
<1> QED
    BY <1>2, <1>3, <1>4, <1>5, <1>6, <1>7, <1>8, <1>9 DEF Next, RunStep, ActorStep

LEMMA NextTypeInv == TypeInv /\ [Next]_vars => TypeInv'
<1> SUFFICES ASSUME TypeInv, [Next]_vars PROVE (TypeOK /\ BarsLeft)'
    BY OrderStaysThere DEF TypeInv
<1> USE LifecycleAssumption DEF TypeInv, TypeOK, BarsLeft, Transition, Raise, PlatformCall, UpdateSession, SyncSnapshot, RenewLease, PeriodicSample, AfterBar, RunPcs, sessionVars, runVars, actorVars, eventVars, platformVars, vars
<1>1. CASE RunStart
    BY <1>1 DEF RunStart
<1>2. CASE RunStartFails
    BY <1>2 DEF RunStartFails
<1>3. CASE RunLease
    BY <1>3 DEF RunLease
<1>4. CASE RunLive
    BY <1>4 DEF RunLive
<1>5. CASE RunNextBar
    BY <1>5 DEF RunNextBar
<1>6. CASE RunBreak
    BY <1>6 DEF RunBreak
<1>7. CASE RunStopSeen
    BY <1>7 DEF RunStopSeen
<1>8. CASE RunDataEnd
    BY <1>8 DEF RunDataEnd
<1>9. CASE RunRaise
    BY <1>9 DEF RunRaise
<1>10. CASE RunOrder
    <2>1. PICK x \in Symbols :
            \/ exch[x] < MaxPos /\ exch' = [exch EXCEPT ![x] = @ + 1] /\ trade' = [trade EXCEPT ![x] = 1]
            \/ exch[x] > 0 /\ exch' = [exch EXCEPT ![x] = @ - 1] /\ trade' = [trade EXCEPT ![x] = -1]
        BY <1>10 DEF RunOrder
    <2>2. exch[x] \in 0..MaxPos
        OBVIOUS
    <2>3. exch' \in [Symbols -> 0..MaxPos]
        BY <2>1, <2>2
    <2>4. trade' \in [Symbols -> {-1, 0, 1}]
        BY <2>1
    <2> QED
        BY <2>3, <2>4, <1>10 DEF RunOrder
<1>44. CASE RunSettle
    <2>1. /\ pos' \in [Symbols -> Int] /\ trade' \in [Symbols -> {-1, 0, 1}]
          /\ raced' \in SUBSET Symbols
        BY <1>44 DEF RunSettle, StorePosition
    <2> QED
        BY <2>1, <1>44 DEF RunSettle
<1>45. CASE RunApply
    <2>1. settling' \in SUBSET Symbols /\ runSeen' \in Int
        BY <1>45 DEF RunApply
    <2> QED
        BY <2>1, <1>45 DEF RunApply
<1>11. CASE RunBarDone
    BY <1>11 DEF RunBarDone
<1>12. CASE RunGuardPasses
    BY <1>12 DEF RunGuardPasses
<1>13. CASE RunGuardTriggers
    BY <1>13 DEF RunGuardTriggers, ActorPcs, StopActions, Actors
<1>14. CASE RunGuardReturns
    BY <1>14 DEF RunGuardReturns
<1>15. CASE RunRead
    BY <1>15 DEF RunRead
<1>16. CASE RunWrite
    BY <1>16 DEF RunWrite
<1>17. CASE RunEnd
    BY <1>17 DEF RunEnd
<1>18. CASE RunFinish
    BY <1>18 DEF RunFinish
<1>19. CASE FinLeases
    BY <1>19 DEF FinLeases
<1>20. CASE FinSubscriptions
    BY <1>20 DEF FinSubscriptions
<1>21. CASE FinSnapshot
    BY <1>21 DEF FinSnapshot
<1>22. CASE FinRestore
    BY <1>22 DEF FinRestore
<1>23. CASE FinMark
    BY <1>23 DEF FinMark
<1>24. CASE FinRead
    BY <1>24 DEF FinRead
<1>25. CASE FinWrite
    BY <1>25 DEF FinWrite
<1>26. CASE HeartWake
    BY <1>26 DEF HeartWake
<1>27. CASE HeartRenew
    BY <1>27 DEF HeartRenew
<1>28. CASE PollExit
    BY <1>28 DEF PollExit
<1>29. CASE AgentKill
    BY <1>29 DEF AgentKill
<1>30. CASE AgentMarkRecoverable
    BY <1>30 DEF AgentMarkRecoverable
<1>31. CASE LeaseExpire
    BY <1>31 DEF LeaseExpire
<1>32. CASE Gone
    BY <1>32 DEF Gone
<1>33. ASSUME NEW s \in Stops, StopCall(s) PROVE (TypeOK /\ BarsLeft)'
    BY <1>33 DEF StopCall, ActorPcs, StopActions, Actors
<1>34. ASSUME NEW a \in Actors, StopEnter(a) PROVE (TypeOK /\ BarsLeft)'
    BY <1>34 DEF StopEnter, ActorPcs, StopActions, Unsent, NextOrder
<1>35. ASSUME NEW a \in Actors, StopRead(a) PROVE (TypeOK /\ BarsLeft)'
    BY <1>35 DEF StopRead, ActorPcs, StopActions, Unsent, NextOrder
<1>36. ASSUME NEW a \in Actors, StopWriteStopping(a) PROVE (TypeOK /\ BarsLeft)'
    BY <1>36 DEF StopWriteStopping, ActorPcs, StopActions, Unsent, NextOrder
<1>37. ASSUME NEW a \in Actors, CloseBuild(a) PROVE (TypeOK /\ BarsLeft)'
    <2>1. todo' \in [Actors -> [Symbols -> Int]]
        BY <1>37 DEF CloseBuild
    <2>2. pc' \in [Actors -> ActorPcs]
        BY <1>37 DEF CloseBuild, ActorPcs
    <2> QED
        BY <2>1, <2>2, <1>37 DEF CloseBuild
<1>38. ASSUME NEW a \in Actors, CloseOrder(a) PROVE (TypeOK /\ BarsLeft)'
    <2> DEFINE x == NextOrder(a)
               executed == IF exch[x] < todo[a][x] THEN exch[x] ELSE todo[a][x]
    <2>1. x \in Symbols /\ todo[a][x] > 0
        BY <1>38 DEF CloseOrder, NextOrder, Unsent
    <2>2. executed \in Nat /\ executed <= exch[x]
        BY <2>1
    <2>3. exch' \in [Symbols -> 0..MaxPos]
        <3>1. [exch EXCEPT ![x] = @ - executed] \in [Symbols -> 0..MaxPos]
            BY <2>1, <2>2
        <3> QED
            BY <3>1, <1>38 DEF CloseOrder
    <2>4. fill' \in [Actors -> Nat]
        BY <2>2, <1>38 DEF CloseOrder
    <2>5. pc' \in [Actors -> ActorPcs]
        BY <1>38 DEF CloseOrder, ActorPcs
    <2> QED
        BY <2>3, <2>4, <2>5, <1>38 DEF CloseOrder
<1>39. ASSUME NEW a \in Actors, CloseApply(a) PROVE (TypeOK /\ BarsLeft)'
    <2> DEFINE x == NextOrder(a)
    <2> HIDE DEF x
    <2>1. pos' \in [Symbols -> Int] /\ raced' \in SUBSET Symbols /\ seen' \in [Actors -> Int]
        <3>1. x \in Symbols
            BY <1>39 DEF CloseApply, OrderIsThere, Unsent, NextOrder, x
        <3>2. /\ pos' = [pos EXCEPT ![x] = seen[a] + (-fill[a])]
              /\ raced' = raced \/ raced' = raced \cup {x}
              /\ seen' = [seen EXCEPT ![a] = 0]
            BY <1>39 DEF CloseApply, StorePosition, x
        <3>3. pos \in [Symbols -> Int] /\ fill[a] \in Int /\ seen[a] \in Int
            OBVIOUS
        <3> QED
            BY <3>1, <3>2, <3>3
    <2>2. todo' \in [Actors -> [Symbols -> Int]] /\ fill' \in [Actors -> Nat]
        <3>1. todo' = [todo EXCEPT ![a] = [todo[a] EXCEPT ![x] = 0]]
            BY <1>39 DEF CloseApply, x
        <3>2. fill' = [fill EXCEPT ![a] = 0]
            BY <1>39 DEF CloseApply
        <3>3. [todo[a] EXCEPT ![x] = 0] \in [Symbols -> Int]
            <4>1. todo[a] \in [Symbols -> Int]
                OBVIOUS
            <4>2. CASE x \in Symbols
                BY <4>1, <4>2
            <4>3. CASE x \notin Symbols
                BY <4>1, <4>3
            <4> QED
                BY <4>2, <4>3
        <3> QED
            BY <3>1, <3>2, <3>3
    <2>3. pc' \in [Actors -> ActorPcs]
        BY <1>39 DEF CloseApply, ActorPcs
    <2> QED
        BY <2>1, <2>2, <2>3, <1>39 DEF CloseApply
<1>46. ASSUME NEW a \in Actors, CloseRead(a) PROVE (TypeOK /\ BarsLeft)'
    <2>1. NextOrder(a) \in Symbols
        BY <1>46 DEF CloseRead, OrderIsThere, Unsent, NextOrder
    <2>2. seen' \in [Actors -> Int] /\ pc' \in [Actors -> ActorPcs]
        BY <1>46, <2>1 DEF CloseRead, ActorPcs
    <2> QED
        BY <2>2, <1>46 DEF CloseRead
<1>40. ASSUME NEW a \in Actors, CloseCheckFlat(a) PROVE (TypeOK /\ BarsLeft)'
    BY <1>40 DEF CloseCheckFlat, ActorPcs, StopActions, Unsent, NextOrder
<1>41. ASSUME NEW a \in Actors, StopSettle(a) PROVE (TypeOK /\ BarsLeft)'
    BY <1>41 DEF StopSettle, ActorPcs, StopActions, Unsent, NextOrder
<1>42. ASSUME NEW a \in Actors, StopWriteFinal(a) PROVE (TypeOK /\ BarsLeft)'
    BY <1>42 DEF StopWriteFinal, ActorPcs, StopActions, Unsent, NextOrder
<1>43. CASE UNCHANGED vars
    BY <1>43
<1> QED
    BY <1>1, <1>2, <1>3, <1>4, <1>5, <1>6, <1>7, <1>8, <1>9, <1>10, <1>11, <1>12, <1>13, <1>14, <1>15, <1>16, <1>17, <1>18, <1>19, <1>20, <1>21, <1>22, <1>23, <1>24, <1>25, <1>26, <1>27, <1>28, <1>29, <1>30, <1>31, <1>32, <1>33, <1>34, <1>35, <1>36, <1>37, <1>38, <1>39, <1>40, <1>41, <1>42, <1>43, <1>44, <1>45, <1>46 DEF Next, RunStep, ActorStep

(* The state of a session worker always has its type: every step of every  *)
(* thread keeps program counters, statuses, positions and counters in      *)
(* range.                                                                  *)
THEOREM TypeCorrect == Spec => []TypeOK
<1>1. TypeInv => TypeOK
    BY DEF TypeInv
<1> QED
    BY InitTypeInv, NextTypeInv, <1>1, PTL DEF Spec

-----------------------------------------------------------------------------
(* What a step may do to the status: leave it, move a session that is not  *)
(* terminal, or mark it recoverable at the end of finalization.            *)
StatusStep ==
    \/ status' = status
    \/ status \notin Terminal
    \/ run = "mark" /\ status' = "recoverable" /\ status \notin {"failed", "stop_failed"}

LEMMA NextStatusStep == [Next]_vars => StatusStep
<1> SUFFICES ASSUME [Next]_vars PROVE StatusStep
    OBVIOUS
<1> USE DEF StatusStep, Transition, sessionVars, vars
<1>1. CASE RunStartFails \/ RunLease \/ RunRaise \/ RunFinish
    BY <1>1 DEF RunStartFails, RunLease, RunRaise, RunFinish
<1>2. CASE FinMark
    BY <1>2 DEF FinMark
<1>3. ASSUME NEW s \in Stops, StopCall(s) PROVE StatusStep
    BY <1>3 DEF StopCall
<1>4. ASSUME NEW a \in Actors, StopEnter(a) \/ StopSettle(a) PROVE StatusStep
    BY <1>4 DEF StopEnter, StopSettle
<1>5. ASSUME NEW a \in Actors,
             StopRead(a) \/ StopWriteStopping(a) \/ CloseBuild(a) \/ CloseOrder(a) \/ CloseRead(a) \/ CloseApply(a) \/ CloseCheckFlat(a) \/ StopWriteFinal(a)
      PROVE  StatusStep
    BY <1>5 DEF StopRead, StopWriteStopping, CloseBuild, CloseOrder, CloseRead, CloseApply, CloseCheckFlat, StopWriteFinal
<1>6. CASE RunStart \/ RunLive \/ RunNextBar \/ RunBreak \/ RunStopSeen
        \/ RunDataEnd \/ RunOrder \/ RunApply \/ RunSettle \/ RunBarDone \/ RunGuardPasses
    BY <1>6 DEF RunStart, RunLive, RunNextBar, RunBreak, RunStopSeen, RunDataEnd, RunOrder, RunApply, RunSettle, RunBarDone, RunGuardPasses
<1>7. CASE RunGuardTriggers \/ RunGuardReturns \/ RunRead \/ RunWrite \/ RunEnd
        \/ FinLeases \/ FinSubscriptions \/ FinSnapshot \/ FinRestore
    BY <1>7 DEF RunGuardTriggers, RunGuardReturns, RunRead, RunWrite, RunEnd, FinLeases, FinSubscriptions, FinSnapshot, FinRestore
<1>8. CASE FinRead \/ FinWrite \/ HeartWake \/ HeartRenew \/ PollExit
        \/ AgentKill \/ AgentMarkRecoverable \/ LeaseExpire \/ Gone
    BY <1>8 DEF FinRead, FinWrite, HeartWake, HeartRenew, PollExit, AgentKill, AgentMarkRecoverable, LeaseExpire, Gone
<1>9. CASE UNCHANGED vars
    BY <1>9
<1> QED
    BY <1>1, <1>2, <1>3, <1>4, <1>5, <1>6, <1>7, <1>8, <1>9 DEF Next, RunStep, ActorStep

(* A terminal status is never left, except for "recoverable" at the end of *)
(* a finalization that collected errors, and never from failed or          *)
(* stop_failed: transition() and the finally block of _run_session.        *)
THEOREM TerminalStays == Spec => TerminalIsFinal
<1>1. StatusStep =>
        [(status \in Terminal) =>
            \/ status' = status
            \/ run = "mark" /\ status' = "recoverable" /\ status \notin {"failed", "stop_failed"}]_status
    BY DEF StatusStep
<1> QED
    BY <1>1, NextStatusStep, PTL DEF Spec, TerminalIsFinal

-----------------------------------------------------------------------------
(* The session row.                                                        *)

(* A value that was read from the status some time ago.                    *)
Behind(v) == v \in Terminal => v = status \/ status = "recoverable"

(* Updates take their value from the status, through a read of their own.  *)
RowStep ==
    /\ \/ runRead' = runRead
       \/ runRead' = "running"
       \/ runRead' = status /\ status' = status
    /\ \/ rd' = rd
       \/ \E a \in Actors : rd' = [rd EXCEPT ![a] = "running"]
       \/ status' = status /\ \E a \in Actors : rd' = [rd EXCEPT ![a] = status]
    /\ \/ db' = db
       \/ db' = runRead
       \/ \E a \in Actors : db' = rd[a]
       \/ process' = "exited" /\ db' = "recoverable"
    /\ process = "exited" => process' = "exited"

LEMMA NextRowStep == [Next]_vars => RowStep
<1> SUFFICES ASSUME [Next]_vars PROVE RowStep
    OBVIOUS
<1> USE DEF RowStep, UpdateSession, sessionVars, runVars, actorVars, platformVars, vars
<1>1. CASE RunStart \/ RunStartFails \/ RunLease \/ RunLive \/ RunNextBar \/ RunBreak
    BY <1>1 DEF RunStart, RunStartFails, RunLease, RunLive, RunNextBar, RunBreak
<1>2. CASE RunStopSeen \/ RunDataEnd \/ RunRaise \/ RunOrder \/ RunApply \/ RunSettle \/ RunBarDone \/ RunGuardPasses
    BY <1>2 DEF RunStopSeen, RunDataEnd, RunRaise, RunOrder, RunApply, RunSettle, RunBarDone, RunGuardPasses
<1>3. CASE RunGuardTriggers \/ RunGuardReturns \/ RunEnd \/ RunFinish
    BY <1>3 DEF RunGuardTriggers, RunGuardReturns, RunEnd, RunFinish
<1>4. CASE RunRead \/ FinRead
    BY <1>4 DEF RunRead, FinRead
<1>5. CASE RunWrite \/ FinWrite
    BY <1>5 DEF RunWrite, FinWrite
<1>6. CASE FinLeases \/ FinSubscriptions \/ FinSnapshot \/ FinRestore \/ FinMark
    BY <1>6 DEF FinLeases, FinSubscriptions, FinSnapshot, FinRestore, FinMark
<1>7. CASE HeartWake \/ HeartRenew \/ PollExit \/ AgentKill \/ LeaseExpire \/ Gone
    BY <1>7 DEF HeartWake, HeartRenew, PollExit, AgentKill, LeaseExpire, Gone
<1>8. CASE AgentMarkRecoverable
    BY <1>8 DEF AgentMarkRecoverable
<1>9. ASSUME NEW s \in Stops, StopCall(s) PROVE RowStep
    BY <1>9 DEF StopCall
<1>10. ASSUME NEW a \in Actors,
              \/ StopEnter(a) \/ CloseBuild(a) \/ CloseOrder(a)
              \/ CloseRead(a) \/ CloseApply(a) \/ CloseCheckFlat(a) \/ StopSettle(a)
       PROVE  RowStep
    BY <1>10 DEF StopEnter, CloseBuild, CloseOrder, CloseRead, CloseApply, CloseCheckFlat, StopSettle
<1>11. ASSUME NEW a \in Actors, StopRead(a) PROVE RowStep
    BY <1>11 DEF StopRead
<1>12. ASSUME NEW a \in Actors, StopWriteStopping(a) \/ StopWriteFinal(a) PROVE RowStep
    BY <1>12 DEF StopWriteStopping, StopWriteFinal
<1>13. CASE UNCHANGED vars
    BY <1>13
<1> QED
    BY <1>1, <1>2, <1>3, <1>4, <1>5, <1>6, <1>7, <1>8, <1>9, <1>10, <1>11, <1>12, <1>13
    DEF Next, RunStep, ActorStep

(* The inductive form of RowNeverAhead: what threads have read and not yet *)
(* sent is behind the status too.                                          *)
RowInv ==
    /\ Behind(runRead)
    /\ \A a \in Actors : Behind(rd[a])
    /\ Behind(db) \/ (process = "exited" /\ db = "recoverable")

LEMMA NextRowInv == TypeOK /\ RowInv /\ [Next]_vars => RowInv'
<1> SUFFICES ASSUME TypeOK, RowInv, [Next]_vars PROVE RowInv'
    OBVIOUS
<1>1. StatusStep /\ RowStep
    BY NextStatusStep, NextRowStep
<1>2. ASSUME NEW v, Behind(v)
      PROVE  v \in Terminal => v = status' \/ status' = "recoverable"
    BY <1>1, <1>2 DEF StatusStep, Behind
<1>3. Behind(runRead)'
    BY <1>1, <1>2 DEF RowInv, RowStep, Behind
<1>4. ASSUME NEW a \in Actors PROVE Behind(rd[a])'
    BY <1>1, <1>2 DEF RowInv, RowStep, Behind, TypeOK
<1>5. (Behind(db) \/ (process = "exited" /\ db = "recoverable"))'
    BY <1>1, <1>2 DEF RowInv, RowStep, Behind
<1> QED
    BY <1>3, <1>4, <1>5 DEF RowInv

(* The session row is never ahead of the session, for any number of        *)
(* concurrent StopStrategy calls and whatever updates are lost or late.    *)
THEOREM RowIsNeverAhead == Spec => []RowNeverAhead
<1>1. Init => RowInv
    BY DEF Init, RowInv, Behind
<1>2. RowInv => RowNeverAhead
    BY DEF RowInv, RowNeverAhead, Behind
<1> QED
    BY <1>1, <1>2, InitTypeInv, NextTypeInv, NextRowInv, PTL DEF Spec, TypeInv

-----------------------------------------------------------------------------
(* Who is responsible for a session in "stopping".                         *)

LEMMA NextOwner == TypeOK /\ StoppingHasOwner /\ [Next]_vars => StoppingHasOwner'
<1> SUFFICES ASSUME TypeOK, StoppingHasOwner, [Next]_vars PROVE StoppingHasOwner'
    OBVIOUS
<1> USE DEF StoppingHasOwner, OwnsStopping, Transition, sessionVars, actorVars, vars
<1>1. CASE RunStart \/ RunStartFails \/ RunLease \/ RunLive \/ RunNextBar \/ RunBreak
    BY <1>1 DEF RunStart, RunStartFails, RunLease, RunLive, RunNextBar, RunBreak
<1>2. CASE RunStopSeen \/ RunDataEnd \/ RunRaise \/ RunOrder \/ RunApply \/ RunSettle \/ RunBarDone \/ RunGuardPasses
    BY <1>2 DEF RunStopSeen, RunDataEnd, RunRaise, RunOrder, RunApply, RunSettle, RunBarDone, RunGuardPasses
<1>3. CASE RunGuardTriggers
    BY <1>3 DEF RunGuardTriggers, TypeOK
<1>4. CASE RunGuardReturns \/ RunRead \/ RunWrite \/ RunEnd \/ RunFinish
    BY <1>4 DEF RunGuardReturns, RunRead, RunWrite, RunEnd, RunFinish
<1>5. CASE \/ FinLeases \/ FinSubscriptions \/ FinSnapshot \/ FinRestore
           \/ FinMark \/ FinRead \/ FinWrite
    BY <1>5 DEF FinLeases, FinSubscriptions, FinSnapshot, FinRestore, FinMark, FinRead, FinWrite
<1>6. CASE \/ HeartWake \/ HeartRenew \/ PollExit \/ AgentKill
           \/ AgentMarkRecoverable \/ LeaseExpire \/ Gone
    BY <1>6 DEF HeartWake, HeartRenew, PollExit, AgentKill, AgentMarkRecoverable, LeaseExpire, Gone
<1>7. ASSUME NEW s \in Stops, StopCall(s) PROVE StoppingHasOwner'
    BY <1>7 DEF StopCall, TypeOK
<1>8. ASSUME NEW a \in Actors, StopEnter(a) PROVE StoppingHasOwner'
    BY <1>8 DEF StopEnter, TypeOK
<1>9. ASSUME NEW a \in Actors, StopRead(a) \/ StopWriteStopping(a) \/ StopWriteFinal(a)
      PROVE  StoppingHasOwner'
    BY <1>9 DEF StopRead, StopWriteStopping, StopWriteFinal, TypeOK
<1>10. ASSUME NEW a \in Actors,
              CloseBuild(a) \/ CloseOrder(a) \/ CloseRead(a) \/ CloseApply(a) \/ CloseCheckFlat(a)
       PROVE  StoppingHasOwner'
    BY <1>10 DEF CloseBuild, CloseOrder, CloseRead, CloseApply, CloseCheckFlat, TypeOK
<1>11. ASSUME NEW a \in Actors, StopSettle(a) PROVE StoppingHasOwner'
    BY <1>11 DEF StopSettle, TypeOK
<1>12. CASE UNCHANGED vars
    BY <1>12
<1> QED
    BY <1>1, <1>2, <1>3, <1>4, <1>5, <1>6, <1>7, <1>8, <1>9, <1>10, <1>11, <1>12
    DEF Next, RunStep, ActorStep

(* No path of StopStrategy or of the max-loss guard returns and leaves the *)
(* session in "stopping", except through a failed wallet snapshot.         *)
THEOREM StoppingIsOwned == Spec => []StoppingHasOwner
<1>1. Init => StoppingHasOwner
    BY DEF Init, StoppingHasOwner
<1> QED
    BY <1>1, InitTypeInv, NextTypeInv, NextOwner, PTL DEF Spec, TypeInv

-----------------------------------------------------------------------------
(* The wallet of a backtest is restored.                                   *)

NobodyCloses == \A a \in Actors : pc[a] = "idle" \/ act[a] # "close"

(* Only calls that close positions get to the close orders.                *)
ClosersClose ==
    \A a \in Actors :
        /\ pc[a] \in {"read1", "write1"} => act[a] # "stop_only"
        /\ pc[a] \in {"build", "orders", "apply", "store"} => act[a] = "close"

(* From the restore on, the wallet is the old one or the failure shows.    *)
RestoreInv ==
    /\ ClosersClose
    /\ Environment = 0 /\ NobodyCloses =>
        /\ run = "mark" => core = "initial" \/ finErr
        /\ run \in {"finread", "finwrite", "done"} =>
              core = "initial" \/ status \in {"failed", "stop_failed", "recoverable"}

LEMMA NextClosersClose == TypeOK /\ ClosersClose /\ [Next]_vars => ClosersClose'
<1> SUFFICES ASSUME TypeOK, ClosersClose, [Next]_vars PROVE ClosersClose'
    OBVIOUS
<1> USE DEF ClosersClose, actorVars, vars
<1>1. CASE RunStart \/ RunStartFails \/ RunLease \/ RunLive \/ RunNextBar \/ RunBreak
    BY <1>1 DEF RunStart, RunStartFails, RunLease, RunLive, RunNextBar, RunBreak
<1>2. CASE RunStopSeen \/ RunDataEnd \/ RunRaise \/ RunOrder \/ RunApply \/ RunSettle \/ RunBarDone \/ RunGuardPasses
    BY <1>2 DEF RunStopSeen, RunDataEnd, RunRaise, RunOrder, RunApply, RunSettle, RunBarDone, RunGuardPasses
<1>3. CASE RunGuardTriggers
    BY <1>3 DEF RunGuardTriggers, TypeOK
<1>4. CASE RunGuardReturns \/ RunRead \/ RunWrite \/ RunEnd \/ RunFinish
    BY <1>4 DEF RunGuardReturns, RunRead, RunWrite, RunEnd, RunFinish
<1>5. CASE \/ FinLeases \/ FinSubscriptions \/ FinSnapshot \/ FinRestore
           \/ FinMark \/ FinRead \/ FinWrite
    BY <1>5 DEF FinLeases, FinSubscriptions, FinSnapshot, FinRestore, FinMark, FinRead, FinWrite
<1>6. CASE \/ HeartWake \/ HeartRenew \/ PollExit \/ AgentKill
           \/ AgentMarkRecoverable \/ LeaseExpire \/ Gone
    BY <1>6 DEF HeartWake, HeartRenew, PollExit, AgentKill, AgentMarkRecoverable, LeaseExpire, Gone
<1>7. ASSUME NEW s \in Stops, StopCall(s) PROVE ClosersClose'
    BY <1>7 DEF StopCall, TypeOK, Actors
<1>8. ASSUME NEW a \in Actors, StopEnter(a) \/ StopRead(a) \/ StopSettle(a) \/ StopWriteFinal(a)
      PROVE  ClosersClose'
    BY <1>8 DEF StopEnter, StopRead, StopSettle, StopWriteFinal, TypeOK
<1>9. ASSUME NEW a \in Actors, StopWriteStopping(a) PROVE ClosersClose'
    BY <1>9 DEF StopWriteStopping, TypeOK, StopActions
<1>10. ASSUME NEW a \in Actors,
              CloseBuild(a) \/ CloseOrder(a) \/ CloseRead(a) \/ CloseApply(a) \/ CloseCheckFlat(a)
       PROVE  ClosersClose'
    BY <1>10 DEF CloseBuild, CloseOrder, CloseRead, CloseApply, CloseCheckFlat, TypeOK
<1>11. CASE UNCHANGED vars
    BY <1>11
<1> QED
    BY <1>1, <1>2, <1>3, <1>4, <1>5, <1>6, <1>7, <1>8, <1>9, <1>10, <1>11
    DEF Next, RunStep, ActorStep

(* An actor that does not close now did not close before.                  *)
LEMMA ClosersRemain == TypeOK /\ [Next]_vars /\ NobodyCloses' => NobodyCloses
<1> SUFFICES ASSUME TypeOK, [Next]_vars, NobodyCloses' PROVE NobodyCloses
    OBVIOUS
<1> USE DEF NobodyCloses, actorVars, vars
<1>1. CASE pc' = pc /\ act' = act
    BY <1>1
<1>2. CASE RunGuardTriggers
    BY <1>2, LifecycleAssumption DEF RunGuardTriggers, TypeOK, Actors
<1>3. ASSUME NEW s \in Stops, StopCall(s) PROVE NobodyCloses
    BY <1>3 DEF StopCall, TypeOK, Actors
<1>4. ASSUME NEW a \in Actors, StopEnter(a) \/ StopRead(a) \/ StopWriteStopping(a)
      PROVE  NobodyCloses
    BY <1>4 DEF StopEnter, StopRead, StopWriteStopping, TypeOK
<1>5. ASSUME NEW a \in Actors, CloseBuild(a) \/ CloseOrder(a) \/ CloseRead(a) \/ CloseApply(a)
      PROVE  NobodyCloses
    BY <1>5 DEF CloseBuild, CloseOrder, CloseRead, CloseApply, TypeOK
<1>6. ASSUME NEW a \in Actors, CloseCheckFlat(a) \/ StopSettle(a) \/ StopWriteFinal(a)
      PROVE  NobodyCloses
    BY <1>6 DEF CloseCheckFlat, StopSettle, StopWriteFinal, TypeOK
<1>7. CASE RunStart \/ RunStartFails \/ RunLease \/ RunLive \/ RunNextBar \/ RunBreak
    BY <1>1, <1>7 DEF RunStart, RunStartFails, RunLease, RunLive, RunNextBar, RunBreak
<1>8. CASE RunStopSeen \/ RunDataEnd \/ RunRaise \/ RunOrder \/ RunApply \/ RunSettle \/ RunBarDone \/ RunGuardPasses
    BY <1>1, <1>8 DEF RunStopSeen, RunDataEnd, RunRaise, RunOrder, RunApply, RunSettle, RunBarDone, RunGuardPasses
<1>9. CASE RunGuardReturns \/ RunRead \/ RunWrite \/ RunEnd \/ RunFinish
    BY <1>1, <1>9 DEF RunGuardReturns, RunRead, RunWrite, RunEnd, RunFinish
<1>10. CASE \/ FinLeases \/ FinSubscriptions \/ FinSnapshot \/ FinRestore
            \/ FinMark \/ FinRead \/ FinWrite
    BY <1>1, <1>10 DEF FinLeases, FinSubscriptions, FinSnapshot, FinRestore, FinMark, FinRead, FinWrite
<1>11. CASE \/ HeartWake \/ HeartRenew \/ PollExit \/ AgentKill
            \/ AgentMarkRecoverable \/ LeaseExpire \/ Gone
    BY <1>1, <1>11 DEF HeartWake, HeartRenew, PollExit, AgentKill, AgentMarkRecoverable, LeaseExpire, Gone
<1>12. CASE UNCHANGED vars
    BY <1>1, <1>12
<1> QED
    BY <1>2, <1>3, <1>4, <1>5, <1>6, <1>7, <1>8, <1>9, <1>10, <1>11, <1>12
    DEF Next, RunStep, ActorStep

(* What a step may do to the wallet the platform holds and to the errors   *)
(* of finalization, while nobody closes positions.                         *)
LEMMA RestoreStep ==
    ASSUME TypeOK, ClosersClose, NobodyCloses, [Next]_vars, Environment = 0
    PROVE  \/ run' = run /\ core' = core /\ finErr' = finErr
           \/ run' \notin {"mark", "finread", "finwrite", "done"}
           \/ run = "restore" /\ run' = "mark" /\ (core' = "initial" \/ finErr')
           \/ FinMark
           \/ /\ run \in {"finread", "finwrite"}
              /\ run' \in {"finwrite", "done"}
              /\ core' = core
<1> DEFINE Goal ==
           \/ run' = run /\ core' = core /\ finErr' = finErr
           \/ run' \notin {"mark", "finread", "finwrite", "done"}
           \/ run = "restore" /\ run' = "mark" /\ (core' = "initial" \/ finErr')
           \/ FinMark
           \/ /\ run \in {"finread", "finwrite"}
              /\ run' \in {"finwrite", "done"}
              /\ core' = core
<1> USE DEF sessionVars, runVars, platformVars, vars
<1>1. CASE RunStart \/ RunStartFails \/ RunLease \/ RunLive \/ RunNextBar \/ RunBreak
    BY <1>1 DEF RunStart, RunStartFails, RunLease, RunLive, RunNextBar, RunBreak
<1>2. CASE RunStopSeen \/ RunDataEnd \/ RunRaise \/ RunOrder \/ RunApply \/ RunSettle \/ RunBarDone \/ RunGuardPasses
    BY <1>2 DEF RunStopSeen, RunDataEnd, RunRaise, RunOrder, RunApply, RunSettle, RunBarDone, RunGuardPasses, AfterBar
<1>3. CASE RunGuardTriggers \/ RunGuardReturns \/ RunRead \/ RunWrite \/ RunEnd \/ RunFinish
    BY <1>3 DEF RunGuardTriggers, RunGuardReturns, RunRead, RunWrite, RunEnd, RunFinish, AfterBar
<1>4. CASE FinLeases \/ FinSubscriptions \/ FinSnapshot
    BY <1>4 DEF FinLeases, FinSubscriptions, FinSnapshot
<1>5. CASE FinRestore
    BY <1>5 DEF FinRestore, SyncSnapshot, PlatformCall
<1>6. CASE FinRead \/ FinWrite
    BY <1>6 DEF FinRead, FinWrite
<1>7. CASE \/ HeartWake \/ HeartRenew \/ PollExit \/ AgentKill
           \/ AgentMarkRecoverable \/ LeaseExpire \/ Gone
    BY <1>7 DEF HeartWake, HeartRenew, PollExit, AgentKill, AgentMarkRecoverable, LeaseExpire, Gone
<1>8. ASSUME NEW s \in Stops, StopCall(s) PROVE Goal
    BY <1>8 DEF StopCall
<1>9. ASSUME NEW a \in Actors, StopEnter(a) \/ StopRead(a) \/ StopWriteStopping(a)
      PROVE  Goal
    BY <1>9 DEF StopEnter, StopRead, StopWriteStopping
<1>10. ASSUME NEW a \in Actors, CloseBuild(a) \/ CloseOrder(a) \/ CloseCheckFlat(a)
      PROVE  Goal
    BY <1>10 DEF CloseBuild, CloseOrder, CloseCheckFlat
<1>11. ASSUME NEW a \in Actors, CloseApply(a) PROVE Goal
    BY <1>11 DEF CloseApply, ClosersClose, NobodyCloses
<1>14. ASSUME NEW a \in Actors, CloseRead(a) PROVE Goal
    BY <1>14 DEF CloseRead
<1>12. ASSUME NEW a \in Actors, StopSettle(a) \/ StopWriteFinal(a) PROVE Goal
    BY <1>12 DEF StopSettle, StopWriteFinal
<1>13. CASE UNCHANGED vars
    BY <1>13
<1> QED
    BY <1>1, <1>2, <1>3, <1>4, <1>5, <1>6, <1>7, <1>8, <1>9, <1>10, <1>11, <1>12, <1>13, <1>14
    DEF Next, RunStep, ActorStep

LEMMA NextRestoreInv == TypeOK /\ RestoreInv /\ [Next]_vars => RestoreInv'
<1> SUFFICES ASSUME TypeOK, RestoreInv, [Next]_vars PROVE RestoreInv'
    OBVIOUS
<1>1. ClosersClose'
    BY NextClosersClose DEF RestoreInv
<1>2. SUFFICES ASSUME Environment = 0, NobodyCloses'
               PROVE  /\ run' = "mark" => core' = "initial" \/ finErr'
                      /\ run' \in {"finread", "finwrite", "done"} =>
                            core' = "initial" \/ status' \in {"failed", "stop_failed", "recoverable"}
    BY <1>1 DEF RestoreInv
<1>3. NobodyCloses
    BY <1>2, ClosersRemain
<1>4. StatusStep
    BY NextStatusStep
<1>5. CASE FinMark
    BY <1>2, <1>3, <1>5 DEF FinMark, RestoreInv, sessionVars, platformVars
<1>6. CASE ~FinMark
    <2>1. \/ run' = run /\ core' = core /\ finErr' = finErr
          \/ run' \notin {"mark", "finread", "finwrite", "done"}
          \/ run = "restore" /\ run' = "mark" /\ (core' = "initial" \/ finErr')
          \/ /\ run \in {"finread", "finwrite"}
             /\ run' \in {"finwrite", "done"}
             /\ core' = core
        BY <1>2, <1>3, <1>6, RestoreStep DEF RestoreInv
    <2>2. /\ run = "mark" => core = "initial" \/ finErr
          /\ run \in {"finread", "finwrite", "done"} =>
                core = "initial" \/ status \in {"failed", "stop_failed", "recoverable"}
        BY <1>2, <1>3 DEF RestoreInv
    <2>3. status \in {"failed", "stop_failed", "recoverable"}
            => status' \in {"failed", "stop_failed", "recoverable"}
        BY <1>4 DEF StatusStep
    <2> QED
        BY <2>1, <2>2, <2>3
<1> QED
    BY <1>5, <1>6

(* A backtest that is reported finished or stopped after its finalization  *)
(* has restored the portfolio's wallet, if nobody closed positions.        *)
THEOREM BacktestIsRestored == Spec => []FinishedBacktestIsRestored
<1>1. Init => RestoreInv
    BY DEF Init, RestoreInv, ClosersClose
<1>2. RestoreInv => FinishedBacktestIsRestored
    BY DEF RestoreInv, FinishedBacktestIsRestored, NobodyCloses
<1> QED
    BY <1>1, <1>2, InitTypeInv, NextTypeInv, NextRestoreInv, PTL DEF Spec, TypeInv

-----------------------------------------------------------------------------
(* The subscriptions.                                                      *)

(* The run thread is past the release of the subscriptions.                *)
Released == {"snap", "restore", "mark", "finread", "finwrite", "done"}

(* What a step does to the subscriptions and to the run thread: they are   *)
(* never taken again, only the call that releases them leads past it, and  *)
(* only a demo session with lease management dies before.                  *)
SubsStep ==
    /\ subs' = subs \/ subs' = "none"
    /\ fails' = 0 => fails = 0
    /\ run' \in Released =>
         \/ run \in Released
         \/ run = "subs" /\ (Environment = 0 \/ fails' # 0 \/ subs' = "none")
    /\ run' = "dead" => run = "dead" \/ (Environment = 1 /\ LeaseManagement)

LEMMA NextSubsStep == TypeOK /\ [Next]_vars => SubsStep
<1> SUFFICES ASSUME TypeOK, [Next]_vars PROVE SubsStep
    OBVIOUS
<1>0. fails \in Nat /\ Environment \in {0, 1}
    BY LifecycleAssumption DEF TypeOK
<1> USE <1>0 DEF SubsStep, Released, PlatformCall, UpdateSession, SyncSnapshot, RenewLease, runVars, platformVars, vars
<1>1. CASE RunStart \/ RunStartFails \/ RunLease \/ RunLive \/ RunNextBar \/ RunBreak
    BY <1>1 DEF RunStart, RunStartFails, RunLease, RunLive, RunNextBar, RunBreak
<1>2. CASE RunStopSeen \/ RunDataEnd \/ RunRaise \/ RunOrder \/ RunApply \/ RunSettle
    BY <1>2 DEF RunStopSeen, RunDataEnd, RunRaise, RunOrder, RunApply, RunSettle
<1>3. CASE RunBarDone \/ RunGuardPasses \/ RunGuardTriggers \/ RunGuardReturns
    BY <1>3 DEF RunBarDone, PeriodicSample, RunGuardPasses, RunGuardTriggers, RunGuardReturns, AfterBar
<1>4. CASE RunRead \/ RunWrite \/ RunEnd \/ RunFinish
    BY <1>4 DEF RunRead, RunWrite, RunEnd, RunFinish
<1>5. CASE FinLeases
    BY <1>5 DEF FinLeases
<1>6. CASE FinSubscriptions
    BY <1>6 DEF FinSubscriptions
<1>7. CASE FinSnapshot \/ FinRestore \/ FinMark \/ FinRead \/ FinWrite
    BY <1>7 DEF FinSnapshot, FinRestore, FinMark, FinRead, FinWrite
<1>8. CASE HeartWake \/ HeartRenew \/ PollExit \/ AgentKill \/ AgentMarkRecoverable \/ LeaseExpire \/ Gone
    BY <1>8 DEF HeartWake, HeartRenew, PollExit, AgentKill, AgentMarkRecoverable, LeaseExpire, Gone
<1>9. ASSUME NEW s \in Stops, StopCall(s) PROVE SubsStep
    BY <1>9 DEF StopCall
<1>10. ASSUME NEW a \in Actors,
              \/ StopEnter(a) \/ CloseBuild(a) \/ CloseOrder(a)
              \/ CloseRead(a) \/ CloseApply(a) \/ CloseCheckFlat(a) \/ StopSettle(a)
       PROVE  SubsStep
    BY <1>10 DEF StopEnter, CloseBuild, CloseOrder, CloseRead, CloseApply, CloseCheckFlat, StopSettle
<1>11. ASSUME NEW a \in Actors, StopRead(a) \/ StopWriteStopping(a) \/ StopWriteFinal(a) PROVE SubsStep
    BY <1>11 DEF StopRead, StopWriteStopping, StopWriteFinal
<1>12. CASE UNCHANGED vars
    BY <1>12
<1> QED
    BY <1>1, <1>2, <1>3, <1>4, <1>5, <1>6, <1>7, <1>8, <1>9, <1>10, <1>11, <1>12
    DEF Next, RunStep, ActorStep

(* A backtest has no subscriptions, and past their release a demo session  *)
(* has none left unless a call failed.                                     *)
SubsInv ==
    /\ Environment = 0 => subs = "none"
    /\ run \in Released /\ fails = 0 => subs = "none"
    /\ run = "dead" => Environment = 1 /\ LeaseManagement

LEMMA NextSubsInv == TypeOK /\ SubsInv /\ [Next]_vars => SubsInv'
<1> SUFFICES ASSUME TypeOK, SubsInv, [Next]_vars PROVE SubsInv'
    OBVIOUS
<1>1. SubsStep
    BY NextSubsStep
<1> QED
    BY <1>1 DEF SubsInv, SubsStep, Released

(* Whatever the stop calls and the guard do, a session of a backtest, or a *)
(* demo session without lease management, whose run thread has ended has   *)
(* released its streams if no platform call failed.  (With lease           *)
(* management the run thread of a demo session dies before it gets there.) *)
THEOREM StreamsAreReleased ==
    ASSUME Environment = 0 \/ ~LeaseManagement
    PROVE  Spec => []StreamsReleasedAtEnd
<1>1. Init => SubsInv
    BY LifecycleAssumption DEF Init, SubsInv, Released
<1>2. SubsInv => StreamsReleasedAtEnd
    BY LifecycleAssumption DEF SubsInv, StreamsReleasedAtEnd, Ended, Released
<1> QED
    BY <1>1, <1>2, InitTypeInv, NextTypeInv, NextSubsInv, PTL DEF Spec, TypeInv

-----------------------------------------------------------------------------
(* The positions.                                                          *)

(* The units of a symbol that close orders have executed and the wallet    *)
(* does not know of yet: actors that are about to apply a fill.            *)
Executed(x) ==
    {q \in Actors \X Nat :
        pc[q[1]] \in {"apply", "store"} /\ NextOrder(q[1]) = x /\ q[2] \in 1..fill[q[1]]}

(* The inductive form of WalletCoversExchange: what the exchange has and   *)
(* what is executed but not applied is covered by the wallet and the       *)
(* unsettled execution of the run thread.                                  *)
PositionInv ==
    \A x \in Symbols :
        /\ IsFiniteSet(Executed(x))
        /\ x \notin raced => exch[x] + Cardinality(Executed(x)) <= pos[x] + trade[x]

(* A step of anyone but the run thread's orders and the close orders.      *)
PositionsStay ==
    /\ UNCHANGED <<exch, pos, trade, raced>>
    /\ \A a \in Actors :
        /\ pc'[a] \in {"apply", "store"} <=> pc[a] \in {"apply", "store"}
        /\ pc[a] \in {"apply", "store"} => todo'[a] = todo[a] /\ fill'[a] = fill[a]

LEMMA NextPositions ==
    ASSUME TypeOK, [Next]_vars
    PROVE  \/ PositionsStay \/ RunOrder \/ RunSettle
           \/ \E a \in Actors : CloseOrder(a) \/ CloseApply(a)
<1> USE DEF TypeOK, PositionsStay, sessionVars, actorVars, platformVars, vars
<1>1. CASE RunStart \/ RunStartFails \/ RunLease \/ RunLive \/ RunNextBar \/ RunBreak
    BY <1>1 DEF RunStart, RunStartFails, RunLease, RunLive, RunNextBar, RunBreak
<1>2. CASE RunStopSeen \/ RunDataEnd \/ RunRaise \/ RunBarDone \/ RunGuardPasses \/ RunGuardReturns
    BY <1>2 DEF RunStopSeen, RunDataEnd, RunRaise, RunBarDone, RunGuardPasses, RunGuardReturns
<1>3. CASE RunGuardTriggers
    BY <1>3 DEF RunGuardTriggers, Actors
<1>4. CASE RunRead \/ RunWrite \/ RunEnd \/ RunFinish \/ FinLeases \/ FinSubscriptions
    BY <1>4 DEF RunRead, RunWrite, RunEnd, RunFinish, FinLeases, FinSubscriptions
<1>5. CASE FinSnapshot \/ FinRestore \/ FinMark \/ FinRead \/ FinWrite
    BY <1>5 DEF FinSnapshot, FinRestore, FinMark, FinRead, FinWrite
<1>6. CASE HeartWake \/ HeartRenew \/ PollExit \/ AgentKill \/ AgentMarkRecoverable \/ LeaseExpire \/ Gone
    BY <1>6 DEF HeartWake, HeartRenew, PollExit, AgentKill, AgentMarkRecoverable, LeaseExpire, Gone
<1>12. CASE RunApply
    BY <1>12 DEF RunApply
<1>13. ASSUME NEW a \in Actors, CloseRead(a) PROVE PositionsStay
    BY <1>13 DEF CloseRead
<1>7. ASSUME NEW s \in Stops, StopCall(s) PROVE PositionsStay
    BY <1>7 DEF StopCall, Actors
<1>8. ASSUME NEW a \in Actors,
             \/ StopEnter(a) \/ StopRead(a) \/ StopWriteStopping(a) \/ StopWriteFinal(a)
             \/ CloseCheckFlat(a)
      PROVE  PositionsStay
    BY <1>8 DEF StopEnter, StopRead, StopWriteStopping, StopWriteFinal, CloseCheckFlat
<1>9. ASSUME NEW a \in Actors, CloseBuild(a) PROVE PositionsStay
    BY <1>9 DEF CloseBuild
<1>10. ASSUME NEW a \in Actors, StopSettle(a) PROVE PositionsStay
    BY <1>10 DEF StopSettle
<1>11. CASE UNCHANGED vars
    BY <1>11
<1> QED
    BY <1>1, <1>2, <1>3, <1>4, <1>5, <1>6, <1>7, <1>8, <1>9, <1>10, <1>11, <1>12, <1>13
    DEF Next, RunStep, ActorStep

(* The order of an actor is a function of what it still has to close.      *)
LEMMA SameOrder ==
    ASSUME NEW a \in Actors, todo'[a] = todo[a]
    PROVE  NextOrder(a)' = NextOrder(a)
<1>1. Unsent(a)' = Unsent(a)
    BY DEF Unsent
<1> QED
    BY <1>1 DEF NextOrder

(* A step that leaves the fills about to be applied alone leaves their     *)
(* units alone.                                                            *)
LEMMA SameExecuted ==
    ASSUME NEW x,
           \A a \in Actors :
              /\ pc'[a] \in {"apply", "store"} <=> pc[a] \in {"apply", "store"}
              /\ pc[a] \in {"apply", "store"} => todo'[a] = todo[a] /\ fill'[a] = fill[a]
    PROVE  Executed(x)' = Executed(x)
<1>1. ASSUME NEW a \in Actors, pc[a] \in {"apply", "store"}
      PROVE  NextOrder(a)' = NextOrder(a) /\ fill'[a] = fill[a]
    BY <1>1, SameOrder
<1> QED
    BY <1>1 DEF Executed

(* n units of one actor more, or less.                                     *)
LEMMA UnitsOf ==
    ASSUME NEW S, NEW a, NEW n \in Nat, IsFiniteSet(S), S \cap ({a} \X (1..n)) = {}
    PROVE  /\ IsFiniteSet(S \cup ({a} \X (1..n)))
           /\ Cardinality(S \cup ({a} \X (1..n))) = Cardinality(S) + n
<1> DEFINE T == {a} \X (1..n)
<1>1. IsFiniteSet({a}) /\ Cardinality({a}) = 1
    BY FS_Singleton
<1>2. IsFiniteSet(1..n) /\ Cardinality(1..n) = n
    BY FS_Interval
<1>3. IsFiniteSet(T) /\ Cardinality(T) = n
    <2>1. IsFiniteSet(T) /\ Cardinality(T) = Cardinality({a}) * Cardinality(1..n)
        BY <1>1, <1>2, FS_Product, Zenon
    <2>2. 1 * n = n
        OBVIOUS
    <2> QED
        BY <1>1, <1>2, <2>1, <2>2, Zenon
<1>4. Cardinality(S) \in Nat /\ Cardinality({}) = 0
    BY FS_CardinalityType, FS_EmptySet
<1>5. S \cap T = {}
    OBVIOUS
<1> HIDE DEF T
<1>6. IsFiniteSet(S \cup T) /\ Cardinality(S \cup T) = Cardinality(S) + n
    <2>1. /\ IsFiniteSet(S \cup T)
          /\ Cardinality(S \cup T) = Cardinality(S) + Cardinality(T) - Cardinality(S \cap T)
        BY <1>3, FS_Union, Zenon
    <2> QED
        BY <1>3, <1>4, <1>5, <2>1
<1> QED
    BY <1>6 DEF T

LEMMA RunPositions ==
    ASSUME TypeOK, PositionInv, RunOrder \/ RunSettle
    PROVE  PositionInv'
<1>1. UNCHANGED <<pc, todo, fill>>
    BY DEF RunOrder, RunSettle, actorVars
<1>2. \A x : Executed(x)' = Executed(x)
    BY <1>1, SameExecuted
<1>3. ASSUME NEW x \in Symbols, x \notin raced'
      PROVE  x \notin raced /\ exch'[x] - pos'[x] - trade'[x] = exch[x] - pos[x] - trade[x] /\ exch'[x] \in Int /\ pos'[x] \in Int /\ trade'[x] \in Int
    <2>0. /\ exch \in [Symbols -> 0..MaxPos] /\ pos \in [Symbols -> Int] /\ trade \in [Symbols -> {-1, 0, 1}]
          /\ MaxPos \in Nat
        BY LifecycleAssumption DEF TypeOK
    <2>1. CASE RunOrder
        <3>1. PICK y \in Symbols :
                /\ trade[y] = 0
                /\ \/ exch' = [exch EXCEPT ![y] = @ + 1] /\ trade' = [trade EXCEPT ![y] = 1]
                   \/ exch' = [exch EXCEPT ![y] = @ - 1] /\ trade' = [trade EXCEPT ![y] = -1]
            BY <2>1 DEF RunOrder
        <3>2. pos' = pos /\ raced' = raced
            BY <2>1 DEF RunOrder
        <3> QED
            BY <1>3, <2>0, <3>1, <3>2
    <2>2. CASE RunSettle
        <3>1. PICK y \in Symbols :
                /\ pos' = [pos EXCEPT ![y] = runSeen + trade[y]]
                /\ raced' = IF pos[y] = runSeen THEN raced ELSE raced \cup {y}
                /\ trade' = [trade EXCEPT ![y] = 0]
            BY <2>2 DEF RunSettle, StorePosition, TypeOK
        <3>2. exch' = exch /\ x \notin raced
            BY <1>3, <2>2, <3>1 DEF RunSettle
        <3>3. x = y => pos[y] = runSeen
            BY <1>3, <3>1
        <3> QED
            BY <2>0, <3>1, <3>2, <3>3
    <2> QED
        BY <2>1, <2>2
<1>5. ASSUME NEW x \in Symbols
      PROVE  IsFiniteSet(Executed(x)')
    BY <1>2 DEF PositionInv
<1>4. ASSUME NEW x \in Symbols, x \notin raced'
      PROVE  exch'[x] + Cardinality(Executed(x)') <= pos'[x] + trade'[x]
    <2> DEFINE n == Cardinality(Executed(x))
    <2>1. IsFiniteSet(Executed(x)) /\ exch[x] + n <= pos[x] + trade[x]
        BY <1>3, <1>4 DEF PositionInv
    <2>2. n \in Nat
        BY <2>1, FS_CardinalityType
    <2>3. exch[x] \in Int /\ pos[x] \in Int /\ trade[x] \in Int
        BY LifecycleAssumption DEF TypeOK
    <2>4. Executed(x)' = Executed(x)
        BY <1>2
    <2>5. exch'[x] - pos'[x] - trade'[x] = exch[x] - pos[x] - trade[x] /\ exch'[x] \in Int /\ pos'[x] \in Int /\ trade'[x] \in Int
        BY <1>3, <1>4
    <2>6. exch'[x] + n <= pos'[x] + trade'[x]
        <3> HIDE DEF n
        <3> QED
            BY <2>1, <2>2, <2>3, <2>5
    <2> QED
        BY <2>4, <2>6
<1> QED
    BY <1>4, <1>5 DEF PositionInv

(* A close order takes off the exchange what its actor then applies, or    *)
(* takes it off and the actor gives up.                                    *)
LEMMA CloseOrderPositions ==
    ASSUME TypeOK, PositionInv, NEW a \in Actors, CloseOrder(a)
    PROVE  PositionInv'
<1> DEFINE x == NextOrder(a)
           executed == IF exch[x] < todo[a][x] THEN exch[x] ELSE todo[a][x]
<1>0. /\ pc[a] = "orders" /\ UNCHANGED <<pos, trade, raced, todo>>
      /\ \/ /\ exch' = [exch EXCEPT ![x] = @ - executed]
            /\ fill' = [fill EXCEPT ![a] = executed]
            /\ pc' = [pc EXCEPT ![a] = "apply"]
         \/ /\ exch' \in {exch, [exch EXCEPT ![x] = @ - executed]}
            /\ pc' = [pc EXCEPT ![a] = "fail"]
            /\ fill' = fill
    BY DEF CloseOrder, sessionVars
<1>1. x \in Symbols /\ todo[a][x] > 0
    BY DEF CloseOrder, NextOrder, Unsent
<1> HIDE DEF x
<1>2. /\ exch \in [Symbols -> Nat] /\ pos \in [Symbols -> Int] /\ trade \in [Symbols -> Int]
      /\ todo[a][x] \in Int /\ pc \in [Actors -> ActorPcs] /\ fill \in [Actors -> Nat]
    BY <1>1, LifecycleAssumption DEF TypeOK
<1>3. executed \in Nat
    BY <1>1, <1>2
<1> HIDE DEF executed
<1>4. \A b \in Actors : b # a => pc'[b] = pc[b] /\ fill'[b] = fill[b] /\ NextOrder(b)' = NextOrder(b)
    BY <1>0, <1>2, SameOrder
<1>5. NextOrder(a)' = x
    BY <1>0, SameOrder DEF x
<1>6. ASSUME NEW y \in Symbols
      PROVE  /\ IsFiniteSet(Executed(y)')
             /\ y \notin raced' => exch'[y] + Cardinality(Executed(y)') <= pos'[y] + trade'[y]
    <2> DEFINE S == Executed(y)
    <2>1. IsFiniteSet(S) /\ (y \notin raced => exch[y] + Cardinality(S) <= pos[y] + trade[y])
        BY DEF PositionInv
    <2>2. Cardinality(S) \in Nat
        BY <2>1, FS_CardinalityType
    <2>3. exch[y] \in Nat /\ pos[y] \in Int /\ trade[y] \in Int /\ pos'[y] = pos[y] /\ trade'[y] = trade[y] /\ raced' = raced
        BY <1>0, <1>2
    <2>4. CASE pc' = [pc EXCEPT ![a] = "fail"]
        <3>1. Executed(y)' = S
            BY <1>0, <1>2, <1>4, <2>4 DEF Executed
        <3>2. exch'[y] \in Int /\ exch'[y] <= exch[y]
            BY <1>0, <1>2, <1>3, <2>4
        <3> HIDE DEF S
        <3> QED
            BY <2>1, <2>2, <2>3, <3>1, <3>2
    <2>5. CASE pc' = [pc EXCEPT ![a] = "apply"] /\ y # x
        <3>1. Executed(y)' = S
            BY <1>0, <1>2, <1>4, <1>5, <2>5 DEF Executed
        <3>2. exch'[y] = exch[y]
            BY <1>0, <1>2, <2>5
        <3> QED
            BY <2>1, <2>3, <3>1, <3>2
    <2>6. CASE pc' = [pc EXCEPT ![a] = "apply"] /\ y = x
        <3>0. exch' = [exch EXCEPT ![x] = @ - executed] /\ fill' = [fill EXCEPT ![a] = executed]
            BY <1>0, <1>2, <2>6
        <3>1. Executed(y)' = S \cup ({a} \X (1..executed))
            BY <1>0, <1>2, <1>3, <1>4, <1>5, <2>6, <3>0 DEF Executed
        <3>2. S \cap ({a} \X (1..executed)) = {}
            BY <1>0 DEF Executed
        <3> HIDE DEF S
        <3>3. IsFiniteSet(Executed(y)') /\ Cardinality(Executed(y)') = Cardinality(S) + executed
            <4>1. /\ IsFiniteSet(S \cup ({a} \X (1..executed)))
                  /\ Cardinality(S \cup ({a} \X (1..executed))) = Cardinality(S) + executed
                BY <1>3, <2>1, <3>2, UnitsOf, Zenon
            <4> QED
                BY <3>1, <4>1, Zenon
        <3>4. exch'[y] = exch[y] - executed
            BY <1>1, <1>2, <2>6, <3>0
        <3> QED
            BY <1>3, <2>1, <2>2, <2>3, <3>3, <3>4
    <2> QED
        BY <1>0, <2>4, <2>5, <2>6
<1> QED
    BY <1>6 DEF PositionInv

(* A fill is taken off the wallet by the actor whose order executed it.    *)
LEMMA CloseApplyPositions ==
    ASSUME TypeOK, PositionInv, NEW a \in Actors, CloseApply(a)
    PROVE  PositionInv'
<1> DEFINE x == NextOrder(a)
<1>0. /\ pc[a] = "store" /\ UNCHANGED <<exch, trade>>
      /\ pos' = [pos EXCEPT ![x] = seen[a] + (-fill[a])]
      /\ raced' = IF pos[x] = seen[a] THEN raced ELSE raced \cup {x}
      /\ todo' = [todo EXCEPT ![a][x] = 0]
      /\ fill' = [fill EXCEPT ![a] = 0]
      /\ pc' = [pc EXCEPT ![a] = "orders"] \/ pc' = [pc EXCEPT ![a] = "aborted"]
    BY DEF CloseApply, StorePosition, platformVars
<1> HIDE DEF x
<1>1. /\ exch \in [Symbols -> Nat] /\ pos \in [Symbols -> Int] /\ trade \in [Symbols -> Int]
      /\ pc \in [Actors -> ActorPcs] /\ fill \in [Actors -> Nat] /\ todo \in [Actors -> [Symbols -> Int]]
    BY LifecycleAssumption DEF TypeOK
<1>2. fill[a] \in Nat /\ pc'[a] \notin {"apply", "store"}
    BY <1>0, <1>1
<1>3. \A b \in Actors : b # a => pc'[b] = pc[b] /\ fill'[b] = fill[b] /\ NextOrder(b)' = NextOrder(b)
    BY <1>0, <1>1, SameOrder
<1>4. ASSUME NEW y \in Symbols
      PROVE  /\ IsFiniteSet(Executed(y)')
             /\ y \notin raced' => exch'[y] + Cardinality(Executed(y)') <= pos'[y] + trade'[y]
    <2> DEFINE S == Executed(y)
               R == Executed(y)'
    <2>1. IsFiniteSet(S) /\ (y \notin raced => exch[y] + Cardinality(S) <= pos[y] + trade[y])
        BY DEF PositionInv
    <2>6. y \notin raced' => y \notin raced /\ (y = x => pos[x] = seen[a])
        BY <1>0
    <2>2. Cardinality(S) \in Nat
        BY <2>1, FS_CardinalityType
    <2>3. exch[y] \in Nat /\ pos[y] \in Int /\ trade[y] \in Int /\ exch'[y] = exch[y] /\ trade'[y] = trade[y]
        BY <1>0, <1>1
    <2>4. CASE y # x
        <3>1. R = S
            BY <1>2, <1>3, <2>4 DEF Executed, x
        <3>2. pos'[y] = pos[y]
            BY <1>0, <1>1, <2>4
        <3> QED
            BY <2>1, <2>3, <2>6, <3>1, <3>2
    <2>5. CASE y = x
        <3>1. S = R \cup ({a} \X (1..fill[a])) /\ R \cap ({a} \X (1..fill[a])) = {}
            BY <1>0, <1>2, <1>3, <2>5 DEF Executed, x
        <3>2. R \in SUBSET S
            BY <3>1
        <3> HIDE DEF R, S
        <3>3. IsFiniteSet(R)
            BY <2>1, <3>2, FS_Subset
        <3>4. Cardinality(S) = Cardinality(R) + fill[a] /\ Cardinality(R) \in Nat
            BY <1>2, <3>1, <3>3, UnitsOf, FS_CardinalityType
        <3>5. y \notin raced' => pos'[y] = pos[y] - fill[a]
            BY <1>0, <1>1, <2>5, <2>6
        <3>6. y \notin raced' => exch'[y] + Cardinality(R) <= pos'[y] + trade'[y]
            BY <1>2, <2>1, <2>3, <2>6, <3>4, <3>5
        <3> QED
            BY <3>3, <3>6 DEF R
    <2> QED
        BY <2>4, <2>5
<1> QED
    BY <1>4 DEF PositionInv

LEMMA NextPositionInv == TypeOK /\ PositionInv /\ [Next]_vars => PositionInv'
<1> SUFFICES ASSUME TypeOK, PositionInv, [Next]_vars PROVE PositionInv'
    OBVIOUS
<1>1. CASE PositionsStay
    <2>1. \A x : Executed(x)' = Executed(x)
        BY <1>1, SameExecuted DEF PositionsStay
    <2> QED
        BY <1>1, <2>1 DEF PositionInv, PositionsStay
<1>2. CASE RunOrder \/ RunSettle
    BY <1>2, RunPositions
<1>3. CASE \E a \in Actors : CloseOrder(a) \/ CloseApply(a)
    BY <1>3, CloseOrderPositions, CloseApplyPositions
<1> QED
    BY <1>1, <1>2, <1>3, NextPositions

(* Whoever closes or trades meanwhile, for any number of stop calls and    *)
(* positions of any size, the wallet never believes a position smaller     *)
(* than the exchange has it, but for an execution of the run thread that   *)
(* is still to be settled, and but for the symbols on which two unlocked   *)
(* wallet updates overlapped: apply_fill loses updates in no other way.    *)
THEOREM WalletAlwaysCovers == Spec => []WalletCoversExchange
<1>1. Init => PositionInv
    <2> SUFFICES ASSUME Init, NEW x \in Symbols
                 PROVE  IsFiniteSet(Executed(x)) /\ exch[x] + Cardinality(Executed(x)) <= pos[x] + trade[x]
        BY DEF PositionInv
    <2>1. Executed(x) = {}
        BY DEF Init, Executed
    <2>2. exch[x] = 0 /\ pos[x] = 0 /\ trade[x] = 0
        BY DEF Init
    <2> QED
        BY <2>1, <2>2, FS_EmptySet
<1>2. TypeOK /\ PositionInv => WalletCoversExchange
    <2> SUFFICES ASSUME TypeOK, PositionInv, NEW x \in Symbols \ raced
                 PROVE  exch[x] <= pos[x] + (IF trade[x] > 0 THEN trade[x] ELSE 0)
        BY DEF WalletCoversExchange
    <2>1. exch[x] \in Int /\ pos[x] \in Int /\ trade[x] \in {-1, 0, 1}
        BY LifecycleAssumption DEF TypeOK
    <2>2. Cardinality(Executed(x)) \in Nat /\ exch[x] + Cardinality(Executed(x)) <= pos[x] + trade[x]
        BY FS_CardinalityType DEF PositionInv
    <2> QED
        BY <2>1, <2>2
<1> QED
    BY <1>1, <1>2, InitTypeInv, NextTypeInv, NextPositionInv, PTL DEF Spec, TypeInv

=============================================================================
