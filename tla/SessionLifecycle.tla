-------------------------- MODULE SessionLifecycle --------------------------
(***************************************************************************)
(* The life of one strategy session inside its worker process              *)
(* (strategy_service/grpc_server.py, session.py, session_worker_entry.py). *)
(*                                                                         *)
(* A worker runs one session.  Its threads share a SessionState:           *)
(*   - the run thread (_run_session): start, data loop, finalization;      *)
(*   - the lease heartbeat thread of a demo session;                       *)
(*   - one thread for every StopStrategy call the agent delivers;          *)
(*   - the main thread, which polls the status and leaves the process when *)
(*     it is terminal; every other thread is a daemon and dies with it.    *)
(* The max-loss guard runs inside the run thread but follows the steps of  *)
(* StopStrategy(STOP_AND_CLOSE_POSITIONS), so it is one more "actor".      *)
(*                                                                         *)
(* The platform (session row, wallet snapshot, leases, subscriptions,      *)
(* exchange positions) is external and modelled as the calls use it.       *)
(***************************************************************************)
EXTENDS Integers, FiniteSets

CONSTANTS
    Environment,      \* portfolio environment: 0 backtest, 1 demo
    LeaseManagement,  \* market_data_policy.lease_management_enabled
    Symbols,          \* order targets of the session
    Stops,            \* the StopStrategy calls that may be made
    Guard,            \* the max-loss guard, as an actor
    PageSize,         \* BACKTEST_PAGE_SIZE
    MaxBars,          \* bound: bars in the backtest range
    MaxPos,           \* bound: size of a position at the exchange
    MaxFailures       \* bound: platform calls that fail or time out

ASSUME LifecycleAssumption ==
    /\ Environment \in {0, 1}
    /\ LeaseManagement \in BOOLEAN
    /\ Guard \notin Stops
    /\ PageSize \in Nat \ {0}
    /\ MaxBars \in Nat
    /\ MaxPos \in Nat
    /\ MaxFailures \in Nat

Actors == Stops \cup {Guard}

Active   == {"running", "stopping"}
Terminal == {"finished", "stopped", "failed", "stop_failed", "recoverable"}
Statuses == Active \cup Terminal

StopActions == {"finish", "stop_only", "close"}

RunPcs ==
    {"start", "lease", "live",                     \* before the loop
     "wait", "bar", "check", "guard", "read", "write",  \* the loop
     "barstore", "waitstore",                      \* inside wallet.on_order
     "end", "finish",                              \* end of a backtest
     "fin", "subs", "snap", "restore", "mark", "finread", "finwrite",
     "done", "dead"}

ActorPcs ==
    {"idle", "enter", "read1", "write1", "build", "orders", "apply", "store",
     "okay", "fail", "readF", "writeF", "done", "aborted"}

VARIABLES
    status,       \* SessionState.status
    run,          \* program counter of the run thread
    runRead,      \* status the run thread read for its pending update
    settling,     \* the symbol whose fill the run thread applies, if any
    runSeen,      \* the position it read for that
    bars,         \* bars the backtest has processed
    finErr,       \* finalization_errors is not empty
    pc,           \* program counter of every actor
    act,          \* action of its StopStrategy request
    rd,           \* status the actor read for its pending update
    todo,         \* quantities the actor still has to close
    fill,         \* executed quantity its wallet update is about to apply
    seen,         \* the position the actor read for that update
    heart,        \* the lease heartbeat thread
    leaseStop,    \* SessionState.lease_stop_event
    stopEvent,    \* SessionState._stop_event
    stopRuntime,  \* wallet and order_client are configured for stopping
    pos,          \* positions in the worker's wallet
    trade,        \* executions the run thread has not settled yet
    raced,        \* history: symbols on which a wallet update was lost
    process,      \* the worker process
    \* the platform:
    db,           \* status column of the session row
    core,         \* whose wallet state the platform holds for the portfolio
    leases,       \* the market-data leases
    subs,         \* the session market-data subscriptions
    exch,         \* positions at the exchange
    fails         \* platform calls that failed so far

sessionVars  == <<status, bars, finErr, pos, trade, raced, stopRuntime>>
runVars      == <<run, runRead, settling, runSeen>>
actorVars    == <<pc, act, rd, todo, fill, seen>>
eventVars    == <<heart, leaseStop, stopEvent>>
platformVars == <<db, core, leases, subs, exch, fails>>
vars == <<sessionVars, runVars, actorVars, eventVars, platformVars, process>>

TypeOK ==
    /\ status \in Statuses
    /\ run \in RunPcs
    /\ runRead \in Statuses
    /\ settling \in SUBSET Symbols
    /\ runSeen \in Int
    /\ bars \in 0..MaxBars
    /\ finErr \in BOOLEAN
    /\ pc \in [Actors -> ActorPcs]
    /\ act \in [Actors -> StopActions]
    /\ rd \in [Actors -> Statuses]
    /\ todo \in [Actors -> [Symbols -> Int]]
    /\ fill \in [Actors -> Nat]
    /\ seen \in [Actors -> Int]
    /\ heart \in {"none", "wait", "renew", "done"}
    /\ leaseStop \in {"none", "clear", "set"}
    /\ stopEvent \in {"none", "clear", "set"}
    /\ stopRuntime \in {"none", "ready"}
    /\ pos \in [Symbols -> Int]
    /\ trade \in [Symbols -> {-1, 0, 1}]
    /\ raced \in SUBSET Symbols
    /\ process \in {"up", "killed", "exited"}
    /\ db \in Statuses
    /\ core \in {"initial", "session"}
    /\ leases \in {"none", "held"}
    /\ subs \in {"none", "active"}
    /\ exch \in [Symbols -> 0..MaxPos]
    /\ fails \in 0..MaxFailures

(* RunStrategy has created the session, its subscriptions and its row, and *)
(* started the run thread.                                                 *)
Init ==
    /\ status = "running"
    /\ run = "start"
    /\ runRead = "running"
    /\ settling = {}
    /\ runSeen = 0
    /\ bars = 0
    /\ finErr = FALSE
    /\ pc = [a \in Actors |-> "idle"]
    /\ act = [a \in Actors |-> "close"]
    /\ rd = [a \in Actors |-> "running"]
    /\ todo = [a \in Actors |-> [x \in Symbols |-> 0]]
    /\ fill = [a \in Actors |-> 0]
    /\ seen = [a \in Actors |-> 0]
    /\ heart = "none"
    /\ leaseStop = "none"
    /\ stopEvent = "none"
    /\ stopRuntime = "none"
    /\ pos = [x \in Symbols |-> 0]
    /\ trade = [x \in Symbols |-> 0]
    /\ raced = {}
    /\ process = "up"
    /\ db = "running"
    /\ core = "initial"
    /\ leases = "none"
    /\ subs = IF Environment = 1 THEN "active" ELSE "none"
    /\ exch = [x \in Symbols |-> 0]
    /\ fails = 0

-----------------------------------------------------------------------------
(* Every thread of the worker needs the process to be there.               *)
Up == process = "up" /\ process' = process

(* Mutant: transition() that forgets to reject a terminal session.         *)
TransitionUnchecked(to) == status' = to

(* SessionState.transition: atomic under its lock, rejected once terminal. *)
Transition(to) == status' = IF status \in Terminal THEN status ELSE to

(* event.set() where the attribute may still be None. *)
Raise(event) == IF event = "none" THEN "none" ELSE "set"

(* A platform call takes effect or not and is reported as a success or as  *)
(* an exception; a call that timed out may have taken effect.              *)
PlatformCall(applied, ok) ==
    /\ ok => applied
    /\ ok \/ fails < MaxFailures
    /\ fails' = IF ok THEN fails ELSE fails + 1

(* ProxyPortfolioClient.update_session: swallows every exception. *)
UpdateSession(value) ==
    \E applied, ok \in BOOLEAN :
        /\ PlatformCall(applied, ok)
        /\ db' = IF applied THEN value ELSE db

(* _sync_strategy_snapshot: writes the wallet, raises when it fails. *)
SyncSnapshot(wallet, ok) ==
    \E applied \in BOOLEAN :
        /\ PlatformCall(applied, ok)
        /\ core' = IF applied THEN wallet ELSE core

(* ProxyMarketDataClient.create_or_renew_market_data_lease, for every      *)
(* stream of the session: swallows every exception.                        *)
RenewLease(ok) ==
    \E applied \in BOOLEAN :
        /\ PlatformCall(applied, ok)
        /\ leases' = IF applied THEN "held" ELSE leases

-----------------------------------------------------------------------------
(* The run thread: _run_session up to its data loop.                       *)

(* The strategy object exists and StopStrategy may use wallet and client.  *)
RunStart ==
    /\ Up
    /\ run = "start"
    /\ stopRuntime' = "ready"
    /\ run' = IF Environment = 0 THEN "wait"
              ELSE IF LeaseManagement THEN "lease" ELSE "live"
    /\ UNCHANGED <<status, bars, finErr, pos, trade, raced, runRead, settling, runSeen, actorVars, eventVars, platformVars>>

(* Creating the strategy raised, or the backtest request has no range or   *)
(* no page source: the session fails and goes to finalization.             *)
RunStartFails ==
    /\ Up
    /\ run = "start"
    /\ Transition("failed")
    /\ run' = "fin"
    /\ stopRuntime' \in {stopRuntime, IF Environment = 0 THEN "ready" ELSE stopRuntime}
    /\ UNCHANGED <<bars, finErr, pos, trade, raced, runRead, settling, runSeen, actorVars, eventVars, platformVars>>

(* First lease renewal of a demo session, then the heartbeat thread.       *)
RunLease ==
    /\ Up
    /\ run = "lease"
    /\ \E ok \in BOOLEAN :
        /\ RenewLease(ok)
        /\ IF ok THEN /\ run' = "live"
                      /\ heart' = "wait"
                      /\ leaseStop' = "clear"
                      /\ UNCHANGED status
                 ELSE /\ run' = "fin"
                      /\ Transition("failed")
                      /\ UNCHANGED <<heart, leaseStop>>
    /\ UNCHANGED <<bars, finErr, pos, trade, raced, stopRuntime, runRead, settling, runSeen, actorVars, stopEvent, db, core, subs, exch>>

(* The stop event exists only from here on. *)
RunLive ==
    /\ Up
    /\ run = "live"
    /\ stopEvent' = "clear"
    /\ run' = "wait"
    /\ UNCHANGED <<sessionVars, runRead, settling, runSeen, actorVars, heart, leaseStop, platformVars>>

-----------------------------------------------------------------------------
(* The run thread: the data loop.                                          *)

(* The next bar is there and the session still runs: process it.           *)
RunNextBar ==
    /\ Up
    /\ run = "wait"
    /\ status = "running"
    /\ stopEvent # "set"
    /\ bars < MaxBars \/ Environment = 1
    /\ run' = "bar"
    /\ UNCHANGED <<sessionVars, runRead, settling, runSeen, actorVars, eventVars, platformVars>>

(* The next bar is there but the session was stopped meanwhile.            *)
RunBreak ==
    /\ Up
    /\ run = "wait"
    /\ status # "running"
    /\ bars < MaxBars \/ Environment = 1
    /\ run' = IF Environment = 0 THEN "end" ELSE "fin"
    /\ UNCHANGED <<sessionVars, runRead, settling, runSeen, actorVars, eventVars, platformVars>>

(* A live iterator returns once the stop event is set. *)
RunStopSeen ==
    /\ Up
    /\ run = "wait"
    /\ Environment = 1
    /\ stopEvent = "set"
    /\ run' = "fin"
    /\ UNCHANGED <<sessionVars, runRead, settling, runSeen, actorVars, eventVars, platformVars>>

(* A backtest has no more bars. *)
RunDataEnd ==
    /\ Up
    /\ run = "wait"
    /\ Environment = 0
    /\ run' = "end"
    /\ UNCHANGED <<sessionVars, runRead, settling, runSeen, actorVars, eventVars, platformVars>>

(* A page or the agent stream failed, or user code raised.                 *)
RunRaise ==
    /\ Up
    /\ run \in {"wait", "bar"}
    /\ Transition("failed")
    /\ run' = "fin"
    /\ UNCHANGED <<bars, finErr, pos, trade, raced, stopRuntime, runRead, settling, runSeen, actorVars, eventVars, platformVars>>

(* An order of the strategy is executed: while it handles a bar or, for an *)
(* order that rests at the exchange of a demo session, later.  A key whose *)
(* execution is not settled is blocked, so there is one per symbol.        *)
RunOrder ==
    /\ Up
    /\ run = "bar" \/ (run = "wait" /\ Environment = 1)
    /\ \E x \in Symbols :
        /\ trade[x] = 0
        /\ \/ /\ exch[x] < MaxPos
              /\ exch' = [exch EXCEPT ![x] = @ + 1]
              /\ trade' = [trade EXCEPT ![x] = 1]
           \/ /\ exch[x] > 0
              /\ exch' = [exch EXCEPT ![x] = @ - 1]
              /\ trade' = [trade EXCEPT ![x] = -1]
    /\ UNCHANGED <<status, bars, finErr, pos, raced, stopRuntime, runVars, actorVars, eventVars, db, core, leases, subs, fails>>

(* The answer of place_order, or an order update pushed to a demo session, *)
(* is applied to the wallet.  Nothing locks the wallet: apply_fill reads   *)
(* the position, ...  An answer may never come.                            *)
RunApply ==
    /\ Up
    /\ \/ run = "bar"
       \/ run = "wait" /\ Environment = 1 /\ status = "running" /\ stopEvent # "set"
    /\ \E x \in Symbols :
        /\ trade[x] # 0
        /\ settling' = {x}
        /\ runSeen' = pos[x]
    /\ run' = IF run = "bar" THEN "barstore" ELSE "waitstore"
    /\ UNCHANGED <<sessionVars, runRead, actorVars, eventVars, platformVars>>

(* A position is written that was computed from an earlier read: whatever  *)
(* another thread wrote meanwhile is gone.  (A position that becomes zero  *)
(* is written twice, which can lose an update in the same way.)            *)
StorePosition(x, read, delta) ==
    /\ pos' = [pos EXCEPT ![x] = read + delta]
    /\ raced' = IF pos[x] = read THEN raced ELSE raced \cup {x}

(* ... and writes it back; then on_order_callback writes the snapshot; a   *)
(* failing callback is only logged.                                        *)
RunSettle ==
    /\ Up
    /\ run \in {"barstore", "waitstore"}
    /\ \E x \in settling :
        /\ StorePosition(x, runSeen, trade[x])
        /\ trade' = [trade EXCEPT ![x] = 0]
    /\ run' = IF run = "barstore" THEN "bar" ELSE "wait"
    /\ settling' = {}
    /\ runSeen' = 0
    /\ \E ok \in BOOLEAN : SyncSnapshot("session", ok)
    /\ UNCHANGED <<status, bars, finErr, stopRuntime, runRead, actorVars, eventVars, db, leases, subs, exch>>

(* _maybe_fire: after some bars, or some time, a demo session pushes its   *)
(* wallet; a failing push is only logged.                                  *)
PeriodicSample ==
    \/ UNCHANGED <<core, fails>>
    \/ Environment = 1 /\ \E ok \in BOOLEAN : SyncSnapshot("session", ok)

(* running_strategy returned; the guard looks at the session next.         *)
RunBarDone ==
    /\ Up
    /\ run = "bar"
    /\ run' = "check"
    /\ PeriodicSample
    /\ UNCHANGED <<sessionVars, runRead, settling, runSeen, actorVars, eventVars, db, leases, subs, exch>>

(* What the loop does after a bar: a backtest counts it and persists every *)
(* PageSize bars, a live loop persists after every bar.                    *)
AfterBar ==
    /\ bars' = IF Environment = 0 THEN bars + 1 ELSE bars
    /\ run' = IF Environment = 1 \/ bars' % PageSize = 0 THEN "read" ELSE "wait"

(* The guard does nothing: the session no longer runs, the loss is below   *)
(* the threshold, or the guard already triggered once.                     *)
RunGuardPasses ==
    /\ Up
    /\ run = "check"
    /\ AfterBar
    /\ UNCHANGED <<status, finErr, pos, trade, raced, stopRuntime, runRead, settling, runSeen, actorVars, eventVars, platformVars>>

(* mark_max_loss_close_triggered: the guard starts closing, at most once.  *)
RunGuardTriggers ==
    /\ Up
    /\ run = "check"
    /\ status = "running"
    /\ pc[Guard] = "idle"
    /\ run' = "guard"
    /\ pc' = [pc EXCEPT ![Guard] = "enter"]
    /\ act' = [act EXCEPT ![Guard] = "close"]
    /\ UNCHANGED <<sessionVars, runRead, settling, runSeen, rd, todo, fill, seen, eventVars, platformVars>>

(* The guard returned or raised; what it raises is swallowed.              *)
RunGuardReturns ==
    /\ Up
    /\ run = "guard"
    /\ pc[Guard] \in {"done", "aborted"}
    /\ AfterBar
    /\ UNCHANGED <<status, finErr, pos, trade, raced, stopRuntime, runRead, settling, runSeen, actorVars, eventVars, platformVars>>

(* The progress update reads the status in one step and sends it in the    *)
(* next: it may be stale when it lands.                                    *)
RunRead ==
    /\ Up
    /\ run = "read"
    /\ runRead' = status
    /\ run' = "write"
    /\ UNCHANGED <<sessionVars, settling, runSeen, actorVars, eventVars, platformVars>>

RunWrite ==
    /\ Up
    /\ run = "write"
    /\ UpdateSession(runRead)
    /\ runRead' = "running"  \* out of scope from here on
    /\ run' = "wait"
    /\ UNCHANGED <<sessionVars, settling, runSeen, actorVars, eventVars, core, leases, subs, exch>>

(* Mutant: a backtest that ends without moving the session to finished.    *)
RunEndSilently ==
    /\ Up
    /\ run = "end"
    /\ run' = "fin"
    /\ UNCHANGED <<sessionVars, runRead, settling, runSeen, actorVars, eventVars, platformVars>>

(* The end of a backtest: the status is tested first, ...                  *)
RunEnd ==
    /\ Up
    /\ run = "end"
    /\ run' = IF status = "running" THEN "finish" ELSE "fin"
    /\ UNCHANGED <<sessionVars, runRead, settling, runSeen, actorVars, eventVars, platformVars>>

(* ... and the transition is another step.                                 *)
RunFinish ==
    /\ Up
    /\ run = "finish"
    /\ Transition("finished")
    /\ run' = "fin"
    /\ UNCHANGED <<bars, finErr, pos, trade, raced, stopRuntime, runRead, settling, runSeen, actorVars, eventVars, platformVars>>

-----------------------------------------------------------------------------
(* The run thread: the finally block of _run_session.                      *)

(* The lease stop event is set and the leases are released.  The proxy's   *)
(* market-data client has no release_market_data_lease (the function is    *)
(* nested, after a return, in _klines_from_struct), so with lease          *)
(* management a demo session's run thread dies here of AttributeError.     *)
FinLeases ==
    /\ Up
    /\ run = "fin"
    /\ leaseStop' = Raise(leaseStop)
    /\ run' = IF Environment = 1 /\ LeaseManagement THEN "dead" ELSE "subs"
    /\ UNCHANGED <<sessionVars, runRead, settling, runSeen, actorVars, heart, stopEvent, platformVars>>

(* Mutant: finalization that forgets the subscriptions.                    *)
FinSubscriptionsSkipped ==
    /\ Up
    /\ run = "subs"
    /\ run' = "snap"
    /\ UNCHANGED <<sessionVars, runRead, settling, runSeen, actorVars, eventVars, platformVars>>

FinSubscriptions ==
    /\ Up
    /\ run = "subs"
    /\ run' = "snap"
    /\ IF Environment = 1
       THEN \E applied, ok \in BOOLEAN :
                /\ PlatformCall(applied, ok)
                /\ subs' = IF applied THEN "none" ELSE subs
       ELSE UNCHANGED <<subs, fails>>
    /\ UNCHANGED <<sessionVars, runRead, settling, runSeen, actorVars, eventVars, db, core, leases, exch>>

(* The strategy_end snapshot; a failure is collected.                      *)
FinSnapshot ==
    /\ Up
    /\ run = "snap"
    /\ \E ok \in BOOLEAN :
        /\ SyncSnapshot("session", ok)
        /\ finErr' = (finErr \/ ~ok)
    /\ run' = IF Environment = 0 THEN "restore" ELSE "mark"
    /\ UNCHANGED <<status, bars, pos, trade, raced, stopRuntime, runRead, settling, runSeen, actorVars, eventVars, db, leases, subs, exch>>

(* Mutant: a failed restore is logged but not collected.                   *)
FinRestoreUncollected ==
    /\ Up
    /\ run = "restore"
    /\ \E ok \in BOOLEAN : SyncSnapshot("initial", ok)
    /\ run' = "mark"
    /\ UNCHANGED <<status, bars, finErr, pos, trade, raced, stopRuntime, runRead, settling, runSeen, actorVars, eventVars, db, leases, subs, exch>>

(* A backtest puts the wallet of before the session back.                  *)
FinRestore ==
    /\ Up
    /\ run = "restore"
    /\ \E ok \in BOOLEAN :
        /\ SyncSnapshot("initial", ok)
        /\ finErr' = (finErr \/ ~ok)
    /\ run' = "mark"
    /\ UNCHANGED <<status, bars, pos, trade, raced, stopRuntime, runRead, settling, runSeen, actorVars, eventVars, db, leases, subs, exch>>

(* Mutant: finalization errors overwrite every status.                     *)
FinMarkAlways ==
    /\ Up
    /\ run = "mark"
    /\ status' = IF finErr THEN "recoverable" ELSE status
    /\ run' = "finread"
    /\ UNCHANGED <<bars, finErr, pos, trade, raced, stopRuntime, runRead, settling, runSeen, actorVars, eventVars, platformVars>>

(* Collected errors make the session recoverable, whatever it was before,  *)
(* unless it already failed.                                               *)
FinMark ==
    /\ Up
    /\ run = "mark"
    /\ status' = IF finErr /\ status \notin {"failed", "stop_failed"}
                 THEN "recoverable" ELSE status
    /\ run' = "finread"
    /\ UNCHANGED <<bars, finErr, pos, trade, raced, stopRuntime, runRead, settling, runSeen, actorVars, eventVars, platformVars>>

FinRead ==
    /\ Up
    /\ run = "finread"
    /\ runRead' = status
    /\ run' = "finwrite"
    /\ UNCHANGED <<sessionVars, settling, runSeen, actorVars, eventVars, platformVars>>

(* (When the update fails the status goes out once more as a progress      *)
(* frame, which the agent drops: the row does not change.)                 *)
FinWrite ==
    /\ Up
    /\ run = "finwrite"
    /\ UpdateSession(runRead)
    /\ runRead' = "running"
    /\ run' = "done"
    /\ UNCHANGED <<sessionVars, settling, runSeen, actorVars, eventVars, core, leases, subs, exch>>

-----------------------------------------------------------------------------
(* Mutant: a heartbeat that looks neither at the event nor at the status.  *)
HeartWakeBlindly ==
    /\ Up
    /\ heart = "wait"
    /\ heart' = "renew"
    /\ UNCHANGED <<sessionVars, runVars, actorVars, leaseStop, stopEvent, platformVars>>

(* The lease heartbeat thread: _lease_heartbeat_loop.                      *)
HeartWake ==
    /\ Up
    /\ heart = "wait"
    /\ heart' = IF leaseStop = "set" \/ status # "running" THEN "done" ELSE "renew"
    /\ UNCHANGED <<sessionVars, runVars, actorVars, leaseStop, stopEvent, platformVars>>

HeartRenew ==
    /\ Up
    /\ heart = "renew"
    /\ heart' = "wait"
    /\ \E ok \in BOOLEAN : RenewLease(ok)
    /\ UNCHANGED <<sessionVars, runVars, actorVars, leaseStop, stopEvent, db, core, subs, exch>>

-----------------------------------------------------------------------------
(* StopStrategy, and the close of the max-loss guard.                      *)

(* A call arrives.  A terminal session is only persisted and halted again. *)
(* (STOP_ACTION_CANCEL returns at once and changes nothing.)               *)
StopCall(s) ==
    /\ Up
    /\ pc[s] = "idle"
    /\ \E action \in StopActions : act' = [act EXCEPT ![s] = action]
    /\ pc' = [pc EXCEPT ![s] = IF status \in Terminal THEN "readF" ELSE "enter"]
    /\ UNCHANGED <<sessionVars, runVars, rd, todo, fill, seen, eventVars, platformVars>>

(* The first transition of the call; rejected if the session became        *)
(* terminal since the call looked.                                         *)
StopEnter(a) ==
    /\ Up
    /\ pc[a] = "enter"
    /\ Transition(IF act[a] = "stop_only" THEN "stopped" ELSE "stopping")
    /\ pc' = [pc EXCEPT ![a] = IF status \in Terminal THEN "done"
                               ELSE IF act[a] = "stop_only" THEN "readF" ELSE "read1"]
    /\ UNCHANGED <<bars, finErr, pos, trade, raced, stopRuntime, runVars, act, rd, todo, fill, seen, eventVars, platformVars>>

(* _persist_session_status reads the status without the lock.              *)
StopRead(a) ==
    /\ Up
    /\ pc[a] \in {"read1", "readF"}
    /\ rd' = [rd EXCEPT ![a] = status]
    /\ pc' = [pc EXCEPT ![a] = IF pc[a] = "read1" THEN "write1" ELSE "writeF"]
    /\ UNCHANGED <<sessionVars, runVars, act, todo, fill, seen, eventVars, platformVars>>

(* The update lands, then _halt_session_runtime(finalize=False).           *)
StopWriteStopping(a) ==
    /\ Up
    /\ pc[a] = "write1"
    /\ UpdateSession(rd[a])
    /\ rd' = [rd EXCEPT ![a] = "running"]
    /\ leaseStop' = Raise(leaseStop)
    /\ pc' = [pc EXCEPT ![a] = IF act[a] = "finish" THEN "okay" ELSE "build"]
    /\ UNCHANGED <<sessionVars, runVars, act, todo, fill, seen, heart, stopEvent, core, leases, subs, exch>>

(* _build_stop_and_close_orders: one order per open position, or a refusal *)
(* (runtime missing, open orders, spot outside a backtest, no price, ...). *)
CloseBuild(a) ==
    /\ Up
    /\ pc[a] = "build"
    /\ \/ /\ pc' = [pc EXCEPT ![a] = "fail"]
          /\ UNCHANGED todo
       \/ /\ stopRuntime = "ready"
          /\ pc' = [pc EXCEPT ![a] = "orders"]
          /\ todo' = [todo EXCEPT ![a] = pos]
    /\ UNCHANGED <<sessionVars, runVars, act, rd, fill, seen, eventVars, platformVars>>

(* The orders are sent in the order in which they were built.              *)
Unsent(a) == {x \in Symbols : todo[a][x] > 0}
NextOrder(a) == CHOOSE x \in Unsent(a) : TRUE

(* Mutant: a close order that was not filled is applied like a fill.       *)
CloseOrderUnchecked(a) ==
    /\ Up
    /\ pc[a] = "orders"
    /\ Unsent(a) # {}
    /\ fill' = [fill EXCEPT ![a] = todo[a][NextOrder(a)]]
    /\ pc' = [pc EXCEPT ![a] = "apply"]
    /\ UNCHANGED <<sessionVars, runVars, act, rd, todo, seen, eventVars, platformVars>>

(* A reduce-only market order for the quantity read when the orders were   *)
(* built: the exchange fills it up to the position it has, or it is        *)
(* rejected, unknown or past the timeout; an order that is reported as     *)
(* unknown may have been filled.                                           *)
CloseOrder(a) ==
    /\ Up
    /\ pc[a] = "orders"
    /\ Unsent(a) # {}
    /\ LET x == NextOrder(a)
           executed == IF exch[x] < todo[a][x] THEN exch[x] ELSE todo[a][x]
           filled == [exch EXCEPT ![x] = @ - executed]
       IN  \/ /\ executed > 0
              /\ exch' = filled
              /\ fill' = [fill EXCEPT ![a] = executed]
              /\ pc' = [pc EXCEPT ![a] = "apply"]
           \/ /\ exch' \in {exch, filled}
              /\ pc' = [pc EXCEPT ![a] = "fail"]
              /\ UNCHANGED fill
    /\ UNCHANGED <<sessionVars, runVars, act, rd, todo, seen, eventVars, db, core, leases, subs, fails>>

(* wallet.on_order of the thread that closes: the position is read, ...    *)
CloseRead(a) ==
    /\ Up
    /\ pc[a] = "apply"
    /\ seen' = [seen EXCEPT ![a] = pos[NextOrder(a)]]
    /\ pc' = [pc EXCEPT ![a] = "store"]
    /\ UNCHANGED <<sessionVars, runVars, act, rd, todo, fill, eventVars, platformVars>>

(* ... and written, then the snapshot; when the snapshot fails the         *)
(* exception leaves StopStrategy (or is swallowed around the guard).       *)
CloseApply(a) ==
    /\ Up
    /\ pc[a] = "store"
    /\ StorePosition(NextOrder(a), seen[a], -fill[a])
    /\ todo' = [todo EXCEPT ![a][NextOrder(a)] = 0]
    /\ fill' = [fill EXCEPT ![a] = 0]
    /\ seen' = [seen EXCEPT ![a] = 0]
    /\ \E ok \in BOOLEAN :
        /\ SyncSnapshot("session", ok)
        /\ pc' = [pc EXCEPT ![a] = IF ok THEN "orders" ELSE "aborted"]
    /\ UNCHANGED <<status, bars, finErr, trade, stopRuntime, runVars, act, rd, eventVars, db, leases, subs, exch>>

(* _portfolio_is_flat looks at the worker's wallet.                        *)
CloseCheckFlat(a) ==
    /\ Up
    /\ pc[a] = "orders"
    /\ Unsent(a) = {}
    /\ pc' = [pc EXCEPT ![a] = IF \A x \in Symbols : pos[x] = 0 THEN "okay" ELSE "fail"]
    /\ UNCHANGED <<sessionVars, runVars, act, rd, todo, fill, seen, eventVars, platformVars>>

(* Mutant: the last transition of the call is missing.                     *)
StopSettleSilently(a) ==
    /\ Up
    /\ pc[a] \in {"okay", "fail"}
    /\ pc' = [pc EXCEPT ![a] = "readF"]
    /\ UNCHANGED <<sessionVars, runVars, act, rd, todo, fill, seen, eventVars, platformVars>>

(* The last transition of the call; its result is ignored.                 *)
StopSettle(a) ==
    /\ Up
    /\ pc[a] \in {"okay", "fail"}
    /\ Transition(IF pc[a] = "fail" THEN "stop_failed"
                  ELSE IF act[a] = "finish" THEN "finished" ELSE "stopped")
    /\ pc' = [pc EXCEPT ![a] = "readF"]
    /\ todo' = [todo EXCEPT ![a] = [x \in Symbols |-> 0]]  \* out of scope
    /\ UNCHANGED <<bars, finErr, pos, trade, raced, stopRuntime, runVars, act, rd, fill, seen, eventVars, platformVars>>

(* The final update lands, then _halt_session_runtime(finalize=True).      *)
StopWriteFinal(a) ==
    /\ Up
    /\ pc[a] = "writeF"
    /\ UpdateSession(rd[a])
    /\ rd' = [rd EXCEPT ![a] = "running"]
    /\ leaseStop' = Raise(leaseStop)
    /\ stopEvent' = Raise(stopEvent)
    /\ pc' = [pc EXCEPT ![a] = "done"]
    /\ UNCHANGED <<sessionVars, runVars, act, todo, fill, seen, heart, core, leases, subs, exch>>

ActorStep(a) ==
    \/ StopEnter(a)
    \/ StopRead(a)
    \/ StopWriteStopping(a)
    \/ CloseBuild(a)
    \/ CloseOrder(a)
    \/ CloseRead(a)
    \/ CloseApply(a)
    \/ CloseCheckFlat(a)
    \/ StopSettle(a)
    \/ StopWriteFinal(a)

-----------------------------------------------------------------------------
(* The process and the platform.                                           *)

(* _poll_until_terminal: main() returns and the daemon threads die.        *)
PollExit ==
    /\ process = "up"
    /\ status \in Terminal
    /\ process' = "exited"
    /\ UNCHANGED <<sessionVars, runVars, actorVars, eventVars, platformVars>>

(* RestartSession of the agent kills the worker ...                        *)
AgentKill ==
    /\ process = "up"
    /\ process' = "killed"
    /\ UNCHANGED <<sessionVars, runVars, actorVars, eventVars, platformVars>>

(* ... and marks its session recoverable.                                  *)
AgentMarkRecoverable ==
    /\ process = "killed"
    /\ process' = "exited"
    /\ UpdateSession("recoverable")
    /\ UNCHANGED <<sessionVars, runVars, actorVars, eventVars, core, leases, subs, exch>>

(* A lease nobody renews reaches its ttl.                                  *)
LeaseExpire ==
    /\ leases = "held"
    /\ process # "up" \/ heart \notin {"wait", "renew"}
    /\ leases' = "none"
    /\ UNCHANGED <<sessionVars, runVars, actorVars, eventVars, db, core, subs, exch, fails, process>>

(* A worker that is gone stays gone.                                       *)
Gone ==
    /\ process = "exited"
    /\ UNCHANGED vars

-----------------------------------------------------------------------------
RunStep ==
    \/ RunStart \/ RunStartFails \/ RunLease \/ RunLive
    \/ RunNextBar \/ RunBreak \/ RunStopSeen \/ RunDataEnd \/ RunRaise
    \/ RunOrder \/ RunApply \/ RunSettle \/ RunBarDone
    \/ RunGuardPasses \/ RunGuardTriggers \/ RunGuardReturns
    \/ RunRead \/ RunWrite \/ RunEnd \/ RunFinish
    \/ FinLeases \/ FinSubscriptions \/ FinSnapshot \/ FinRestore
    \/ FinMark \/ FinRead \/ FinWrite

Next ==
    \/ RunStep
    \/ HeartWake
    \/ HeartRenew
    \/ \E s \in Stops : StopCall(s)
    \/ \E a \in Actors : ActorStep(a)
    \/ PollExit
    \/ AgentKill
    \/ AgentMarkRecoverable
    \/ LeaseExpire
    \/ Gone

Spec == Init /\ [][Next]_vars

(* The steps the run thread takes by itself: a backtest always gets its    *)
(* next page, while market data of a live session may never come.          *)
RunOwnStep ==
    \/ RunStart \/ RunLease \/ RunLive \/ RunStopSeen \/ RunDataEnd
    \/ (Environment = 0 /\ (RunNextBar \/ RunBreak))
    \/ RunSettle \/ RunBarDone \/ RunGuardPasses \/ RunGuardReturns
    \/ RunRead \/ RunWrite \/ RunEnd \/ RunFinish
    \/ FinLeases \/ FinSubscriptions \/ FinSnapshot \/ FinRestore
    \/ FinMark \/ FinRead \/ FinWrite

(* That user code returns from on_market_data, with finitely many orders,  *)
(* is assumed: a bar is not handled for ever (SF, since RunBarDone waits   *)
(* for the fill that is being applied).                                    *)
Fairness ==
    /\ WF_vars(RunOwnStep)
    /\ SF_vars(RunBarDone)
    /\ WF_vars(HeartWake)
    /\ WF_vars(HeartRenew)
    /\ \A a \in Actors : WF_vars(ActorStep(a))
    /\ WF_vars(PollExit)
    /\ WF_vars(AgentMarkRecoverable)
    /\ WF_vars(LeaseExpire)

FairSpec == Spec /\ Fairness

-----------------------------------------------------------------------------
(* Properties.                                                             *)

Ended == {"done", "dead"}

(* What the actor did before it may leave the session in "stopping".       *)
OwnsStopping(a) ==
    /\ pc[a] \in {"read1", "write1", "build", "orders", "apply", "store", "okay", "fail", "aborted"}
    /\ act[a] # "stop_only"

(* A session in "stopping" always has a StopStrategy call or the max-loss  *)
(* guard that is still working on it, or one that died of a failed wallet  *)
(* snapshot: no path of StopStrategy or of _maybe_trigger_max_loss_close   *)
(* returns and leaves the session between running and stopped.             *)
StoppingHasOwner == status = "stopping" => \E a \in Actors : OwnsStopping(a)

(* The session row never runs ahead of SessionState: a terminal status in  *)
(* the row is the session's status, or was before finalization made the    *)
(* session recoverable, or was written by the agent for a killed worker.   *)
(* Every update reads the status before it sends it, so this needs all     *)
(* threads to respect the rejection of transition().                       *)
RowNeverAhead ==
    db \in Terminal => \/ db = status
                       \/ status = "recoverable"
                       \/ process = "exited" /\ db = "recoverable"

(* A backtest whose finalization is complete and that is reported finished *)
(* or stopped has given the portfolio its old wallet back, unless someone  *)
(* closed positions: a snapshot or restore that failed shows in the status.*)
FinishedBacktestIsRestored ==
    /\ Environment = 0
    /\ run = "done"
    /\ status \in {"finished", "stopped"}
    /\ \A a \in Actors : pc[a] = "idle" \/ act[a] # "close"
    => core = "initial"

(* The worker's wallet never believes a position smaller than the exchange *)
(* has it, but for the executions the run thread still has to settle,      *)
(* whoever closes or trades meanwhile and whatever was read when the close *)
(* orders were built: no closing quantity is taken off the wallet that the *)
(* exchange did not execute for that very order.  The one way around it    *)
(* is the missing lock: apply_fill reads the position and writes it back,  *)
(* on the run thread and on every thread of StopStrategy, and a symbol on  *)
(* which two of these overlapped (raced) has lost one of the fills.        *)
WalletCoversExchange ==
    \A x \in Symbols \ raced :
        exch[x] <= pos[x] + (IF trade[x] > 0 THEN trade[x] ELSE 0)

(* transition() rejects a terminal session; only finalization, under the   *)
(* same lock, turns a terminal status into "recoverable", and it leaves    *)
(* failed and stop_failed alone.                                           *)
TerminalIsFinal ==
    [][(status \in Terminal) =>
        \/ status' = status
        \/ run = "mark" /\ status' = "recoverable" /\ status \notin {"failed", "stop_failed"}]_status

(* A backtest comes to an end by itself: the worker leaves, unless a close *)
(* died of a failed snapshot and left the session in "stopping".           *)
BacktestEnds == <>(process # "up" \/ \E a \in Actors : pc[a] = "aborted")

(* Every StopStrategy call that enters the session makes the worker leave, *)
(* whatever the other threads do, unless a close died of a failed snapshot.*)
StopLeadsToExit ==
    \A s \in Stops :
        pc[s] = "enter" ~> (process # "up" \/ \E a \in Actors : pc[a] = "aborted")

(* Once a session has left "running" its leases lapse for good, even if    *)
(* the worker stays up in "stopping": the heartbeat does not renew them.   *)
LeasesLapse == (status # "running") ~> [](leases = "none")

(* When the run thread has ended and no platform call failed, the streams  *)
(* of the session are released.                                            *)
StreamsReleasedAtEnd == run \in Ended /\ fails = 0 => subs = "none"

-----------------------------------------------------------------------------
(* What the comments, tests and docs say and the code does not keep *)

(* WalletCoversExchange without its exception: false, since nothing        *)
(* serialises the wallet updates of the run thread and of StopStrategy.    *)
WalletAlwaysCoversExchange ==
    \A x \in Symbols : exch[x] <= pos[x] + (IF trade[x] > 0 THEN trade[x] ELSE 0)

(* When the worker of a finished backtest is gone, the portfolio has its   *)
(* old wallet back (the comment in _run_session: it must be restored, or   *)
(* the next backtest inherits this one's positions).                       *)
RestoredWhenWorkerLeaves ==
    process = "exited" /\ status = "finished" => core = "initial"

(* When the run thread and every stop call of a worker have ended without  *)
(* failures, the session row has the status of the session.                *)
RowSettled ==
    /\ run = "done"
    /\ \A a \in Actors : pc[a] \in {"idle", "done"}
    /\ fails = 0
    /\ process = "up"
    => db = status

=============================================================================
