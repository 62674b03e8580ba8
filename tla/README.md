# TLA+ specifications of the strategy service

The strategy service runs users' trading strategies.  A Go *runtime agent* is
connected to the platform by one bidirectional stream (RuntimeChannel) and starts
one Python *session worker* process for every strategy session.  The worker loads
the strategy, feeds it market data (a backtest page by page, a demo session from
the stream), sends its orders, keeps a wallet, and reports to the platform.  This
directory models the parts of that system in which several threads, processes or
messages meet, checks them with TLC on small instances and proves the central
results with TLAPS for every instance.

## 1. Inventory

| part | code | state | operations |
|---|---|---|---|
| session lifecycle | `strategy_service/grpc_server.py`, `session.py`, `session_worker_entry.py` | `SessionState` (status, bars, events, wallet, order client), the session row and the wallet state on the platform, leases and subscriptions | `_run_session`, `_run_backtest`, `_run_live_via_platform_proxy`, `StopStrategy`, `_maybe_trigger_max_loss_close`, `_lease_heartbeat_loop`, the finally block, `_poll_until_terminal` |
| admission | `RunStrategy`, `PreviewRunStrategy`, `preflight.py` | what was created so far | a sequence of gates, each with its own compensation |
| engine and order settlement | `strategy/base.py`, `order_client.py` | event cursor, settled quantities, blocked order keys, wallet | `running_strategy`, `handle_order_update`, `_execute_prepared_order`, `_consume_order_updates` |
| backtest pages, hot reload | `backtest_pages.py`, `strategy/base.py`, `inputs.py` | one cursor per stream and a heap, the loaded instance, the file signature, the view | `iter_klines`, `_fill`, `_maybe_reload_strategy`, `InputView.update` |
| worker side of the IPC | `worker_agent_client.py`, `platform_proxy.py` | pending calls, incoming queue | `invoke_platform_unary`, `_handle_agent_frame`, `iter_session_events` |
| agent: sessions and workers | `internal/runtimeagent/agent.go`, `worker_manager.go`, `worker_server.go`, `worker_ipc_server.go` | pending starts, run requests, worker registry, worker processes, connections | `handleRunStrategy`, `RestartSession`, `HandleWorkerFrame`, `Connect`, `StartSessionWorker`, `StopSessionWorker` |
| agent: runtime channel | `runtime_channel.go` | outbound queue, pending calls, heartbeat | `Run`, `Send`, `InvokePlatformAny`, `handleInboundFrame` |
| agent: indicator buffer | `indicator_buffer.go`, `agent.go` | open and finalized chunks per stream and indicator | `AddPoint`, `SnapshotForFlush`, `MarkFinalizedAcked` |
| indicators in the worker | `indicators.py`, `grpc_server.py` | frame of the current bar, chunk buffer when there is no sink | `_install_indicator_collection`, the flush at the end of the run |
| wallet | `wallet/*.py` | balances, positions, open orders | `on_order`, `on_market_data`, `on_ledger_event` |
| declarations, validation | `inputs.py`, `strategy_validator.py` | none | parsing of one input |

How they interact: the platform calls the agent (`RunStrategy`, `StopStrategy`,
`GetStrategyStatus`, `PreviewRunStrategy`) over RuntimeChannel; the agent relays a
call to the worker of the session over a local gRPC stream; the worker calls the
platform (wallet snapshots, session row, orders, leases, pages) through the agent.
Inside a worker, the run thread, one thread per relayed call, the heartbeat and
the main thread share `SessionState`.

What is hard: concurrent stops of one session and a guard that stops it from
inside; a status that is read in one thread and persisted after another thread
changed it; finalization in a daemon thread of a process that leaves as soon as
the status is terminal; platform calls that fail or time out after they took
effect; executions reported twice, late or not at all; answers that come back
after their caller gave up; bounded queues.

## 2. Modules

### SessionLifecycle

One worker with one session.  The run thread is a program counter `run` that
follows `_run_session`: start, leases, the loop (wait for a bar, process it, let
the guard look, persist), the end of a backtest and the steps of the finally block
one by one.  Every StopStrategy call, and the max-loss guard, is an *actor* with a
program counter `pc[a]` that follows `StopStrategy` and
`_stop_and_close_portfolio`.  The heartbeat thread, the main thread that polls,
and the agent that kills a worker to restart its session are actions of their own.
Reads of `state.status` and the updates that carry what was read are different
steps, because other threads run in between; so are an execution at the exchange
and its settlement in the wallet.  The settlement itself is a read of the position
and a store, on the run thread (`RunApply`, `RunSettle`) and on every stop thread
(`CloseRead`, `CloseApply`), and no lock joins the two; `raced` is history: the
symbols on which a store overwrote another one, so that a fill was lost.

The platform is external: the status column `db`, whose wallet it holds for the
portfolio (`core`: the one of before the session or the session's), leases,
subscriptions, positions at the exchange.  A platform call takes effect or not and
succeeds or raises; one that timed out may have taken effect (`PlatformCall`).

Left out: STOP_ACTION_CANCEL (it returns and changes nothing), the error text,
the status "completed" (no code assigns it), hot reload during a bar (BarReplay has
it), and the registry's clean-up after an hour.  Calls of one worker reach the platform in the
order in which they were sent (the agent handles a worker's frames one by one), so
a late effect never overtakes a later call of the same thread.

### OrderSettlement

How the executions of a session's orders reach its wallet.  One thread of the
worker both places orders and handles lifecycle events
(`_run_live_via_platform_proxy` feeds bars and events to the engine in turn), so
no event is handled while a PlaceOrder call is out; the exchange and the
platform, which are external, go on meanwhile.

* `PlaceOrder`, the five `Answer...` actions and `SettleFill` are
  `_execute_prepared_order` with `ProxyOrderClient.place_order`,
  `_resolve_unknown_attempt` and `_build_fill_events`: an attempt fails, stays
  unknown, is accepted without fills, with executions whose fills are not
  confirmed, or with fills.  An answer may list only the oldest fills, because
  `pending_fill_confirmation` shows that the code expects the executed quantity
  and the list of fills to disagree.
* `SkipUpdate` and `ApplyUpdate` are `handle_order_update`.  Events with an id up
  to the cursor are dropped; with `InOrder = FALSE` the cursor may jump, which
  stands for lost and for late events.  `_settled_lifecycle_event_ids` is subsumed
  by the cursor and is not a variable.
* `OnOrder` is the wallet (`BinanceFuturesBook.on_order`), reduced to the quantity
  applied and the entry in `open_orders`; `Record` and `Adjusted` are
  `_record_order_settlement` and `_adjust_lifecycle_order_response`.

Three variables are history: `unresolved`, `split` and `reopened`.  The last two
name the orders that met one of the two miscounts under *Findings*: an order
answered CANCELED or EXPIRED with several fills, and an order that an adjusted
event opened again.  The invariants are stated for all other orders (`Regular`);
section 6 says what happens to these.

Left out: exceptions inside `handle_order_update` for an event of an unknown route
(it is logged and the cursor moves on), the checks that reject an order before the
call (they change nothing), `fill_count` without fill events (only test doubles
produce it), polling of events (`ProxyOrderClient` has no stub, so it returns none;
only pushed events count), and the close orders of StopStrategy, which belong to
SessionLifecycle and are not recorded in the settled quantities.

### BarReplay

The thread of a backtest between the two modules above: the strategy is
constructed (`Construct`) and the signature of its file taken (`Sign`), each stream
is primed with its first page, then bars are popped from the heap in order of open
time and declaration (`Pop`), given to the engine and put into the view (`Deliver`,
`InputView.update`: the bar the view holds of each stream, and the one that
triggered the call), and given to the user's code (`CallReturns`, `CallRaises`); the
stream's cursor moves on and a new page is fetched when its page is used up
(`Advance`).  A page is the set of the first rows behind the cursor; of a full page
the platform may say that more follow although nothing does.  `Stat`, `Read` and `Adopt` are the
three steps of `_maybe_reload_strategy`: between them the owner of the file may
save it again.  A version of the file is a number and a kind: it does not load, it
declares other inputs, its code raises, or it works.  External are the store of
bars (which may get bars of the range while the session runs), the owner of the
file and the caller of StopStrategy.

### RunAdmission

`RunStrategy` up to the start of the run thread, and `PreviewRunStrategy`, for
requests that race for one portfolio.  Every platform read is a step, and the
platform may change between two of them.  What a gate examines is abstracted to
the set of gates that would refuse (`bad`, at first any member of `Worlds`) and the
state of the stream of each declared input; their order, and which reads they share,
is kept.  Every write
(subscriptions, row, snapshot) may fail, or succeed without its answer; the
compensation of each (`FailRow`, `ReleaseSubscriptions`, `Discard`) is a
step that may fail as well.  The platform may also answer a request for
subscriptions with fewer than were asked for: the start is then refused and what was
subscribed stays, since no clean-up is made.  Two variables are history: `uncertain`,
the requests for which a write's answer was lost or a clean-up call failed, and
`short`, those that were answered with fewer subscriptions.  The strategy record is
read from the platform; without one the path in the request is used (`ReadStrategy`).

### SpotLedger and FuturesBook

The two wallets, with integers for the floats.  SpotLedger has one pool of locked
quote and one of locked base for all open orders, as `wallet/spot.py` has, and the
exchange with its own reservations as external state; an operation that raises
leaves what it changed before.  An answer is booked event by event and recorded as
settled (`SettleAnswer` with `Book` and `Record`); a lifecycle event is first reduced
to what is not settled yet (`HandleUpdate` with `Adjusted`), as in OrderSettlement.
An order has a limit or is a market order, which is checked with the mark, fills at
any price the exchange has money for, and is locked in the wallet at the average
price of its fills.  The history variables say what the wallet lacked for the first
fill of an order that it refused (`lack`), which order was placed last and alone,
with the price of its check and whether a trade was dearer (`checked`), that a fill
was paid from another order's lock (`mixed`), that an operation raised after it had
changed the wallet, so that locks and orders are out of line (`torn`), and that a
fill was booked with more or less than its new quantity, as happens to the later
fills of a canceled answer (`twice`).

FuturesBook keeps a position as signed quantity, basis, carried cost, isolated
wallet, mark, initial balance and what the snapshot told of it (order margin,
maintenance margin, liquidation price); every handler of the code ends with a refresh,
so the derived fields are operators.  A book is built from a wallet state
(`Snapshots`): the margin mode of the account and of each symbol, the totals, and the
positions of some symbols.  `BuildBalance` takes the wallet balance of the state and
falls back to the initial balances only when all totals are zero, so an isolated
account's wallets need not add up to its balance.  An order has a limit or not: the
guard reckons with the limit, the mark is the price of the last bar, and it is put
into the book only for a symbol other than the one of the bar being handled.  A symbol
without risk brackets has the maintenance margin and the liquidation price it was told
(`NoBrackets`, `PriceIsTold`), and a negative liquidation price is raised to zero.
`Reload(kept)` is the end of a backtest and the start of the next session of the
portfolio: the wallet of the start was pushed back, or, if the worker died before that
or the push failed, the backtest's own wallet was left behind (`LeftBehind`).  A zero
of that state may be read as a missing value (`zeroed` is history); `lone` is the order
that was checked while no other was live.  A portfolio with an exchange starts from
what the exchange says, which is `FuturesInit`.  Both modules contain the balance
guard that `strategy/base.py` asks before it sends an order.

### AgentWorkers

The agent's handlers (`handleRunStrategy`, one-shot previews, calls to a session,
the local restart command), the goroutine that waits for each worker process, and
each worker's connection handler.  They share four tables: expected and active
workers (the registry), managed processes, outbound queues.  Every section under a
lock is one action: a restart first takes the waiting calls of the session out of the
table (`RestartCleanup`) and fails them after it has let go of the lock
(`RestartTell`).  A worker is named by the request that started it and has two
ids, `<<"pending", r>>` and `<<"real", r>>`, so a table is the set of ids it holds.
The worker process and the session row are the outside of this module; what the
process does inside is SessionLifecycle.

### RuntimeChannel

Platform calls of one worker and data batches of the platform, through the
worker's client, the agent's connection handler (one frame at a time), the bounded
outbound queue, the pending table and the receiving goroutine.  Time passes in
ticks, and only when no thread or goroutine can step.  The platform is external:
it may answer late, with progress frames, with errors or never, and the channel
may be lost at any time.  A data frame that is for no session (a dataset chunk, a
batch without rows or without a session) is acknowledged and discarded, or pushed
back; one for a session is queued for its worker.

### IndicatorBuffer and IndicatorLog

Both ways of custom indicators to the platform: with a sink, a frame per bar to the
agent, which appends to its buffer, saves sealed and open chunks and acknowledges
what was saved; without one, the worker's own chunk buffer.  Saves may fail before
or after the platform stored them.  `first` are the indicators of the code the session
started with; in a session with hot reload (`hot`) a frame may have others, whose
definitions nothing sends (`WriterFrames`).  A bar whose callback raises there is not
drained (`SkipBar`, `raised`), and a frame may lack a point (`unset`).  When the run
has ended the worker process leaves (`WorkerLeaves`), and the connection may close
before the agent has read every frame or while a save is under way (`cut`).  IndicatorLog is the promise: a log per
indicator that is only appended to and a chart that shows at each position what the
log has there and never changes.  IndicatorBuffer implements it (`ImplementsLog`)
with the refinement mapping `log <- taken` (the points the buffer took),
`chart <- Chart` (what the chunks on the platform show) and `open` until a restart,
which drops the buffers.

### Composition

The modules meet at named states.  AgentWorkers ends a start where RunAdmission
begins, which ends where SessionLifecycle begins (`run = "start"`); the loop of
SessionLifecycle is BarReplay's for a backtest; the order step of a bar is
OrderSettlement's PlaceOrder, whose effect on balances is SpotLedger's and
FuturesBook's; what RuntimeChannel's `DataInOrder` and `AnswersAreTrue` give is what
OrderSettlement assumes with `InOrder` and SessionLifecycle with `PlatformCall`.

### Proof modules and MC modules

The theorems about a module are in its `_proofs` module; those about SpotLedger and
FuturesBook are together in Wallets_proofs, since both need the same facts about sums.
The `MC_` modules give TLC the symmetry sets and the functions a configuration cannot write
down.  Operators marked as a slip or a mutant are faulty variants of the
definition after them; they are used to see that a property fails when the code is
wrong in that way, and no specification uses them.

## 3. Runs

| run | instance | shows |
|---|---|---|
| `session_backtest` | backtest of one bar, two symbols, a stop call and the guard, one failing platform call | `StoppingHasOwner`, `FinishedBacktestIsRestored`, `TerminalIsFinal` in every interleaving; `BacktestEnds` |
| `session_demo` | demo without leases, one symbol, two stop calls, the guard, one failure | `RowNeverAhead`; `WalletCoversExchange` while the strategy trades during a close, except where two unlocked updates of one symbol overlap; streams are released on every path that ends the run thread |
| `session_demo_live` | demo with leases | `StopLeadsToExit` although data may never come; `LeasesLapse` |
| `session_streams_leak` | the same without failures | a violation, section 6 |
| `orders` | two orders of quantity 2 on one key, events complete | `CountedOnce`, `QuietIsSettled`, `BlockedHasReason`, `KeysUnblock`, `WalletConverges` |
| `bars` | two streams with intervals 2 and 1, pages of one bar, two edits of the file, one late bar, one failing fetch | `ReplaySound` (bars in order, once, complete), `ViewIsCurrent`, `CodeSound` (the running code has the admitted inputs, a shown error is its own), `ReloadCatchesUp`, `ReplayEnds` |
| `admission` | two requests, each a run or a preview, two inputs, up to two gates that refuse, one change on the platform, two faults | `AdmissionSound` (one session runs, with all it needs), `RefusedLeavesNothing`, `PreviewAgrees`, `SnapshotByOwner` |
| `spot` | a market buy, a limit buy at 1 and a limit sell at 2, quantity 3, prices up to 2, a fee of 1 | `LedgerSound` (no negative amount, money conserved, pools are the sums of the locks), `CheckedIsBooked` (what the guard let through the wallet can book, but for the fees) |
| `futures` | a limit buy and market sells on two symbols, one without brackets; two prices, two fees, two ticks, one new session; six wallet states to start from (new cross, new isolated, mixed, three with a short position of which more or less is told) | `BooksSound` (positions, balance and carried cost are those of the fills), `MarginSound` (open positions are marked; what an order that passed the guard may cost beyond it), `LiquidationAtMaintenance` (formula with and without brackets, raised to zero) |
| `agent_workers` | three requests, queues of one frame, one worker, one restart, one fault | `TablesSound` (a running session is routed, a gone worker is in no table), `AwaitedCallCanEnd`, `FailedMeansNoSession`, `EveryRequestAnswered` |
| `channel` | two calls, two batches of which at most one is for no session, queues of two frames, timeout and grace of one tick | `AnswersAreTrue` (ok means executed, refused means never), `GraceSuffices`, `DataInOrder`, `NobodyWaitsForever` |
| `indicators` | two indicators, chunks of three points, five bars, two failing saves, one restart, with and without a sink and hot reload | `NothingLost` (sealed chunks and definitions), `PointsAtTheirBars` (on both ways, up to bars without a point), `ImplementsLog`, `EverythingShown` |

A property called `...Sound`, `AnswersAreTrue`, `NothingLost` or
`NobodyWaitsForever` is a conjunction of parts that each have a comment and a
faulty variant of their own, so that none hides behind another.

The bounds, and why they are enough:

* `Stops`, with the guard as one more actor: two calls and the guard are the first
  instance in which a call meets a terminal status, a status "stopping" that is
  someone else's, and its own.
* `MaxPos = 1`, `Symbols`: one unit tells open from closed; two symbols let the
  strategy trade one while the other is closed.
* `MaxFailures = 1`: one failing or timed-out call at any place.  A second failure
  meets a path that already reports the first.
* `Orders`, `Qty` of `orders`: two orders share a key, so one can unblock the other;
  a quantity of 2 gives a partial and a last fill.  Lost and late events
  (`InOrder = FALSE`) and larger quantities are covered by the theorems of section 5.
* `bars`: open times coincide at every second bar of the faster stream, every page
  is full and every bar ends a page; two edits are what a reload needs to be
  overtaken between its look and its load.
* `admission`: two racing requests; two inputs, so that subscriptions can be made in
  part; two faults, so that a compensation can fail too; two gates that refuse tell
  the order in which a preview and a run meet them.
* `spot`: two buys share the quote pool, and the sell the base pool with them;
  money for all orders but not for all at the highest price.  A market order meets
  prices on both sides of its check.  Quantity 3 is the least for which an answer can
  be canceled with several fills.
* `futures`: orders of both signs on one symbol close, reduce and turn a position;
  the second symbol enters cross margin; the limit of the buy lies at one of the two
  prices, so mark, check and fill differ in both directions; the wallet states take
  every branch of the construction and of the liquidation price; `MaxReloads = 1`,
  since a reloaded book is like one that was loaded before.
* `agent_workers`: the third request meets the tables between a start and a restart;
  with queues of one frame a call finds its queue full.
* `channel`: the second call waits behind the first; two frames fill the queue; a
  discarded batch comes before or after one that is delivered.
* `indicators`: five bars seal a chunk and begin the next, also with a gap; two faults
  hit a save and its repetition.
* `CHECK_DEADLOCK FALSE` where nothing is left to do in the end: every module but
  SessionLifecycle, whose worker stutters explicitly once it has left.

## 4. Fairness

SessionLifecycle: weak fairness of every thread that can run (the run thread, each
stop call that has begun, the heartbeat, the main thread that polls), of the agent's
update after it killed a worker, and of the platform's expiry of a lease that is not
renewed.  The threads are operating-system threads that hold no lock across a call,
and every platform call has a deadline.  No fairness makes market data or a stop
call arrive.

OrderSettlement: weak fairness of the worker's handling and of the answers (calls
have deadlines), and, as assumptions on the outside, of the exchange (it ends an
order it accepted or never had it and reports fees) and of the platform (it
delivers its events in order).  Without the latter two a key may really stay
blocked for ever, since the code has no timeout that unblocks one.

BarReplay: weak fairness of the thread.  AgentWorkers: weak fairness of the request
handlers, whose waits all have timers, and of the goroutines that wait for a
process; none of the worker, of connections or of the platform.  RuntimeChannel:
weak fairness of the prompt threads, of the clock and of the sending of frames while
the channel stands, and strong fairness of the step that puts the receiving
goroutine's answer into the outbound queue (a goroutine blocked on a Go channel is
served in the order of arrival, so it is not overtaken for ever); none of the
platform's answers.  IndicatorBuffer: weak fairness of the flush, of the agent's
handling and of the platform's save, for `EverythingShown` only, which speaks of
sessions without failed saves whose connection was read to its end.

## 5. Proofs

All theorems hold for any sets of calls, symbols, orders, keys, streams, requests and
indicators and any bounds.  They rest on the named assumption of each module
(`LifecycleAssumption`, `SettlementAssumption`, `AdmissionAssumption`,
`AgentAssumption`, `ChannelAssumption`, `IndicatorAssumption`, `ReplayConstants`,
`SpotAssumption`, `FuturesAssumption`), which type the constants; SpotAssumption also says that a fee is no
more than what the sale of a unit brings at the order's limit, or at a price of 1 for
a market order, without which a sale could make the free money negative.  Each theorem `Spec => []P` follows from an inductive invariant
that says more than `P`; what it adds is the argument.

SessionLifecycle
* `TypeCorrect`.  `TypeOK` is not inductive for the bar counter: `BarsLeft` adds
  that a bar in progress is one of the range.
* `TerminalStays` (`TerminalIsFinal`), an action property that follows from one
  summary of what a step does to the status, `StatusStep`.
* `RowIsNeverAhead` (`RowNeverAhead`).  Its inductive form `RowInv` also speaks of the statuses that
  threads have read and not yet sent: they are behind the session's status too.
* `StoppingIsOwned` (`StoppingHasOwner`): inductive by itself, because the step
  that makes a session "stopping" and the steps that settle it belong to one actor.
* `BacktestIsRestored` (`FinishedBacktestIsRestored`).  `RestoreInv` follows the wallet from the restore to
  the end of the finally block; `ClosersClose` records that only actors that
  close positions reach the steps that write the wallet.
* `StreamsAreReleased` (`StreamsReleasedAtEnd`), for backtests and for demo sessions
  without lease management; with it the property fails (section 6).  `SubsInv` says
  from which step of the finally block on nothing is subscribed.
* `WalletAlwaysCovers` (`WalletCoversExchange`), for the symbols on which no two wallet
  updates overlapped (`raced`).  `PositionInv` counts for these: what the exchange
  holds of a symbol, and the units that close orders executed and have not
  applied yet (a finite set `Executed(x)`, by its cardinality), is no more than the
  wallet's position and the trade the run thread has not settled.  Without the second
  term two actors that close the same position would break the induction.

OrderSettlement
* `TypeCorrect`, together with `ExchangeInv` (what the log says was executed) and
  `CallInv` (the fills still to be applied are executions of the order of the
  call), without which the quantities could leave their ranges.
* `ExecutionsCountOnce` and `OpenOrdersArePartial`.  `CountInv` adds that an order
  not yet asked for is untouched, and, inside the loop over the fills, that what
  is left lies above what is settled and that the order is open in the wallet
  exactly with the settled quantity.
* `NothingLeftOut` (`QuietIsSettled`).  `PendInv`: an execution that is neither
  settled nor waiting for its fee has an event behind the cursor that carries it.
* `BlockedKeysHaveAReason`.  `BlockInv`: every blocked key has an unresolved order
  that has not ended or whose terminal event is still to be handled.

RunAdmission
* `OneEquippedSession` (`AdmissionSound`), `RefusalLeavesNothing`
  (`RefusedLeavesNothing`) and `OwnerPushesWallet` (`SnapshotByOwner`), all from one
  inductive invariant.  `Traces` says for every program counter which of the
  session's traces exist (registry entry, row, subscriptions, audit record): a
  compensation only undoes what it is reached with, so the property of the refused
  request needs what held at each step before.  `OneRow`, at most one active row, is
  what makes two running sessions impossible.  `OthersKeep` reduces each step to the
  request that takes it.  A refused request without a lost answer or failed clean-up
  may have subscriptions only as one that was answered `short`, before its row was made.
* `PreviewsAgree` (`PreviewAgrees`), whichever set of gates refuses.  `VerdictInv`
  says for every program counter which gates are known to be open, and that the
  reason of a refusal is the first shared gate, by `Rank`, that refuses.  A run and a
  preview name the same gate because there is only one first.

AgentWorkers: `TablesStaySound` (`TablesSound`), `AwaitedCallsCanEnd`
(`AwaitedCallCanEnd`) and `FailedStartHasNoSession` (`FailedMeansNoSession`) from
`AgentInv`, which has one part per view of a request: where its handler, its process
and its waiter are (`HandlerAt`, `ProcessAt`), when its ids may be in a table
(`ErasedAt`, `QueueAt`), when they must be (`RoutedAt`: nothing but the end of the
process or of the connection, or a restart, takes them out), that a reported failure
comes from a worker on its way out (`FailureAt`), and that a call between registration
and answer is in the table of replies, answered, or held by a restart that is about
to fail it (`CallAt`).

RuntimeChannel
* `ChannelTypeCorrect`: the contents of the queues.
* `CallersAreToldTheTruth` (`AnswersAreTrue`).  `TruthInv` carries the property along
  the path of an answer (`Told`) and says that a call that waits in the worker's line
  has left no trace further on (`Asked`).
* `GraceIsEnough` (`GraceSuffices`).  `GraceInv`: a call that found the connection idle
  is next in line and has not aged, or is being served with age and timer adding up to
  the timeout.
* `BatchesArriveInOrder` (`DataInOrder`).  `DataInv` orders received, queued and
  coming batches, and says that a discarded one was for no session.

IndicatorBuffer
* `NothingIsLost` (`NothingLost`) and the refinement `BuffersImplementTheLog`
  (`Spec => ImplementsLog`) from `IndicatorInv`: until a restart the buffers and the
  platform's chunks fit the log (`LogInv`), a sealed chunk is in the buffer or on the
  platform (`SealedInv`), definitions travel ahead of the points of the first
  indicators (`DefinitionInv`), and without a sink there is no agent (`DirectInv`).
  `StrayInv` adds that points of other indicators exist only in a session with hot
  reload and a sink.  Every step then maps to an append, to a chart that grows within
  the log, to the end of the promise, or to a stutter.
* `PointsStayAtTheirBars` (`PointsAtTheirBars`) on both ways, from `BarInv`: the frames
  under way and the points taken are in the order of their bars (`WireOrder`,
  `TakenOrder`), and every bar has a point, a frame that brings it, or is a gap
  (`Accounted`).

BarReplay
* `AdmittedCodeRuns` (`CodeSound`) and `ReloadIsCurrent` (`ReloadCatchesUp`) from
  `CodeInv`: what the reload in progress has seen is no newer than what it loads.
* `ReplayIsSound` (`ReplaySound`) and `ViewStaysCurrent` (`ViewIsCurrent`) from
  `ReplayInv`: each filled stream has one bar waiting, older than the rest of its page
  and than what is still to be fetched, or nothing is left of it (`TurnInv`); what was
  given comes before what waits (`OrderInv`); no row stored at the beginning is
  forgotten (`CompleteInv`).

SpotLedger
* `LedgerAlwaysSound` (`LedgerSound`).  `LedgerInv` types the events and the
  exchange, and says that the pools are the sums of the orders' locks unless `torn` or
  `mixed`.  `FillEffect`, `QuoteLockEffect`, `BaseLockEffect` and `OrderEffect` say what
  one operation does to the balances, also when it raises half-way, and `BookKeeps` puts
  them together.  The sums over the orders are folds; that they exist and change by the
  difference when one summand changes (`SumsExist`, `SumUpdate`) is proved by a smallest
  counterexample among the finite subsets, in place of an induction.
* `CheckedAlwaysBooked` (`CheckedIsBooked`).  `CheckInv` follows the order that was
  checked (`Watched`) from the guard to its last fill: the wallet covers what is not
  settled of it at the price of the check, less the fees of what is (`CoverInv`); the
  events on their way are its own, one unit after the other (`FlowInv`), or one event
  that tells of an end without a trade (`VoidInv`); none of its trades, nor their
  average, is dearer than the check (`PriceInv`); and no other order has anything to
  tell (`AloneInv`).  `BuyBooked` and `SellBooked` say what one event does to the cover:
  a unit is paid, the lock of the rest is moved from free money to the pool, and
  either the cover holds for the rest or fees are what is lacking.  `FreshInv` (an
  order that was not placed has left no trace) is what the guard starts from.

FuturesBook: `BooksAlwaysSound` (`BooksSound`), `MarginAlwaysSound` (`MarginSound`) and
`LiquidationAlwaysAtMaintenance` (`LiquidationAtMaintenance`) from `BookInv`, for any
symbols, orders with or without limits, quotes, leverages, wallet states to start from
and maintenance brackets, none included:
* `BookType`: a position without quantity has neither basis nor carried cost, a basis
  has the sign of its quantity, an open position is marked;
* `EntriesSound`: an order is in the book exactly while it is live and partly filled;
* `BooksBalance` is the ledger of the fills: what a fill brings is the growth of the
  basis less the cost of the fill, so realized profit and basis cancel in the sum,
  whatever part of the position is closed;
* `BreakEvenRecovers`: closing at the break-even price recovers the carried cost;
* `RestoreSound`: the wallet kept for the end of a backtest is the state of a book for
  which all of this held when the session began, so the book built from it is sound;
* `LoneSound` is what holds between the balance guard and the fill it let through
  (`Waiting`), a state that lasts one step.

The divisions of the code are met by four lemmas (`Division`, `Quotient`, `Share`,
`MarginOfSum`): a share of a basis lies between nothing and the whole of it, and
margins grow with the notional.  `MarginSound` bounds what a fill may cost beyond the
guard: the fee, its loss against the mark, and the margin by which the mark exceeds
the price of the check (`Overrun`); with a limit, the guard alone bounds nothing else.
The liquidation price is a fraction, so that theorem needs no division: it is the
algebra of long and short, cross and isolated, with brackets or an inferred ratio, and
the case of a price raised to zero.

Only model-checked:
* the liveness properties `BacktestEnds`, `StopLeadsToExit`, `LeasesLapse`,
  `KeysUnblock`, `WalletConverges`, `ReplayEnds`, `EveryRequestAnswered`,
  `NobodyWaitsForever` and `EverythingShown`: TLAPS does not reason about fairness.

## 6. Findings

`session_streams_leak` ends with a counterexample: with leases on, which is the
default, finalization raises before it releases the subscriptions, because
`release_market_data_lease` is nested in another function, after its return, and
ProxyMarketDataClient does not have it.

The following were met while modelling.  Each is stated, where a property can state
it, at the end of its module, among what the code does not keep; TLC refutes it with
the constants given.

| statement | what the code does | constants |
|---|---|---|
| `RestoredWhenWorkerLeaves` | the process leaves on the terminal status, before the daemon run thread has restored the wallet of a backtest | backtest, one symbol, one stop, PageSize 1, MaxBars 1, no failures |
| `RowSettled` | a status read early is sent last; the row keeps it | the same with PageSize 2 |
| `ExpiredSettlesFilledQty` | the fills of an order answered EXPIRED or CANCELED all carry the terminal status, so the second is counted from zero | one order, Qty 3 |
| `EventAddsOnlyNewDelta` | an adjusted partial event opens the order again with the difference as its executed quantity; the next event is measured against it | one order, Qty 3 |
| `UnresolvedStaysBlocked` | any terminal event on a symbol unblocks it, also when another order is still unresolved | two orders, Qty 2 |
| `RestartStopsOldWorker` | a restart that finds no process under the session's id starts a second worker beside the first | two requests, two workers, one restart, no faults |
| `GraceAlwaysSuffices` | a call behind another one in the agent's connection handler gives up in the worker before the agent has begun it | two calls, Cap 1 |
| `WalletAlwaysCoversExchange` | the run thread and a stop thread read one position and each stores its own result; the later store loses the other fill | those of `session_demo` |
| `RefusedSubscribesNothing` | a platform that answers with fewer subscriptions than asked for keeps them: RunStrategy discards the session and releases nothing | those of `admission` |
| `AcknowledgedIsDelivered` | the agent acknowledges dataset chunks and batches without a session and drops them | those of `channel` |
| `NullsKept` | with a sink, a bar for which an indicator is not set adds no point; without or with one, a bar that raises under hot reload has none either; later points move forward | one indicator, Limit 2, three bars |
| `AlwaysDefined` | a hot reload brings other indicators, the definitions were sent once with the first frame | those of `indicators` |
| `AlwaysShown` | the worker process leaves when the run has ended; frames not read and a save under way are dropped | those of `indicators` |
| `NoFillIsRefused` | the guard reads a wallet that lags, without live orders and fees, and checks a market order with the mark | those of `spot` |
| `GuardSuffices` | the guard reckons with the limit price, or the mark, and without the fee; a fill off that price leaves the account uncovered | those of `futures` |
| `PreviewImpliesRun` | a preview has no margin gate and no runtime gate | two requests, one input, `Worlds` of no gate or one |

Visible in the statements of properties: the snapshot of a concurrent STOP_AND_CLOSE
may land after the restore of a backtest wallet (`FinishedBacktestIsRestored`
excludes sessions in which someone closes); a snapshot that fails inside
STOP_AND_CLOSE leaves the session in "stopping" for ever (`StopLeadsToExit` excepts
it); a cancel event never reaches the wallet, so a partly filled order stays open
there with its lock; a fill of one spot order may be paid from the lock
of another (`mixed`); a settlement that raises half-way leaves the pools and the
orders' locks apart (`torn`), and the later fills of a canceled answer are booked from
zero (`twice`); the constructor loads the source before it takes the file's
signature, so an edit in between counts as known and is never loaded (`missed` in
BarReplay), and if that edit declares other inputs their bars are not routed; a
restart drops the agent's indicator buffers while frames of the old connection are
still handled, so that they start again at chunk 0 and rewrite what the platform
stored (`open` in IndicatorLog).

## 7. Plan

Done: every module with its run; the theorems of section 5, which state all the safety
properties of the runs.  The liveness properties stay with TLC.

### Not modelled

* Hedge mode of the futures wallet: the answers of the order service carry no
  position side, so its fills are rejected.  `on_ledger_event`: nothing calls it.
* The conversions between the platform's portfolio records and the wallets, and the
  accessors of InputView: pure functions of one input; likewise the syntax-tree
  checks of `strategy_validator.py`.
* `_restore_running_sessions`: it needs a direct portfolio client, which a session
  worker does not have.  The loops of `data_loop.py` other than `_adapt_kline`:
  nothing calls them.
* A file saved with the same size and modification time (it is not noticed, by
  design of the signature).
* The shutdown of the agent process (`cmd/runtime-agent/main.go`), hello negotiation
  and credentials, configuration, certificates and logging: wiring and I/O.
* Generated protocol code, scripts, templates.
