----------------------------- MODULE BarReplay -----------------------------
(***************************************************************************)
(* A backtest session at work: the strategy is constructed from its        *)
(* source, the bars of the declared streams are fetched page by page       *)
(* through the platform proxy and merged by open time                      *)
(* (backtest_pages.PagedBacktestDataSource), and every bar goes through    *)
(* the engine to the user's strategy, which is reloaded on the way when    *)
(* its source file changed (strategy/base.py, bare runtimes only).         *)
(*                                                                         *)
(* Streams are numbered in the order of the declaration, which breaks ties *)
(* between bars of one open time.  The store of bars, the owner of the     *)
(* source file and the caller of StopStrategy run concurrently with the    *)
(* session's thread.  What the strategy does with a bar is in              *)
(* OrderSettlement, how the session ends in SessionLifecycle.              *)
(***************************************************************************)
EXTENDS Integers, Sequences, FiniteSets

CONSTANTS
    Steps,         \* Steps[s]: the interval of stream s
    Start, End,    \* the range the request asks for
    PageSize,      \* BACKTEST_PAGE_SIZE
    MaxEdits,      \* bound: versions of the source file after the first
    MaxBackfills,  \* bound: bars that appear in the store during the run
    MaxFaults      \* bound: failing fetches

ASSUME ReplayConstants ==
    /\ Steps \in Seq(Nat \ {0}) /\ Steps # <<>>
    /\ Start \in Nat \ {0} /\ End \in Nat
    /\ PageSize \in Nat \ {0}
    /\ {MaxEdits, MaxBackfills, MaxFaults} \subseteq Nat

VARIABLES
    rows,     \* rows[s]: open times of the stored bars of stream s
    added,    \* history: the bars stored during the run, <<time, stream>>
    hot,      \* the session reloads its source (a bare runtime)
    file,     \* the source file
    cursor,   \* cursor[s]: the _Cursor of stream s
    primed,   \* how many cursors the first loop of iter_klines has filled
    heap,     \* the heap of iter_klines, <<time, stream>>
    bar,      \* the bar in hand
    out,      \* history: the bars given to the engine
    view,     \* view[s]: the bar InputView holds of stream s, 0 for none
    trigger,  \* the bar InputView took last
    inst,     \* _strategy_instance: the version it was loaded from
    keys,     \* _input_keys: the streams the strategy takes
    sig,      \* _hot_reload_signature
    seen,     \* the signature _maybe_reload_strategy just took
    cand,     \* the candidate it loaded
    then,     \* where the thread goes after the reload in progress
    missed,   \* history: the edit the constructor marked as known, 0 for none
    err,      \* the session shows a user-code error
    status, pc, faults

store == <<rows, added>>
replay == <<cursor, primed, heap, bar, out>>
strategy == <<inst, keys, sig, seen, cand, then, missed>>
vars == <<store, hot, file, replay, view, trigger, strategy, err, status, pc, faults>>

Streams == DOMAIN Steps
\* The bars fetch_backtest_page may return of stream s: those up to the end
\* that open after the first cursor, one interval before the start
Grid(s) == {t \in 1..End : t % Steps[s] = 0 /\ Start - Steps[s] < t}
Before(b, c) == b[1] < c[1] \/ (b[1] = c[1] /\ b[2] < c[2])

(* A version of the source: "fails" raises on every bar, "other" declares  *)
(* other inputs, "broken" does not load, "gone" is a missing file.         *)
Kinds == {"ok", "fails", "other", "broken", "gone"}
Loads(f) == f.kind \in {"ok", "fails", "other"}
Keys(f) == IF f.kind = "other" THEN Streams \ {1} ELSE Streams
NoBar == <<0, 0>>

(* _debug_strategy_source_for_db_code: a bare runtime runs a local copy of *)
(* the stored code and reloads it; the others run the code as it is.       *)
DebugSource(bare, stored) == bare /\ stored

Init ==
    /\ rows \in [Streams -> SUBSET (1..End)]
    /\ \A s \in Streams : rows[s] \subseteq Grid(s)
    /\ added = {}
    /\ hot \in {DebugSource(bare, stored) : bare, stored \in BOOLEAN}
    /\ file \in {[ver |-> 1, kind |-> k] : k \in {"ok", "fails"}}
    /\ cursor = [s \in Streams |->
         [time |-> Start - Steps[s], page |-> {}, exhausted |-> FALSE]]
    /\ primed = 0 /\ heap = {} /\ bar = NoBar /\ out = <<>>
    /\ view = [s \in Streams |-> 0] /\ trigger = NoBar
    /\ inst = file /\ keys = {} /\ sig = 0 /\ seen = 0 /\ cand = file
    /\ then = <<>> /\ missed = 0 /\ err = FALSE
    /\ status = "running" /\ pc = "construct" /\ faults = 0

---------------------------------------------------------------------------
(* The session's thread ends with an exception: its status is failed       *)
(* unless it was stopped before.                                           *)
Fail ==
    /\ pc' = "done"
    /\ status' = IF status = "running" THEN "failed" ELSE status

(* BaseStrategy.__init__ loads the source ...                              *)
Construct ==
    /\ pc = "construct"
    /\ \/ /\ Loads(file)
          /\ inst' = file /\ cand' = file /\ keys' = Keys(file) /\ pc' = "sign"
          /\ UNCHANGED status
       \/ ~Loads(file) /\ Fail /\ UNCHANGED <<inst, cand, keys>>
    /\ UNCHANGED <<store, hot, file, replay, view, trigger, sig, seen, then, missed, err,
                   faults>>

(* ... and takes the signature of the file once the rest is set up.        *)
Sign ==
    /\ pc = "sign"
    /\ \/ /\ hot /\ file.kind # "gone"
          /\ sig' = file.ver
          /\ missed' = IF file.ver = inst.ver THEN 0 ELSE file.ver
          /\ pc' = "prime" /\ UNCHANGED status
       \/ hot /\ file.kind = "gone" /\ Fail /\ UNCHANGED <<sig, missed>>
       \/ ~hot /\ pc' = "prime" /\ UNCHANGED <<sig, missed, status>>
    /\ UNCHANGED <<store, hot, file, replay, view, trigger, inst, keys, seen, cand,
                   then, err, faults>>

---------------------------------------------------------------------------
(* The pages the platform may answer to fetch_backtest_page: the first     *)
(* rows after the cursor.  It may say has_more of a full page although     *)
(* nothing follows.  A page is sorted, so the rows of it that _pop has not *)
(* taken are a set.                                                        *)
Pages(s, after) ==
    LET left == {t \in rows[s] : after < t}
        page == {t \in left : Cardinality({u \in left : u <= t}) <= PageSize}
    IN  {[rows |-> page, more |-> m] :
           m \in {page # left, page # left \/ Cardinality(page) = PageSize}}

First(page) == {t \in page : \A u \in page : t <= u}
LastOf(page) == CHOOSE t \in page : \A u \in page : u <= t

(* _fill                                                                   *)
FilledInclusive(c, p) ==    \* slip: the last row is fetched again
    [time |-> IF p.rows = {} THEN c.time ELSE LastOf(p.rows) - 1,
     page |-> p.rows,
     exhausted |-> ~p.more]
Filled(c, p) ==
    [time |-> IF p.rows = {} THEN c.time ELSE LastOf(p.rows),
     page |-> p.rows,
     exhausted |-> ~p.more]

(* _pop of cursor c of stream s, and the push of what it returned          *)
PopPush(s, c) ==
    /\ cursor' = [cursor EXCEPT ![s] = [c EXCEPT !.page = @ \ First(@)]]
    /\ heap' = heap \cup (First(c.page) \X {s})

(* The first loop of iter_klines, one stream after the other               *)
Unprimed == primed < Len(Steps)
Prime ==
    /\ pc = "prime"
    /\ \/ /\ Unprimed
          /\ LET s == primed + 1 IN
               \E p \in Pages(s, cursor[s].time) :
                 PopPush(s, Filled(cursor[s], p))
          /\ primed' = primed + 1
          /\ UNCHANGED pc
       \/ ~Unprimed /\ pc' = "pop" /\ UNCHANGED <<cursor, primed, heap>>
    /\ UNCHANGED <<store, hot, file, bar, out, view, trigger, strategy, err, status,
                   faults>>

(* heappop and the test of the status in _run_backtest_via_platform_proxy  *)
PopPeeking ==               \* slip: the bar stays in the heap
    /\ pc = "pop" /\ heap # {}
    /\ \E b \in heap :
         /\ \A d \in heap \ {b} : Before(b, d)
         /\ bar' = b
         /\ pc' = IF status = "running" THEN "bar" ELSE "done"
    /\ UNCHANGED <<store, hot, file, cursor, primed, heap, out, view, trigger, strategy,
                   err, status, faults>>
PopByStream ==              \* slip: the heap is ordered by stream first
    /\ pc = "pop" /\ heap # {}
    /\ \E b \in heap :
         /\ \A d \in heap : b[2] <= d[2]
         /\ heap' = heap \ {b}
         /\ bar' = b
         /\ pc' = IF status = "running" THEN "bar" ELSE "done"
    /\ UNCHANGED <<store, hot, file, cursor, primed, out, view, trigger, strategy, err,
                   status, faults>>
Pop ==
    /\ pc = "pop" /\ heap # {}
    /\ \E b \in heap :
         /\ \A d \in heap \ {b} : Before(b, d)
         /\ heap' = heap \ {b}
         /\ bar' = b
         /\ pc' = IF status = "running" THEN "bar" ELSE "done"
    /\ UNCHANGED <<store, hot, file, cursor, primed, out, view, trigger, strategy, err, status,
                   faults>>

(* The generator is exhausted.                                             *)
Finish ==
    /\ pc = "pop" /\ heap = {}
    /\ pc' = "done"
    /\ status' = IF status = "running" THEN "finished" ELSE status
    /\ UNCHANGED <<store, hot, file, replay, view, trigger, strategy, err, faults>>

(* The generator resumes after a bar.                                      *)
NeedsPage(s) == cursor[s].page = {} /\ ~cursor[s].exhausted
AdvanceInPage ==            \* slip: the next page is never fetched
    /\ pc = "advance"
    /\ PopPush(bar[2], cursor[bar[2]])
    /\ pc' = "pop"
    /\ UNCHANGED <<store, hot, file, primed, bar, out, view, trigger, strategy, err,
                   status, faults>>
Advance ==
    /\ pc = "advance"
    /\ LET s == bar[2] IN
         \/ ~NeedsPage(s) /\ PopPush(s, cursor[s])
         \/ /\ NeedsPage(s)
            /\ \E p \in Pages(s, cursor[s].time) :
                 PopPush(s, Filled(cursor[s], p))
    /\ pc' = "pop"
    /\ UNCHANGED <<store, hot, file, primed, bar, out, view, trigger, strategy, err, status,
                   faults>>

(* A fetch raises, or answers an empty page that claims to have more.      *)
FetchFails ==
    /\ faults < MaxFaults
    /\ \/ pc = "prime" /\ Unprimed
       \/ pc = "advance" /\ NeedsPage(bar[2])
    /\ faults' = faults + 1
    /\ Fail
    /\ UNCHANGED <<store, hot, file, replay, view, trigger, strategy, err>>

---------------------------------------------------------------------------
(* The declaration gate of running_strategy: only bars of the declared     *)
(* inputs reach the strategy.                                              *)
Routed(b) == b[2] \in keys

(* InputView.update                                                        *)
Update(b) ==
    /\ view' = [view EXCEPT ![b[2]] = b[1]]
    /\ trigger' = b

(* What the user's code reads of an input through the accessors of the     *)
(* view: the bar it holds, 0 for None; other keys raise.                   *)
InputSeen == [s \in keys |-> view[s]]

(* What data.price, data.symbol and the other properties are about.        *)
TriggerSeen == trigger

(* The bar enters StrategyEngine.running_strategy.  Before the user's code *)
(* an order update may be notified, which reloads too.                     *)
Deliver ==
    /\ pc = "bar"
    /\ out' = Append(out, bar)
    /\ \/ /\ ~Routed(bar)
          /\ pc' = "advance" /\ UNCHANGED <<view, trigger, then>>
       \/ /\ Routed(bar)
          /\ Update(bar)
          /\ \/ ~hot /\ pc' = "call" /\ UNCHANGED then
             \/ hot /\ pc' = "stat" /\ then' \in {<<"call">>, <<"stat", "call">>}
    /\ UNCHANGED <<store, hot, file, cursor, primed, heap, bar, inst, keys, sig, seen,
                   cand, missed, err, status, faults>>

(* _maybe_reload_strategy: the signature, the candidate, the verdict.      *)
Continue == pc' = Head(then) /\ then' = Tail(then)
Stat ==
    /\ pc = "stat"
    /\ \/ (file.kind = "gone" \/ file.ver = sig) /\ Continue /\ UNCHANGED seen
       \/ /\ file.kind # "gone" /\ file.ver # sig
          /\ seen' = file.ver /\ pc' = "read" /\ UNCHANGED then
    /\ UNCHANGED <<store, hot, file, replay, view, trigger, inst, keys, sig, cand,
                   missed, err, status, faults>>

Read ==
    /\ pc = "read"
    /\ cand' = file
    /\ pc' = "adopt"
    /\ UNCHANGED <<store, hot, file, replay, view, trigger, inst, keys, sig, seen, then,
                   missed, err, status, faults>>

AcceptableLoads(f) == Loads(f)   \* slip: changed declarations are taken
Acceptable(f) == Loads(f) /\ Keys(f) = keys
AdoptRestat ==              \* slip: the signature is taken after the load
    /\ pc = "adopt"
    /\ sig' = file.ver
    /\ inst' = IF Acceptable(cand) THEN cand ELSE inst
    /\ seen' = 0 /\ cand' = inst'
    /\ Continue
    /\ UNCHANGED <<store, hot, file, replay, view, trigger, keys, missed, err, status,
                   faults>>
(* The new instance replaces the old one, with its own notifier, indicator *)
(* definitions and writer: what the other definitions do to the session's  *)
(* charts is in IndicatorBuffer (hot, WriterFrames).                       *)
Adopt ==
    /\ pc = "adopt"
    /\ sig' = seen
    /\ inst' = IF Acceptable(cand) THEN cand ELSE inst
    /\ seen' = 0 /\ cand' = inst'     \* the locals are gone
    /\ Continue
    /\ UNCHANGED <<store, hot, file, replay, view, trigger, keys, missed, err, status,
                   faults>>

(* _emit_user_code_error and _emit_user_code_recovered, with the error the *)
(* session shows.                                                          *)
ShowError  == err' = TRUE
ClearError == err' = FALSE

(* The user's on_market_data returns, perhaps with an order whose answer   *)
(* is notified ...                                                         *)
CallReturnsQuietly ==       \* slip: the error is not cleared
    /\ pc = "call" /\ inst.kind # "fails"
    /\ \/ pc' = "advance" /\ UNCHANGED then
       \/ hot /\ pc' = "stat" /\ then' = <<"advance">>
    /\ UNCHANGED <<store, hot, file, replay, view, trigger, inst, keys, sig, seen, cand,
                   missed, err, status, faults>>
CallReturns ==
    /\ pc = "call" /\ inst.kind # "fails"
    /\ ClearError
    /\ \/ pc' = "advance" /\ UNCHANGED then
       \/ hot /\ pc' = "stat" /\ then' = <<"advance">>
    /\ UNCHANGED <<store, hot, file, replay, view, trigger, inst, keys, sig, seen, cand,
                   missed, status, faults>>

(* ... or raises, which only a session that reloads survives.              *)
CallRaisesUnseen ==         \* slip: the thread dies without a status
    /\ pc = "call" /\ inst.kind = "fails"
    /\ \/ hot /\ err' = TRUE /\ pc' = "advance"
       \/ ~hot /\ pc' = "done" /\ UNCHANGED err
    /\ UNCHANGED <<store, hot, file, replay, view, trigger, strategy, status, faults>>
CallRaises ==
    /\ pc = "call" /\ inst.kind = "fails"
    /\ \/ hot /\ ShowError /\ pc' = "advance" /\ UNCHANGED status
       \/ ~hot /\ Fail /\ UNCHANGED err
    /\ UNCHANGED <<store, hot, file, replay, view, trigger, strategy, faults>>

(* _normalize_decisions and _prepare_order_decision: a decision the engine *)
(* refuses ends every session, before any order of the bar is sent.        *)
DecisionRefused ==
    /\ pc = "call" /\ inst.kind # "fails"
    /\ ClearError
    /\ Fail
    /\ UNCHANGED <<store, hot, file, replay, view, trigger, strategy, faults>>

---------------------------------------------------------------------------
(* StopStrategy takes the session out of running.                          *)
Stop ==
    /\ status = "running"
    /\ status' = "stopped"
    /\ UNCHANGED <<store, hot, file, replay, view, trigger, strategy, err, pc, faults>>

(* The owner of the source saves, breaks or removes it.                    *)
Edit ==
    /\ hot /\ file.ver <= MaxEdits /\ pc # "done"
    /\ \E k \in Kinds : file' = [ver |-> file.ver + 1, kind |-> k]
    /\ UNCHANGED <<store, hot, replay, view, trigger, strategy, err, status, pc, faults>>

(* A bar is stored while the run reads.                                    *)
Backfill ==
    /\ Cardinality(added) < MaxBackfills /\ pc # "done"
    /\ \E s \in Streams : \E t \in Grid(s) \ rows[s] :
         /\ rows' = [rows EXCEPT ![s] = @ \cup {t}]
         /\ added' = added \cup {<<t, s>>}
    /\ UNCHANGED <<hot, file, replay, view, trigger, strategy, err, status, pc, faults>>

Thread ==
    \/ Construct \/ Sign \/ Prime \/ Pop \/ Finish \/ Advance \/ FetchFails
    \/ Deliver \/ Stat \/ Read \/ Adopt \/ CallReturns \/ CallRaises
    \/ DecisionRefused
Environment == Stop \/ Edit \/ Backfill
Next == Thread \/ Environment

Spec == Init /\ [][Next]_vars
FairSpec == Spec /\ WF_vars(Thread)

---------------------------------------------------------------------------
(* The state of the replay and of the reload keeps its shape: what the     *)
(* heap and the view hold are bars of the store, no stream has two bars in *)
(* the heap, and the cursor of a stream that was filled is its last row.   *)
ReplayTypeOK ==
    /\ rows \in [Streams -> SUBSET (1..End)]
    /\ heap \subseteq UNION {rows[s] \X {s} : s \in Streams}
    /\ \A b, c \in heap : b[2] = c[2] => b = c
    /\ \A s \in Streams : view[s] \in rows[s] \cup {0}
    /\ \A s \in Streams : cursor[s].page # {} => LastOf(cursor[s].page) = cursor[s].time
    /\ file.kind \in Kinds /\ {inst.ver, sig, seen, missed} \subseteq 0..file.ver
    /\ keys \subseteq Streams /\ primed \in 0..Len(Steps)
    /\ {hot, err} \subseteq BOOLEAN
    /\ status \in {"running", "finished", "failed", "stopped"}
    /\ pc \in {"construct", "sign", "prime", "pop", "bar", "stat", "read", "adopt",
               "call", "advance", "done"}

(* The bars the engine was given.                                          *)
Given == {out[i] : i \in 1..Len(out)}

(* Bars reach the engine in the order of their open times, and of the      *)
(* declaration where those agree, across the pages of every stream and     *)
(* none twice (iter_klines).                                               *)
InOrder ==
    \A i \in 1..(Len(out) - 1) : Before(out[i], out[i + 1])

(* A session that finished has given its engine every bar of the range     *)
(* that was stored when it began, whatever the page boundaries and         *)
(* whatever was stored meanwhile (iter_klines, _fill).                     *)
FinishedIsComplete ==
    status = "finished" =>
      \A s \in Streams : \A t \in rows[s] :
        <<t, s>> \notin added => <<t, s>> \in Given

(* Together: the replay is in order, without repetition and complete.      *)
ReplaySound == ReplayTypeOK /\ InOrder /\ FinishedIsComplete

(* When the user's code is called its view is neither stale nor ahead: of  *)
(* every input it holds the newest stored bar up to the one in hand, and   *)
(* none that opens later; what it is called for is the bar in hand         *)
(* (InputView.update, iter_klines).                                        *)
ViewIsCurrent ==
    pc = "call" =>
      /\ TriggerSeen = bar
      /\ \A s \in keys :
           /\ InputSeen[s] <= bar[1]
           /\ \A t \in rows[s] :
                (~Before(bar, <<t, s>>) /\ <<t, s>> \notin added)
                  => t <= InputSeen[s]

(* The instance that runs always declares the inputs the session was       *)
(* admitted and routed with (the comparison in _maybe_reload_strategy).    *)
DeclarationsStay == pc \notin {"construct", "done"} => Keys(inst) = keys

(* The user's code that is called is the code in the file, when the file   *)
(* has not changed since this bar looked at it and may be taken, except    *)
(* for an edit the constructor marked as known without having loaded it    *)
(* (_maybe_reload_strategy).                                               *)
ReloadCatchesUp ==
    (pc = "call" /\ hot /\ file.ver = sig /\ Acceptable(file)) =>
      inst.ver = file.ver \/ file.ver = missed

(* Between two bars a running session shows a user-code error only of the  *)
(* code it still runs (_persist_runtime_error, _clear_runtime_error).      *)
ErrorIsOfThisCode ==
    (err /\ status = "running" /\ pc \in {"advance", "pop", "bar"}) => inst.kind = "fails"

(* Together: what runs is what was admitted, and the error shown is its.   *)
CodeSound == DeclarationsStay /\ ErrorIsOfThisCode

(* The thread of a backtest ends and leaves a status to persist, whatever  *)
(* its pages, its source and its user's code do.                           *)
ReplayEnds == <>[](pc = "done" /\ status # "running")
=============================================================================
