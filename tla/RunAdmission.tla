---------------------------- MODULE RunAdmission ----------------------------
(***************************************************************************)
(* The admission of sessions: RunStrategy up to the start of the run       *)
(* thread, with the compensation of each step that fails, and its dry run  *)
(* PreviewRunStrategy.  Each request is served by a worker process of its  *)
(* own; all of them ask for the same portfolio, whose state on the         *)
(* platform they read with several calls and which may change in between.  *)
(*                                                                         *)
(* What a gate examines is abstracted to the set of gates that would       *)
(* refuse (`bad`) and to the state of the market-data stream of each       *)
(* declared input.                                                         *)
(***************************************************************************)
EXTENDS Integers, Sequences, FiniteSets

\* The gates, apart from the streams, by the state they examine.
RequestGates == {"user", "proxy", "arguments", "runtime"}
PlatformGates == {"portfolio", "profile", "path", "strategy", "declaration",
                  "risk", "preflight", "wallet", "margin"}

CONSTANTS Requests,       \* the RunStrategy and PreviewRunStrategy requests
          Inputs,         \* the inputs the strategy declares
          Worlds,         \* the sets of gates that may refuse at first
          MaxChanges,     \* changes of the portfolio or the streams
          MaxFaults       \* platform calls that fail, fall short or lose their
                          \* answer

ASSUME AdmissionAssumption ==
  /\ Worlds \subseteq SUBSET (RequestGates \cup PlatformGates)
  /\ MaxChanges \in Nat /\ MaxFaults \in Nat

\* The request is for this process's user and runtime, the process has a
\* client for the platform, and a source of the bars that the profile asks for.
UserGates == <<"user">>
ProxyGates == <<"proxy">>
PathGates == <<"path">>
\* What a read of the platform is examined for, in order: the snapshot and
\* its profile; the active strategy, its declarations and its risk controls;
\* the verdict of the core service; the wallet and its margin balance.
SnapshotGates == <<"portfolio", "profile">>
DeclarationGates == <<"declaration">>
RiskGates == <<"risk">>
StrategyGates == <<"strategy">> \o DeclarationGates \o RiskGates
PreflightGates == <<"preflight">>
WalletGates == <<"portfolio", "wallet">>
MarginGates == <<"margin">>
StreamStates == {"missing", "unready", "ready"}
NoReason == "none"

VARIABLES
  kind,      \* "run" or "preview"
  pc,        \* the next step of the handler
  reason,    \* the gate that refused, or "ok"
  gated,     \* market_data_policy.preflight_enabled
  env,       \* the portfolio's environment: "backtest" or "demo"
  bad,       \* the gates that would refuse now
  stream,    \* the stream, or the history, of each declared input
  registry,  \* SessionManager._sessions of the request's process
  rows,      \* the session row of each request on the platform
  subs,      \* the streams subscribed for its session
  snapshots, \* the starts that pushed their wallet, in order
  uncertain, \* requests whose clean-up or whose answer was lost
  short,     \* requests answered with fewer subscriptions than asked for
  changes, faults

facts == <<gated, env, bad, stream, changes>>
platform == <<rows, subs, snapshots>>
vars == <<kind, pc, reason, facts, registry, platform, uncertain, short, faults>>

Init ==
  /\ kind \in [Requests -> {"run", "preview"}]
  /\ pc = [r \in Requests |-> "request"]
  /\ reason = [r \in Requests |-> NoReason]
  /\ gated \in BOOLEAN /\ env \in {"backtest", "demo"}
  /\ bad \in Worlds
  /\ stream \in [Inputs -> StreamStates]
  /\ registry = {}
  /\ rows = [r \in Requests |-> "none"]
  /\ subs = [r \in Requests |-> {}]
  /\ snapshots = <<>>
  /\ uncertain = {} /\ short = {} /\ changes = 0 /\ faults = 0

-----------------------------------------------------------------------------
\* The first of the gates, in their order, that refuses.
Refusing(gates) == {i \in DOMAIN gates : gates[i] \in bad}
FirstRefusing(gates) ==
  gates[CHOOSE i \in Refusing(gates) : \A j \in Refusing(gates) : i <= j]

Refuse(r, g) ==
  /\ pc' = [pc EXCEPT ![r] = "refused"]
  /\ reason' = [reason EXCEPT ![r] = g]

\* Go through some gates: the first that refuses is reported.
Pass(r, gates, next) ==
  IF Refusing(gates) # {} THEN Refuse(r, FirstRefusing(gates))
  ELSE pc' = [pc EXCEPT ![r] = next] /\ UNCHANGED reason

Fault == faults < MaxFaults /\ faults' = faults + 1

\* A read of the platform that fails is answered with None by the client, and
\* None is refused like a missing object; so the call's own gate refuses.
Read(r, gates, next) ==
  \/ Pass(r, gates, next) /\ UNCHANGED faults
  \/ Fault /\ Refuse(r, gates[1])

NoSession(r) == UNCHANGED <<kind, facts, registry, platform, uncertain, short>>

\* User, runtime and portfolio of the request.
CheckRequest(r) ==
  /\ kind[r] = "run" /\ pc[r] = "request"
  /\ Pass(r, UserGates \o ProxyGates \o <<"arguments">>, "portfolio")
  /\ UNCHANGED faults /\ NoSession(r)

\* The snapshot tells the environment; an unsupported profile is refused.
ReadPortfolio(r) ==
  /\ kind[r] = "run" /\ pc[r] = "portfolio"
  /\ Read(r, SnapshotGates \o PathGates, "strategy")
  /\ NoSession(r)

\* The active strategy, or the strategy_path of the request when there is
\* none (the gate refuses a portfolio without one and a request without the
\* other), its declarations and its risk controls.  A failed read counts as
\* no active strategy, so a request with a strategy_path goes on with that.
StrategySource(r) ==
  \/ Read(r, StrategyGates, "preflight")
  \/ Fault /\ Pass(r, DeclarationGates \o RiskGates, "preflight")

ReadStrategy(r) ==
  /\ kind[r] = "run" /\ pc[r] = "strategy"
  /\ StrategySource(r)
  /\ NoSession(r)

\* The core service's own preflight: a lost answer is a refusal.
PreflightStrategySession(r, next) == Read(r, PreflightGates, next)
PortfolioPreflight(r) ==
  /\ kind[r] = "run" /\ pc[r] = "preflight"
  /\ PreflightStrategySession(r, "wallet")
  /\ NoSession(r)

\* PreviewRunStrategy has a copy of each of these steps, in the same order.
PreviewRequest(r) ==
  /\ kind[r] = "preview" /\ pc[r] = "request"
  /\ Pass(r, UserGates \o ProxyGates \o <<"arguments">>, "portfolio")
  /\ UNCHANGED faults /\ NoSession(r)

PreviewPortfolio(r) ==
  /\ kind[r] = "preview" /\ pc[r] = "portfolio"
  /\ Read(r, SnapshotGates \o PathGates, "strategy")
  /\ NoSession(r)

\* Mutant: the preview looks at the risk controls before the declarations.
PreviewStrategySwapped(r) ==
  /\ kind[r] = "preview" /\ pc[r] = "strategy"
  /\ Read(r, <<"strategy">> \o RiskGates \o DeclarationGates, "preflight")
  /\ NoSession(r)

PreviewStrategy(r) ==
  /\ kind[r] = "preview" /\ pc[r] = "strategy"
  /\ StrategySource(r)
  /\ NoSession(r)

PreviewPreflight(r) ==
  /\ kind[r] = "preview" /\ pc[r] = "preflight"
  /\ PreflightStrategySession(r, "wallet")
  /\ NoSession(r)

\* RunStrategy reads the portfolio again, builds the wallet and demands a
\* positive margin balance for the max-loss guard.
BuildWallet(r) ==
  /\ kind[r] = "run" /\ pc[r] = "wallet"
  /\ Read(r, WalletGates \o MarginGates, "streams")
  /\ NoSession(r)

\* PreviewRunStrategy builds the wallet and goes on.
PreviewWallet(r) ==
  /\ kind[r] = "preview" /\ pc[r] = "wallet"
  /\ Read(r, WalletGates, "streams")
  /\ NoSession(r)

-----------------------------------------------------------------------------
\* A backtest needs history for every declared input, unless the policy
\* switches the check off.
BacktestPreflight(seen) ==
  IF gated THEN {i \in Inputs : seen[i] = "missing"} ELSE {}

\* A demo session needs a stream for every declared input, to bind to; that
\* it is running, delivered and fresh is only asked for with readiness gating.
LivePreflight(seen) ==
  {i \in Inputs : seen[i] = "missing" \/ (gated /\ seen[i] # "ready")}

ProfilePreflight(seen) ==
  IF env = "backtest" THEN BacktestPreflight(seen) ELSE LivePreflight(seen)

\* What the look-ups of the declared inputs see: one of them may fail, which
\* is the same as finding nothing.
StreamsSeen(failing) ==
  [i \in Inputs |-> IF i \in failing THEN "missing" ELSE stream[i]]

LookUp(failing) ==
  \/ failing = {} /\ UNCHANGED faults
  \/ failing # {} /\ Fault

\* Mutant: the preview always asks for readiness.
PreviewStreamsStrictly(r) ==
  /\ kind[r] = "preview" /\ pc[r] = "streams"
  /\ \E failing \in {{}} \cup {{i} : i \in Inputs} :
       /\ LookUp(failing)
       /\ IF \E i \in Inputs : StreamsSeen(failing)[i] # "ready"
          THEN Refuse(r, "streams")
          ELSE /\ pc' = [pc EXCEPT ![r] = "previewed"]
               /\ reason' = [reason EXCEPT ![r] = "ok"]
  /\ NoSession(r)

\* The preview answers with the outcome of the profile's preflight.
PreviewStreams(r) ==
  /\ kind[r] = "preview" /\ pc[r] = "streams"
  /\ \E failing \in {{}} \cup {{i} : i \in Inputs} :
       /\ LookUp(failing)
       /\ IF ProfilePreflight(StreamsSeen(failing)) # {}
          THEN Refuse(r, "streams")
          ELSE /\ pc' = [pc EXCEPT ![r] = "previewed"]
               /\ reason' = [reason EXCEPT ![r] = "ok"]
  /\ NoSession(r)

\* Mutant: a preview goes on like a run.
CreateSessionAnyway(r) ==
  /\ pc[r] = "streams"
  /\ ProfilePreflight(stream) = {} /\ "runtime" \notin bad
  /\ pc' = [pc EXCEPT ![r] = "persist"]
  /\ registry' = registry \cup {r}
  /\ UNCHANGED <<kind, reason, facts, platform, uncertain, short, faults>>

\* SessionManager.create
Create(r) == registry' = registry \cup {r}

\* RunStrategy creates the session in memory once the streams are bound and
\* the runtime is known.
CreateSession(r) ==
  /\ kind[r] = "run" /\ pc[r] = "streams"
  /\ \E failing \in {{}} \cup {{i} : i \in Inputs} :
       /\ LookUp(failing)
       /\ IF ProfilePreflight(StreamsSeen(failing)) # {}
          THEN Refuse(r, "streams") /\ UNCHANGED registry
          ELSE IF "runtime" \in bad
          THEN Refuse(r, "runtime") /\ UNCHANGED registry
          ELSE /\ pc' = [pc EXCEPT ![r] = IF env = "demo" THEN "subscribe"
                                          ELSE "persist"]
               /\ Create(r)
               /\ UNCHANGED reason
  /\ UNCHANGED <<kind, facts, platform, uncertain, short>>

-----------------------------------------------------------------------------
\* Mutant: any answer of the platform counts as success.
SubscribePartly(r) ==
  /\ pc[r] = "subscribe"
  /\ \E created \in SUBSET Inputs : subs' = [subs EXCEPT ![r] = created]
  /\ pc' = [pc EXCEPT ![r] = "persist"]
  /\ UNCHANGED <<kind, reason, facts, registry, rows, snapshots, uncertain, short,
                 faults>>

\* The platform creates all the subscriptions, or answers with only some of
\* them, or the call fails or its answer is lost, and then some may exist:
\* anything but the answer that all of them exist is a failure.
CreateSubscriptions(r, ok) ==
  \/ /\ ok
     /\ subs' = [subs EXCEPT ![r] = Inputs]
     /\ UNCHANGED <<uncertain, short, faults>>
  \/ /\ ~ok /\ Fault
     /\ \E created \in SUBSET Inputs :
          /\ subs' = [subs EXCEPT ![r] = created]
          /\ \/ /\ created # Inputs
                /\ short' = short \cup {r}
                /\ UNCHANGED uncertain
             \/ /\ uncertain' = uncertain \cup {r}
                /\ UNCHANGED short

\* A demo session subscribes to its streams.  If that fails the session is
\* discarded; what was created stays, also when the platform has told of it.
Subscribe(r) ==
  /\ pc[r] = "subscribe"
  /\ \/ /\ CreateSubscriptions(r, TRUE)
        /\ pc' = [pc EXCEPT ![r] = "persist"]
        /\ UNCHANGED <<reason, registry>>
     \/ /\ CreateSubscriptions(r, FALSE)
        /\ registry' = registry \ {r}
        /\ Refuse(r, "subscribe")
  /\ UNCHANGED <<kind, facts, rows, snapshots>>

ActiveRows == {r \in Requests : rows[r] = "running"}

\* SaveSession inserts the row unless the portfolio has an active session;
\* every error is a refusal, also a lost answer.
PersistRefused(r, g) ==
  /\ reason' = [reason EXCEPT ![r] = g]
  /\ pc' = [pc EXCEPT ![r] = IF env = "demo" THEN "release" ELSE "discard"]

\* Mutant: a conflict is taken for an earlier save of the same session.
PersistSessionAgain(r) ==
  /\ pc[r] = "persist"
  /\ \/ /\ rows' = [rows EXCEPT ![r] = "running"]
        /\ pc' = [pc EXCEPT ![r] = "snapshot"]
        /\ UNCHANGED <<reason, uncertain, faults>>
     \/ /\ Fault /\ PersistRefused(r, "persist")
        /\ UNCHANGED <<rows, uncertain>>
  /\ UNCHANGED <<kind, facts, registry, subs, snapshots, short>>

\* Mutant: the wallet is pushed before the session is saved.
PersistSessionLate(r) ==
  /\ pc[r] = "persist"
  /\ snapshots' = Append(snapshots, r)
  /\ IF ActiveRows = {}
     THEN /\ rows' = [rows EXCEPT ![r] = "running"]
          /\ pc' = [pc EXCEPT ![r] = "start"]
          /\ UNCHANGED reason
     ELSE PersistRefused(r, "conflict") /\ UNCHANGED rows
  /\ UNCHANGED <<kind, facts, registry, subs, uncertain, short, faults>>

PersistSession(r) ==
  /\ pc[r] = "persist"
  /\ \/ /\ ActiveRows = {}
        /\ rows' = [rows EXCEPT ![r] = "running"]
        /\ pc' = [pc EXCEPT ![r] = "snapshot"]
        /\ UNCHANGED <<reason, uncertain, faults>>
     \/ /\ ActiveRows # {}
        /\ PersistRefused(r, "conflict")
        /\ UNCHANGED <<rows, uncertain, faults>>
     \/ /\ Fault /\ PersistRefused(r, "persist")
        /\ \/ UNCHANGED <<rows, uncertain>>
           \/ /\ ActiveRows = {}
              /\ rows' = [rows EXCEPT ![r] = "running"]
              /\ uncertain' = uncertain \cup {r}
  /\ UNCHANGED <<kind, facts, registry, subs, snapshots, short>>

\* The start pushes its wallet; without that audit record it is refused, and
\* the failure is written into the row.
StartSnapshot(r) ==
  /\ pc[r] = "snapshot"
  /\ \/ /\ snapshots' = Append(snapshots, r)
        /\ pc' = [pc EXCEPT ![r] = "start"]
        /\ UNCHANGED <<reason, faults>>
     \/ /\ Fault
        /\ \/ snapshots' = Append(snapshots, r)
           \/ UNCHANGED snapshots
        /\ pc' = [pc EXCEPT ![r] = "fail"]
        /\ reason' = [reason EXCEPT ![r] = "snapshot"]
  /\ UNCHANGED <<kind, facts, registry, rows, subs, uncertain, short>>

\* Mutant: the row of the failed start is left alone.
FailRowSkipped(r) ==
  /\ pc[r] = "fail"
  /\ pc' = [pc EXCEPT ![r] = IF env = "demo" THEN "release" ELSE "discard"]
  /\ UNCHANGED <<kind, reason, facts, registry, rows, subs, snapshots,
                 uncertain, short, faults>>

\* The row of a start that failed; a failed update is logged.
FailRow(r) ==
  /\ pc[r] = "fail"
  /\ \/ rows' = [rows EXCEPT ![r] = "failed"] /\ UNCHANGED <<uncertain, faults>>
     \/ Fault /\ uncertain' = uncertain \cup {r} /\ UNCHANGED rows
  /\ pc' = [pc EXCEPT ![r] = IF env = "demo" THEN "release" ELSE "discard"]
  /\ UNCHANGED <<kind, reason, facts, registry, subs, snapshots, short>>

\* Release the subscriptions of a refused demo session; a failure is logged.
ReleaseSubscriptions(r) ==
  /\ pc[r] = "release"
  /\ \/ subs' = [subs EXCEPT ![r] = {}] /\ UNCHANGED <<uncertain, faults>>
     \/ Fault /\ uncertain' = uncertain \cup {r} /\ UNCHANGED subs
  /\ pc' = [pc EXCEPT ![r] = "discard"]
  /\ UNCHANGED <<kind, reason, facts, registry, rows, snapshots, short>>

\* Forget the session and answer with the error.
Discard(r) ==
  /\ pc[r] = "discard"
  /\ registry' = registry \ {r}
  /\ pc' = [pc EXCEPT ![r] = "refused"]
  /\ UNCHANGED <<kind, reason, facts, platform, uncertain, short, faults>>

\* The run thread starts and the caller is told the session's id.
StartThread(r) ==
  /\ pc[r] = "start"
  /\ pc' = [pc EXCEPT ![r] = "running"]
  /\ reason' = [reason EXCEPT ![r] = "ok"]
  /\ UNCHANGED <<kind, facts, registry, platform, uncertain, short, faults>>

-----------------------------------------------------------------------------
\* A session that ends releases its streams and writes its row; how, and what
\* can go wrong on the way, is the subject of SessionLifecycle.
SessionEnds(r) ==
  /\ pc[r] = "running"
  /\ pc' = [pc EXCEPT ![r] = "over"]
  /\ rows' = [rows EXCEPT ![r] = "finished"]
  /\ subs' = [subs EXCEPT ![r] = {}]
  /\ UNCHANGED <<kind, reason, facts, registry, snapshots, uncertain, short, faults>>

\* The portfolio or a stream changes on the platform.
PlatformChanges ==
  /\ changes < MaxChanges /\ changes' = changes + 1
  /\ \/ \E g \in PlatformGates :
          /\ bad' = IF g \in bad THEN bad \ {g} ELSE bad \cup {g}
          /\ UNCHANGED stream
     \/ \E i \in Inputs, s \in StreamStates :
          /\ stream' = [stream EXCEPT ![i] = s]
          /\ UNCHANGED bad
  /\ UNCHANGED <<kind, pc, reason, gated, env, registry, platform, uncertain, short,
                 faults>>

RunSteps(r) ==
  \/ CheckRequest(r) \/ ReadPortfolio(r) \/ ReadStrategy(r)
  \/ PortfolioPreflight(r) \/ BuildWallet(r) \/ CreateSession(r)
  \/ Subscribe(r) \/ PersistSession(r) \/ StartSnapshot(r)
  \/ FailRow(r) \/ ReleaseSubscriptions(r) \/ Discard(r) \/ StartThread(r)
  \/ SessionEnds(r)

PreviewSteps(r) ==
  \/ PreviewRequest(r) \/ PreviewPortfolio(r) \/ PreviewStrategy(r)
  \/ PreviewPreflight(r) \/ PreviewWallet(r) \/ PreviewStreams(r)

Next ==
  \/ \E r \in Requests : RunSteps(r) \/ PreviewSteps(r)
  \/ PlatformChanges

Spec == Init /\ [][Next]_vars

-----------------------------------------------------------------------------
\* Type correctness; a preview only takes steps that leave no trace.
AdmissionTypeOK ==
  /\ kind \in [Requests -> {"run", "preview"}]
  /\ pc \in [Requests -> {"request", "portfolio", "strategy", "preflight",
       "wallet", "streams", "previewed", "subscribe", "persist", "snapshot",
       "fail", "release", "discard", "refused", "start", "running", "over"}]
  /\ \A r \in Requests : kind[r] = "preview" => pc[r] \in {"request",
       "portfolio", "strategy", "preflight", "wallet", "streams", "previewed",
       "refused"}
  /\ gated \in BOOLEAN /\ env \in {"backtest", "demo"}
  /\ bad \subseteq RequestGates \cup PlatformGates
  /\ stream \in [Inputs -> StreamStates]
  /\ registry \subseteq Requests
  /\ rows \in [Requests -> {"none", "running", "failed", "finished"}]
  /\ subs \in [Requests -> SUBSET Inputs]
  /\ \A i \in DOMAIN snapshots : snapshots[i] \in Requests
  /\ uncertain \subseteq Requests /\ short \subseteq Requests
  /\ changes \in 0 .. MaxChanges /\ faults \in 0 .. MaxFaults

\* At most one session of the portfolio runs, however many requests race:
\* the refusal of SaveSession is honoured.
OneSessionRuns ==
  \A r, q \in Requests :
    pc[r] \in {"snapshot", "start", "running"} /\
    pc[q] \in {"snapshot", "start", "running"} => r = q

\* A start that is refused leaves no session in its process and, unless the
\* answer of a write was lost or a clean-up call failed, no row that blocks
\* the portfolio and no subscription, whatever step failed.  One step has no
\* compensation: a platform that answers with fewer subscriptions than were
\* asked for keeps those, since RunStrategy discards the session without
\* releasing them.
RefusedLeavesNothing ==
  \A r \in Requests : pc[r] = "refused" =>
    /\ r \notin registry
    /\ r \notin uncertain => rows[r] # "running"
    /\ r \notin uncertain /\ subs[r] # {} => r \in short /\ rows[r] = "none"

\* The wallet of the portfolio is only pushed by the start that owns the
\* active session: a losing start does not overwrite the running one's state.
SnapshotByOwner ==
  [][\A r \in Requests : snapshots' = Append(snapshots, r) =>
       ActiveRows \subseteq {r} /\ rows'[r] = "running"]_vars

\* A session that runs has everything it needs: its row, its audit record,
\* and for a demo session a subscription for every declared input that
\* existed when its streams were bound.
RunningIsEquipped ==
  \A r \in Requests : pc[r] = "running" =>
    /\ r \in registry /\ rows[r] = "running"
    /\ \E i \in DOMAIN snapshots : snapshots[i] = r
    /\ env = "demo" => subs[r] = Inputs

\* Together: however starts race, one session runs, and it has all it needs.
AdmissionSound == AdmissionTypeOK /\ OneSessionRuns /\ RunningIsEquipped

\* A preview and a run of the unchanged portfolio agree on the gate that
\* refuses, but for the margin and runtime gates, which only the run has.
PreviewAgrees ==
  changes = 0 /\ faults = 0 =>
    \A p, r \in Requests :
      /\ kind[p] = "preview" /\ pc[p] \in {"refused", "previewed"}
      /\ kind[r] = "run" /\ reason[r] # NoReason
      => \/ reason[p] = reason[r]
         \/ reason[p] = "ok" /\ reason[r] \in {"margin", "runtime", "conflict"}
         \/ reason[r] = "margin" /\ reason[p] = "streams"

-----------------------------------------------------------------------------
(* What the comments, tests and docs say and the code does not keep *)

\* PreviewRunStrategy's own description: "a caller can trust that
\* PreviewRunStrategy ok=true implies RunStrategy will pass every prior gate".
PreviewImpliesRun ==
  changes = 0 /\ faults = 0 =>
    \A p, r \in Requests :
      kind[p] = "preview" /\ reason[p] = "ok" /\ kind[r] = "run"
      => reason[r] \in {NoReason, "ok", "conflict"}

\* RefusedLeavesNothing without its exception: when every call was answered
\* and no clean-up failed, a refused start has no subscription.
RefusedSubscribesNothing ==
  \A r \in Requests : pc[r] = "refused" /\ r \notin uncertain => subs[r] = {}

=============================================================================
