------------------------ MODULE RunAdmission_proofs ------------------------
(***************************************************************************)
(* The safety properties of RunAdmission for any requests, inputs and      *)
(* bounds.  The inductive invariant says, for every program counter, which *)
(* of the session's traces (registry entry, row, subscriptions, audit      *)
(* record) exist, and that the platform has at most one active row.  A     *)
(* second one says which gates a request has passed, step by step, while   *)
(* the portfolio is unchanged: previews and runs then agree.               *)
(***************************************************************************)
EXTENDS RunAdmission, TLAPS, SequenceTheorems

Gates == {"request", "portfolio", "strategy", "preflight", "wallet", "streams"}
Live == {"snapshot", "fail", "start", "running"}
Steps == Gates \cup Live \cup {"previewed", "subscribe", "persist", "release",
                               "discard", "refused", "over"}

\* The state apart from the requests' own steps.
TypeInv ==
  /\ kind \in [Requests -> {"run", "preview"}]
  /\ pc \in [Requests -> Steps]
  /\ gated \in BOOLEAN /\ env \in {"backtest", "demo"}
  /\ bad \subseteq RequestGates \cup PlatformGates
  /\ stream \in [Inputs -> StreamStates]
  /\ registry \subseteq Requests
  /\ rows \in [Requests -> {"none", "running", "failed", "finished"}]
  /\ subs \in [Requests -> SUBSET Inputs]
  /\ snapshots \in Seq(Requests)
  /\ uncertain \subseteq Requests /\ short \subseteq Requests
  /\ changes \in 0 .. MaxChanges /\ faults \in 0 .. MaxFaults

\* What a request has left on the platform and in its process, by its step.
Traces(q) ==
  /\ kind[q] = "preview" => pc[q] \in Gates \cup {"previewed", "refused"}
  /\ pc[q] \in Gates \cup {"previewed"}
       => rows[q] = "none" /\ subs[q] = {} /\ q \notin registry
  /\ pc[q] = "subscribe" => rows[q] = "none" /\ subs[q] = {} /\ env = "demo"
  /\ pc[q] = "persist" => rows[q] = "none"
  /\ pc[q] \in Live => rows[q] = "running"
  /\ pc[q] \in Live \cup {"persist"}
       => subs[q] = IF env = "demo" THEN Inputs ELSE {}
  /\ pc[q] \in {"release", "discard", "refused"}
       => rows[q] # "running" \/ q \in uncertain
  /\ pc[q] = "discard" => subs[q] = {} \/ q \in uncertain
  /\ pc[q] = "refused" => \/ subs[q] = {} \/ q \in uncertain
                          \/ q \in short /\ rows[q] = "none"
  /\ pc[q] = "refused" => q \notin registry
  /\ pc[q] \in Live \cup {"subscribe", "persist", "release", "discard"}
       => q \in registry
  /\ pc[q] \in {"start", "running"}
       => \E i \in 1 .. Len(snapshots) : snapshots[i] = q

OneRow ==
  \A p, q \in Requests : rows[p] = "running" /\ rows[q] = "running" => p = q

Inv == TypeInv /\ (\A q \in Requests : Traces(q)) /\ OneRow

-----------------------------------------------------------------------------
LEMMA InitInv == Init => Inv
BY AdmissionAssumption
   DEF Init, Inv, TypeInv, Traces, OneRow, Gates, Live, Steps, NoReason,
       StreamStates

\* A step of request r changes the entries of r only: it suffices to show
\* what r has left.
LEMMA OthersKeep ==
  ASSUME Inv, NEW r \in Requests, TypeInv', UNCHANGED <<kind, env>>,
         \A q \in Requests \ {r} :
           /\ pc'[q] = pc[q] /\ rows'[q] = rows[q] /\ subs'[q] = subs[q]
           /\ (q \in registry' <=> q \in registry)
           /\ (q \in uncertain => q \in uncertain') /\ (q \in short => q \in short'),
         \/ snapshots' = snapshots
         \/ snapshots' = Append(snapshots, r),
         Traces(r)'
  PROVE  \A q \in Requests : Traces(q)'
<1>1. ASSUME NEW q \in Requests \ {r} PROVE Traces(q)'
  <2>1. Traces(q)
    BY DEF Inv
  <2>2. (\E i \in 1 .. Len(snapshots) : snapshots[i] = q)
          => \E i \in 1 .. Len(snapshots') : snapshots'[i] = q
    <3>1. CASE snapshots' = Append(snapshots, r)
      BY <3>1 DEF Inv, TypeInv
    <3> QED
      BY <3>1
  <2> QED
    BY <2>1, <2>2 DEF Traces
<1> QED
  BY <1>1

\* The active row stays the only one when a step makes no row active, or
\* makes its own active while none was.
LEMMA OneRowKept ==
  ASSUME OneRow, NEW r \in Requests,
         \A q \in Requests \ {r} : rows'[q] = rows[q],
         rows'[r] = "running" => rows[r] = "running" \/ ActiveRows = {}
  PROVE  OneRow'
BY DEF OneRow, ActiveRows

\* The gates before the session is created, of RunStrategy and of its
\* preview alike: the request goes on, or is refused, and leaves nothing.
LEMMA GateStep ==
  ASSUME Inv, NEW r \in Requests, pc[r] \in Gates,
         NEW x \in Gates \cup {"previewed", "refused"},
         pc' = [pc EXCEPT ![r] = x], NoSession(r),
         faults' \in 0 .. MaxFaults
  PROVE  Inv'
<1> USE DEF NoSession, facts, platform
<1>1. TypeInv'
  BY DEF Inv, TypeInv, Steps, Gates
<1>2. Traces(r)'
  BY DEF Inv, TypeInv, Traces, Gates, Live
<1>3. \A q \in Requests : Traces(q)'
  <2>1. \A q \in Requests \ {r} :
           /\ pc'[q] = pc[q] /\ rows'[q] = rows[q] /\ subs'[q] = subs[q]
           /\ (q \in registry' <=> q \in registry)
           /\ (q \in uncertain => q \in uncertain') /\ (q \in short => q \in short')
    BY DEF Inv, TypeInv
  <2> QED
    BY <1>1, <1>2, <2>1, OthersKeep
<1>4. OneRow'
  BY DEF Inv, OneRow
<1> QED
  BY <1>1, <1>3, <1>4 DEF Inv

\* A read of the platform moves on to the next step or refuses.
LEMMA ReadStep ==
  ASSUME Inv, NEW r \in Requests, NEW gates, NEW next \in Gates,
         pc[r] \in Gates, Read(r, gates, next), NoSession(r)
  PROVE  Inv'
<1>1. faults' \in 0 .. MaxFaults
  BY AdmissionAssumption DEF Inv, TypeInv, Read, Fault
<1>2. PICK x \in {next, "refused"} : pc' = [pc EXCEPT ![r] = x]
  BY DEF Read, Pass, Refuse
<1> QED
  BY <1>1, <1>2, GateStep DEF Gates

LEMMA PassStep ==
  ASSUME Inv, NEW r \in Requests, NEW gates, NEW next \in Gates,
         pc[r] \in Gates, Pass(r, gates, next), UNCHANGED faults, NoSession(r)
  PROVE  Inv'
BY ReadStep DEF Read

\* So does the choice between the active strategy and the path given.
LEMMA SourceStep ==
  ASSUME Inv, NEW r \in Requests, pc[r] \in Gates, StrategySource(r),
         NoSession(r)
  PROVE  Inv'
<1>1. faults' \in 0 .. MaxFaults
  BY AdmissionAssumption DEF Inv, TypeInv, StrategySource, Read, Fault
<1>2. PICK x \in {"preflight", "refused"} : pc' = [pc EXCEPT ![r] = x]
  BY DEF StrategySource, Read, Pass, Refuse
<1> QED
  BY <1>1, <1>2, GateStep DEF Gates

LEMMA PreviewStreamsInv ==
  ASSUME Inv, NEW r \in Requests, PreviewStreams(r) PROVE Inv'
<1>1. faults' \in 0 .. MaxFaults
  BY AdmissionAssumption DEF Inv, TypeInv, PreviewStreams, LookUp, Fault
<1>2. PICK x \in {"previewed", "refused"} : pc' = [pc EXCEPT ![r] = x]
  BY DEF PreviewStreams, Refuse
<1> QED
  BY <1>1, <1>2, GateStep DEF Gates, PreviewStreams

-----------------------------------------------------------------------------
(* One lemma per step that leaves something behind or takes it back. *)

\* The session enters the registry, and a demo session has yet to subscribe.
LEMMA CreateSessionInv ==
  ASSUME Inv, NEW r \in Requests, CreateSession(r) PROVE Inv'
<1> USE DEF CreateSession, Create, facts, platform, LookUp, Fault, Refuse
<1>1. TypeInv'
  BY AdmissionAssumption DEF Inv, TypeInv, Steps, Gates, Live
<1>2. Traces(r)'
  BY DEF Inv, TypeInv, Traces, Gates, Live
<1>3. \A q \in Requests \ {r} :
         /\ pc'[q] = pc[q] /\ rows'[q] = rows[q] /\ subs'[q] = subs[q]
         /\ (q \in registry' <=> q \in registry)
         /\ (q \in uncertain => q \in uncertain') /\ (q \in short => q \in short')
  BY DEF Inv, TypeInv
<1>4. UNCHANGED <<kind, env>>
  OBVIOUS
<1>5. snapshots' = snapshots \/ snapshots' = Append(snapshots, r)
  OBVIOUS
<1>6. rows'[r] = "running" => rows[r] = "running" \/ ActiveRows = {}
  BY DEF Inv, TypeInv
<1>7. \A q \in Requests : Traces(q)'
  BY <1>1, <1>2, <1>3, <1>4, <1>5, OthersKeep
<1>8. OneRow'
  BY <1>3, <1>6, OneRowKept DEF Inv
<1> QED
  BY <1>1, <1>7, <1>8 DEF Inv

\* All streams are subscribed, or the session is gone again.
LEMMA SubscribeInv ==
  ASSUME Inv, NEW r \in Requests, Subscribe(r) PROVE Inv'
<1> USE DEF Subscribe, CreateSubscriptions, facts, platform, Fault, Refuse
<1>1. TypeInv'
  BY AdmissionAssumption DEF Inv, TypeInv, Steps, Gates, Live
<1>2. Traces(r)'
  BY DEF Inv, TypeInv, Traces, Gates, Live
<1>3. \A q \in Requests \ {r} :
         /\ pc'[q] = pc[q] /\ rows'[q] = rows[q] /\ subs'[q] = subs[q]
         /\ (q \in registry' <=> q \in registry)
         /\ (q \in uncertain => q \in uncertain') /\ (q \in short => q \in short')
  BY DEF Inv, TypeInv
<1>4. UNCHANGED <<kind, env>>
  OBVIOUS
<1>5. snapshots' = snapshots \/ snapshots' = Append(snapshots, r)
  OBVIOUS
<1>6. rows'[r] = "running" => rows[r] = "running" \/ ActiveRows = {}
  BY DEF Inv, TypeInv
<1>7. \A q \in Requests : Traces(q)'
  BY <1>1, <1>2, <1>3, <1>4, <1>5, OthersKeep
<1>8. OneRow'
  BY <1>3, <1>6, OneRowKept DEF Inv
<1> QED
  BY <1>1, <1>7, <1>8 DEF Inv

\* The row becomes active only where none was.
LEMMA PersistSessionInv ==
  ASSUME Inv, NEW r \in Requests, PersistSession(r) PROVE Inv'
<1> USE DEF PersistSession, facts, platform, PersistRefused, Fault
<1>1. TypeInv'
  BY AdmissionAssumption DEF Inv, TypeInv, Steps, Gates, Live
<1>2. Traces(r)'
  BY DEF Inv, TypeInv, Traces, Gates, Live
<1>3. \A q \in Requests \ {r} :
         /\ pc'[q] = pc[q] /\ rows'[q] = rows[q] /\ subs'[q] = subs[q]
         /\ (q \in registry' <=> q \in registry)
         /\ (q \in uncertain => q \in uncertain') /\ (q \in short => q \in short')
  BY DEF Inv, TypeInv
<1>4. UNCHANGED <<kind, env>>
  OBVIOUS
<1>5. snapshots' = snapshots \/ snapshots' = Append(snapshots, r)
  OBVIOUS
<1>6. rows'[r] = "running" => rows[r] = "running" \/ ActiveRows = {}
  BY DEF Inv, TypeInv
<1>7. \A q \in Requests : Traces(q)'
  BY <1>1, <1>2, <1>3, <1>4, <1>5, OthersKeep
<1>8. OneRow'
  BY <1>3, <1>6, OneRowKept DEF Inv
<1> QED
  BY <1>1, <1>7, <1>8 DEF Inv

\* The audit record is written while the row is active.
LEMMA StartSnapshotInv ==
  ASSUME Inv, NEW r \in Requests, StartSnapshot(r) PROVE Inv'
<1> USE DEF StartSnapshot, facts, platform, Fault
<1>1. TypeInv'
  <2>1. snapshots' \in Seq(Requests)
    <3>1. snapshots \in Seq(Requests)
      BY DEF Inv, TypeInv
    <3>2. Append(snapshots, r) \in Seq(Requests)
      BY <3>1, AppendProperties
    <3>3. snapshots' = snapshots \/ snapshots' = Append(snapshots, r)
      OBVIOUS
    <3> QED
      BY <3>1, <3>2, <3>3, Zenon
  <2>2. pc' \in [Requests -> Steps] /\ faults' \in 0 .. MaxFaults
    BY AdmissionAssumption DEF Inv, TypeInv, Steps, Live
  <2> QED
    BY <2>1, <2>2 DEF Inv, TypeInv
<1>2. Traces(r)'
  BY DEF Inv, TypeInv, Traces, Gates, Live
<1>3. \A q \in Requests \ {r} :
         /\ pc'[q] = pc[q] /\ rows'[q] = rows[q] /\ subs'[q] = subs[q]
         /\ (q \in registry' <=> q \in registry)
         /\ (q \in uncertain => q \in uncertain') /\ (q \in short => q \in short')
  BY DEF Inv, TypeInv
<1>4. UNCHANGED <<kind, env>>
  OBVIOUS
<1>5. snapshots' = snapshots \/ snapshots' = Append(snapshots, r)
  OBVIOUS
<1>6. rows'[r] = "running" => rows[r] = "running" \/ ActiveRows = {}
  BY DEF Inv, TypeInv
<1>7. \A q \in Requests : Traces(q)'
  BY <1>1, <1>2, <1>3, <1>4, <1>5, OthersKeep
<1>8. OneRow'
  BY <1>3, <1>6, OneRowKept DEF Inv
<1> QED
  BY <1>1, <1>7, <1>8 DEF Inv

\* The row of a failed start is no longer active, or its fate is uncertain.
LEMMA FailRowInv ==
  ASSUME Inv, NEW r \in Requests, FailRow(r) PROVE Inv'
<1> USE DEF FailRow, facts, platform, Fault
<1>1. TypeInv'
  BY AdmissionAssumption DEF Inv, TypeInv, Steps, Gates, Live
<1>2. Traces(r)'
  BY DEF Inv, TypeInv, Traces, Gates, Live
<1>3. \A q \in Requests \ {r} :
         /\ pc'[q] = pc[q] /\ rows'[q] = rows[q] /\ subs'[q] = subs[q]
         /\ (q \in registry' <=> q \in registry)
         /\ (q \in uncertain => q \in uncertain') /\ (q \in short => q \in short')
  BY DEF Inv, TypeInv
<1>4. UNCHANGED <<kind, env>>
  OBVIOUS
<1>5. snapshots' = snapshots \/ snapshots' = Append(snapshots, r)
  OBVIOUS
<1>6. rows'[r] = "running" => rows[r] = "running" \/ ActiveRows = {}
  BY DEF Inv, TypeInv
<1>7. \A q \in Requests : Traces(q)'
  BY <1>1, <1>2, <1>3, <1>4, <1>5, OthersKeep
<1>8. OneRow'
  BY <1>3, <1>6, OneRowKept DEF Inv
<1> QED
  BY <1>1, <1>7, <1>8 DEF Inv

\* The subscriptions are released, or their fate is uncertain.
LEMMA ReleaseSubscriptionsInv ==
  ASSUME Inv, NEW r \in Requests, ReleaseSubscriptions(r) PROVE Inv'
<1> USE DEF ReleaseSubscriptions, facts, platform, Fault
<1>1. TypeInv'
  BY AdmissionAssumption DEF Inv, TypeInv, Steps, Gates, Live
<1>2. Traces(r)'
  BY DEF Inv, TypeInv, Traces, Gates, Live
<1>3. \A q \in Requests \ {r} :
         /\ pc'[q] = pc[q] /\ rows'[q] = rows[q] /\ subs'[q] = subs[q]
         /\ (q \in registry' <=> q \in registry)
         /\ (q \in uncertain => q \in uncertain') /\ (q \in short => q \in short')
  BY DEF Inv, TypeInv
<1>4. UNCHANGED <<kind, env>>
  OBVIOUS
<1>5. snapshots' = snapshots \/ snapshots' = Append(snapshots, r)
  OBVIOUS
<1>6. rows'[r] = "running" => rows[r] = "running" \/ ActiveRows = {}
  BY DEF Inv, TypeInv
<1>7. \A q \in Requests : Traces(q)'
  BY <1>1, <1>2, <1>3, <1>4, <1>5, OthersKeep
<1>8. OneRow'
  BY <1>3, <1>6, OneRowKept DEF Inv
<1> QED
  BY <1>1, <1>7, <1>8 DEF Inv

\* The session leaves the registry.
LEMMA DiscardInv ==
  ASSUME Inv, NEW r \in Requests, Discard(r) PROVE Inv'
<1> USE DEF Discard, facts, platform
<1>1. TypeInv'
  BY AdmissionAssumption DEF Inv, TypeInv, Steps, Gates, Live
<1>2. Traces(r)'
  BY DEF Inv, TypeInv, Traces, Gates, Live
<1>3. \A q \in Requests \ {r} :
         /\ pc'[q] = pc[q] /\ rows'[q] = rows[q] /\ subs'[q] = subs[q]
         /\ (q \in registry' <=> q \in registry)
         /\ (q \in uncertain => q \in uncertain') /\ (q \in short => q \in short')
  BY DEF Inv, TypeInv
<1>4. UNCHANGED <<kind, env>>
  OBVIOUS
<1>5. snapshots' = snapshots \/ snapshots' = Append(snapshots, r)
  OBVIOUS
<1>6. rows'[r] = "running" => rows[r] = "running" \/ ActiveRows = {}
  BY DEF Inv, TypeInv
<1>7. \A q \in Requests : Traces(q)'
  BY <1>1, <1>2, <1>3, <1>4, <1>5, OthersKeep
<1>8. OneRow'
  BY <1>3, <1>6, OneRowKept DEF Inv
<1> QED
  BY <1>1, <1>7, <1>8 DEF Inv

\* The run thread starts with everything in place.
LEMMA StartThreadInv ==
  ASSUME Inv, NEW r \in Requests, StartThread(r) PROVE Inv'
<1> USE DEF StartThread, facts, platform
<1>1. TypeInv'
  BY AdmissionAssumption DEF Inv, TypeInv, Steps, Gates, Live
<1>2. Traces(r)'
  BY DEF Inv, TypeInv, Traces, Gates, Live
<1>3. \A q \in Requests \ {r} :
         /\ pc'[q] = pc[q] /\ rows'[q] = rows[q] /\ subs'[q] = subs[q]
         /\ (q \in registry' <=> q \in registry)
         /\ (q \in uncertain => q \in uncertain') /\ (q \in short => q \in short')
  BY DEF Inv, TypeInv
<1>4. UNCHANGED <<kind, env>>
  OBVIOUS
<1>5. snapshots' = snapshots \/ snapshots' = Append(snapshots, r)
  OBVIOUS
<1>6. rows'[r] = "running" => rows[r] = "running" \/ ActiveRows = {}
  BY DEF Inv, TypeInv
<1>7. \A q \in Requests : Traces(q)'
  BY <1>1, <1>2, <1>3, <1>4, <1>5, OthersKeep
<1>8. OneRow'
  BY <1>3, <1>6, OneRowKept DEF Inv
<1> QED
  BY <1>1, <1>7, <1>8 DEF Inv

\* The row of a session that ended is no longer active.
LEMMA SessionEndsInv ==
  ASSUME Inv, NEW r \in Requests, SessionEnds(r) PROVE Inv'
<1> USE DEF SessionEnds, facts, platform
<1>1. TypeInv'
  BY AdmissionAssumption DEF Inv, TypeInv, Steps, Gates, Live
<1>2. Traces(r)'
  BY DEF Inv, TypeInv, Traces, Gates, Live
<1>3. \A q \in Requests \ {r} :
         /\ pc'[q] = pc[q] /\ rows'[q] = rows[q] /\ subs'[q] = subs[q]
         /\ (q \in registry' <=> q \in registry)
         /\ (q \in uncertain => q \in uncertain') /\ (q \in short => q \in short')
  BY DEF Inv, TypeInv
<1>4. UNCHANGED <<kind, env>>
  OBVIOUS
<1>5. snapshots' = snapshots \/ snapshots' = Append(snapshots, r)
  OBVIOUS
<1>6. rows'[r] = "running" => rows[r] = "running" \/ ActiveRows = {}
  BY DEF Inv, TypeInv
<1>7. \A q \in Requests : Traces(q)'
  BY <1>1, <1>2, <1>3, <1>4, <1>5, OthersKeep
<1>8. OneRow'
  BY <1>3, <1>6, OneRowKept DEF Inv
<1> QED
  BY <1>1, <1>7, <1>8 DEF Inv

LEMMA ChangesInv == Inv /\ PlatformChanges => Inv'
BY AdmissionAssumption
   DEF Inv, TypeInv, Traces, OneRow, PlatformChanges, platform

LEMMA NextInv == Inv /\ [Next]_vars => Inv'
<1> SUFFICES ASSUME Inv, [Next]_vars PROVE Inv'
  OBVIOUS
<1>1. CASE UNCHANGED vars
  BY <1>1 DEF Inv, TypeInv, Traces, OneRow, vars, facts, platform
<1>2. CASE PlatformChanges
  BY <1>2, ChangesInv
<1>3. ASSUME NEW r \in Requests, RunSteps(r) PROVE Inv'
  <2>1. CASE CheckRequest(r)
    BY <2>1, PassStep DEF CheckRequest, Gates
  <2>2. CASE ReadPortfolio(r)
    BY <2>2, ReadStep DEF ReadPortfolio, Gates
  <2>3. CASE ReadStrategy(r)
    BY <2>3, SourceStep DEF ReadStrategy, Gates
  <2>4. CASE PortfolioPreflight(r)
    BY <2>4, ReadStep DEF PortfolioPreflight, PreflightStrategySession, Gates
  <2>5. CASE BuildWallet(r)
    BY <2>5, ReadStep DEF BuildWallet, Gates
  <2> QED
    BY <1>3, <2>1, <2>2, <2>3, <2>4, <2>5, CreateSessionInv, SubscribeInv,
       PersistSessionInv, StartSnapshotInv, FailRowInv, ReleaseSubscriptionsInv,
       DiscardInv, StartThreadInv, SessionEndsInv DEF RunSteps
<1>4. ASSUME NEW r \in Requests, PreviewSteps(r) PROVE Inv'
  <2>1. CASE PreviewRequest(r)
    BY <2>1, PassStep DEF PreviewRequest, Gates
  <2>2. CASE PreviewPortfolio(r)
    BY <2>2, ReadStep DEF PreviewPortfolio, Gates
  <2>3. CASE PreviewStrategy(r)
    BY <2>3, SourceStep DEF PreviewStrategy, Gates
  <2>4. CASE PreviewPreflight(r)
    BY <2>4, ReadStep DEF PreviewPreflight, PreflightStrategySession, Gates
  <2>5. CASE PreviewWallet(r)
    BY <2>5, ReadStep DEF PreviewWallet, Gates
  <2> QED
    BY <1>4, <2>1, <2>2, <2>3, <2>4, <2>5, PreviewStreamsInv DEF PreviewSteps
<1> QED
  BY <1>1, <1>2, <1>3, <1>4 DEF Next

\* Inv is an invariant of the specification.
THEOREM Invariance == Spec => []Inv
BY InitInv, NextInv, PTL DEF Spec

-----------------------------------------------------------------------------
\* However many starts of the portfolio race, one session runs at most, and
\* it has its registry entry, its active row, its audit record and, in a demo
\* environment, a subscription for every input (RunStrategy).
THEOREM OneEquippedSession == Spec => []AdmissionSound
<1>1. Inv => AdmissionSound
  <2> SUFFICES ASSUME Inv PROVE AdmissionSound
    OBVIOUS
  <2>1. AdmissionTypeOK
    BY DEF Inv, TypeInv, Traces, AdmissionTypeOK, Steps, Gates, Live
  <2>2. OneSessionRuns
    BY DEF Inv, Traces, OneRow, OneSessionRuns, Live
  <2>3. RunningIsEquipped
    BY DEF Inv, TypeInv, Traces, RunningIsEquipped, Live
  <2> QED
    BY <2>1, <2>2, <2>3 DEF AdmissionSound
<1> QED
  BY <1>1, Invariance, PTL

\* A refused start leaves no session, no active row and no subscription,
\* whatever step failed, unless an answer or a clean-up call was lost, or the
\* platform created fewer subscriptions than it was asked for, which are the
\* only thing that RunStrategy does not compensate.
THEOREM RefusalLeavesNothing == Spec => []RefusedLeavesNothing
<1>1. Inv => RefusedLeavesNothing
  BY DEF Inv, Traces, RefusedLeavesNothing
<1> QED
  BY <1>1, Invariance, PTL

\* The wallet of the portfolio is pushed only by the start whose row is the
\* active one (_sync_strategy_snapshot in RunStrategy).
THEOREM OwnerPushesWallet == Spec => SnapshotByOwner
<1> DEFINE Push == \A r \in Requests : snapshots' = Append(snapshots, r) =>
                     ActiveRows \subseteq {r} /\ rows'[r] = "running"
<1>1. Inv /\ [Next]_vars => [Push]_vars
  <2> SUFFICES ASSUME Inv, Next, NEW r \in Requests,
                      snapshots' = Append(snapshots, r)
               PROVE  ActiveRows \subseteq {r} /\ rows'[r] = "running"
    OBVIOUS
  <2>1. snapshots' # snapshots
    BY DEF Inv, TypeInv
  <2>2. PICK q \in Requests : StartSnapshot(q)
    BY <2>1 DEF Next, RunSteps, PreviewSteps, CheckRequest, ReadPortfolio,
       ReadStrategy, PortfolioPreflight, BuildWallet, CreateSession, Subscribe,
       PersistSession, FailRow, ReleaseSubscriptions, Discard, StartThread,
       SessionEnds, PreviewRequest, PreviewPortfolio, PreviewStrategy,
       PreviewPreflight, PreviewWallet, PreviewStreams, PlatformChanges,
       NoSession, platform
  <2>3. q = r
    <3>1. snapshots' = Append(snapshots, q)
      BY <2>1, <2>2 DEF StartSnapshot
    <3>2. snapshots \in Seq(Requests)
      BY DEF Inv, TypeInv
    <3>3. /\ Append(snapshots, q)[Len(snapshots) + 1] = q
          /\ Append(snapshots, r)[Len(snapshots) + 1] = r
      BY <3>2, AppendProperties
    <3> QED
      BY <3>1, <3>3
  <2> QED
    BY <2>2, <2>3 DEF StartSnapshot, Inv, TypeInv, Traces, Live, OneRow,
       ActiveRows
<1> QED
  BY <1>1, Invariance, PTL DEF Spec, SnapshotByOwner

-----------------------------------------------------------------------------
(* A preview and a run of the unchanged portfolio *)

\* The gates a preview and a run have in common, apart from the streams.
SharedGates == {"user", "proxy", "arguments", "portfolio", "profile", "path",
                "strategy", "declaration", "risk", "preflight", "wallet"}

\* The order in which both meet them.
Rank == [user |-> 1, proxy |-> 2, arguments |-> 3, portfolio |-> 4, profile |-> 5,
         path |-> 6, strategy |-> 7, declaration |-> 8, risk |-> 9,
         preflight |-> 10, wallet |-> 11]

\* All the reasons that a request can be answered with.
Reasons == {"user", "proxy", "arguments", "portfolio", "profile", "path", "strategy",
            "declaration", "risk", "preflight", "wallet", "margin", "streams",
            "runtime", "subscribe", "persist", "conflict", "snapshot", "ok",
            NoReason}

\* None of the shared gates refuses, nor do the streams.
Clear == SharedGates \cap bad = {} /\ ProfilePreflight(stream) = {}

\* A shared gate that refuses while none before it does; the margin gate is
\* behind all of them, and only a run has it.
First(g) == g \in bad /\ \A h \in SharedGates \cap bad : Rank[g] <= Rank[h]
Refused(q, g) ==
  \/ g \in SharedGates /\ First(g)
  \/ g = "margin" /\ kind[q] = "run" /\ SharedGates \cap bad = {}

\* The reason given says what the gates examined.
Decided(q) ==
  \/ Refused(q, reason[q])
  \/ /\ reason[q] = "streams"
     /\ SharedGates \cap bad = {} /\ ProfilePreflight(stream) # {}
  \/ /\ Clear /\ reason[q] \in {"ok", "conflict", "runtime"}
     /\ kind[q] = "preview" => reason[q] = "ok"

\* What a request that has come so far has examined, when no call failed and
\* the portfolio has not changed.
Verdict(q) ==
  /\ pc[q] \in Gates \ {"request"} => {"user", "proxy", "arguments"} \cap bad = {}
  /\ pc[q] \in {"strategy", "preflight", "wallet", "streams"}
       => {"portfolio", "profile", "path"} \cap bad = {}
  /\ pc[q] \in {"preflight", "wallet", "streams"}
       => {"strategy", "declaration", "risk"} \cap bad = {}
  /\ pc[q] \in {"wallet", "streams"} => "preflight" \notin bad
  /\ pc[q] = "streams" => "wallet" \notin bad
  /\ pc[q] \in {"subscribe", "persist", "snapshot", "start", "running", "over"}
       => kind[q] = "run" /\ Clear
  /\ pc[q] # "fail"
  /\ pc[q] \in {"refused", "previewed", "release", "discard"} \/ reason[q] # NoReason
       => Decided(q)

VerdictInv ==
  /\ reason \in [Requests -> Reasons]
  /\ changes = 0 /\ faults = 0 =>
       \A q \in Requests : Verdict(q)

\* The first of up to three gates that refuses: none before it does.
LEMMA FirstRefuses ==
  ASSUME NEW gates \in Seq(Reasons), Len(gates) \in 1 .. 3, Refusing(gates) # {}
  PROVE  \E i \in 1 .. Len(gates) :
           /\ FirstRefusing(gates) = gates[i] /\ gates[i] \in bad
           /\ \A j \in 1 .. i - 1 : gates[j] \notin bad
<1> DEFINE R == Refusing(gates)
<1>1. /\ R \subseteq 1 .. 3 /\ R # {}
      /\ \A i \in R : i \in 1 .. Len(gates) /\ gates[i] \in bad
      /\ \A i \in 1 .. Len(gates) : gates[i] \in bad => i \in R
  BY DEF Refusing
<1> HIDE DEF R
<1>2. \E i \in R : \A j \in R : i <= j
  <2>1. \A j \in R : j = 1 \/ j = 2 \/ j = 3
    BY <1>1
  <2>2. CASE 1 \in R
    BY <2>1, <2>2
  <2>3. CASE 1 \notin R /\ 2 \in R
    BY <2>1, <2>3
  <2>4. CASE 1 \notin R /\ 2 \notin R
    <3>1. \A j \in R : j = 3
      BY <2>1, <2>4, Zenon
    <3>2. PICK k : k \in R
      BY <1>1
    <3> QED
      BY <3>1, <3>2
  <2> QED
    BY <2>2, <2>3, <2>4
<1>3. PICK i \in R : /\ i = (CHOOSE k \in R : \A j \in R : k <= j)
                     /\ \A j \in R : i <= j
  BY <1>2
<1>4. \A j \in 1 .. i - 1 : gates[j] \notin bad
  <2>1. i \in 1 .. Len(gates) /\ Len(gates) \in Nat
    BY <1>1
  <2>2. \A j \in 1 .. i - 1 : j \in 1 .. Len(gates) /\ ~(i <= j)
    BY <2>1
  <2> QED
    BY <1>1, <1>3, <2>2
<1> QED
  BY <1>1, <1>3, <1>4 DEF FirstRefusing, R

\* Gates are passed together, or one that refuses is given as the reason.
LEMMA PassOutcome ==
  ASSUME NEW r \in Requests, NEW next, NEW gates \in Seq(Reasons), Len(gates) \in 1 .. 3,
         Pass(r, gates, next)
  PROVE  \/ /\ \A i \in 1 .. Len(gates) : gates[i] \notin bad
            /\ pc' = [pc EXCEPT ![r] = next] /\ reason' = reason
         \/ \E i \in 1 .. Len(gates) :
              /\ gates[i] \in bad /\ \A j \in 1 .. i - 1 : gates[j] \notin bad
              /\ pc' = [pc EXCEPT ![r] = "refused"]
              /\ reason' = [reason EXCEPT ![r] = gates[i]]
<1>1. CASE Refusing(gates) = {}
  BY <1>1 DEF Pass, Refusing
<1>2. CASE Refusing(gates) # {}
  <2>1. PICK i \in 1 .. Len(gates) :
          /\ FirstRefusing(gates) = gates[i] /\ gates[i] \in bad
          /\ \A j \in 1 .. i - 1 : gates[j] \notin bad
    BY <1>2, FirstRefuses
  <2> QED
    BY <1>2, <2>1 DEF Pass, Refuse
<1> QED
  BY <1>1, <1>2

\* The sequences of gates, written out.
LEMMA TwoGates ==
  ASSUME NEW a, NEW b
  PROVE  <<a>> \o <<b>> = <<a, b>>
<1> DEFINE s == <<a>>  t == <<b>>  u == <<a, b>>
<1>1. s \in Seq({a, b}) /\ t \in Seq({a, b}) /\ u \in Seq({a, b})
  OBVIOUS
<1>2. s \o t \in Seq({a, b}) /\ Len(s \o t) = 2 /\ Len(u) = 2
  BY <1>1
<1>3. (s \o t)[1] = u[1] /\ (s \o t)[2] = u[2]
  BY <1>1
<1>4. \A i \in 1 .. 2 : i = 1 \/ i = 2
  OBVIOUS
<1> HIDE DEF s, t, u
<1>5. s \o t = u
  BY <1>1, <1>2, <1>3, <1>4, SeqEqual
<1> QED
  BY <1>5 DEF s, t, u

LEMMA ThreeGates ==
  ASSUME NEW a, NEW b, NEW c
  PROVE  <<a, b>> \o <<c>> = <<a, b, c>>
<1> DEFINE s == <<a, b>>  t == <<c>>  u == <<a, b, c>>
<1>1. s \in Seq({a, b, c}) /\ t \in Seq({a, b, c}) /\ u \in Seq({a, b, c})
  OBVIOUS
<1>2. s \o t \in Seq({a, b, c}) /\ Len(s \o t) = 3 /\ Len(u) = 3
  BY <1>1
<1>3. (s \o t)[1] = u[1] /\ (s \o t)[2] = u[2] /\ (s \o t)[3] = u[3]
  BY <1>1
<1>4. \A i \in 1 .. 3 : i = 1 \/ i = 2 \/ i = 3
  OBVIOUS
<1> HIDE DEF s, t, u
<1>5. s \o t = u
  BY <1>1, <1>2, <1>3, <1>4, SeqEqual
<1> QED
  BY <1>5 DEF s, t, u

LEMMA GateSequences ==
  /\ UserGates \o ProxyGates \o <<"arguments">> = <<"user", "proxy", "arguments">>
  /\ SnapshotGates \o PathGates = <<"portfolio", "profile", "path">>
  /\ StrategyGates = <<"strategy", "declaration", "risk">>
  /\ WalletGates \o MarginGates = <<"portfolio", "wallet", "margin">>
<1>0. UserGates \o ProxyGates = <<"user", "proxy">>
  BY TwoGates, Zenon DEF UserGates, ProxyGates
<1>1. UserGates \o ProxyGates \o <<"arguments">> = <<"user", "proxy", "arguments">>
  BY <1>0, ThreeGates, Zenon
<1>2. SnapshotGates \o PathGates = <<"portfolio", "profile", "path">>
  BY ThreeGates, Zenon DEF SnapshotGates, PathGates
<1>3. <<"strategy">> \o DeclarationGates = <<"strategy", "declaration">>
  BY TwoGates, Zenon DEF DeclarationGates
<1>4. <<"strategy", "declaration">> \o RiskGates = <<"strategy", "declaration", "risk">>
  BY ThreeGates, Zenon DEF RiskGates
<1>5. StrategyGates = <<"strategy", "declaration", "risk">>
  BY <1>3, <1>4, Zenon DEF StrategyGates
<1>6. WalletGates \o MarginGates = <<"portfolio", "wallet", "margin">>
  BY ThreeGates, Zenon DEF WalletGates, MarginGates
<1> QED
  BY <1>1, <1>2, <1>5, <1>6

\* The ranks, written out.
LEMMA Ranks ==
  /\ Rank["user"] = 1 /\ Rank["proxy"] = 2 /\ Rank["arguments"] = 3
  /\ Rank["portfolio"] = 4 /\ Rank["profile"] = 5 /\ Rank["path"] = 6
  /\ Rank["strategy"] = 7 /\ Rank["declaration"] = 8 /\ Rank["risk"] = 9
  /\ Rank["preflight"] = 10 /\ Rank["wallet"] = 11
BY DEF Rank

\* A gate that refuses and has only open gates before it is the first.
LEMMA FirstByRank ==
  ASSUME NEW q, NEW g \in SharedGates, g \in bad,
         \A h \in SharedGates : Rank[h] < Rank[g] => h \notin bad
  PROVE  Refused(q, g)
<1>1. \A h \in SharedGates : Rank[h] \in Nat
  BY Ranks DEF SharedGates
<1> QED
  BY <1>1 DEF Refused, First

\* A step of request r disturbs the verdict of r only, and nothing is said
\* any more once a call has failed.
LEMMA VerdictKept ==
  ASSUME Inv, VerdictInv, NEW r \in Requests, UNCHANGED <<kind, facts>>,
         NEW x, pc' = [pc EXCEPT ![r] = x],
         NEW y \in Reasons, reason' = [reason EXCEPT ![r] = y],
         faults' = faults \/ faults' # 0,
         changes = 0 /\ faults = 0 /\ faults' = 0 /\ Verdict(r) => Verdict(r)'
  PROVE  VerdictInv'
<1>1. reason' \in [Requests -> Reasons]
  BY DEF VerdictInv
<1>2. ASSUME changes' = 0, faults' = 0
      PROVE  \A q \in Requests : Verdict(q)'
  <2>1. changes = 0 /\ faults = 0 /\ bad' = bad
    BY <1>2 DEF facts
  <2>2. \A q \in Requests : Verdict(q)
    BY <2>1 DEF VerdictInv
  <2>3. Verdict(r)'
    BY <1>2, <2>1, <2>2
  <2>4. ASSUME NEW q \in Requests, q # r PROVE Verdict(q)'
    <3>1. pc'[q] = pc[q] /\ reason'[q] = reason[q]
      BY <2>4 DEF Inv, TypeInv, VerdictInv
    <3> QED
      BY <2>2, <3>1 DEF Verdict, Decided, Refused, First, Clear, facts, ProfilePreflight,
         BacktestPreflight, LivePreflight
  <2> QED
    BY <2>1, <2>2, <2>3, <2>4
<1> QED
  BY <1>1, <1>2 DEF VerdictInv

\* The same for a request that examines some gates of the platform.
LEMMA VerdictRead ==
  ASSUME Inv, VerdictInv, NEW r \in Requests, UNCHANGED <<kind, facts>>,
         NEW next, NEW gates \in Seq(Reasons), Len(gates) \in 1 .. 3,
         Read(r, gates, next), pc[r] \in Gates, pc[r] # "streams",
         changes = 0 /\ faults = 0 /\ Verdict(r) =>
           \A i \in 1 .. Len(gates) :
             gates[i] \in bad /\ (\A j \in 1 .. i - 1 : gates[j] \notin bad)
             => Refused(r, gates[i]),
         /\ changes = 0 /\ faults = 0 /\ Verdict(r)
         /\ \A i \in 1 .. Len(gates) : gates[i] \notin bad
         /\ pc'[r] = next /\ reason' = reason
         => Verdict(r)'
  PROVE  VerdictInv'
<1>1. CASE Pass(r, gates, next) /\ UNCHANGED faults
  <2>1. CASE /\ \A i \in 1 .. Len(gates) : gates[i] \notin bad
             /\ pc' = [pc EXCEPT ![r] = next] /\ reason' = reason
    <3>1. reason' = [reason EXCEPT ![r] = reason[r]] /\ reason[r] \in Reasons
      BY <2>1 DEF VerdictInv
    <3>2. pc'[r] = next
      BY <2>1 DEF Inv, TypeInv
    <3> QED
      BY <1>1, <2>1, <3>1, <3>2, VerdictKept
  <2>2. ASSUME NEW i \in 1 .. Len(gates), gates[i] \in bad,
               \A j \in 1 .. i - 1 : gates[j] \notin bad,
               pc' = [pc EXCEPT ![r] = "refused"],
               reason' = [reason EXCEPT ![r] = gates[i]]
        PROVE  VerdictInv'
    <3>1. pc'[r] = "refused" /\ reason'[r] = gates[i] /\ gates[i] \in Reasons
      BY <2>2 DEF Inv, TypeInv, VerdictInv
    <3>2. ASSUME changes = 0, faults = 0, Verdict(r) PROVE Verdict(r)'
      <4>1. Refused(r, gates[i])
        BY <2>2, <3>2
      <4>2. Refused(r, gates[i])'
        BY <4>1 DEF Refused, First, facts
      <4>3. Decided(r)'
        BY <3>1, <4>2 DEF Decided
      <4> QED
        BY <3>1, <4>3 DEF Verdict, Gates
    <3> QED
      BY <1>1, <2>2, <3>1, <3>2, VerdictKept
  <2> QED
    BY <1>1, <2>1, <2>2, PassOutcome
<1>2. CASE Fault /\ Refuse(r, gates[1])
  <2>1. faults' # 0 /\ gates[1] \in Reasons
    BY <1>2 DEF Fault, Inv, TypeInv
  <2> QED
    BY <1>2, <2>1, VerdictKept DEF Refuse
<1> QED
  BY <1>1, <1>2 DEF Read

\* The gates that a request passes without calling the platform.
LEMMA VerdictRequest ==
  ASSUME Inv, VerdictInv, NEW r \in Requests, UNCHANGED <<kind, facts>>,
         pc[r] = "request", UNCHANGED faults,
         Pass(r, UserGates \o ProxyGates \o <<"arguments">>, "portfolio")
  PROVE  VerdictInv'
<1> DEFINE gates == <<"user", "proxy", "arguments">>
<1>1. Pass(r, gates, "portfolio")
  BY GateSequences, Zenon
<1>2. /\ gates \in Seq(Reasons) /\ Len(gates) = 3
      /\ gates[1] = "user" /\ gates[2] = "proxy" /\ gates[3] = "arguments"
  BY DEF Reasons
<1> HIDE DEF gates
<1>3. Read(r, gates, "portfolio")
  BY <1>1 DEF Read
<1>5. ASSUME changes = 0, faults = 0, Verdict(r), pc'[r] = "portfolio",
             \A i \in 1 .. Len(gates) : gates[i] \notin bad, reason' = reason
      PROVE  Verdict(r)'
  <2>1. "user" \notin bad /\ "proxy" \notin bad /\ "arguments" \notin bad
    BY <1>2, <1>5
  <2>2. bad' = bad
    BY DEF facts
  <2> QED
    BY <1>5, <2>1, <2>2 DEF Verdict, Decided, Refused, First, Clear, Gates, facts,
       ProfilePreflight, BacktestPreflight, LivePreflight
<1>6. ASSUME changes = 0, faults = 0, Verdict(r),
             NEW i \in 1 .. Len(gates), gates[i] \in bad,
             \A j \in 1 .. i - 1 : gates[j] \notin bad
      PROVE  Refused(r, gates[i])
  <2>1. {} \cap bad = {}
    BY <1>6 DEF Verdict, Gates
  <2>2. CASE i = 1
    <3>1. \A h \in SharedGates : Rank[h] < Rank["user"] =>
            h \in {}
      BY Ranks DEF SharedGates
    <3> QED
      BY <1>2, <1>6, <2>1, <2>2, <3>1, FirstByRank DEF SharedGates
  <2>3. CASE i = 2
    <3>1. \A h \in SharedGates : Rank[h] < Rank["proxy"] =>
            h \in {} \cup {gates[1]}
      BY <1>2, Ranks DEF SharedGates
    <3> QED
      BY <1>2, <1>6, <2>1, <2>3, <3>1, FirstByRank DEF SharedGates
  <2>4. CASE i = 3
    <3>1. \A h \in SharedGates : Rank[h] < Rank["arguments"] =>
            h \in {} \cup {gates[1], gates[2]}
      BY <1>2, Ranks DEF SharedGates
    <3> QED
      BY <1>2, <1>6, <2>1, <2>4, <3>1, FirstByRank DEF SharedGates
  <2> QED
    BY <1>2, <1>6, <2>2, <2>3, <2>4
<1> QED
  BY <1>2, <1>3, <1>5, <1>6, VerdictRead DEF Gates

\* The snapshot, its profile and the source of its bars.
LEMMA VerdictPortfolio ==
  ASSUME Inv, VerdictInv, NEW r \in Requests, UNCHANGED <<kind, facts>>,
         pc[r] = "portfolio", Read(r, SnapshotGates \o PathGates, "strategy")
  PROVE  VerdictInv'
<1> DEFINE gates == <<"portfolio", "profile", "path">>
<1>1. Read(r, gates, "strategy")
  BY GateSequences, Zenon
<1>2. /\ gates \in Seq(Reasons) /\ Len(gates) = 3
      /\ gates[1] = "portfolio" /\ gates[2] = "profile" /\ gates[3] = "path"
  BY DEF Reasons
<1> HIDE DEF gates
<1>4. ASSUME changes = 0, faults = 0, Verdict(r), pc'[r] = "strategy",
             \A i \in 1 .. Len(gates) : gates[i] \notin bad, reason' = reason
      PROVE  Verdict(r)'
  <2>1. "portfolio" \notin bad /\ "profile" \notin bad /\ "path" \notin bad
    BY <1>2, <1>4
  <2>2. bad' = bad
    BY DEF facts
  <2> QED
    BY <1>4, <2>1, <2>2 DEF Verdict, Decided, Refused, First, Clear, Gates, facts,
       ProfilePreflight, BacktestPreflight, LivePreflight
<1>5. ASSUME changes = 0, faults = 0, Verdict(r),
             NEW i \in 1 .. Len(gates), gates[i] \in bad,
             \A j \in 1 .. i - 1 : gates[j] \notin bad
      PROVE  Refused(r, gates[i])
  <2>1. {"user", "proxy", "arguments"} \cap bad = {}
    BY <1>5 DEF Verdict, Gates
  <2>2. CASE i = 1
    <3>1. \A h \in SharedGates : Rank[h] < Rank["portfolio"] =>
            h \in {"user", "proxy", "arguments"}
      BY Ranks DEF SharedGates
    <3> QED
      BY <1>2, <1>5, <2>1, <2>2, <3>1, FirstByRank DEF SharedGates
  <2>3. CASE i = 2
    <3>1. \A h \in SharedGates : Rank[h] < Rank["profile"] =>
            h \in {"user", "proxy", "arguments"} \cup {gates[1]}
      BY <1>2, Ranks DEF SharedGates
    <3> QED
      BY <1>2, <1>5, <2>1, <2>3, <3>1, FirstByRank DEF SharedGates
  <2>4. CASE i = 3
    <3>1. \A h \in SharedGates : Rank[h] < Rank["path"] =>
            h \in {"user", "proxy", "arguments"} \cup {gates[1], gates[2]}
      BY <1>2, Ranks DEF SharedGates
    <3> QED
      BY <1>2, <1>5, <2>1, <2>4, <3>1, FirstByRank DEF SharedGates
  <2> QED
    BY <1>2, <1>5, <2>2, <2>3, <2>4
<1> QED
  BY <1>1, <1>2, <1>4, <1>5, VerdictRead DEF Gates

\* The strategy, its declarations and its risk controls.
LEMMA VerdictStrategy ==
  ASSUME Inv, VerdictInv, NEW r \in Requests, UNCHANGED <<kind, facts>>,
         pc[r] = "strategy", Read(r, StrategyGates, "preflight")
  PROVE  VerdictInv'
<1>1. /\ StrategyGates \in Seq(Reasons) /\ Len(StrategyGates) = 3
      /\ StrategyGates[1] = "strategy" /\ StrategyGates[2] = "declaration"
      /\ StrategyGates[3] = "risk"
  BY GateSequences DEF Reasons
<1>3. ASSUME changes = 0, faults = 0, Verdict(r), pc'[r] = "preflight",
             \A i \in 1 .. Len(StrategyGates) : StrategyGates[i] \notin bad,
             reason' = reason
      PROVE  Verdict(r)'
  <2>1. "strategy" \notin bad /\ "declaration" \notin bad /\ "risk" \notin bad
    BY <1>1, <1>3
  <2>2. bad' = bad
    BY DEF facts
  <2> QED
    BY <1>3, <2>1, <2>2 DEF Verdict, Decided, Refused, First, Clear, Gates, facts,
       ProfilePreflight, BacktestPreflight, LivePreflight
<1>4. ASSUME changes = 0, faults = 0, Verdict(r),
             NEW i \in 1 .. Len(StrategyGates), StrategyGates[i] \in bad,
             \A j \in 1 .. i - 1 : StrategyGates[j] \notin bad
      PROVE  Refused(r, StrategyGates[i])
  <2>1. {"user", "proxy", "arguments", "portfolio", "profile", "path"} \cap bad = {}
    BY <1>4 DEF Verdict, Gates
  <2>2. CASE i = 1
    <3>1. \A h \in SharedGates : Rank[h] < Rank["strategy"] =>
            h \in {"user", "proxy", "arguments", "portfolio", "profile", "path"}
      BY Ranks DEF SharedGates
    <3> QED
      BY <1>1, <1>4, <2>1, <2>2, <3>1, FirstByRank DEF SharedGates
  <2>3. CASE i = 2
    <3>1. \A h \in SharedGates : Rank[h] < Rank["declaration"] =>
            h \in {"user", "proxy", "arguments", "portfolio", "profile", "path"} \cup {StrategyGates[1]}
      BY <1>1, Ranks DEF SharedGates
    <3> QED
      BY <1>1, <1>4, <2>1, <2>3, <3>1, FirstByRank DEF SharedGates
  <2>4. CASE i = 3
    <3>1. \A h \in SharedGates : Rank[h] < Rank["risk"] =>
            h \in {"user", "proxy", "arguments", "portfolio", "profile", "path"} \cup {StrategyGates[1], StrategyGates[2]}
      BY <1>1, Ranks DEF SharedGates
    <3> QED
      BY <1>1, <1>4, <2>1, <2>4, <3>1, FirstByRank DEF SharedGates
  <2> QED
    BY <1>1, <1>4, <2>2, <2>3, <2>4
<1> QED
  BY <1>1, <1>3, <1>4, VerdictRead DEF Gates

\* Either the active strategy is read or, after a failed read, the path given
\* is examined, and then no more is said.
LEMMA VerdictSource ==
  ASSUME Inv, VerdictInv, NEW r \in Requests, UNCHANGED <<kind, facts>>,
         pc[r] = "strategy", StrategySource(r)
  PROVE  VerdictInv'
<1> DEFINE gates == DeclarationGates \o RiskGates
<1>1. CASE Fault /\ Pass(r, gates, "preflight")
  <2>1. /\ gates \in Seq(Reasons) /\ Len(gates) = 2
        /\ gates[1] = "declaration" /\ gates[2] = "risk"
    <3>1. DeclarationGates = <<"declaration">> /\ RiskGates = <<"risk">>
      BY DEF DeclarationGates, RiskGates
    <3>2. gates = <<"declaration", "risk">>
      BY <3>1, TwoGates
    <3> HIDE DEF gates
    <3> QED
      BY <3>2 DEF Reasons
  <2> HIDE DEF gates
  <2>2. faults' # 0
    BY <1>1 DEF Fault, Inv, TypeInv
  <2>3. PICK x \in {"preflight", "refused"}, y \in Reasons : pc' = [pc EXCEPT ![r] = x] /\ reason' = [reason EXCEPT ![r] = y]
    <3>1. CASE pc' = [pc EXCEPT ![r] = "preflight"] /\ reason' = reason
      <4>1. reason' = [reason EXCEPT ![r] = reason[r]] /\ reason[r] \in Reasons
        BY <3>1 DEF VerdictInv
      <4> QED
        BY <3>1, <4>1
    <3>2. ASSUME NEW i \in 1 .. Len(gates),
                 pc' = [pc EXCEPT ![r] = "refused"],
                 reason' = [reason EXCEPT ![r] = gates[i]]
          PROVE  \E y \in Reasons : pc' = [pc EXCEPT ![r] = "refused"] /\ reason' = [reason EXCEPT ![r] = y]
      <4>1. gates[i] \in Reasons
        BY <2>1
      <4> QED
        BY <3>2, <4>1, Zenon
    <3> QED
      BY <1>1, <2>1, <3>1, <3>2, PassOutcome
  <2> QED
    BY <2>2, <2>3, VerdictKept
<1>2. CASE Read(r, StrategyGates, "preflight")
  BY <1>2, VerdictStrategy
<1> QED
  BY <1>1, <1>2 DEF StrategySource

\* The core service's preflight.
LEMMA VerdictPreflight ==
  ASSUME Inv, VerdictInv, NEW r \in Requests, UNCHANGED <<kind, facts>>,
         pc[r] = "preflight", Read(r, PreflightGates, "wallet")
  PROVE  VerdictInv'
<1>1. /\ PreflightGates \in Seq(Reasons) /\ Len(PreflightGates) = 1
      /\ PreflightGates[1] = "preflight"
  BY DEF PreflightGates, Reasons
<1>3. ASSUME changes = 0, faults = 0, Verdict(r), pc'[r] = "wallet",
             \A i \in 1 .. Len(PreflightGates) : PreflightGates[i] \notin bad,
             reason' = reason
      PROVE  Verdict(r)'
  <2>1. "preflight" \notin bad
    BY <1>1, <1>3
  <2>2. bad' = bad
    BY DEF facts
  <2> QED
    BY <1>3, <2>1, <2>2 DEF Verdict, Decided, Refused, First, Clear, Gates, facts,
       ProfilePreflight, BacktestPreflight, LivePreflight
<1>4. ASSUME changes = 0, faults = 0, Verdict(r),
             NEW i \in 1 .. Len(PreflightGates), PreflightGates[i] \in bad,
             \A j \in 1 .. i - 1 : PreflightGates[j] \notin bad
      PROVE  Refused(r, PreflightGates[i])
  <2>1. {"user", "proxy", "arguments", "portfolio", "profile", "path",
                 "strategy", "declaration", "risk"} \cap bad = {}
    BY <1>4 DEF Verdict, Gates
  <2>2. CASE i = 1
    <3>1. \A h \in SharedGates : Rank[h] < Rank["preflight"] =>
            h \in {"user", "proxy", "arguments", "portfolio", "profile", "path",
                 "strategy", "declaration", "risk"}
      BY Ranks DEF SharedGates
    <3> QED
      BY <1>1, <1>4, <2>1, <2>2, <3>1, FirstByRank DEF SharedGates
  <2> QED
    BY <1>1, <1>4, <2>2
<1> QED
  BY <1>1, <1>3, <1>4, VerdictRead DEF Gates

\* The run demands a margin balance as well; the preview does not.
LEMMA VerdictWallet ==
  ASSUME Inv, VerdictInv, NEW r \in Requests, UNCHANGED <<kind, facts>>,
         pc[r] = "wallet",
         NEW gates, Read(r, gates, "streams"),
         \/ gates = WalletGates
         \/ kind[r] = "run" /\ gates = WalletGates \o MarginGates
  PROVE  VerdictInv'
<1>1. /\ gates \in Seq(Reasons) /\ Len(gates) \in 2 .. 3
      /\ gates[1] = "portfolio" /\ gates[2] = "wallet"
      /\ \A i \in 1 .. Len(gates) :
           \/ gates[i] \in {"portfolio", "wallet"}
           \/ kind[r] = "run" /\ gates[i] = "margin"
  <2>1. CASE gates = WalletGates
    <3>1. /\ gates \in Seq(Reasons) /\ Len(gates) = 2
          /\ gates[1] = "portfolio" /\ gates[2] = "wallet"
      BY <2>1 DEF WalletGates, Reasons
    <3>2. \A i \in 1 .. Len(gates) : i = 1 \/ i = 2
      BY <3>1
    <3> QED
      BY <3>1, <3>2
  <2>2. CASE kind[r] = "run" /\ gates = WalletGates \o MarginGates
    <3>1. gates = <<"portfolio", "wallet", "margin">>
      BY <2>2, GateSequences, Zenon
    <3>2. /\ gates \in Seq(Reasons) /\ Len(gates) = 3
          /\ gates[1] = "portfolio" /\ gates[2] = "wallet" /\ gates[3] = "margin"
      BY <3>1 DEF Reasons
    <3>3. \A i \in 1 .. Len(gates) : i = 1 \/ i = 2 \/ i = 3
      BY <3>2
    <3> QED
      BY <2>2, <3>2, <3>3
  <2> QED
    BY <2>1, <2>2
<1>2. ASSUME changes = 0, faults = 0, Verdict(r), pc'[r] = "streams",
             \A i \in 1 .. Len(gates) : gates[i] \notin bad, reason' = reason
      PROVE  Verdict(r)'
  <2>1. "wallet" \notin bad
    BY <1>1, <1>2
  <2>2. bad' = bad
    BY DEF facts
  <2> QED
    BY <1>2, <2>1, <2>2 DEF Verdict, Decided, Refused, First, Clear, Gates, facts,
       ProfilePreflight, BacktestPreflight, LivePreflight
<1>3. ASSUME changes = 0, faults = 0, Verdict(r),
             NEW i \in 1 .. Len(gates), gates[i] \in bad,
             \A j \in 1 .. i - 1 : gates[j] \notin bad
      PROVE  Refused(r, gates[i])
  <2>1. SharedGates \cap bad \subseteq {"wallet"}
    BY <1>3 DEF Verdict, Gates, SharedGates
  <2>2. CASE gates[i] = "portfolio"
    BY <1>3, <2>1, <2>2 DEF SharedGates
  <2>3. CASE gates[i] = "wallet"
    <3>1. \A h \in SharedGates : Rank[h] < Rank["wallet"] => h # "wallet"
      BY Ranks
    <3> QED
      BY <1>3, <2>1, <2>3, <3>1, FirstByRank DEF SharedGates
  <2>4. CASE kind[r] = "run" /\ gates[i] = "margin"
    <3>1. i = 3
      BY <1>1, <2>4
    <3>2. "wallet" \notin bad
      BY <1>1, <1>3, <3>1
    <3> QED
      BY <2>1, <2>4, <3>2 DEF Refused
  <2> QED
    BY <1>1, <2>2, <2>3, <2>4
<1>4. gates \in Seq(Reasons) /\ Len(gates) \in 1 .. 3
  BY <1>1
<1> QED
  BY <1>2, <1>3, <1>4, VerdictRead DEF Gates

\* The streams: without a failed look-up the request sees them as they are.
LEMMA VerdictStreams ==
  ASSUME Inv, VerdictInv, NEW r \in Requests, UNCHANGED <<kind, facts>>,
         pc[r] = "streams", NEW failing, LookUp(failing),
         \/ ProfilePreflight(StreamsSeen(failing)) # {} /\ Refuse(r, "streams")
         \/ /\ ProfilePreflight(StreamsSeen(failing)) = {}
            /\ \/ kind[r] = "run" /\ Refuse(r, "runtime")
               \/ /\ kind[r] = "run" /\ UNCHANGED reason
                  /\ \E x \in {"subscribe", "persist"} : pc' = [pc EXCEPT ![r] = x]
               \/ /\ pc' = [pc EXCEPT ![r] = "previewed"]
                  /\ reason' = [reason EXCEPT ![r] = "ok"]
  PROVE  VerdictInv'
<1>1. faults' = faults \/ faults' # 0
  BY DEF LookUp, Fault, Inv, TypeInv
<1>2. PICK x : pc' = [pc EXCEPT ![r] = x] /\ pc'[r] = x
  BY DEF Refuse, Inv, TypeInv
<1>3. PICK y \in Reasons : reason' = [reason EXCEPT ![r] = y] /\ reason'[r] = y
  <2>1. CASE UNCHANGED reason
    BY <2>1 DEF VerdictInv
  <2>2. CASE \E y \in {"streams", "runtime", "ok"} :
                reason' = [reason EXCEPT ![r] = y]
    BY <2>2 DEF VerdictInv, Reasons
  <2> QED
    BY <2>1, <2>2 DEF Refuse
<1>4. ASSUME changes = 0, faults = 0, faults' = 0, Verdict(r) PROVE Verdict(r)'
  <2>1. failing = {}
    BY <1>4 DEF LookUp, Fault
  <2>2. StreamsSeen(failing) = stream
    BY <2>1 DEF StreamsSeen, Inv, TypeInv
  <2>3. SharedGates \cap bad = {}
    BY <1>4 DEF Verdict, Gates, SharedGates
  <2>4. /\ ProfilePreflight(stream)' = ProfilePreflight(stream)
        /\ bad' = bad /\ kind' = kind
    BY DEF facts, ProfilePreflight, BacktestPreflight, LivePreflight
  <2>5. CASE ProfilePreflight(stream) # {} /\ Refuse(r, "streams")
    <3>1. pc'[r] = "refused" /\ reason'[r] = "streams"
      BY <2>5 DEF Refuse, Inv, TypeInv, VerdictInv
    <3>2. Decided(r)'
      BY <2>3, <2>4, <2>5, <3>1 DEF Decided
    <3> QED
      BY <3>1, <3>2 DEF Verdict, Gates
  <2>6. CASE ProfilePreflight(stream) = {} /\ kind[r] = "run" /\ Refuse(r, "runtime")
    <3>1. pc'[r] = "refused" /\ reason'[r] = "runtime"
      BY <2>6 DEF Refuse, Inv, TypeInv, VerdictInv
    <3>2. Decided(r)'
      BY <2>3, <2>4, <2>6, <3>1 DEF Decided, Clear
    <3> QED
      BY <3>1, <3>2 DEF Verdict, Gates
  <2>7. CASE /\ ProfilePreflight(stream) = {} /\ kind[r] = "run" /\ UNCHANGED reason
             /\ \E z \in {"subscribe", "persist"} : pc' = [pc EXCEPT ![r] = z]
    <3>1. pc'[r] \in {"subscribe", "persist"}
      BY <2>7 DEF Inv, TypeInv
    <3>2. reason[r] # NoReason => Decided(r)'
      BY <1>4, <2>4, <2>7 DEF Verdict, Decided, Refused, First, Clear
    <3> QED
      BY <2>3, <2>4, <2>7, <3>1, <3>2 DEF Verdict, Gates, Clear
  <2>8. CASE /\ ProfilePreflight(stream) = {}
             /\ pc' = [pc EXCEPT ![r] = "previewed"]
             /\ reason' = [reason EXCEPT ![r] = "ok"]
    <3>1. pc'[r] = "previewed" /\ reason'[r] = "ok"
      BY <2>8 DEF Inv, TypeInv, VerdictInv
    <3>2. Decided(r)'
      BY <2>3, <2>4, <2>8, <3>1 DEF Decided, Clear
    <3> QED
      BY <3>1, <3>2 DEF Verdict, Gates
  <2> QED
    BY <2>2, <2>5, <2>6, <2>7, <2>8
<1> QED
  BY <1>1, <1>2, <1>3, <1>4, VerdictKept

\* A request that has passed the streams goes on without an answer.
LEMMA VerdictGoesOn ==
  ASSUME Inv, VerdictInv, NEW r \in Requests, UNCHANGED <<kind, facts>>,
         faults' = faults,
         NEW x \in {"persist", "snapshot", "start", "over"},
         pc' = [pc EXCEPT ![r] = x], reason' = reason,
         pc[r] \in {"subscribe", "persist", "snapshot", "start", "running"}
  PROVE  VerdictInv'
<1>1. PICK y \in Reasons : y = reason[r] /\ reason' = [reason EXCEPT ![r] = y]
  BY DEF VerdictInv
<1>2. ASSUME changes = 0, faults = 0, Verdict(r) PROVE Verdict(r)'
  <2>1. pc'[r] = x
    BY DEF Inv, TypeInv
  <2>2. kind[r] = "run" /\ Clear /\ (reason[r] # NoReason => Decided(r))
    BY <1>2 DEF Verdict
  <2>3. Clear' /\ kind' = kind
    BY <2>2 DEF Clear, facts, ProfilePreflight, BacktestPreflight, LivePreflight
  <2>4. reason[r] # NoReason => Decided(r)'
    BY <2>2, <2>3
       DEF Decided, Refused, First, facts, ProfilePreflight, BacktestPreflight, LivePreflight
  <2> QED
    BY <1>2, <2>1, <2>2, <2>3, <2>4 DEF Verdict, Gates
<1> QED
  BY <1>1, <1>2, VerdictKept

\* A start that is answered: with success, a conflict, or after a failed call.
LEMMA VerdictStart ==
  ASSUME Inv, VerdictInv, NEW r \in Requests, UNCHANGED <<kind, facts>>,
         faults' = faults \/ faults' # 0,
         NEW x \in {"refused", "fail", "release", "discard", "running"},
         pc' = [pc EXCEPT ![r] = x],
         NEW y \in Reasons, reason' = [reason EXCEPT ![r] = y],
         pc[r] \in {"subscribe", "persist", "snapshot", "start"},
         faults' # 0 \/ (x # "fail" /\ y \in {"ok", "conflict"})
  PROVE  VerdictInv'
<1>1. ASSUME changes = 0, faults = 0, faults' = 0, Verdict(r) PROVE Verdict(r)'
  <2>1. pc'[r] = x /\ reason'[r] = y
    BY DEF Inv, TypeInv, VerdictInv
  <2>2. kind[r] = "run" /\ Clear
    BY <1>1 DEF Verdict
  <2>3. Clear' /\ kind' = kind
    BY <2>2 DEF Clear, facts, ProfilePreflight, BacktestPreflight, LivePreflight
  <2>4. Decided(r)'
    BY <1>1, <2>1, <2>2, <2>3 DEF Decided
  <2> QED
    BY <1>1, <2>1, <2>2, <2>3, <2>4 DEF Verdict, Gates
<1> QED
  BY <1>1, VerdictKept

\* Nothing is examined at first.
LEMMA VerdictInit == Init => VerdictInv
<1> SUFFICES ASSUME Init PROVE VerdictInv
  OBVIOUS
<1>1. reason \in [Requests -> Reasons]
  BY DEF Init, Reasons
<1>2. ASSUME NEW q \in Requests PROVE Verdict(q)
  BY DEF Init, Verdict, Gates
<1> QED
  BY <1>1, <1>2 DEF VerdictInv

\* Every step keeps the verdicts.
LEMMA VerdictNext == Inv /\ VerdictInv /\ [Next]_vars => VerdictInv'
<1> SUFFICES ASSUME Inv, VerdictInv, [Next]_vars PROVE VerdictInv'
  OBVIOUS
<1>1. ASSUME NEW r \in Requests, RunSteps(r) PROVE VerdictInv'
  <2>1. CASE CheckRequest(r)
    BY <2>1, VerdictRequest DEF CheckRequest, NoSession, facts
  <2>2. CASE ReadPortfolio(r)
    BY <2>2, VerdictPortfolio DEF ReadPortfolio, NoSession, facts
  <2>3. CASE ReadStrategy(r)
    BY <2>3, VerdictSource DEF ReadStrategy, NoSession, facts
  <2>4. CASE PortfolioPreflight(r)
    BY <2>4, VerdictPreflight
       DEF PortfolioPreflight, PreflightStrategySession, NoSession, facts
  <2>5. CASE BuildWallet(r)
    BY <2>5, VerdictWallet DEF BuildWallet, NoSession, facts
  <2>6. CASE CreateSession(r)
    <3>1. PICK failing \in {{}} \cup {{i} : i \in Inputs} :
            /\ LookUp(failing)
            /\ \/ ProfilePreflight(StreamsSeen(failing)) # {} /\ Refuse(r, "streams")
               \/ /\ ProfilePreflight(StreamsSeen(failing)) = {}
                  /\ \/ Refuse(r, "runtime")
                     \/ /\ UNCHANGED reason
                        /\ \E x \in {"subscribe", "persist"} :
                             pc' = [pc EXCEPT ![r] = x]
      BY <2>6 DEF CreateSession
    <3>2. kind[r] = "run" /\ pc[r] = "streams" /\ UNCHANGED <<kind, facts>>
      BY <2>6 DEF CreateSession, facts
    <3> QED
      BY <3>1, <3>2, VerdictStreams
  <2>7. CASE Subscribe(r)
    <3>1. CASE CreateSubscriptions(r, TRUE) /\ UNCHANGED reason
               /\ pc' = [pc EXCEPT ![r] = "persist"]
      <4>1. faults' = faults
        BY <3>1 DEF CreateSubscriptions
      <4> QED
        BY <2>7, <3>1, <4>1, VerdictGoesOn DEF Subscribe, facts
    <3>2. CASE CreateSubscriptions(r, FALSE) /\ Refuse(r, "subscribe")
      <4>1. "subscribe" \in Reasons
        BY DEF Reasons
      <4>2. faults' # 0
        BY <3>2 DEF CreateSubscriptions, Fault, Inv, TypeInv
      <4> QED
        BY <2>7, <3>2, <4>1, <4>2, VerdictStart DEF Subscribe, Refuse, facts
    <3> QED
      BY <2>7, <3>1, <3>2 DEF Subscribe
  <2>8. CASE PersistSession(r)
    <3>1. CASE UNCHANGED <<reason, faults>> /\ pc' = [pc EXCEPT ![r] = "snapshot"]
      BY <2>8, <3>1, VerdictGoesOn DEF PersistSession, facts
    <3>2. ASSUME NEW y \in {"conflict", "persist"}, PersistRefused(r, y),
                 (y = "conflict" /\ UNCHANGED faults) \/ Fault
          PROVE  VerdictInv'
      <4>1. y \in Reasons
        BY <3>2 DEF Reasons
      <4>2. faults' # 0 \/ (faults' = faults /\ y = "conflict")
        BY <3>2 DEF Fault, Inv, TypeInv
      <4>3. PICK x \in {"release", "discard"} : pc' = [pc EXCEPT ![r] = x]
        BY <3>2 DEF PersistRefused
      <4> QED
        BY <2>8, <3>2, <4>1, <4>2, <4>3, VerdictStart
           DEF PersistSession, PersistRefused, facts
    <3> QED
      BY <2>8, <3>1, <3>2 DEF PersistSession
  <2>9. CASE StartSnapshot(r)
    <3>1. CASE UNCHANGED <<reason, faults>> /\ pc' = [pc EXCEPT ![r] = "start"]
      BY <2>9, <3>1, VerdictGoesOn DEF StartSnapshot, facts
    <3>2. CASE Fault /\ pc' = [pc EXCEPT ![r] = "fail"]
               /\ reason' = [reason EXCEPT ![r] = "snapshot"]
      <4>1. "snapshot" \in Reasons
        BY DEF Reasons
      <4>2. faults' # 0
        BY <3>2 DEF Fault, Inv, TypeInv
      <4> QED
        BY <2>9, <3>2, <4>1, <4>2, VerdictStart DEF StartSnapshot, facts
    <3> QED
      BY <2>9, <3>1, <3>2 DEF StartSnapshot
  <2>10. CASE FailRow(r) \/ ReleaseSubscriptions(r) \/ Discard(r)
    <3>1. /\ UNCHANGED <<kind, reason, facts>>
          /\ pc[r] \in {"fail", "release", "discard"}
          /\ faults' = faults \/ faults' # 0
      BY <2>10 DEF FailRow, ReleaseSubscriptions, Discard, Fault, facts, Inv, TypeInv
    <3>2. PICK x \in {"release", "discard", "refused"} :
                 pc' = [pc EXCEPT ![r] = x] /\ pc'[r] = x
      BY <2>10 DEF FailRow, ReleaseSubscriptions, Discard, Inv, TypeInv
    <3>3. reason' = [reason EXCEPT ![r] = reason[r]] /\ reason[r] \in Reasons
      BY <3>1 DEF VerdictInv
    <3>4. Verdict(r) => Verdict(r)'
      <4>1. Decided(r) => Decided(r)'
        BY <3>1 DEF Decided, Refused, First, Clear, facts, ProfilePreflight, BacktestPreflight,
           LivePreflight
      <4> QED
        BY <3>1, <3>2, <4>1 DEF Verdict, Gates
    <3> QED
      BY <3>1, <3>2, <3>3, <3>4, VerdictKept DEF facts
  <2>11. CASE StartThread(r)
    <3>1. "ok" \in Reasons
      BY DEF Reasons
    <3> QED
      BY <2>11, <3>1, VerdictStart DEF StartThread, facts
  <2>12. CASE SessionEnds(r)
    BY <2>12, VerdictGoesOn DEF SessionEnds, facts
  <2> QED
    BY <1>1, <2>1, <2>2, <2>3, <2>4, <2>5, <2>6, <2>7, <2>8, <2>9, <2>10,
       <2>11, <2>12 DEF RunSteps
<1>2. ASSUME NEW r \in Requests, PreviewSteps(r) PROVE VerdictInv'
  <2>1. CASE PreviewRequest(r)
    BY <2>1, VerdictRequest DEF PreviewRequest, NoSession, facts
  <2>2. CASE PreviewPortfolio(r)
    BY <2>2, VerdictPortfolio DEF PreviewPortfolio, NoSession, facts
  <2>3. CASE PreviewStrategy(r)
    BY <2>3, VerdictSource DEF PreviewStrategy, NoSession, facts
  <2>4. CASE PreviewPreflight(r)
    BY <2>4, VerdictPreflight
       DEF PreviewPreflight, PreflightStrategySession, NoSession, facts
  <2>5. CASE PreviewWallet(r)
    BY <2>5, VerdictWallet DEF PreviewWallet, NoSession, facts
  <2>6. CASE PreviewStreams(r)
    BY <2>6, VerdictStreams DEF PreviewStreams, NoSession, facts
  <2> QED
    BY <1>2, <2>1, <2>2, <2>3, <2>4, <2>5, <2>6 DEF PreviewSteps
<1>3. CASE PlatformChanges
  <2>1. changes' # 0 /\ reason' = reason
    BY <1>3 DEF PlatformChanges, Inv, TypeInv
  <2> QED
    BY <2>1 DEF VerdictInv
<1>4. CASE UNCHANGED vars
  <2>1. UNCHANGED <<kind, pc, reason, facts, faults>>
    BY <1>4 DEF vars
  <2> QED
    BY <2>1 DEF VerdictInv, Verdict, Decided, Refused, First, Clear, facts, ProfilePreflight,
       BacktestPreflight, LivePreflight
<1> QED
  BY <1>1, <1>2, <1>3, <1>4 DEF Next

\* The first shared gate that refuses is one, so both sides name the same.
LEMMA VerdictsAgree == VerdictInv => PreviewAgrees
<1> SUFFICES ASSUME VerdictInv, changes = 0, faults = 0,
                    NEW p \in Requests, NEW r \in Requests,
                    kind[p] = "preview", pc[p] \in {"refused", "previewed"},
                    kind[r] = "run", reason[r] # NoReason
             PROVE  \/ reason[p] = reason[r]
                    \/ reason[p] = "ok" /\ reason[r] \in {"margin", "runtime", "conflict"}
                    \/ reason[r] = "margin" /\ reason[p] = "streams"
  BY DEF PreviewAgrees
<1>1. Decided(p) /\ Decided(r)
  BY DEF VerdictInv, Verdict
<1>2. CASE Refused(p, reason[p]) /\ Refused(r, reason[r]) /\ reason[r] # "margin"
  <2>1. reason[p] \in SharedGates /\ reason[r] \in SharedGates
    BY <1>2 DEF Refused, First
  <2>2. Rank[reason[p]] <= Rank[reason[r]] /\ Rank[reason[r]] <= Rank[reason[p]]
    BY <1>2, <2>1 DEF Refused, First
  <2>3. \A g, h \in SharedGates : Rank[g] <= Rank[h] /\ Rank[h] <= Rank[g] => g = h
    BY Ranks DEF SharedGates
  <2> QED
    BY <2>1, <2>2, <2>3
<1>3. CASE ~(Refused(p, reason[p]) /\ Refused(r, reason[r]) /\ reason[r] # "margin")
  <2>1. CASE Refused(p, reason[p])
    <3>1. reason[p] \in SharedGates \cap bad
      BY <2>1 DEF Refused, First
    <3>2. ~Refused(r, reason[r]) \/ reason[r] = "margin"
      BY <1>3, <2>1
    <3>3. reason[r] = "margin" => reason[r] \notin SharedGates
      BY DEF SharedGates
    <3> QED
      BY <1>1, <3>1, <3>2, <3>3 DEF Decided, Refused, Clear
  <2>2. CASE ~Refused(p, reason[p])
    <3>1. SharedGates \cap bad = {} /\ reason[p] \in {"streams", "ok"}
      BY <1>1, <2>2 DEF Decided, Clear
    <3>2. Refused(r, reason[r]) => reason[r] = "margin"
      BY <3>1 DEF Refused, First
    <3> QED
      BY <1>1, <2>2, <3>1, <3>2 DEF Decided, Clear
  <2> QED
    BY <2>1, <2>2
<1> QED
  BY <1>2, <1>3

\* A preview and a run of a portfolio that has not changed, with no call that
\* failed, agree on the gate that refuses, for any number of requests and
\* inputs, but for the gates that PreviewRunStrategy does not have.
THEOREM PreviewsAgree == Spec => []PreviewAgrees
BY VerdictInit, VerdictNext, VerdictsAgree, Invariance, PTL DEF Spec

=============================================================================
