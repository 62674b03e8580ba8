---------------------------- MODULE AgentWorkers ----------------------------
(***************************************************************************)
(* The runtime agent's management of session workers: the handlers of      *)
(* RunStrategy, PreviewRunStrategy, GetStrategyStatus and StopStrategy,    *)
(* the local restart command, the goroutine that waits for each worker     *)
(* process, the connection handler of each worker (worker_ipc_server.go)   *)
(* and the three tables they share: the registry of expected and active    *)
(* workers, the manager's table of processes and the table of outbound     *)
(* queues.  Every lock-protected section is one action.                    *)
(*                                                                         *)
(* A request that starts a worker gives it a fresh random pending id, and  *)
(* the session the worker creates has a fresh uuid, so a worker is named   *)
(* by the request that started it and an id by its owner: <<"pending", r>> *)
(* and <<"real", r>>.  A table that maps ids to workers is then the set of *)
(* ids it holds.                                                           *)
(***************************************************************************)
EXTENDS Integers, Sequences, FiniteSets

CONSTANTS MaxRequests,\* the requests the agent receives, numbered as they come
          QueueCap,   \* capacity of a worker's outbound queue (128 in the code)
          MaxRuns,    \* how many RunStrategy and Preview requests arrive
          MaxWorkers, \* how many worker processes are spawned
          MaxRestarts,\* how many restart commands the operator gives
          MaxFaults   \* how many crashes and refused operations happen

ASSUME AgentAssumption == MaxRequests \in Nat /\ QueueCap \in Nat \ {0} /\ MaxRuns \in Nat /\ MaxWorkers \in Nat
                          /\ MaxRestarts \in Nat
                          /\ MaxFaults \in Nat

Requests == 1 .. MaxRequests

Pending(r) == <<"pending", r>>
Real(r) == <<"real", r>>
Ids == {"pending", "real"} \X Requests
NoTarget == 0

VARIABLES
  kind,      \* what each request asks for
  pc,        \* where its handler goroutine is
  answer,    \* what the caller was told
  target,    \* the session a restart or a unary call is about
  pending,   \* Agent.pending: RunStrategy requests whose start is awaited
  ready,     \* Agent.ready: Preview requests that wait for the hello
  started,   \* pending.started, the cap-1 channel of a start
  failed,    \* pending.failed
  hello,     \* the cap-1 channel of waitWorkerReady
  replies,   \* Agent.workerCallReply: calls that wait for a worker's answer
  reply,     \* the cap-1 reply channel of each call
  runRequests, \* Agent.runRequests: sessions whose request is remembered
  taken,     \* the calls each restart has unregistered and not failed yet
  expected,  \* SessionRegistry.expected
  active,    \* SessionRegistry.active
  managed,   \* WorkerManager.active
  waiter,    \* the goroutine in cmd.Wait for each worker process
  outbound,  \* WorkerIPCServer.outbound
  conn,      \* where the Connect handler of each worker is
  saw,       \* handlers that found the start pending before they aliased
  toAgent,   \* frames the worker sent and the handler has not received
  toWorker,  \* frames queued for the worker
  worker,    \* the worker process
  row,       \* the session row the worker persists on the platform
  faults     \* crashes and refused operations so far

agentVars == <<kind, pc, answer, target, pending, ready, started, failed,
               hello, replies, reply, runRequests, taken>>
tables == <<expected, active, managed, outbound>>
connVars == <<conn, saw, toAgent, toWorker>>
vars == <<agentVars, tables, waiter, connVars, worker, row, faults>>

\* A step that needs the environment to fail.
Fault == faults < MaxFaults /\ faults' = faults + 1

-----------------------------------------------------------------------------
Init ==
  /\ kind = [r \in Requests |-> "none"]
  /\ pc = [r \in Requests |-> "idle"]
  /\ answer = [r \in Requests |-> "none"]
  /\ target = [r \in Requests |-> NoTarget]
  /\ pending = {} /\ ready = {} /\ started = {} /\ failed = {} /\ hello = {}
  /\ replies = {} /\ reply = [r \in Requests |-> "none"] /\ runRequests = {}
  /\ taken = [r \in Requests |-> {}]
  /\ expected = {} /\ active = {} /\ managed = {} /\ outbound = {}
  /\ waiter = [r \in Requests |-> "none"]
  /\ conn = [r \in Requests |-> "none"] /\ saw = {}
  /\ toAgent = [r \in Requests |-> <<>>] /\ toWorker = [r \in Requests |-> <<>>]
  /\ worker = [r \in Requests |-> "none"]
  /\ row = [r \in Requests |-> "none"]
  /\ faults = 0

Alive(w) == worker[w] \notin {"none", "exited"}

(***************************************************************************)
(* The tables.  ForgetWorker drops every key of the worker the id names;   *)
(* an id that is not active only loses its expectation.                    *)
(***************************************************************************)
OfWorker(w) == {Pending(w), Real(w)}

ForgetWorker(id) ==
  /\ expected' = expected \ {id}
  /\ active' = IF id \in active THEN active \ OfWorker(id[2]) ELSE active

ForgetManaged(w) == managed' = managed \ OfWorker(w)

\* The process of an id: found by the id, or by the pid the registry holds.
Found(id) ==
  \/ id \in managed
  \/ id \in active /\ managed \cap OfWorker(id[2]) # {}

\* An answer takes the request out of the agent's tables, with its channels.
Reply(r, a) ==
  /\ pc' = [pc EXCEPT ![r] = "done"]
  /\ answer' = [answer EXCEPT ![r] = a]
  /\ pending' = pending \ {r} /\ started' = started \ {r}
  /\ failed' = failed \ {r}
  /\ ready' = ready \ {r} /\ hello' = hello \ {r}
  /\ replies' = replies \ {r}
  /\ reply' = [reply EXCEPT ![r] = "none"]

Goto(r, label) == pc' = [pc EXCEPT ![r] = label]

-----------------------------------------------------------------------------
(***************************************************************************)
(* handleRunStrategy and handleOneShotRuntimeUnary: register the pending   *)
(* start, expect the worker, spawn it, enlist it and start its waiter.     *)
(***************************************************************************)
BeginRun(r) ==
  /\ pc[r] = "idle"
  /\ Cardinality({x \in Requests : kind[x] \in {"run", "preview"}}) < MaxRuns
  /\ \E k \in {"run", "preview"} :
       /\ kind' = [kind EXCEPT ![r] = k]
       /\ pending' = IF k = "run" THEN pending \cup {r} ELSE pending
       /\ ready' = IF k = "preview" THEN ready \cup {r} ELSE ready
  /\ Goto(r, "expect")
  /\ UNCHANGED <<answer, target, started, failed, hello, replies, reply,
                 runRequests, taken, tables, waiter, connVars, worker, row,
                 faults>>

Expect(r) ==
  /\ pc[r] = "expect"
  /\ expected' = expected \cup {Pending(r)}
  /\ Goto(r, "spawn")
  /\ UNCHANGED <<kind, answer, target, pending, ready, started, failed, hello,
                 replies, reply, runRequests, taken, active, managed, outbound,
                 waiter, connVars, worker, row, faults>>

Spawned == Cardinality({x \in Requests : worker[x] # "none"})

Spawn(r) ==
  /\ pc[r] = "spawn"
  /\ Spawned < MaxWorkers
  /\ worker' = [worker EXCEPT ![r] = "boot"]
  /\ Goto(r, "enlist")
  /\ UNCHANGED <<kind, answer, target, pending, ready, started, failed, hello,
                 replies, reply, runRequests, taken, tables, waiter, connVars,
                 row, faults>>

\* The context is done, or cmd.Start fails.
SpawnFails(r) ==
  /\ pc[r] = "spawn"
  /\ ForgetWorker(Pending(r))
  /\ Reply(r, "error")
  /\ IF Spawned < MaxWorkers THEN Fault ELSE UNCHANGED faults
  /\ UNCHANGED <<kind, target, runRequests, taken,
                 managed, outbound, waiter, connVars, worker, row>>

Enlist(r) ==
  /\ pc[r] = "enlist"
  /\ managed' = managed \cup {Pending(r)}
  /\ waiter' = [waiter EXCEPT ![r] = "waiting"]
  /\ Goto(r, IF kind[r] = "preview" THEN "ready" ELSE "await")
  /\ UNCHANGED <<kind, answer, target, pending, ready, started, failed, hello,
                 replies, reply, runRequests, taken, expected, active, outbound,
                 connVars, worker, row, faults>>

\* The select of handleRunStrategy: whichever channel has something, or the
\* start timeout or the context of the request.
RunAnswered(r) ==
  /\ pc[r] = "await" /\ kind[r] \in {"run", "restart"}
  /\ \/ r \in failed /\ Reply(r, "failed")
     \/ r \in started /\ Reply(r, "started")
  /\ UNCHANGED <<kind, target, runRequests, taken,
                 tables, waiter, connVars, worker, row, faults>>

\* Mutant: only the wait for a start has a timer.
GiveUpOnStart(r) ==
  /\ pc[r] \in {"await", "ready"} /\ kind[r] # "unary"
  /\ Reply(r, "gave up")
  /\ UNCHANGED <<kind, target, runRequests, taken,
                 tables, waiter, connVars, worker, row, faults>>

\* A timer or the context of the request ends the wait; the worker is left
\* running.
GiveUp(r) ==
  /\ pc[r] \in {"await", "ready"}
  /\ Reply(r, "gave up")
  /\ UNCHANGED <<kind, target, runRequests, taken,
                 tables, waiter, connVars, worker, row, faults>>

PreviewReady(r) ==
  /\ pc[r] = "ready" /\ r \in hello
  /\ replies' = replies \cup {r}
  /\ Goto(r, "send")
  /\ UNCHANGED <<kind, answer, target, pending, ready, started, failed, hello,
                 reply, runRequests, taken, tables, waiter, connVars, worker,
                 row, faults>>

(***************************************************************************)
(* invokeWorkerUnary, for a session (GetStrategyStatus, StopStrategy) or   *)
(* for the control worker of a preview.                                    *)
(***************************************************************************)
BeginUnary(r, s) ==
  /\ pc[r] = "idle" /\ r # s /\ row[s] # "none"
  /\ kind' = [kind EXCEPT ![r] = "unary"]
  /\ target' = [target EXCEPT ![r] = s]
  /\ replies' = replies \cup {r}
  /\ Goto(r, "send")
  /\ UNCHANGED <<answer, pending, ready, started, failed, hello, reply,
                 runRequests, taken, tables, waiter, connVars, worker, row,
                 faults>>

CallId(r) == IF kind[r] = "preview" THEN Pending(r) ELSE Real(target[r])

\* Mutant: the queue has no limit.
SendCallUnbounded(r) ==
  /\ pc[r] = "send"
  /\ LET id == CallId(r) IN
     IF id \in outbound
       THEN /\ toWorker' = [toWorker EXCEPT ![id[2]] = Append(@, <<"call", r>>)]
            /\ Goto(r, "await")
            /\ UNCHANGED <<answer, pending, ready, started, failed, hello,
                           replies, reply>>
       ELSE Reply(r, "error") /\ UNCHANGED toWorker
  /\ UNCHANGED <<kind, target, runRequests, taken,
                 tables, waiter, conn, saw, toAgent, worker, row, faults>>

\* SendToWorker: refused without a connection and when the queue is full.
SendCall(r) ==
  /\ pc[r] = "send"
  /\ LET id == CallId(r) IN
     IF id \in outbound /\ Len(toWorker[id[2]]) < QueueCap
       THEN /\ toWorker' = [toWorker EXCEPT ![id[2]] = Append(@, <<"call", r>>)]
            /\ Goto(r, "await")
            /\ UNCHANGED <<answer, pending, ready, started, failed, hello,
                           replies, reply>>
       ELSE Reply(r, "error") /\ UNCHANGED toWorker
  /\ UNCHANGED <<kind, target, runRequests, taken,
                 tables, waiter, conn, saw, toAgent, worker, row, faults>>

UnaryAnswered(r) ==
  /\ pc[r] = "await" /\ reply[r] # "none"
  /\ Reply(r, reply[r])
  /\ UNCHANGED <<kind, target, runRequests, taken,
                 tables, waiter, connVars, worker, row, faults>>

-----------------------------------------------------------------------------
(***************************************************************************)
(* RestartSession, from the local control server; nothing serialises two   *)
(* of them.  The session is resolved from its row on the platform, or from *)
(* the remembered request when the platform does not answer.               *)
(***************************************************************************)
RestartResolve(r, s) ==
  /\ pc[r] = "idle" /\ r # s /\ row[s] # "none"
  /\ Cardinality({x \in Requests : kind[x] = "restart"}) < MaxRestarts
  /\ kind' = [kind EXCEPT ![r] = "restart"]
  /\ target' = [target EXCEPT ![r] = s]
  /\ Goto(r, "stop")
  /\ UNCHANGED <<answer, pending, ready, started, failed, hello, replies,
                 reply, runRequests, taken, tables, waiter, connVars, worker,
                 row, faults>>

\* A process that ends takes the frames it had not sent yet with it.
Exits(w) ==
  /\ worker' = [worker EXCEPT ![w] = "exited"]
  /\ \E n \in 0 .. Len(toAgent[w]) :
       toAgent' = [toAgent EXCEPT ![w] = SubSeq(@, 1, n)]

\* StopSessionWorker up to the kill: nothing to kill when the manager knows
\* no process for the session, or has reaped it.
RestartStop(r) ==
  /\ pc[r] = "stop"
  /\ LET s == target[r] IN
     \/ /\ ~Found(Real(s))
        /\ ForgetWorker(Real(s))
        /\ Goto(r, "cleanup")
        /\ UNCHANGED <<managed, toAgent, worker>>
     \/ /\ Found(Real(s)) /\ waiter[s] # "waiting"
        /\ ForgetWorker(Real(s)) /\ ForgetManaged(s)
        /\ Goto(r, "cleanup")
        /\ UNCHANGED <<toAgent, worker>>
     \/ /\ Found(Real(s)) /\ waiter[s] = "waiting"
        /\ IF Alive(s) THEN Exits(s) ELSE UNCHANGED <<toAgent, worker>>
        /\ Goto(r, "killed")
        /\ UNCHANGED <<expected, active, managed>>
  /\ UNCHANGED <<kind, answer, target, pending, ready, started, failed, hello,
                 replies, reply, runRequests, taken, outbound, waiter, conn,
                 saw, toWorker, row, faults>>

\* The kill itself is refused: the registry forgets a worker that runs on.
RestartKillFails(r) ==
  /\ pc[r] = "stop"
  /\ Found(Real(target[r])) /\ waiter[target[r]] = "waiting"
  /\ ForgetWorker(Real(target[r]))
  /\ Reply(r, "error")
  /\ Fault
  /\ UNCHANGED <<kind, target, runRequests, taken,
                 managed, outbound, waiter, connVars, worker, row>>

\* The wait of StopSessionWorker: the process is reaped.
RestartReaped(r) ==
  /\ pc[r] = "killed" /\ waiter[target[r]] = "done"
  /\ ForgetWorker(Real(target[r])) /\ ForgetManaged(target[r])
  /\ Goto(r, "cleanup")
  /\ UNCHANGED <<kind, answer, target, pending, ready, started, failed, hello,
                 replies, reply, runRequests, taken, outbound, waiter, connVars,
                 worker, row, faults>>

\* The session belongs to another runtime or user, the process outlives the
\* 5 s, or the platform refuses the new status.
RestartFails(r) ==
  /\ pc[r] \in {"stop", "killed", "mark"}
  /\ Reply(r, "error")
  /\ Fault
  /\ UNCHANGED <<kind, target, runRequests, taken,
                 tables, waiter, connVars, worker, row>>

\* cleanupSessionState under the lock: the session's calls in flight are
\* unregistered.
RestartCleanup(r) ==
  /\ pc[r] = "cleanup"
  /\ LET calls == {u \in replies : kind[u] = "unary" /\ target[u] = target[r]}
     IN taken' = [taken EXCEPT ![r] = calls] /\ replies' = replies \ calls
  /\ runRequests' = runRequests \ {target[r]}
  /\ Goto(r, "tell")
  /\ UNCHANGED <<kind, answer, target, pending, ready, started, failed, hello,
                 reply, tables, waiter, connVars, worker, row, faults>>

\* Mutant: the calls that were unregistered are not answered.
RestartTellNobody(r) ==
  /\ pc[r] = "tell"
  /\ taken' = [taken EXCEPT ![r] = {}]
  /\ Goto(r, "mark")
  /\ UNCHANGED <<kind, answer, target, pending, ready, started, failed, hello,
                 replies, reply, runRequests, tables, waiter, connVars, worker,
                 row, faults>>

\* Then, without it, they are failed, unless a result came first; nobody reads
\* the channel of a call that has returned.
RestartTell(r) ==
  /\ pc[r] = "tell"
  /\ reply' = [u \in Requests |->
                 IF u \in taken[r] /\ reply[u] = "none" /\ pc[u] # "done"
                   THEN "error" ELSE reply[u]]
  /\ taken' = [taken EXCEPT ![r] = {}]
  /\ Goto(r, "mark")
  /\ UNCHANGED <<kind, answer, target, pending, ready, started, failed, hello,
                 replies, runRequests, tables, waiter, connVars, worker, row,
                 faults>>

\* markSessionRecoverable, then the run starts over as handleRunStrategy.
RestartMark(r) ==
  /\ pc[r] = "mark"
  /\ row' = [row EXCEPT ![target[r]] = "recoverable"]
  /\ pending' = pending \cup {r}
  /\ Goto(r, "expect")
  /\ UNCHANGED <<kind, answer, target, ready, started, failed, hello, replies,
                 reply, runRequests, taken, tables, waiter, connVars, worker,
                 faults>>

-----------------------------------------------------------------------------
(***************************************************************************)
(* The goroutine that waits for the process: it is reaped, forgotten by    *)
(* the registry, then by the manager.                                      *)
(***************************************************************************)
WaiterForgets(w) ==
  /\ waiter[w] = "waiting" /\ worker[w] = "exited"
  /\ ForgetWorker(Pending(w))
  /\ waiter' = [waiter EXCEPT ![w] = "forgot"]
  /\ UNCHANGED <<agentVars, managed, outbound, connVars, worker, row, faults>>

WaiterDone(w) ==
  /\ waiter[w] = "forgot"
  /\ ForgetManaged(w)
  /\ waiter' = [waiter EXCEPT ![w] = "done"]
  /\ UNCHANGED <<agentVars, expected, active, outbound, connVars, worker,
                 row, faults>>

-----------------------------------------------------------------------------
(***************************************************************************)
(* Connect: admit the worker by its hello, open its queue, handle frames   *)
(* one by one; an error of a handler ends the connection.                  *)
(***************************************************************************)
Head1(w) == Head(toAgent[w])
Received(w) == toAgent' = [toAgent EXCEPT ![w] = Tail(@)]
ConnTo(w, label) == conn' = [conn EXCEPT ![w] = label]

Admit(w) ==
  /\ conn[w] = "none" /\ toAgent[w] # <<>>
  /\ Received(w)
  /\ IF Pending(w) \in expected
       THEN /\ expected' = expected \ {Pending(w)}
            /\ active' = active \cup {Pending(w)}
            /\ ConnTo(w, "admitted")
       ELSE ConnTo(w, "closed") /\ UNCHANGED <<expected, active>>
  /\ UNCHANGED <<agentVars, managed, outbound, waiter, saw, toWorker, worker,
                 row, faults>>

\* The queue opens and the hello is handled: the preview that waits for it is
\* woken, the start of a pending RunStrategy is sent.
Greet(w) ==
  /\ conn[w] = "admitted"
  /\ outbound' = outbound \cup {Pending(w)}
  /\ hello' = IF w \in ready THEN hello \cup {w} ELSE hello
  /\ toWorker' = IF w \in pending
                   THEN [toWorker EXCEPT ![w] = Append(@, <<"start", w>>)]
                   ELSE toWorker
  /\ ConnTo(w, "open")
  /\ UNCHANGED <<kind, pc, answer, target, pending, ready, started, failed,
                 replies, reply, runRequests, taken, expected, active, managed,
                 waiter, saw, toAgent, worker, row, faults>>

\* A progress frame that does not alias: a failed start is reported, a final
\* status is not looked at.
HandleFinal(w) ==
  /\ conn[w] = "open" /\ toAgent[w] # <<>>
  /\ Head1(w)[1] \in {"failed", "finished"}
  /\ Received(w)
  /\ failed' = IF Head1(w)[1] = "failed" /\ w \in pending
                 THEN failed \cup {w} ELSE failed
  /\ UNCHANGED <<kind, pc, answer, target, pending, ready, started, hello,
                 replies, reply, runRequests, taken, tables, waiter, conn, saw,
                 toWorker, worker, row, faults>>

HandleResult(w) ==
  /\ conn[w] = "open" /\ toAgent[w] # <<>> /\ Head1(w)[1] = "result"
  /\ Received(w)
  /\ LET u == Head1(w)[2] IN
     reply' = IF u \in replies /\ reply[u] = "none"
                THEN [reply EXCEPT ![u] = "answered"] ELSE reply
  /\ UNCHANGED <<kind, pc, answer, target, pending, ready, started, failed,
                 hello, replies, runRequests, taken, tables, waiter, conn, saw,
                 toWorker, worker, row, faults>>

\* Mutant: the registry is not asked whether the worker is active.
AliasRegistryBlindly(w) ==
  /\ \/ conn[w] = "open" /\ toAgent[w] # <<>> /\ Head1(w)[1] = "running"
        /\ Received(w)
        /\ saw' = IF w \in pending THEN saw \cup {w} ELSE saw
     \/ conn[w] = "queued" /\ UNCHANGED <<toAgent, saw>>
  /\ IF TRUE
       THEN /\ active' = active \cup {Real(w)}
            /\ ConnTo(w, IF conn[w] = "open" THEN "registered" ELSE "again")
       ELSE ConnTo(w, "broken") /\ UNCHANGED active
  /\ UNCHANGED <<agentVars, expected, managed, outbound, waiter, toWorker,
                 worker, row, faults>>

\* A running frame binds the session's id to the worker, in four sections:
\* the registry, the queue, the registry again and the manager.
AliasRegistry(w) ==
  /\ \/ conn[w] = "open" /\ toAgent[w] # <<>> /\ Head1(w)[1] = "running"
        /\ Received(w)
        /\ saw' = IF w \in pending THEN saw \cup {w} ELSE saw
     \/ conn[w] = "queued" /\ UNCHANGED <<toAgent, saw>>
  /\ IF Pending(w) \in active
       THEN /\ active' = active \cup {Real(w)}
            /\ ConnTo(w, IF conn[w] = "open" THEN "registered" ELSE "again")
       ELSE ConnTo(w, "broken") /\ UNCHANGED active
  /\ UNCHANGED <<agentVars, expected, managed, outbound, waiter, toWorker,
                 worker, row, faults>>

\* Mutant: the queue is not bound to the session id.
AliasQueueSkipped(w) ==
  /\ conn[w] = "registered"
  /\ UNCHANGED outbound
  /\ ConnTo(w, "queued")
  /\ UNCHANGED <<agentVars, expected, active, managed, waiter, saw, toAgent,
                 toWorker, worker, row, faults>>

AliasQueue(w) ==
  /\ conn[w] = "registered"
  /\ outbound' = outbound \cup {Real(w)}
  /\ ConnTo(w, "queued")
  /\ UNCHANGED <<agentVars, expected, active, managed, waiter, saw, toAgent,
                 toWorker, worker, row, faults>>

\* The manager's table, then the request is remembered and its caller told.
ReportStarted(w) ==
  /\ conn[w] = "again"
  /\ managed' = IF Found(Pending(w)) \/ Found(Real(w))
                  THEN managed \cup {Real(w)} ELSE managed
  /\ runRequests' = IF w \in saw THEN runRequests \cup {w} ELSE runRequests
  /\ started' = IF w \in saw \cap pending THEN started \cup {w} ELSE started
  /\ saw' = saw \ {w}
  /\ ConnTo(w, "open")
  /\ UNCHANGED <<kind, pc, answer, target, pending, ready, failed, hello,
                 replies, reply, taken, expected, active, outbound, waiter,
                 toAgent, toWorker, worker, row, faults>>

\* Another frame's handler fails: a result that the full queue refuses, or an
\* indicator chunk that the platform does not save.
HandlerFails(w) ==
  /\ conn[w] = "open" /\ worker[w] \in {"starting", "persisted", "live"}
  /\ ConnTo(w, "broken")
  /\ Fault
  /\ UNCHANGED <<agentVars, tables, waiter, saw, toAgent, toWorker, worker,
                 row>>

\* The deferred function of Connect, in its two sections; the stream ends
\* when the worker is gone and its frames are handled, or with an error.
CloseQueue(w) ==
  /\ \/ conn[w] = "broken"
     \/ conn[w] = "open" /\ toAgent[w] = <<>> /\ worker[w] = "exited"
  /\ outbound' = outbound \ OfWorker(w)
  /\ toAgent' = [toAgent EXCEPT ![w] = <<>>]
  /\ toWorker' = [toWorker EXCEPT ![w] = <<>>]
  /\ ConnTo(w, "torn")
  /\ UNCHANGED <<agentVars, expected, active, managed, waiter, saw, worker,
                 row, faults>>

CloseRegistry(w) ==
  /\ conn[w] = "torn"
  /\ ForgetWorker(Pending(w))
  /\ ConnTo(w, "closed")
  /\ UNCHANGED <<agentVars, managed, outbound, waiter, saw, toAgent, toWorker,
                 worker, row, faults>>

-----------------------------------------------------------------------------
(***************************************************************************)
(* The worker process (session_worker_entry.py).  A frame sent on a closed *)
(* connection goes nowhere.                                                *)
(***************************************************************************)
Linked(w) == conn[w] \notin {"torn", "closed"}

Send(w, f) ==
  toAgent' = IF Linked(w) THEN [toAgent EXCEPT ![w] = Append(@, <<f, w>>)]
             ELSE toAgent

WorkerTo(w, label) == worker' = [worker EXCEPT ![w] = label]

WorkerHello(w) ==
  /\ worker[w] = "boot"
  /\ Send(w, "hello") /\ WorkerTo(w, "hello")
  /\ UNCHANGED <<agentVars, tables, waiter, conn, saw, toWorker, row, faults>>

\* _dispatch_agent_platform_call: what the handler returns or raises is the
\* result of the call at the head of the queue.
DispatchCall(w) ==
  [toAgent EXCEPT ![w] = Append(@, <<"result", Head(toWorker[w])[2]>>)]

\* The first frame decides: a session to start, or one call to answer.
WorkerFirst(w) ==
  /\ worker[w] = "hello" /\ toWorker[w] # <<>>
  /\ toWorker' = [toWorker EXCEPT ![w] = Tail(@)]
  /\ IF Head(toWorker[w])[1] = "start"
       THEN WorkerTo(w, "starting") /\ UNCHANGED toAgent
       ELSE toAgent' = DispatchCall(w) /\ WorkerTo(w, "leaving")
  /\ UNCHANGED <<agentVars, tables, waiter, conn, saw, row, faults>>

\* RunStrategy persists the session's row before it returns the id.
WorkerPersist(w) ==
  /\ worker[w] = "starting"
  /\ row' = [row EXCEPT ![w] = "running"] /\ WorkerTo(w, "persisted")
  /\ UNCHANGED <<agentVars, tables, waiter, connVars, faults>>

WorkerRunning(w) ==
  /\ worker[w] \in {"persisted", "live"} /\ toAgent[w] = <<>>
  /\ Send(w, "running") /\ WorkerTo(w, "live")
  /\ UNCHANGED <<agentVars, tables, waiter, conn, saw, toWorker, row, faults>>

\* Mutant: a failed start is reported and the worker goes on.
WorkerFailsOn(w) ==
  /\ worker[w] \in {"hello", "starting", "persisted"}
  /\ row' = IF worker[w] = "persisted" THEN [row EXCEPT ![w] = "ended"]
            ELSE row
  /\ Send(w, "failed") /\ WorkerTo(w, IF worker[w] = "persisted" THEN "live" ELSE "leaving")
  /\ UNCHANGED <<agentVars, tables, waiter, conn, saw, toWorker, faults>>

\* A failed start, no first frame within 60 s, or the end of the session.
WorkerFails(w) ==
  /\ worker[w] \in {"hello", "starting", "persisted"}
  /\ row' = IF worker[w] = "persisted" THEN [row EXCEPT ![w] = "ended"]
            ELSE row
  /\ Send(w, "failed") /\ WorkerTo(w, "leaving")
  /\ UNCHANGED <<agentVars, tables, waiter, conn, saw, toWorker, faults>>

WorkerEnds(w) ==
  /\ worker[w] = "live"
  /\ row' = [row EXCEPT ![w] = "ended"]
  /\ \E f \in {"finished", "failed"} : Send(w, f)
  /\ WorkerTo(w, "leaving")
  /\ UNCHANGED <<agentVars, tables, waiter, conn, saw, toWorker, faults>>

\* Once the servicer exists each call is answered in a thread of its own.
WorkerAnswers(w) ==
  /\ worker[w] \in {"starting", "persisted", "live"} /\ toWorker[w] # <<>>
  /\ toWorker' = [toWorker EXCEPT ![w] = Tail(@)]
  /\ toAgent' = IF Linked(w) THEN DispatchCall(w) ELSE toAgent
  /\ UNCHANGED <<agentVars, tables, waiter, conn, saw, worker, row, faults>>

WorkerExits(w) ==
  /\ Alive(w)
  /\ Exits(w)
  /\ IF worker[w] = "leaving" THEN UNCHANGED faults ELSE Fault
  /\ UNCHANGED <<agentVars, tables, waiter, conn, saw, toWorker, row>>

-----------------------------------------------------------------------------
Handler(r) ==
  \/ Expect(r) \/ Spawn(r) \/ SpawnFails(r) \/ Enlist(r)
  \/ RunAnswered(r) \/ GiveUp(r) \/ PreviewReady(r)
  \/ SendCall(r) \/ UnaryAnswered(r)
  \/ RestartStop(r) \/ RestartKillFails(r) \/ RestartReaped(r)
  \/ RestartFails(r) \/ RestartCleanup(r) \/ RestartTell(r) \/ RestartMark(r)

Arrive(r) ==
  /\ \A x \in 1 .. r - 1 : pc[x] # "idle"
  /\ \/ BeginRun(r)
     \/ \E s \in Requests : BeginUnary(r, s) \/ RestartResolve(r, s)

Waiter(w) == WaiterForgets(w) \/ WaiterDone(w)

Connect(w) ==
  \/ Admit(w) \/ Greet(w)
  \/ HandleFinal(w) \/ HandleResult(w)
  \/ AliasRegistry(w) \/ AliasQueue(w) \/ ReportStarted(w)
  \/ CloseQueue(w) \/ CloseRegistry(w)

Worker(w) ==
  \/ WorkerHello(w) \/ WorkerFirst(w) \/ WorkerPersist(w) \/ WorkerRunning(w)
  \/ WorkerFails(w) \/ WorkerEnds(w) \/ WorkerAnswers(w) \/ WorkerExits(w)

Next ==
  \E r \in Requests :
    \/ Arrive(r) \/ Handler(r) \/ Waiter(r) \/ Connect(r) \/ HandlerFails(r)
    \/ Worker(r)

Spec == Init /\ [][Next]_vars

\* The goroutines that serve requests or wait for a process are scheduled,
\* and the timers fire.  Nothing is assumed of the workers' code or of their
\* connections.
FairSpec ==
  /\ Spec
  /\ WF_vars(\E r \in Requests : Handler(r))
  /\ WF_vars(\E w \in Requests : Waiter(w))

-----------------------------------------------------------------------------
\* Type correctness of the agent's state.
AgentTypeOK ==
  /\ kind \in [Requests -> {"none", "run", "preview", "restart", "unary"}]
  /\ pc \in [Requests -> {"idle", "expect", "spawn", "enlist", "ready", "send",
                          "await", "stop", "killed", "cleanup", "tell", "mark",
                          "done"}]
  /\ answer \in [Requests -> {"none", "started", "failed", "answered", "error",
                              "gave up"}]
  /\ target \in [Requests -> Requests \cup {NoTarget}]
  /\ pending \subseteq Requests /\ ready \subseteq Requests
  /\ started \subseteq Requests /\ failed \subseteq Requests
  /\ hello \subseteq Requests /\ replies \subseteq Requests
  /\ reply \in [Requests -> {"none", "answered", "error"}]
  /\ runRequests \subseteq Requests /\ taken \in [Requests -> SUBSET Requests]
  /\ expected \subseteq Ids /\ active \subseteq Ids
  /\ managed \subseteq Ids /\ outbound \subseteq Ids
  /\ waiter \in [Requests -> {"none", "waiting", "forgot", "done"}]
  /\ conn \in [Requests -> {"none", "admitted", "open", "registered", "queued",
                            "again", "broken", "torn", "closed"}]
  /\ saw \subseteq Requests
  /\ \A r \in Requests :
       /\ \A i \in 1 .. Len(toAgent[r]) : toAgent[r][i] \in
            {"hello", "running", "failed", "finished", "result"} \X Requests
       /\ Len(toWorker[r]) <= QueueCap
       /\ \A i \in 1 .. Len(toWorker[r]) :
            toWorker[r][i] \in {"start", "call"} \X Requests
  /\ worker \in [Requests -> {"none", "boot", "hello", "starting", "persisted",
                              "live", "leaving", "exited"}]
  /\ row \in [Requests -> {"none", "running", "recoverable", "ended"}]
  /\ faults \in 0 .. MaxFaults

Restarted(s) == \E r \in Requests : kind[r] = "restart" /\ target[r] = s

\* Once RunStrategy answered with a session, as long as its process runs, its
\* connection stands and no restart touched it, the session can be reached:
\* its id has a queue, an identity and a process (the three tables are
\* written in different sections, while waiters and teardowns erase them).
RoutesAgree ==
  \A w \in Requests :
    /\ answer[w] = "started" /\ Alive(w) /\ ~Restarted(w)
    /\ conn[w] \notin {"broken", "torn", "closed"}
    => Real(w) \in outbound \cap active /\ Found(Real(w))

Gone(w) ==
  worker[w] = "exited" /\ waiter[w] = "done" /\ conn[w] \in {"none", "closed"}

\* A worker whose process is reaped and whose connection has ended leaves no
\* entry in any table, in whatever order its waiter, its connection handler
\* and a restart erased them.
NoStaleRoutes ==
  \A w \in Requests :
    Gone(w) => OfWorker(w) \cap
                 (expected \cup active \cup managed \cup outbound) = {}

\* Together: the tables route to every worker that runs and to no other.
TablesSound == AgentTypeOK /\ RoutesAgree /\ NoStaleRoutes

\* A call that waits for a worker's answer can still get one, or has it in
\* its channel, or a restart is about to fail it: a restart never unregisters
\* a call without failing it.
AwaitedCallCanEnd ==
  \A r \in Requests :
    pc[r] = "await" /\ kind[r] \in {"unary", "preview"}
    => \/ r \in replies \/ reply[r] # "none"
       \/ \E x \in Requests : pc[x] = "tell" /\ r \in taken[x]

\* A RunStrategy call answered as failed has no session: its worker is on the
\* way out or gone.
FailedMeansNoSession ==
  \A r \in Requests :
    answer[r] = "failed" => worker[r] \in {"leaving", "exited"}

\* Every request is answered, whatever its worker does (the timers of
\* handleRunStrategy, waitWorkerReady, invokeWorkerUnary, StopSessionWorker):
\* the requests being finitely many, again and again none is in progress.
EveryRequestAnswered ==
  []<>(\A r \in Requests : pc[r] \in {"idle", "done"})

-----------------------------------------------------------------------------
(* What the comments, tests and docs say and the code does not keep *)

\* README.md: the restart command "stops the old local Python worker ... and
\* starts a fresh worker": when the fresh worker runs the old one does not.
RestartStopsOldWorker ==
  \A r \in Requests :
    kind[r] = "restart" /\ worker[r] # "none" => ~Alive(target[r])

=============================================================================
