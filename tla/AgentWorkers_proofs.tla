------------------------ MODULE AgentWorkers_proofs ------------------------
(***************************************************************************)
(* Proofs about AgentWorkers, for any number of requests, workers, queue   *)
(* slots, restarts and faults.                                             *)
(***************************************************************************)
EXTENDS AgentWorkers, TLAPS

-----------------------------------------------------------------------------
(* The inductive invariant *)

Kinds == {"none", "run", "preview", "restart", "unary"}
Places == {"idle", "expect", "spawn", "enlist", "ready", "send", "await", "stop",
           "killed", "cleanup", "tell", "mark", "done"}
Answers == {"none", "started", "failed", "answered", "error", "gave up"}
Replies == {"none", "answered", "error"}
Waits == {"none", "waiting", "forgot", "done"}
Links == {"none", "admitted", "open", "registered", "queued", "again", "broken",
          "torn", "closed"}
Lives == {"none", "boot", "hello", "starting", "persisted", "live", "leaving",
          "exited"}
Rows == {"none", "running", "recoverable", "ended"}
Frames == {"hello", "running", "failed", "finished", "result"} \X Requests
Orders == {"start", "call"} \X Requests

\* The types: of the requests, of the tables, and of the workers with their
\* queues as sequences of frames.
RequestTypes ==
  /\ kind \in [Requests -> Kinds]
  /\ pc \in [Requests -> Places]
  /\ answer \in [Requests -> Answers]
  /\ target \in [Requests -> Requests \cup {NoTarget}]
  /\ reply \in [Requests -> Replies]
  /\ taken \in [Requests -> SUBSET Requests]

SetTypes ==
  /\ pending \subseteq Requests /\ ready \subseteq Requests
  /\ started \subseteq Requests /\ failed \subseteq Requests
  /\ hello \subseteq Requests /\ replies \subseteq Requests
  /\ runRequests \subseteq Requests /\ saw \subseteq Requests
  /\ expected \subseteq Ids /\ active \subseteq Ids
  /\ managed \subseteq Ids /\ outbound \subseteq Ids

WorkerTypes ==
  /\ waiter \in [Requests -> Waits]
  /\ conn \in [Requests -> Links]
  /\ toAgent \in [Requests -> Seq(Frames)]
  /\ toWorker \in [Requests -> Seq(Orders)]
  /\ worker \in [Requests -> Lives]
  /\ row \in [Requests -> Rows]
  /\ faults \in 0 .. MaxFaults

TypeInv == RequestTypes /\ SetTypes /\ WorkerTypes

\* What a handler's position says about the request it serves.
HandlerAt(r) ==
  /\ pc[r] = "idle" <=> kind[r] = "none"
  /\ pc[r] \in {"expect", "spawn", "enlist"} => kind[r] \in {"run", "preview", "restart"}
  /\ pc[r] \in {"stop", "killed", "cleanup", "tell", "mark"} => kind[r] = "restart"
  /\ pc[r] = "ready" => kind[r] = "preview"
  /\ pc[r] = "send" => kind[r] \in {"unary", "preview"}
  /\ kind[r] \in {"restart", "unary"} => target[r] \in Requests

\* Where a worker process, its waiter and its connection stand: nothing
\* happens for a worker that is not spawned, and a waiter is past its wait
\* only when the process is gone.
ProcessAt(w) ==
  /\ pc[w] \in {"idle", "expect", "spawn", "stop", "killed", "cleanup", "tell", "mark"}
     => worker[w] = "none"
  /\ pc[w] = "enlist" => waiter[w] = "none" /\ worker[w] # "none"
  /\ pc[w] = "await" /\ kind[w] \in {"run", "restart"} => waiter[w] # "none"
  /\ answer[w] = "started" => waiter[w] # "none"
  /\ worker[w] = "none" => conn[w] = "none" /\ toAgent[w] = <<>> /\ waiter[w] = "none"
  /\ waiter[w] \in {"forgot", "done"} => worker[w] = "exited"

\* The queue of a worker exists only while its connection is open, and holds
\* no more than its capacity.
QueueAt(w) ==
  /\ conn[w] \in {"none", "admitted", "torn", "closed"} => OfWorker(w) \cap outbound = {}
  /\ conn[w] \in {"none", "admitted"} => toWorker[w] = <<>>
  /\ Len(toWorker[w]) <= QueueCap

\* A worker's ids are in each table only between the section that enters
\* them and the one that erases them.
ErasedAt(w) ==
  /\ Real(w) \notin expected
  /\ waiter[w] \in {"forgot", "done"} => Pending(w) \notin expected
  /\ conn[w] \in {"none", "closed"} => OfWorker(w) \cap active = {}
  /\ Real(w) \in active => Pending(w) \in active
  /\ waiter[w] \in {"none", "done"} => OfWorker(w) \cap managed = {}

\* Nothing but the end of the process, of the connection or a restart takes
\* a worker's ids out of the tables.
Calm(w) == Alive(w) /\ ~Restarted(w)
Told(w) == w \in started \/ answer[w] = "started"
RoutedAt(w) ==
  /\ Calm(w) /\ conn[w] \in {"admitted", "open", "registered", "queued", "again"}
     => Pending(w) \in active
  /\ Calm(w) /\ (\/ conn[w] \in {"registered", "queued", "again"}
                 \/ Told(w) /\ conn[w] \notin {"torn", "closed", "broken"})
     => Real(w) \in active
  /\ (\/ conn[w] \in {"queued", "again"}
      \/ Told(w) /\ conn[w] \notin {"torn", "closed"})
     => Real(w) \in outbound
  /\ Calm(w) /\ waiter[w] # "none" => Pending(w) \in managed

\* A start is reported as failed by a worker that is on its way out.
Out(w) == worker[w] \in {"leaving", "exited"}
FailedFrame(w) == \E i \in 1 .. Len(toAgent[w]) : toAgent[w][i][1] = "failed"
FailureAt(w) == w \in failed \/ answer[w] = "failed" \/ FailedFrame(w) => Out(w)

\* A call between its registration and its answer.
CallAt(r) ==
  pc[r] \in {"send", "await"} /\ kind[r] \in {"unary", "preview"}
  => \/ r \in replies \/ reply[r] # "none"
     \/ \E x \in Requests : pc[x] = "tell" /\ r \in taken[x]

AgentInv ==
  \A r \in Requests :
    /\ HandlerAt(r) /\ ProcessAt(r) /\ QueueAt(r) /\ ErasedAt(r)
    /\ RoutedAt(r) /\ FailureAt(r) /\ CallAt(r)

\* A step of Next, by request.
Step(r) ==
  \/ Arrive(r) \/ Handler(r) \/ Waiter(r) \/ Connect(r) \/ HandlerFails(r)
  \/ Worker(r)

-----------------------------------------------------------------------------
(* Ids *)

\* The ids of the workers are all different, and name their worker.
LEMMA IdFacts ==
  ASSUME NEW w \in Requests, NEW x \in Requests
  PROVE  /\ Pending(w) # Real(x)
         /\ Pending(w) = Pending(x) => w = x
         /\ Real(w) = Real(x) => w = x
         /\ Pending(w)[2] = w /\ Real(w)[2] = w
         /\ Pending(w) \in Ids /\ Real(w) \in Ids
  BY DEF Pending, Real, Ids

\* An id names a request.
LEMMA IdOwner ==
  ASSUME NEW id \in Ids
  PROVE  id[2] \in Requests
  BY DEF Ids

-----------------------------------------------------------------------------
(* The types *)

LEMMA InitType == Init => TypeInv
  BY AgentAssumption
  DEF Init, TypeInv, RequestTypes, SetTypes, WorkerTypes, NoTarget, Kinds,
      Places, Answers, Replies, Waits, Links, Lives, Rows

\* The steps that change the sets of requests and of ids are set operations.
LEMMA SetTypesKept ==
  ASSUME TypeInv, NEW r \in Requests, Step(r)
  PROVE  SetTypes'
<1>0. SetTypes /\ Pending(r) \in Ids /\ Real(r) \in Ids
  BY IdFacts DEF TypeInv
<1>1. CASE Arrive(r)
  BY <1>0, <1>1 DEF SetTypes, Arrive, BeginRun, BeginUnary, RestartResolve, tables, connVars
<1>2. CASE Expect(r) \/ Spawn(r) \/ Enlist(r) \/ PreviewReady(r)
  BY <1>0, <1>2 DEF SetTypes, Expect, Spawn, Enlist, PreviewReady, tables, connVars
<1>3. CASE SpawnFails(r) \/ RunAnswered(r) \/ GiveUp(r) \/ UnaryAnswered(r)
  BY <1>0, <1>3 DEF SetTypes, SpawnFails, RunAnswered, GiveUp, UnaryAnswered, Reply,
     ForgetWorker, tables, connVars
<1>4. CASE SendCall(r)
  BY <1>0, <1>4 DEF SetTypes, SendCall, Reply, tables
<1>5. CASE RestartStop(r) \/ RestartReaped(r)
  BY <1>0, <1>5 DEF SetTypes, RestartStop, RestartReaped, ForgetWorker, ForgetManaged, connVars
<1>6. CASE RestartKillFails(r) \/ RestartFails(r)
  BY <1>0, <1>6 DEF SetTypes, RestartKillFails, RestartFails, Reply, ForgetWorker, tables, connVars
<1>7. CASE RestartCleanup(r) \/ RestartTell(r) \/ RestartMark(r)
  BY <1>0, <1>7 DEF SetTypes, RestartCleanup, RestartTell, RestartMark, tables, connVars
<1>8. CASE Waiter(r)
  BY <1>0, <1>8 DEF SetTypes, Waiter, WaiterForgets, WaiterDone, ForgetWorker, ForgetManaged,
     agentVars, connVars
<1>9. CASE Admit(r) \/ Greet(r) \/ HandleFinal(r) \/ HandleResult(r)
  BY <1>0, <1>9 DEF SetTypes, Admit, Greet, HandleFinal, HandleResult, agentVars, tables
<1>10. CASE AliasRegistry(r) \/ AliasQueue(r) \/ ReportStarted(r)
  BY <1>0, <1>10 DEF SetTypes, AliasRegistry, AliasQueue, ReportStarted, agentVars
<1>11. CASE CloseQueue(r) \/ CloseRegistry(r) \/ HandlerFails(r)
  BY <1>0, <1>11 DEF SetTypes, CloseQueue, CloseRegistry, HandlerFails, ForgetWorker,
     agentVars, tables
<1>12. CASE Worker(r)
  BY <1>0, <1>12 DEF SetTypes, Worker, WorkerHello, WorkerFirst, WorkerPersist, WorkerRunning,
     WorkerFails, WorkerEnds, WorkerAnswers, WorkerExits, agentVars, tables, connVars
<1> QED BY <1>1, <1>2, <1>3, <1>4, <1>5, <1>6, <1>7, <1>8, <1>9, <1>10, <1>11, <1>12
        DEF Step, Handler, Connect

\* The record of a request is written at one place, with a value of its type.
LEMMA RequestTypesKept ==
  ASSUME TypeInv, NEW r \in Requests, Step(r)
  PROVE  RequestTypes'
<1>0. RequestTypes
  BY DEF TypeInv
<1>1. ASSUME NEW a \in Places, Goto(r, a) PROVE pc' \in [Requests -> Places]
  BY <1>0, <1>1 DEF RequestTypes, Goto
<1>2. ASSUME NEW a \in Answers, Reply(r, a), UNCHANGED <<kind, target, taken>>
      PROVE  RequestTypes'
  BY <1>0, <1>2 DEF RequestTypes, Reply, Places, Replies
<1>3. CASE Arrive(r)
  <2>1. pc' \in [Requests -> Places]
    BY <1>3, <1>1 DEF Arrive, BeginRun, BeginUnary, RestartResolve, Places
  <2>2. kind' \in [Requests -> Kinds]
    BY <1>0, <1>3 DEF Arrive, BeginRun, BeginUnary, RestartResolve, RequestTypes, Kinds
  <2>3. target' \in [Requests -> Requests \cup {NoTarget}]
    BY <1>0, <1>3 DEF Arrive, BeginRun, BeginUnary, RestartResolve, RequestTypes
  <2> QED BY <1>0, <1>3, <2>1, <2>2, <2>3
          DEF Arrive, BeginRun, BeginUnary, RestartResolve, RequestTypes
<1>4. CASE Expect(r) \/ Spawn(r) \/ Enlist(r) \/ PreviewReady(r) \/ RestartReaped(r)
           \/ RestartMark(r)
  <2>1. pc' \in [Requests -> Places]
    BY <1>4, <1>1 DEF Expect, Spawn, Enlist, PreviewReady, RestartReaped, RestartMark, Places
  <2> QED BY <1>0, <1>4, <2>1
          DEF Expect, Spawn, Enlist, PreviewReady, RestartReaped, RestartMark, RequestTypes
<1>5. CASE SpawnFails(r) \/ RunAnswered(r) \/ GiveUp(r) \/ RestartKillFails(r) \/ RestartFails(r)
  BY <1>5, <1>2 DEF SpawnFails, RunAnswered, GiveUp, RestartKillFails, RestartFails, Answers
<1>6. CASE UnaryAnswered(r)
  <2>1. reply[r] \in Answers BY <1>0 DEF RequestTypes, Replies, Answers
  <2> QED BY <1>6, <2>1, <1>2 DEF UnaryAnswered
<1>7. CASE SendCall(r)
  <2>1. CASE Reply(r, "error")
    BY <1>7, <2>1, <1>2 DEF SendCall, Answers
  <2>2. CASE Goto(r, "await") /\ UNCHANGED <<answer, reply>>
    BY <1>0, <1>1, <1>7, <2>2 DEF SendCall, RequestTypes, Places
  <2> QED BY <1>7, <2>1, <2>2 DEF SendCall
<1>8. CASE RestartStop(r)
  <2>1. pc' \in [Requests -> Places]
    BY <1>8, <1>1 DEF RestartStop, Places
  <2> QED BY <1>0, <1>8, <2>1 DEF RestartStop, RequestTypes
<1>9. CASE RestartCleanup(r)
  <2>1. pc' \in [Requests -> Places]
    BY <1>9, <1>1 DEF RestartCleanup, Places
  <2>2. replies \subseteq Requests
    BY DEF TypeInv, SetTypes
  <2>3. taken' \in [Requests -> SUBSET Requests]
    BY <1>0, <1>9, <2>2 DEF RestartCleanup, RequestTypes
  <2> QED BY <1>0, <1>9, <2>1, <2>3 DEF RestartCleanup, RequestTypes
<1>14. CASE RestartTell(r)
  <2>1. pc' \in [Requests -> Places]
    BY <1>14, <1>1 DEF RestartTell, Places
  <2>2. reply' \in [Requests -> Replies]
    BY <1>0, <1>14 DEF RestartTell, RequestTypes, Replies
  <2>3. taken' \in [Requests -> SUBSET Requests]
    BY <1>0, <1>14 DEF RestartTell, RequestTypes
  <2> QED BY <1>0, <1>14, <2>1, <2>2, <2>3 DEF RestartTell, RequestTypes
<1>10. CASE HandleResult(r)
  <2>2. reply' \in [Requests -> Replies]
    BY <1>0, <1>10 DEF HandleResult, RequestTypes, Replies
  <2> QED BY <1>0, <1>10, <2>2 DEF HandleResult, RequestTypes
<1>11. CASE UNCHANGED <<kind, pc, answer, target, reply, taken>>
  BY <1>0, <1>11 DEF RequestTypes
<1>12. CASE Waiter(r) \/ HandlerFails(r) \/ Worker(r)
  BY <1>11, <1>12 DEF Waiter, WaiterForgets, WaiterDone, HandlerFails, Worker, WorkerHello,
     WorkerFirst, WorkerPersist, WorkerRunning, WorkerFails, WorkerEnds, WorkerAnswers,
     WorkerExits, agentVars
<1>13. CASE \/ Admit(r) \/ Greet(r) \/ HandleFinal(r) \/ AliasRegistry(r) \/ AliasQueue(r)
            \/ ReportStarted(r) \/ CloseQueue(r) \/ CloseRegistry(r)
  BY <1>11, <1>13 DEF Admit, Greet, HandleFinal, AliasRegistry, AliasQueue, ReportStarted,
     CloseQueue, CloseRegistry, agentVars
<1> QED BY <1>3, <1>4, <1>5, <1>6, <1>7, <1>8, <1>9, <1>10, <1>12, <1>13, <1>14
        DEF Step, Handler, Connect

\* A fault is counted below its bound; other steps leave the count alone.
LEMMA FaultType ==
  ASSUME faults \in 0 .. MaxFaults, Fault \/ UNCHANGED faults
  PROVE  faults' \in 0 .. MaxFaults
<1>1. MaxFaults \in Nat /\ faults \in Nat BY AgentAssumption
<1> QED BY <1>1 DEF Fault

\* What a worker sends, or loses when it ends, is still a sequence of frames.
LEMMA FramesKept ==
  ASSUME WorkerTypes, NEW w \in Requests,
         \/ \E f \in Frames : toAgent' = [toAgent EXCEPT ![w] = Append(@, f)]
         \/ toAgent' = [toAgent EXCEPT ![w] = Tail(@)] /\ toAgent[w] # <<>>
         \/ \E n \in 0 .. Len(toAgent[w]) : toAgent' = [toAgent EXCEPT ![w] = SubSeq(@, 1, n)]
         \/ toAgent' = [toAgent EXCEPT ![w] = <<>>]
         \/ UNCHANGED toAgent
  PROVE  toAgent' \in [Requests -> Seq(Frames)]
<1>1. toAgent \in [Requests -> Seq(Frames)] /\ toAgent[w] \in Seq(Frames) BY DEF WorkerTypes
<1>2. \A f \in Frames : Append(toAgent[w], f) \in Seq(Frames) BY <1>1
<1>3. toAgent[w] # <<>> => Tail(toAgent[w]) \in Seq(Frames) BY <1>1
<1>4. \A n \in 0 .. Len(toAgent[w]) : SubSeq(toAgent[w], 1, n) \in Seq(Frames)
  BY <1>1
<1>5. <<>> \in Seq(Frames) OBVIOUS
<1> QED BY <1>1, <1>2, <1>3, <1>4, <1>5

\* The same for what is queued for a worker.
LEMMA OrdersKept ==
  ASSUME WorkerTypes, NEW w \in Requests,
         \/ \E f \in Orders : toWorker' = [toWorker EXCEPT ![w] = Append(@, f)]
         \/ toWorker' = [toWorker EXCEPT ![w] = Tail(@)] /\ toWorker[w] # <<>>
         \/ toWorker' = [toWorker EXCEPT ![w] = <<>>]
         \/ UNCHANGED toWorker
  PROVE  toWorker' \in [Requests -> Seq(Orders)]
<1>1. toWorker \in [Requests -> Seq(Orders)] /\ toWorker[w] \in Seq(Orders) BY DEF WorkerTypes
<1>2. \A f \in Orders : Append(toWorker[w], f) \in Seq(Orders) BY <1>1
<1>3. toWorker[w] # <<>> => Tail(toWorker[w]) \in Seq(Orders) BY <1>1
<1>4. <<>> \in Seq(Orders) OBVIOUS
<1> QED BY <1>1, <1>2, <1>3, <1>4

\* The result of a call names the call.
LEMMA ResultFrame ==
  ASSUME WorkerTypes, NEW w \in Requests, toWorker[w] # <<>>
  PROVE  <<"result", Head(toWorker[w])[2]>> \in Frames
<1>1. toWorker[w] \in Seq(Orders) BY DEF WorkerTypes
<1>2. Head(toWorker[w]) \in Orders BY <1>1
<1>3. Head(toWorker[w])[2] \in Requests BY <1>2 DEF Orders
<1> QED BY <1>3 DEF Frames

\* The state of a worker, of its waiter, of its connection and of its row.
LEMMA WorkerTypesKept ==
  ASSUME TypeInv, AgentInv, NEW r \in Requests, Step(r)
  PROVE  WorkerTypes'
<1>0. WorkerTypes
  BY DEF TypeInv
<1>1. ASSUME NEW l \in Lives, WorkerTo(r, l) PROVE worker' \in [Requests -> Lives]
  BY <1>0, <1>1 DEF WorkerTypes, WorkerTo
<1>2. ASSUME NEW l \in Links, ConnTo(r, l) PROVE conn' \in [Requests -> Links]
  BY <1>0, <1>2 DEF WorkerTypes, ConnTo
<1>3. ASSUME NEW f \in {"hello", "running", "failed", "finished"}, Send(r, f)
      PROVE  toAgent' \in [Requests -> Seq(Frames)]
  <2>1. <<f, r>> \in Frames BY DEF Frames
  <2> QED BY <1>0, <1>3, <2>1, FramesKept DEF Send
<1>4. ASSUME NEW w \in Requests, Exits(w)
      PROVE  worker' \in [Requests -> Lives] /\ toAgent' \in [Requests -> Seq(Frames)]
  <2>1. toAgent' \in [Requests -> Seq(Frames)]
    BY <1>0, <1>4, FramesKept DEF Exits
  <2> QED BY <1>0, <1>4, <2>1 DEF Exits, WorkerTypes, Lives
<1>5. CASE UNCHANGED <<waiter, connVars, worker, row>> /\ (Fault \/ UNCHANGED faults)
  BY <1>0, <1>5, FaultType DEF WorkerTypes, connVars
<1>6. CASE \/ Arrive(r) \/ Expect(r) \/ SpawnFails(r) \/ RunAnswered(r) \/ GiveUp(r)
           \/ PreviewReady(r) \/ UnaryAnswered(r) \/ RestartKillFails(r) \/ RestartReaped(r)
           \/ RestartFails(r) \/ RestartCleanup(r) \/ RestartTell(r)
  BY <1>5, <1>6 DEF Arrive, BeginRun, BeginUnary, RestartResolve, Expect, SpawnFails,
     RunAnswered, GiveUp, PreviewReady, UnaryAnswered, RestartKillFails, RestartReaped,
     RestartFails, RestartCleanup, RestartTell
<1>7. CASE Spawn(r) \/ Enlist(r)
  BY <1>0, <1>7 DEF Spawn, Enlist, WorkerTypes, Lives, Waits, connVars
<1>8. CASE SendCall(r)
  <2>1. toWorker' \in [Requests -> Seq(Orders)]
    <3>1. <<"call", r>> \in Orders BY DEF Orders
    <3>2. CallId(r) \in outbound => CallId(r)[2] \in Requests
      BY IdOwner DEF TypeInv, SetTypes
    <3> QED BY <1>0, <1>8, <3>1, <3>2, OrdersKept DEF SendCall
  <2> QED BY <1>0, <1>8, <2>1 DEF SendCall, WorkerTypes
<1>9. CASE RestartStop(r)
  <2>1. target[r] \in Requests
    BY <1>9 DEF RestartStop, AgentInv, HandlerAt
  <2>2. worker' \in [Requests -> Lives] /\ toAgent' \in [Requests -> Seq(Frames)]
    BY <1>0, <1>4, <1>9, <2>1 DEF RestartStop, WorkerTypes
  <2> QED BY <1>0, <1>9, <2>2 DEF RestartStop, WorkerTypes
<1>10. CASE RestartMark(r)
  BY <1>0, <1>10 DEF RestartMark, WorkerTypes, Rows, connVars
<1>11. CASE Waiter(r)
  BY <1>0, <1>11 DEF Waiter, WaiterForgets, WaiterDone, WorkerTypes, Waits, connVars
<1>12. CASE Admit(r) \/ HandleFinal(r) \/ HandleResult(r) \/ AliasRegistry(r)
  <2>1. toAgent' \in [Requests -> Seq(Frames)]
    BY <1>0, <1>12, FramesKept DEF Admit, HandleFinal, HandleResult, AliasRegistry, Received
  <2>2. conn' \in [Requests -> Links]
    BY <1>0, <1>2, <1>12 DEF Admit, HandleFinal, HandleResult, AliasRegistry, Links, WorkerTypes
  <2> QED BY <1>0, <1>12, <2>1, <2>2 DEF Admit, HandleFinal, HandleResult, AliasRegistry,
          WorkerTypes
<1>13. CASE Greet(r)
  <2>1. toWorker' \in [Requests -> Seq(Orders)]
    <3>1. <<"start", r>> \in Orders BY DEF Orders
    <3> QED BY <1>0, <1>13, <3>1, OrdersKept DEF Greet
  <2>2. conn' \in [Requests -> Links]
    BY <1>2, <1>13 DEF Greet, Links
  <2> QED BY <1>0, <1>13, <2>1, <2>2 DEF Greet, WorkerTypes
<1>14. CASE AliasQueue(r) \/ ReportStarted(r) \/ CloseRegistry(r) \/ HandlerFails(r)
  <2>2. conn' \in [Requests -> Links]
    BY <1>2, <1>14 DEF AliasQueue, ReportStarted, CloseRegistry, HandlerFails, Links
  <2>3. faults' \in 0 .. MaxFaults
    BY <1>0, <1>14, FaultType DEF AliasQueue, ReportStarted, CloseRegistry, HandlerFails, WorkerTypes
  <2> QED BY <1>0, <1>14, <2>2, <2>3
          DEF AliasQueue, ReportStarted, CloseRegistry, HandlerFails, WorkerTypes
<1>15. CASE CloseQueue(r)
  <2>1. toAgent' \in [Requests -> Seq(Frames)] /\ toWorker' \in [Requests -> Seq(Orders)]
    BY <1>0, <1>15, FramesKept, OrdersKept DEF CloseQueue
  <2>2. conn' \in [Requests -> Links]
    BY <1>2, <1>15 DEF CloseQueue, Links
  <2> QED BY <1>0, <1>15, <2>1, <2>2 DEF CloseQueue, WorkerTypes
<1>16. CASE WorkerHello(r) \/ WorkerRunning(r)
  <2>1. toAgent' \in [Requests -> Seq(Frames)] /\ worker' \in [Requests -> Lives]
    BY <1>1, <1>3, <1>16 DEF WorkerHello, WorkerRunning, Lives
  <2> QED BY <1>0, <1>16, <2>1 DEF WorkerHello, WorkerRunning, WorkerTypes
<1>17. CASE WorkerFails(r) \/ WorkerEnds(r)
  <2>1. toAgent' \in [Requests -> Seq(Frames)] /\ worker' \in [Requests -> Lives]
    BY <1>1, <1>3, <1>17 DEF WorkerFails, WorkerEnds, Lives
  <2>2. row' \in [Requests -> Rows]
    BY <1>0, <1>17 DEF WorkerFails, WorkerEnds, WorkerTypes, Rows
  <2> QED BY <1>0, <1>17, <2>1, <2>2 DEF WorkerFails, WorkerEnds, WorkerTypes
<1>18. CASE WorkerFirst(r) \/ WorkerAnswers(r)
  <2>1. <<"result", Head(toWorker[r])[2]>> \in Frames
    BY <1>0, <1>18, ResultFrame DEF WorkerFirst, WorkerAnswers
  <2>2. toAgent' \in [Requests -> Seq(Frames)]
    BY <1>0, <1>18, <2>1, FramesKept DEF WorkerFirst, WorkerAnswers, DispatchCall
  <2>3. toWorker' \in [Requests -> Seq(Orders)]
    BY <1>0, <1>18, OrdersKept DEF WorkerFirst, WorkerAnswers
  <2>4. worker' \in [Requests -> Lives]
    BY <1>0, <1>1, <1>18 DEF WorkerFirst, WorkerAnswers, Lives, WorkerTypes
  <2> QED BY <1>0, <1>18, <2>2, <2>3, <2>4 DEF WorkerFirst, WorkerAnswers, WorkerTypes
<1>19. CASE WorkerPersist(r)
  BY <1>0, <1>1, <1>19 DEF WorkerPersist, WorkerTypes, Lives, Rows, connVars
<1>20. CASE WorkerExits(r)
  <2>1. faults' \in 0 .. MaxFaults
    BY <1>0, <1>20, FaultType DEF WorkerExits, WorkerTypes
  <2> QED BY <1>0, <1>4, <1>20, <2>1 DEF WorkerExits, WorkerTypes
<1> QED BY <1>6, <1>7, <1>8, <1>9, <1>10, <1>11, <1>12, <1>13, <1>14, <1>15, <1>16, <1>17,
           <1>18, <1>19, <1>20 DEF Step, Handler, Connect, Worker


-----------------------------------------------------------------------------
(* The handlers *)

\* Only a handler's own steps move it, and its kind and target are fixed when
\* the request arrives.
LEMMA HandlerKept ==
  ASSUME TypeInv, AgentInv, NEW r \in Requests, Step(r), NEW w \in Requests
  PROVE  HandlerAt(w)'
<1>0. RequestTypes /\ HandlerAt(r) /\ HandlerAt(w)
  BY DEF TypeInv, AgentInv
<1>1. CASE Arrive(r)
  <2>1. CASE BeginRun(r)
    BY <1>0, <2>1 DEF BeginRun, Goto, HandlerAt, RequestTypes
  <2>2. ASSUME NEW s \in Requests, BeginUnary(r, s) \/ RestartResolve(r, s)
        PROVE  HandlerAt(w)'
    BY <1>0, <2>2 DEF BeginUnary, RestartResolve, Goto, HandlerAt, RequestTypes
  <2> QED BY <1>1, <2>1, <2>2 DEF Arrive
<1>2. CASE Expect(r) \/ Spawn(r) \/ Enlist(r) \/ PreviewReady(r)
  BY <1>0, <1>2 DEF Expect, Spawn, Enlist, PreviewReady, Goto, HandlerAt, RequestTypes
<1>3. CASE SpawnFails(r) \/ RunAnswered(r) \/ GiveUp(r) \/ UnaryAnswered(r) \/ RestartKillFails(r)
           \/ RestartFails(r)
  BY <1>0, <1>3 DEF SpawnFails, RunAnswered, GiveUp, UnaryAnswered, RestartKillFails,
     RestartFails, Reply, HandlerAt, RequestTypes
<1>4. CASE SendCall(r)
  BY <1>0, <1>4 DEF SendCall, Reply, Goto, HandlerAt, RequestTypes
<1>5. CASE RestartStop(r) \/ RestartReaped(r) \/ RestartCleanup(r) \/ RestartTell(r) \/ RestartMark(r)
  BY <1>0, <1>5 DEF RestartStop, RestartReaped, RestartCleanup, RestartTell, RestartMark, Goto, HandlerAt,
     RequestTypes
<1>6. CASE UNCHANGED <<kind, pc, target>>
  BY <1>0, <1>6 DEF HandlerAt
<1>7. CASE Waiter(r) \/ HandlerFails(r) \/ Worker(r)
  BY <1>6, <1>7 DEF Waiter, WaiterForgets, WaiterDone, HandlerFails, Worker, WorkerHello,
     WorkerFirst, WorkerPersist, WorkerRunning, WorkerFails, WorkerEnds, WorkerAnswers,
     WorkerExits, agentVars
<1>8. CASE Connect(r)
  BY <1>6, <1>8 DEF Connect, Admit, Greet, HandleFinal, HandleResult, AliasRegistry, AliasQueue,
     ReportStarted, CloseQueue, CloseRegistry, agentVars
<1> QED BY <1>1, <1>2, <1>3, <1>4, <1>5, <1>7, <1>8 DEF Step, Handler

\* A restart of a session is remembered for good.
LEMMA RestartedKept ==
  ASSUME TypeInv, AgentInv, NEW r \in Requests, Step(r), NEW w \in Requests, Restarted(w)
  PROVE  Restarted(w)'
<1>0. RequestTypes /\ HandlerAt(r)
  BY DEF TypeInv, AgentInv
<1>1. PICK x \in Requests : kind[x] = "restart" /\ target[x] = w
  BY DEF Restarted
<1>2. CASE UNCHANGED <<kind, target>>
  BY <1>1, <1>2 DEF Restarted
<1>3. CASE Arrive(r)
  <2>1. pc[r] = "idle" /\ kind[r] = "none"
    BY <1>0, <1>3 DEF Arrive, BeginRun, BeginUnary, RestartResolve, HandlerAt
  <2>2. x # r BY <1>1, <2>1
  <2>3. kind'[x] = kind[x] /\ target'[x] = target[x]
    BY <1>0, <1>3, <2>2 DEF Arrive, BeginRun, BeginUnary, RestartResolve, RequestTypes
  <2> QED BY <1>1, <2>3 DEF Restarted
<1>4. CASE Handler(r)
  BY <1>2, <1>4 DEF Handler, Expect, Spawn, SpawnFails, Enlist, RunAnswered, GiveUp, PreviewReady,
     SendCall, UnaryAnswered, RestartStop, RestartKillFails, RestartReaped, RestartFails,
     RestartCleanup, RestartTell, RestartMark
<1>7. CASE Waiter(r) \/ HandlerFails(r) \/ Worker(r)
  BY <1>2, <1>7 DEF Waiter, WaiterForgets, WaiterDone, HandlerFails, Worker, WorkerHello,
     WorkerFirst, WorkerPersist, WorkerRunning, WorkerFails, WorkerEnds, WorkerAnswers,
     WorkerExits, agentVars
<1>8. CASE Connect(r)
  BY <1>2, <1>8 DEF Connect, Admit, Greet, HandleFinal, HandleResult, AliasRegistry, AliasQueue,
     ReportStarted, CloseQueue, CloseRegistry, agentVars
<1> QED BY <1>3, <1>4, <1>7, <1>8 DEF Step

\* A call stays registered until it is answered or failed: a restart fails
\* every call it unregisters.
LEMMA CallKept ==
  ASSUME TypeInv, AgentInv, NEW r \in Requests, Step(r), NEW u \in Requests
  PROVE  CallAt(u)'
<1>0. RequestTypes /\ HandlerAt(r) /\ CallAt(u)
  BY DEF TypeInv, AgentInv
<1>1. CASE Arrive(r)
  BY <1>0, <1>1 DEF Arrive, BeginRun, BeginUnary, RestartResolve, Goto, CallAt, RequestTypes
<1>2. CASE Expect(r) \/ Spawn(r) \/ Enlist(r) \/ PreviewReady(r)
  BY <1>0, <1>2 DEF Expect, Spawn, Enlist, PreviewReady, Goto, HandlerAt, CallAt, RequestTypes
<1>3. CASE SpawnFails(r) \/ RunAnswered(r) \/ GiveUp(r) \/ UnaryAnswered(r) \/ RestartKillFails(r)
           \/ RestartFails(r)
  BY <1>0, <1>3 DEF SpawnFails, RunAnswered, GiveUp, UnaryAnswered, RestartKillFails,
     RestartFails, Reply, CallAt, RequestTypes
<1>4. CASE SendCall(r)
  BY <1>0, <1>4 DEF SendCall, Reply, Goto, CallAt, RequestTypes
<1>5. CASE RestartStop(r) \/ RestartReaped(r) \/ RestartMark(r)
  BY <1>0, <1>5 DEF RestartStop, RestartReaped, RestartMark, Goto, CallAt, RequestTypes
<1>6. CASE RestartCleanup(r)
  BY <1>0, <1>6 DEF RestartCleanup, Goto, CallAt, RequestTypes
<1>11. CASE RestartTell(r)
  BY <1>0, <1>11 DEF RestartTell, Goto, CallAt, RequestTypes
<1>7. CASE HandleResult(r)
  BY <1>0, <1>7 DEF HandleResult, CallAt, RequestTypes
<1>8. CASE UNCHANGED <<kind, pc, replies, reply, taken>>
  BY <1>0, <1>8 DEF CallAt
<1>9. CASE Waiter(r) \/ HandlerFails(r) \/ Worker(r)
  BY <1>8, <1>9 DEF Waiter, WaiterForgets, WaiterDone, HandlerFails, Worker, WorkerHello,
     WorkerFirst, WorkerPersist, WorkerRunning, WorkerFails, WorkerEnds, WorkerAnswers,
     WorkerExits, agentVars
<1>10. CASE \/ Admit(r) \/ Greet(r) \/ HandleFinal(r) \/ AliasRegistry(r) \/ AliasQueue(r)
            \/ ReportStarted(r) \/ CloseQueue(r) \/ CloseRegistry(r)
  BY <1>8, <1>10 DEF Admit, Greet, HandleFinal, AliasRegistry, AliasQueue,
     ReportStarted, CloseQueue, CloseRegistry, agentVars
<1> QED BY <1>1, <1>2, <1>3, <1>4, <1>5, <1>6, <1>7, <1>9, <1>10, <1>11
        DEF Step, Handler, Connect


-----------------------------------------------------------------------------
(* The worker processes *)

\* A process is spawned, enlisted and reaped once, in this order, and sends
\* and is connected only in between.
LEMMA ProcessKept ==
  ASSUME TypeInv, AgentInv, NEW r \in Requests, Step(r), NEW w \in Requests
  PROVE  ProcessAt(w)'
<1>0. RequestTypes /\ WorkerTypes /\ HandlerAt(r) /\ ProcessAt(r) /\ ProcessAt(w)
  BY DEF TypeInv, AgentInv
<1>1. CASE Arrive(r)
  BY <1>0, <1>1 DEF Arrive, BeginRun, BeginUnary, RestartResolve, Goto, HandlerAt, ProcessAt,
     RequestTypes, connVars
<1>2. CASE Expect(r) \/ PreviewReady(r) \/ RestartReaped(r) \/ RestartCleanup(r) \/ RestartTell(r) \/ RestartMark(r)
  BY <1>0, <1>2 DEF Expect, PreviewReady, RestartReaped, RestartCleanup, RestartTell, RestartMark, Goto,
     HandlerAt, ProcessAt, RequestTypes, connVars
<1>3. CASE SpawnFails(r) \/ RunAnswered(r) \/ GiveUp(r) \/ UnaryAnswered(r) \/ RestartKillFails(r)
           \/ RestartFails(r)
  <2>1. UNCHANGED <<kind, worker, waiter, conn, toAgent>>
    BY <1>3 DEF SpawnFails, RunAnswered, GiveUp, UnaryAnswered, RestartKillFails, RestartFails, connVars
  <2>2. pc' = [pc EXCEPT ![r] = "done"] /\ \E a \in Answers : answer' = [answer EXCEPT ![r] = a]
                                            /\ (a = "started" => RunAnswered(r))
    BY <1>0, <1>3 DEF SpawnFails, RunAnswered, GiveUp, UnaryAnswered, RestartKillFails,
       RestartFails, Reply, RequestTypes, Replies, Answers
  <2>3. RunAnswered(r) => waiter[r] # "none"
    BY <1>0 DEF RunAnswered, ProcessAt
  <2> QED BY <1>0, <2>1, <2>2, <2>3 DEF ProcessAt, RequestTypes
<1>4. CASE SendCall(r)
  BY <1>0, <1>4 DEF SendCall, Reply, Goto, HandlerAt, ProcessAt, RequestTypes
<1>5. CASE Spawn(r)
  BY <1>0, <1>5 DEF Spawn, Goto, ProcessAt, RequestTypes, WorkerTypes, connVars
<1>6. CASE Enlist(r)
  BY <1>0, <1>6 DEF Enlist, Goto, HandlerAt, ProcessAt, RequestTypes, WorkerTypes, connVars
<1>7. CASE RestartStop(r)
  <2> DEFINE s == target[r]
  <2>1. s \in Requests
    BY <1>0, <1>7 DEF RestartStop, HandlerAt
  <2>2. \/ UNCHANGED <<worker, toAgent>>
        \/ worker[s] # "none" /\ worker' = [worker EXCEPT ![s] = "exited"]
           /\ \E n \in 0 .. Len(toAgent[s]) : toAgent' = [toAgent EXCEPT ![s] = SubSeq(@, 1, n)]
    BY <1>7 DEF RestartStop, Exits, Alive
  <2>3. UNCHANGED <<kind, answer, waiter, conn>>
    BY <1>7 DEF RestartStop
  <2>4. pc[r] = "stop" /\ \E l \in {"cleanup", "killed"} : pc' = [pc EXCEPT ![r] = l]
    BY <1>7 DEF RestartStop, Goto
  <2>5. CASE UNCHANGED <<worker, toAgent>>
    BY <1>0, <2>3, <2>4, <2>5 DEF ProcessAt, RequestTypes
  <2>6. CASE worker[s] # "none" /\ worker' = [worker EXCEPT ![s] = "exited"]
             /\ \E n \in 0 .. Len(toAgent[s]) : toAgent' = [toAgent EXCEPT ![s] = SubSeq(@, 1, n)]
    <3>1. w # s => worker'[w] = worker[w] /\ toAgent'[w] = toAgent[w]
      BY <1>0, <2>1, <2>6 DEF WorkerTypes
    <3>2. w = s => worker'[w] = "exited" /\ worker[w] # "none"
      BY <1>0, <2>1, <2>6 DEF WorkerTypes
    <3> HIDE DEF s
    <3> QED BY <1>0, <2>3, <2>4, <3>1, <3>2 DEF ProcessAt, RequestTypes
  <2> QED BY <2>2, <2>5, <2>6
<1>8. CASE Waiter(r)
  BY <1>0, <1>8 DEF Waiter, WaiterForgets, WaiterDone, ProcessAt, WorkerTypes, agentVars, connVars
<1>9. CASE Admit(r) \/ HandleFinal(r) \/ HandleResult(r) \/ AliasRegistry(r) \/ Greet(r)
           \/ AliasQueue(r) \/ ReportStarted(r) \/ HandlerFails(r) \/ CloseQueue(r) \/ CloseRegistry(r)
  <2>1. worker[r] # "none"
    BY <1>0, <1>9 DEF Admit, HandleFinal, HandleResult, AliasRegistry, Greet, AliasQueue,
       ReportStarted, HandlerFails, CloseQueue, CloseRegistry, ProcessAt
  <2>2. UNCHANGED <<kind, pc, answer, worker, waiter>>
    BY <1>9 DEF Admit, HandleFinal, HandleResult, AliasRegistry, Greet, AliasQueue,
       ReportStarted, HandlerFails, CloseQueue, CloseRegistry, agentVars
  <2>3. w # r => conn'[w] = conn[w] /\ toAgent'[w] = toAgent[w]
    BY <1>0, <1>9 DEF Admit, HandleFinal, HandleResult, AliasRegistry, Greet, AliasQueue,
       ReportStarted, HandlerFails, CloseQueue, CloseRegistry, Received, ConnTo, WorkerTypes
  <2> QED BY <1>0, <2>1, <2>2, <2>3 DEF ProcessAt
<1>10. CASE Worker(r)
  <2>1. worker[r] # "none"
    BY <1>10 DEF Worker, WorkerHello, WorkerFirst, WorkerPersist, WorkerRunning, WorkerFails,
       WorkerEnds, WorkerAnswers, WorkerExits, Alive
  <2>2. UNCHANGED <<kind, pc, answer, conn, waiter>>
    BY <1>10 DEF Worker, WorkerHello, WorkerFirst, WorkerPersist, WorkerRunning, WorkerFails,
       WorkerEnds, WorkerAnswers, WorkerExits, agentVars, connVars
  <2>3. w # r => worker'[w] = worker[w] /\ toAgent'[w] = toAgent[w]
    BY <1>0, <1>10 DEF Worker, WorkerHello, WorkerFirst, WorkerPersist, WorkerRunning, WorkerFails,
       WorkerEnds, WorkerAnswers, WorkerExits, WorkerTo, Send, Exits, DispatchCall, WorkerTypes,
       connVars
  <2>4. worker'[r] # "none" /\ (worker[r] = "exited" => worker'[r] = "exited")
    BY <1>0, <1>10 DEF Worker, WorkerHello, WorkerFirst, WorkerPersist, WorkerRunning, WorkerFails,
       WorkerEnds, WorkerAnswers, WorkerExits, WorkerTo, Exits, Alive, WorkerTypes
  <2> QED BY <1>0, <2>1, <2>2, <2>3, <2>4 DEF ProcessAt
<1> QED BY <1>1, <1>2, <1>3, <1>4, <1>5, <1>6, <1>7, <1>8, <1>9, <1>10
        DEF Step, Handler, Connect


-----------------------------------------------------------------------------
(* Failures *)

\* A worker on its way out does not come back.
LEMMA OutKept ==
  ASSUME TypeInv, AgentInv, NEW r \in Requests, Step(r), NEW w \in Requests, Out(w)
  PROVE  Out(w)'
<1>0. WorkerTypes /\ ProcessAt(r) /\ HandlerAt(r)
  BY DEF TypeInv, AgentInv
<1>1. CASE UNCHANGED worker
  BY <1>1 DEF Out
<1>2. CASE Spawn(r)
  BY <1>0, <1>2 DEF Spawn, ProcessAt, Out, WorkerTypes
<1>3. CASE RestartStop(r)
  <2>1. target[r] \in Requests BY <1>0, <1>3 DEF RestartStop, HandlerAt
  <2> QED BY <1>0, <1>3, <2>1 DEF RestartStop, Exits, Out, WorkerTypes
<1>4. CASE Worker(r)
  BY <1>0, <1>4 DEF Worker, WorkerHello, WorkerFirst, WorkerPersist, WorkerRunning, WorkerFails,
     WorkerEnds, WorkerAnswers, WorkerExits, WorkerTo, Exits, Out, WorkerTypes
<1>5. CASE Arrive(r) \/ Waiter(r) \/ Connect(r) \/ HandlerFails(r)
  BY <1>1, <1>5 DEF Arrive, BeginRun, BeginUnary, RestartResolve, Waiter, WaiterForgets,
     WaiterDone, Connect, Admit, Greet, HandleFinal, HandleResult, AliasRegistry, AliasQueue,
     ReportStarted, CloseQueue, CloseRegistry, HandlerFails
<1>6. CASE \/ Expect(r) \/ SpawnFails(r) \/ Enlist(r) \/ RunAnswered(r) \/ GiveUp(r)
           \/ PreviewReady(r) \/ SendCall(r) \/ UnaryAnswered(r) \/ RestartKillFails(r)
           \/ RestartReaped(r) \/ RestartFails(r) \/ RestartCleanup(r) \/ RestartTell(r) \/ RestartMark(r)
  BY <1>1, <1>6 DEF Expect, SpawnFails, Enlist, RunAnswered, GiveUp, PreviewReady, SendCall,
     UnaryAnswered, RestartKillFails, RestartReaped, RestartFails, RestartCleanup, RestartTell, RestartMark
<1> QED BY <1>2, <1>3, <1>4, <1>5, <1>6 DEF Step, Handler

\* Taking frames from the queue of a worker adds no failure to it, and
\* appending adds the one appended.
LEMMA FailedFrames ==
  ASSUME WorkerTypes, NEW w \in Requests
  PROVE  /\ toAgent[w] # <<>> /\ toAgent'[w] = Tail(toAgent[w]) /\ FailedFrame(w)' => FailedFrame(w)
         /\ toAgent'[w] = toAgent[w] /\ FailedFrame(w)' => FailedFrame(w)
         /\ toAgent'[w] = <<>> => ~FailedFrame(w)'
         /\ \A n \in 0 .. Len(toAgent[w]) :
              toAgent'[w] = SubSeq(toAgent[w], 1, n) /\ FailedFrame(w)' => FailedFrame(w)
         /\ \A f \in Frames :
              toAgent'[w] = Append(toAgent[w], f) /\ FailedFrame(w)' /\ f[1] # "failed"
              => FailedFrame(w)
         /\ toAgent[w] # <<>> /\ Head(toAgent[w])[1] = "failed" => FailedFrame(w)
<1>0. toAgent[w] \in Seq(Frames) BY DEF WorkerTypes
<1> DEFINE q == toAgent[w]
<1>1. ASSUME q # <<>>, toAgent'[w] = Tail(q), FailedFrame(w)' PROVE FailedFrame(w)
  <2>1. PICK i \in 1 .. Len(Tail(q)) : Tail(q)[i][1] = "failed"
    BY <1>1 DEF FailedFrame
  <2>2. i + 1 \in 1 .. Len(q) /\ Tail(q)[i] = q[i + 1]
    BY <1>0, <1>1, <2>1
  <2> QED BY <2>1, <2>2 DEF FailedFrame
<1>2. ASSUME NEW n \in 0 .. Len(q), toAgent'[w] = SubSeq(q, 1, n), FailedFrame(w)'
      PROVE  FailedFrame(w)
  <2>1. PICK i \in 1 .. Len(SubSeq(q, 1, n)) : SubSeq(q, 1, n)[i][1] = "failed"
    BY <1>2 DEF FailedFrame
  <2>2. i \in 1 .. Len(q) /\ SubSeq(q, 1, n)[i] = q[i]
    BY <1>0, <2>1
  <2> QED BY <2>1, <2>2 DEF FailedFrame
<1>3. ASSUME NEW f \in Frames, toAgent'[w] = Append(q, f), FailedFrame(w)', f[1] # "failed"
      PROVE  FailedFrame(w)
  <2>1. PICK i \in 1 .. Len(Append(q, f)) : Append(q, f)[i][1] = "failed"
    BY <1>3 DEF FailedFrame
  <2>2. i \in 1 .. Len(q) /\ Append(q, f)[i] = q[i]
    BY <1>0, <1>3, <2>1
  <2> QED BY <2>1, <2>2 DEF FailedFrame
<1>4. toAgent'[w] = q /\ FailedFrame(w)' => FailedFrame(w)
  BY DEF FailedFrame
<1>5. toAgent'[w] = <<>> => ~FailedFrame(w)'
  BY DEF FailedFrame
<1>6. q # <<>> /\ Head(q)[1] = "failed" => FailedFrame(w)
  <2>1. q # <<>> => 1 \in 1 .. Len(q) /\ Head(q) = q[1] BY <1>0
  <2> QED BY <2>1 DEF FailedFrame
<1> QED BY <1>1, <1>2, <1>3, <1>4, <1>5, <1>6


\* A start becomes failed when the frame that says so is handled.
LEMMA FailedOrigin ==
  ASSUME TypeInv, AgentInv, NEW r \in Requests, Step(r), NEW w \in Requests, w \in failed'
  PROVE  w \in failed \/ FailedFrame(w)
<1>0. WorkerTypes BY DEF TypeInv
<1>1. CASE HandleFinal(r)
  BY <1>0, <1>1, FailedFrames DEF HandleFinal, Head1
<1>2. CASE failed' \subseteq failed
  BY <1>2
<1>3. CASE Arrive(r) \/ Handler(r)
  BY <1>2, <1>3 DEF Arrive, BeginRun, BeginUnary, RestartResolve, Handler, Expect, Spawn,
     SpawnFails, Enlist, RunAnswered, GiveUp, PreviewReady, SendCall, UnaryAnswered, RestartStop,
     RestartKillFails, RestartReaped, RestartFails, RestartCleanup, RestartTell, RestartMark, Reply
<1>4. CASE Waiter(r) \/ HandlerFails(r) \/ Worker(r)
  BY <1>2, <1>4 DEF Waiter, WaiterForgets, WaiterDone, HandlerFails, Worker, WorkerHello,
     WorkerFirst, WorkerPersist, WorkerRunning, WorkerFails, WorkerEnds, WorkerAnswers,
     WorkerExits, agentVars
<1>5. CASE \/ Admit(r) \/ Greet(r) \/ HandleResult(r) \/ AliasRegistry(r) \/ AliasQueue(r)
           \/ ReportStarted(r) \/ CloseQueue(r) \/ CloseRegistry(r)
  BY <1>2, <1>5 DEF Admit, Greet, HandleResult, AliasRegistry, AliasQueue,
     ReportStarted, CloseQueue, CloseRegistry, agentVars
<1> QED BY <1>1, <1>3, <1>4, <1>5 DEF Step, Connect

\* A caller is told of a failure when its start is failed.
LEMMA FailedAnswer ==
  ASSUME TypeInv, AgentInv, NEW r \in Requests, Step(r), NEW w \in Requests, answer'[w] = "failed"
  PROVE  answer[w] = "failed" \/ w \in failed
<1>0. RequestTypes BY DEF TypeInv
<1>1. ASSUME NEW a, Reply(r, a), a # "failed" PROVE answer[w] = "failed"
  BY <1>0, <1>1 DEF Reply, RequestTypes
<1>2. CASE UNCHANGED answer
  BY <1>2
<1>3. CASE RunAnswered(r)
  BY <1>0, <1>1, <1>3 DEF RunAnswered, Reply, RequestTypes
<1>4. CASE UnaryAnswered(r)
  <2>1. reply[r] # "failed" BY <1>0 DEF RequestTypes, Replies
  <2> QED BY <1>1, <1>4, <2>1 DEF UnaryAnswered
<1>5. CASE SpawnFails(r) \/ GiveUp(r) \/ RestartKillFails(r) \/ RestartFails(r) \/ SendCall(r)
  BY <1>1, <1>2, <1>5 DEF SpawnFails, GiveUp, RestartKillFails, RestartFails, SendCall
<1>6. CASE \/ Arrive(r) \/ Expect(r) \/ Spawn(r) \/ Enlist(r) \/ PreviewReady(r) \/ RestartStop(r)
           \/ RestartReaped(r) \/ RestartCleanup(r) \/ RestartTell(r) \/ RestartMark(r)
  BY <1>2, <1>6 DEF Arrive, BeginRun, BeginUnary, RestartResolve, Expect, Spawn,
     Enlist, PreviewReady, RestartStop, RestartReaped, RestartCleanup, RestartTell, RestartMark
<1>7. CASE Waiter(r) \/ HandlerFails(r) \/ Worker(r)
  BY <1>2, <1>7 DEF Waiter, WaiterForgets, WaiterDone, HandlerFails, Worker, WorkerHello,
     WorkerFirst, WorkerPersist, WorkerRunning, WorkerFails, WorkerEnds, WorkerAnswers,
     WorkerExits, agentVars
<1>8. CASE Connect(r)
  BY <1>2, <1>8 DEF Connect, Admit, Greet, HandleFinal, HandleResult, AliasRegistry, AliasQueue,
     ReportStarted, CloseQueue, CloseRegistry, agentVars
<1> QED BY <1>3, <1>4, <1>5, <1>6, <1>7, <1>8 DEF Step, Handler

\* A worker that sends a failure is on its way out.
LEMMA FailureSent ==
  ASSUME TypeInv, AgentInv, NEW r \in Requests, Step(r), NEW w \in Requests, FailedFrame(w)'
  PROVE  FailedFrame(w) \/ Out(w)'
<1>0. WorkerTypes /\ HandlerAt(r) BY DEF TypeInv, AgentInv
<1>1. CASE toAgent'[w] = toAgent[w]
  BY <1>0, <1>1, FailedFrames
<1>2. CASE RestartStop(r)
  <2>1. target[r] \in Requests BY <1>0, <1>2 DEF RestartStop, HandlerAt
  <2>2. \/ toAgent'[w] = toAgent[w]
        \/ \E n \in 0 .. Len(toAgent[w]) : toAgent'[w] = SubSeq(toAgent[w], 1, n)
    <3> DEFINE s == target[r]
    <3>1. \/ UNCHANGED toAgent
          \/ \E n \in 0 .. Len(toAgent[s]) : toAgent' = [toAgent EXCEPT ![s] = SubSeq(@, 1, n)]
      BY <1>2 DEF RestartStop, Exits
    <3> HIDE DEF s
    <3> QED BY <1>0, <2>1, <3>1 DEF WorkerTypes
  <2> QED BY <1>0, <2>2, FailedFrames
<1>3. CASE Admit(r) \/ HandleFinal(r) \/ HandleResult(r) \/ AliasRegistry(r)
  <2>1. toAgent'[w] = toAgent[w] \/ (toAgent[w] # <<>> /\ toAgent'[w] = Tail(toAgent[w]))
    BY <1>0, <1>3 DEF Admit, HandleFinal, HandleResult, AliasRegistry, Received, WorkerTypes
  <2> QED BY <1>0, <2>1, FailedFrames
<1>4. CASE CloseQueue(r)
  <2>1. toAgent'[w] = toAgent[w] \/ toAgent'[w] = <<>>
    BY <1>0, <1>4 DEF CloseQueue, WorkerTypes
  <2> QED BY <1>0, <2>1, FailedFrames
<1>5. CASE WorkerHello(r) \/ WorkerRunning(r)
  <2>1. \A f \in {"hello", "running"} : <<f, r>> \in Frames /\ <<f, r>>[1] # "failed"
    BY DEF Frames
  <2>2. \/ toAgent'[w] = toAgent[w]
        \/ \E f \in {"hello", "running"} : toAgent'[w] = Append(toAgent[w], <<f, r>>)
    BY <1>0, <1>5 DEF WorkerHello, WorkerRunning, Send, WorkerTypes
  <2> QED BY <1>0, <2>1, <2>2, FailedFrames
<1>6. CASE WorkerFails(r) \/ WorkerEnds(r)
  <2>1. w # r => toAgent'[w] = toAgent[w]
    BY <1>0, <1>6 DEF WorkerFails, WorkerEnds, Send, WorkerTypes
  <2>2. w = r => Out(w)'
    BY <1>0, <1>6 DEF WorkerFails, WorkerEnds, WorkerTo, Out, WorkerTypes
  <2> QED BY <2>1, <2>2, <1>0, FailedFrames
<1>7. CASE WorkerFirst(r) \/ WorkerAnswers(r)
  <2> DEFINE f == <<"result", Head(toWorker[r])[2]>>
  <2>1. f \in Frames /\ f[1] # "failed"
    BY <1>0, <1>7, ResultFrame DEF WorkerFirst, WorkerAnswers
  <2>2. toAgent'[w] = toAgent[w] \/ toAgent'[w] = Append(toAgent[w], f)
    BY <1>0, <1>7 DEF WorkerFirst, WorkerAnswers, DispatchCall, WorkerTypes
  <2> HIDE DEF f
  <2> QED BY <1>0, <2>1, <2>2, FailedFrames
<1>8. CASE WorkerExits(r)
  <2>2. \/ toAgent'[w] = toAgent[w]
        \/ \E n \in 0 .. Len(toAgent[w]) : toAgent'[w] = SubSeq(toAgent[w], 1, n)
    BY <1>0, <1>8 DEF WorkerExits, Exits, WorkerTypes
  <2> QED BY <1>0, <2>2, FailedFrames
<1>9. CASE \/ Arrive(r) \/ Waiter(r) \/ HandlerFails(r) \/ WorkerPersist(r) \/ Greet(r)
           \/ AliasQueue(r) \/ ReportStarted(r) \/ CloseRegistry(r)
  BY <1>1, <1>9 DEF Arrive, BeginRun, BeginUnary, RestartResolve, Waiter, WaiterForgets, WaiterDone,
     HandlerFails, WorkerPersist, Greet, AliasQueue, ReportStarted, CloseRegistry, connVars
<1>10. CASE \/ Expect(r) \/ Spawn(r) \/ SpawnFails(r) \/ Enlist(r) \/ RunAnswered(r) \/ GiveUp(r)
            \/ PreviewReady(r) \/ SendCall(r) \/ UnaryAnswered(r) \/ RestartKillFails(r)
            \/ RestartReaped(r) \/ RestartFails(r) \/ RestartCleanup(r) \/ RestartTell(r) \/ RestartMark(r)
  BY <1>1, <1>10 DEF Expect, Spawn, SpawnFails, Enlist, RunAnswered, GiveUp, PreviewReady, SendCall,
     UnaryAnswered, RestartKillFails, RestartReaped, RestartFails, RestartCleanup, RestartTell, RestartMark,
     connVars
<1> QED BY <1>2, <1>3, <1>4, <1>5, <1>6, <1>7, <1>8, <1>9, <1>10
        DEF Step, Handler, Connect, Worker

LEMMA FailureKept ==
  ASSUME TypeInv, AgentInv, NEW r \in Requests, Step(r), NEW w \in Requests
  PROVE  FailureAt(w)'
<1>1. FailureAt(w) BY DEF AgentInv
<1>2. Out(w) => Out(w)' BY OutKept
<1>3. w \in failed' => w \in failed \/ FailedFrame(w) BY FailedOrigin
<1>4. answer'[w] = "failed" => answer[w] = "failed" \/ w \in failed BY FailedAnswer
<1>5. FailedFrame(w)' => FailedFrame(w) \/ Out(w)' BY FailureSent
<1> HIDE DEF Out, FailedFrame
<1> QED BY <1>1, <1>2, <1>3, <1>4, <1>5 DEF FailureAt


-----------------------------------------------------------------------------
(* The tables *)

\* What a queue may hold, whatever is taken from it or put into it.
LEMMA QueueKept ==
  ASSUME TypeInv, AgentInv, NEW r \in Requests, Step(r), NEW w \in Requests
  PROVE  QueueAt(w)'
<1>0. /\ SetTypes /\ WorkerTypes /\ QueueAt(r) /\ QueueAt(w)
      /\ QueueCap \in Nat \ {0}
  BY AgentAssumption DEF TypeInv, AgentInv
<1>1. /\ toWorker[r] \in Seq(Orders) /\ toWorker[w] \in Seq(Orders)
      /\ toWorker \in [Requests -> Seq(Orders)] /\ conn \in [Requests -> Links]
  BY <1>0 DEF WorkerTypes
<1>2. CASE UNCHANGED <<conn, outbound, toWorker>>
  BY <1>0, <1>2 DEF QueueAt
<1>3. CASE SendCall(r)
  <2> DEFINE id == CallId(r)
  <2>1. CASE id \in outbound /\ Len(toWorker[id[2]]) < QueueCap
    <3>1. id \in Ids /\ id[2] \in Requests
      BY <1>0, <2>1, IdOwner DEF SetTypes
    <3>2. id \in OfWorker(id[2])
      BY <3>1 DEF Ids, OfWorker, Pending, Real
    <3>3. UNCHANGED <<conn, outbound>> /\ toWorker' = [toWorker EXCEPT ![id[2]] = Append(@, <<"call", r>>)]
      BY <1>3, <2>1 DEF SendCall, tables
    <3>4. w # id[2] => toWorker'[w] = toWorker[w]
      BY <1>1, <3>1, <3>3
    <3>5. ASSUME w = id[2]
          PROVE  conn[w] \notin {"none", "admitted"} /\ Len(toWorker'[w]) = Len(toWorker[w]) + 1
                 /\ Len(toWorker[w]) < QueueCap
      <4>1. conn[w] \notin {"none", "admitted"}
        BY <1>0, <2>1, <3>2, <3>5 DEF QueueAt
      <4>2. toWorker'[w] = Append(toWorker[w], <<"call", r>>)
        BY <1>1, <3>1, <3>3, <3>5
      <4> QED BY <1>1, <2>1, <3>5, <4>1, <4>2
    <3>6. Len(toWorker[w]) \in Nat BY <1>1
    <3> QED BY <1>0, <3>3, <3>4, <3>5, <3>6 DEF QueueAt
  <2>2. CASE ~(id \in outbound /\ Len(toWorker[id[2]]) < QueueCap)
    BY <1>2, <1>3, <2>2 DEF SendCall, tables
  <2> QED BY <2>1, <2>2
<1>4. CASE Greet(r)
  <2>1. OfWorker(w) \cap outbound = OfWorker(w) \cap outbound' \/ w = r
    BY <1>4, IdFacts DEF Greet, OfWorker
  <2>2. w # r => conn'[w] = conn[w] /\ toWorker'[w] = toWorker[w]
    BY <1>1, <1>4 DEF Greet, ConnTo
  <2>3. conn'[r] = "open"
    BY <1>1, <1>4 DEF Greet, ConnTo
  <2>4. toWorker[r] = <<>> BY <1>0, <1>4 DEF Greet, QueueAt
  <2>5. toWorker'[r] = <<>> \/ toWorker'[r] = Append(<<>>, <<"start", r>>)
    BY <1>1, <1>4, <2>4 DEF Greet
  <2>6. Len(toWorker'[r]) <= QueueCap
    BY <1>0, <2>5
  <2> QED BY <1>0, <2>1, <2>2, <2>3, <2>6 DEF QueueAt
<1>5. CASE AliasQueue(r)
  <2>1. OfWorker(w) \cap outbound = OfWorker(w) \cap outbound' \/ w = r
    BY <1>5, IdFacts DEF AliasQueue, OfWorker
  <2> QED BY <1>0, <1>1, <1>5, <2>1 DEF AliasQueue, ConnTo, QueueAt
<1>6. CASE CloseQueue(r)
  <2>1. OfWorker(r) \cap outbound' = {} /\ outbound' \subseteq outbound
    BY <1>6 DEF CloseQueue
  <2>2. w # r => conn'[w] = conn[w] /\ toWorker'[w] = toWorker[w]
    BY <1>1, <1>6 DEF CloseQueue, ConnTo
  <2>3. conn'[r] = "torn" /\ toWorker'[r] = <<>>
    BY <1>1, <1>6 DEF CloseQueue, ConnTo
  <2> QED BY <1>0, <2>1, <2>2, <2>3 DEF QueueAt
<1>7. CASE Admit(r) \/ AliasRegistry(r) \/ ReportStarted(r) \/ CloseRegistry(r) \/ HandlerFails(r)
  <2>1. UNCHANGED <<outbound, toWorker>>
    BY <1>7 DEF Admit, AliasRegistry, ReportStarted, CloseRegistry, HandlerFails, tables
  <2>2. w # r => conn'[w] = conn[w]
    BY <1>1, <1>7 DEF Admit, AliasRegistry, ReportStarted, CloseRegistry, HandlerFails, ConnTo
  <2>3. \/ conn[r] = "none"
        \/ conn'[r] \in {"registered", "again", "broken", "open"}
        \/ conn[r] = "torn" /\ conn'[r] = "closed"
    BY <1>1, <1>7 DEF Admit, AliasRegistry, ReportStarted, CloseRegistry, HandlerFails, ConnTo
  <2> QED BY <1>0, <2>1, <2>2, <2>3 DEF QueueAt
<1>8. CASE WorkerFirst(r) \/ WorkerAnswers(r)
  <2>1. UNCHANGED <<conn, outbound>> /\ toWorker[r] # <<>>
        /\ toWorker' = [toWorker EXCEPT ![r] = Tail(@)]
    BY <1>8 DEF WorkerFirst, WorkerAnswers, tables
  <2>2. Len(toWorker[r]) \in Nat /\ Len(Tail(toWorker[r])) = Len(toWorker[r]) - 1
    BY <1>1, <2>1
  <2>3. w # r => toWorker'[w] = toWorker[w]
    BY <1>1, <2>1
  <2>4. toWorker'[r] = Tail(toWorker[r])
    BY <1>1, <2>1
  <2> QED BY <1>0, <2>1, <2>2, <2>3, <2>4 DEF QueueAt
<1>9. CASE \/ Arrive(r) \/ Waiter(r) \/ HandleFinal(r) \/ HandleResult(r) \/ WorkerHello(r)
           \/ WorkerPersist(r) \/ WorkerRunning(r) \/ WorkerFails(r) \/ WorkerEnds(r)
           \/ WorkerExits(r)
  BY <1>2, <1>9 DEF Arrive, BeginRun, BeginUnary, RestartResolve, Waiter, WaiterForgets, WaiterDone,
     HandleFinal, HandleResult, WorkerHello, WorkerPersist, WorkerRunning, WorkerFails,
     WorkerEnds, WorkerExits, tables, connVars
<1>10. CASE \/ Expect(r) \/ Spawn(r) \/ SpawnFails(r) \/ Enlist(r) \/ RunAnswered(r) \/ GiveUp(r)
            \/ PreviewReady(r) \/ UnaryAnswered(r) \/ RestartStop(r) \/ RestartKillFails(r)
            \/ RestartReaped(r) \/ RestartFails(r) \/ RestartCleanup(r) \/ RestartTell(r) \/ RestartMark(r)
  BY <1>2, <1>10 DEF Expect, Spawn, SpawnFails, Enlist, RunAnswered, GiveUp, PreviewReady,
     UnaryAnswered, RestartStop, RestartKillFails, RestartReaped, RestartFails, RestartCleanup, RestartTell,
     RestartMark, tables, connVars
<1> QED BY <1>3, <1>4, <1>5, <1>6, <1>7, <1>8, <1>9, <1>10
        DEF Step, Handler, Connect, Worker

\* Forgetting a worker takes both its ids out of the registry when the id it
\* is forgotten by is active, and touches no other worker.
LEMMA ForgetFacts ==
  ASSUME SetTypes, NEW x \in Requests, NEW w \in Requests,
         NEW id \in OfWorker(x), ForgetWorker(id)
  PROVE  /\ expected' = expected \ {id}
         /\ active' \subseteq active
         /\ w # x => OfWorker(w) \cap active' = OfWorker(w) \cap active
         /\ id \in active => OfWorker(x) \cap active' = {}
         /\ id \notin active => active' = active
         /\ w # x => (Pending(w) \in expected' <=> Pending(w) \in expected)
<1>1. id[2] = x
  BY IdFacts DEF OfWorker
<1>2. w # x => OfWorker(w) \cap OfWorker(x) = {}
  BY IdFacts DEF OfWorker
<1> QED BY <1>1, <1>2 DEF ForgetWorker, OfWorker


\* Taking ids out of the tables erases, whoever does it.
LEMMA ErasedByForgetting ==
  ASSUME SetTypes, NEW x \in Requests, NEW w \in Requests,
         NEW id \in OfWorker(x), ForgetWorker(id),
         managed' = managed \/ managed' = managed \ OfWorker(x),
         UNCHANGED <<waiter, conn>>, ErasedAt(w)
  PROVE  ErasedAt(w)'
<1>1. expected' \subseteq expected /\ active' \subseteq active /\ managed' \subseteq managed
  BY ForgetFacts
<1>2. Real(w) \in active' => Pending(w) \in active'
  <2>1. CASE w # x
    BY <2>1, ForgetFacts DEF ErasedAt, OfWorker
  <2>2. CASE w = x
    <3>1. id \in active => Real(w) \notin active'
      BY <2>2, ForgetFacts DEF OfWorker
    <3>2. id \notin active => active' = active
      BY ForgetFacts
    <3> QED BY <3>1, <3>2 DEF ErasedAt
  <2> QED BY <2>1, <2>2
<1> QED BY <1>1, <1>2 DEF ErasedAt

\* The waiter, the connection handler and a restart erase a worker's ids in
\* any order, and no step enters them again.
LEMMA ErasedKept ==
  ASSUME TypeInv, AgentInv, NEW r \in Requests, Step(r), NEW w \in Requests
  PROVE  ErasedAt(w)'
<1>0. /\ SetTypes /\ WorkerTypes /\ HandlerAt(r) /\ ProcessAt(r)
      /\ ErasedAt(r) /\ ErasedAt(w)
  BY DEF TypeInv, AgentInv
<1>1. waiter \in [Requests -> Waits] /\ conn \in [Requests -> Links]
  BY <1>0 DEF WorkerTypes
<1>2. CASE UNCHANGED <<expected, active, managed, waiter, conn>>
  BY <1>0, <1>2 DEF ErasedAt
<1>3. CASE Expect(r)
  <2>1. UNCHANGED <<active, managed, waiter, conn>> /\ expected' = expected \cup {Pending(r)}
    BY <1>3 DEF Expect, connVars
  <2>2. waiter[r] = "none"
    BY <1>0, <1>3 DEF Expect, ProcessAt
  <2>3. Real(w) # Pending(r) /\ (Pending(w) = Pending(r) => w = r)
    BY IdFacts
  <2> QED BY <1>0, <2>1, <2>2, <2>3 DEF ErasedAt
<1>4. CASE SpawnFails(r)
  <2>1. UNCHANGED <<managed, waiter, conn>> /\ ForgetWorker(Pending(r)) /\ Pending(r) \in OfWorker(r)
    BY <1>4 DEF SpawnFails, connVars, OfWorker
  <2> QED BY <1>0, <2>1, ErasedByForgetting
<1>5. CASE Enlist(r)
  <2>1. UNCHANGED <<active, expected, conn>> /\ managed' = managed \cup {Pending(r)}
        /\ waiter' = [waiter EXCEPT ![r] = "waiting"]
    BY <1>5 DEF Enlist, connVars
  <2>2. Real(w) # Pending(r) /\ (Pending(w) = Pending(r) => w = r)
    BY IdFacts
  <2> QED BY <1>0, <1>1, <2>1, <2>2 DEF ErasedAt, OfWorker
<1>6. CASE RestartStop(r) \/ RestartKillFails(r) \/ RestartReaped(r)
  <2> DEFINE s == target[r]
  <2>1. s \in Requests /\ Real(s) \in OfWorker(s)
    BY <1>0, <1>6 DEF RestartStop, RestartKillFails, RestartReaped, HandlerAt, OfWorker
  <2>2. \/ UNCHANGED <<expected, active, managed, waiter, conn>>
        \/ /\ UNCHANGED <<waiter, conn>> /\ ForgetWorker(Real(s))
           /\ (managed' = managed \/ managed' = managed \ OfWorker(s))
    BY <1>6 DEF RestartStop, RestartKillFails, RestartReaped, ForgetManaged, connVars
  <2> HIDE DEF s
  <2> QED BY <1>0, <1>2, <2>1, <2>2, ErasedByForgetting
<1>7. CASE WaiterForgets(r)
  <2>1. UNCHANGED <<managed, conn>> /\ ForgetWorker(Pending(r)) /\ Pending(r) \in OfWorker(r)
        /\ waiter[r] = "waiting" /\ waiter' = [waiter EXCEPT ![r] = "forgot"]
    BY <1>7 DEF WaiterForgets, connVars, OfWorker
  <2>2. /\ expected' = expected \ {Pending(r)} /\ active' \subseteq active
        /\ Real(w) \in active' => Pending(w) \in active'
    BY <1>0, <2>1, ForgetFacts DEF ErasedAt, OfWorker
  <2> QED BY <1>0, <1>1, <2>1, <2>2 DEF ErasedAt
<1>8. CASE WaiterDone(r)
  BY <1>0, <1>1, <1>8 DEF WaiterDone, ForgetManaged, ErasedAt, connVars
<1>9. CASE Admit(r)
  <2>1. UNCHANGED <<managed, waiter>> /\ conn[r] = "none" /\ expected' \subseteq expected
    BY <1>9 DEF Admit
  <2>2. \/ UNCHANGED active /\ conn' = [conn EXCEPT ![r] = "closed"]
        \/ active' = active \cup {Pending(r)} /\ conn' = [conn EXCEPT ![r] = "admitted"]
    BY <1>9 DEF Admit, ConnTo
  <2>3. Real(w) # Pending(r) /\ (Pending(w) = Pending(r) => w = r)
    BY IdFacts
  <2> QED BY <1>0, <1>1, <2>1, <2>2, <2>3 DEF ErasedAt, OfWorker
<1>10. CASE Greet(r) \/ AliasQueue(r) \/ HandlerFails(r) \/ CloseQueue(r)
  <2>1. w # r => conn'[w] = conn[w]
    BY <1>1, <1>10 DEF Greet, AliasQueue, HandlerFails, CloseQueue, ConnTo, tables
  <2>2. conn'[r] \in {"open", "queued", "broken", "torn"} /\ UNCHANGED <<expected, active, managed, waiter>>
    BY <1>1, <1>10 DEF Greet, AliasQueue, HandlerFails, CloseQueue, ConnTo, tables
  <2> QED BY <1>0, <2>1, <2>2 DEF ErasedAt
<1>11. CASE AliasRegistry(r)
  <2>1. UNCHANGED <<expected, managed, waiter>> /\ conn[r] \in {"open", "queued"}
    BY <1>11 DEF AliasRegistry
  <2>2. active' = active \/ (active' = active \cup {Real(r)} /\ Pending(r) \in active)
    BY <1>11 DEF AliasRegistry
  <2>3. conn'[r] \in {"registered", "again", "broken"} /\ (w # r => conn'[w] = conn[w])
    BY <1>1, <1>11 DEF AliasRegistry, ConnTo
  <2>4. Pending(w) # Real(r) /\ (Real(w) = Real(r) => w = r)
    BY IdFacts
  <2> QED BY <1>0, <2>1, <2>2, <2>3, <2>4 DEF ErasedAt, OfWorker
<1>12. CASE ReportStarted(r)
  <2>1. UNCHANGED <<expected, active, waiter>> /\ conn'[r] = "open" /\ (w # r => conn'[w] = conn[w])
    BY <1>1, <1>12 DEF ReportStarted, ConnTo
  <2>2. \/ managed' = managed
        \/ managed' = managed \cup {Real(r)} /\ managed \cap OfWorker(r) # {}
    BY <1>12, IdFacts DEF ReportStarted, Found, OfWorker
  <2>3. Pending(w) # Real(r) /\ (Real(w) = Real(r) => w = r)
    BY IdFacts
  <2> QED BY <1>0, <2>1, <2>2, <2>3 DEF ErasedAt, OfWorker
<1>13. CASE CloseRegistry(r)
  <2>1. UNCHANGED <<managed, waiter>> /\ ForgetWorker(Pending(r)) /\ Pending(r) \in OfWorker(r)
        /\ conn' = [conn EXCEPT ![r] = "closed"]
    BY <1>13 DEF CloseRegistry, ConnTo, OfWorker
  <2>2. /\ expected' \subseteq expected /\ active' \subseteq active
        /\ Real(w) \in active' => Pending(w) \in active'
    BY <1>0, <2>1, ForgetFacts DEF ErasedAt, OfWorker
  <2>3. OfWorker(r) \cap active' = {}
    BY <1>0, <2>1, ForgetFacts DEF ErasedAt, OfWorker
  <2> QED BY <1>0, <1>1, <2>1, <2>2, <2>3 DEF ErasedAt
<1>14. CASE Arrive(r) \/ HandleFinal(r) \/ HandleResult(r) \/ Worker(r)
  BY <1>2, <1>14 DEF Arrive, BeginRun, BeginUnary, RestartResolve, HandleFinal, HandleResult,
     Worker, WorkerHello, WorkerFirst, WorkerPersist, WorkerRunning, WorkerFails,
     WorkerEnds, WorkerAnswers, WorkerExits, tables, connVars
<1>15. CASE \/ Spawn(r) \/ RunAnswered(r) \/ GiveUp(r) \/ PreviewReady(r) \/ SendCall(r)
            \/ UnaryAnswered(r) \/ RestartFails(r) \/ RestartCleanup(r) \/ RestartTell(r) \/ RestartMark(r)
  BY <1>2, <1>15 DEF Spawn, RunAnswered, GiveUp, PreviewReady, SendCall, UnaryAnswered,
     RestartFails, RestartCleanup, RestartTell, RestartMark, tables, connVars
<1> QED BY <1>3, <1>4, <1>5, <1>6, <1>7, <1>8, <1>9, <1>10, <1>11, <1>12, <1>13, <1>14, <1>15
        DEF Step, Handler, Waiter, Connect


\* A worker that runs and was not restarted was so before the step, unless
\* the step spawns it.
LEMMA CalmBefore ==
  ASSUME TypeInv, AgentInv, NEW r \in Requests, Step(r), NEW w \in Requests, Calm(w)'
  PROVE  /\ Calm(w) \/ worker[w] = "none"
         /\ worker[w] # "exited"
<1>1. ~Restarted(w) BY RestartedKept DEF Calm
<1>2. worker[w] = "exited" => worker'[w] = "exited"
  <2>0. WorkerTypes /\ ProcessAt(r) /\ HandlerAt(r)
    BY DEF TypeInv, AgentInv
  <2>1. CASE UNCHANGED worker
    BY <2>1
  <2>2. CASE Spawn(r)
    BY <2>0, <2>2 DEF Spawn, ProcessAt, WorkerTypes
  <2>3. CASE RestartStop(r)
    <3>1. target[r] \in Requests BY <2>0, <2>3 DEF RestartStop, HandlerAt
    <3> QED BY <2>0, <2>3, <3>1 DEF RestartStop, Exits, WorkerTypes
  <2>4. CASE Worker(r)
    BY <2>0, <2>4 DEF Worker, WorkerHello, WorkerFirst, WorkerPersist, WorkerRunning, WorkerFails,
       WorkerEnds, WorkerAnswers, WorkerExits, WorkerTo, Exits, WorkerTypes
  <2>5. CASE Arrive(r) \/ Waiter(r) \/ Connect(r) \/ HandlerFails(r)
    BY <2>1, <2>5 DEF Arrive, BeginRun, BeginUnary, RestartResolve, Waiter, WaiterForgets,
       WaiterDone, Connect, Admit, Greet, HandleFinal, HandleResult, AliasRegistry, AliasQueue,
       ReportStarted, CloseQueue, CloseRegistry, HandlerFails
  <2>6. CASE \/ Expect(r) \/ SpawnFails(r) \/ Enlist(r) \/ RunAnswered(r) \/ GiveUp(r)
             \/ PreviewReady(r) \/ SendCall(r) \/ UnaryAnswered(r) \/ RestartKillFails(r)
             \/ RestartReaped(r) \/ RestartFails(r) \/ RestartCleanup(r) \/ RestartTell(r) \/ RestartMark(r)
    BY <2>1, <2>6 DEF Expect, SpawnFails, Enlist, RunAnswered, GiveUp, PreviewReady, SendCall,
       UnaryAnswered, RestartKillFails, RestartReaped, RestartFails, RestartCleanup, RestartTell, RestartMark
  <2> QED BY <2>2, <2>3, <2>4, <2>5, <2>6 DEF Step, Handler
<1>3. Alive(w)' => worker'[w] # "exited" BY DEF Alive
<1> QED BY <1>1, <1>2, <1>3 DEF Calm, Alive

\* Nothing is known of a worker that is not spawned.
LEMMA NotSpawned ==
  ASSUME AgentInv, NEW w \in Requests, worker[w] = "none"
  PROVE  conn[w] = "none" /\ waiter[w] = "none" /\ ~Told(w)
<1>1. ProcessAt(w) /\ QueueAt(w) /\ RoutedAt(w) BY DEF AgentInv
<1>2. conn[w] = "none" /\ waiter[w] = "none" /\ answer[w] # "started" BY <1>1 DEF ProcessAt
<1>3. Real(w) \notin outbound BY <1>1, <1>2 DEF QueueAt, OfWorker
<1> QED BY <1>1, <1>2, <1>3 DEF RoutedAt, Told

\* A session is told of only by the section that has bound its id, and stays
\* told of.
LEMMA ToldBefore ==
  ASSUME TypeInv, AgentInv, NEW r \in Requests, Step(r), NEW w \in Requests, Told(w)'
  PROVE  Told(w) \/ (w = r /\ ReportStarted(r))
<1>0. RequestTypes BY DEF TypeInv
<1>1. CASE started' \subseteq started /\ UNCHANGED answer
  BY <1>1 DEF Told
<1>2. ASSUME NEW a, Reply(r, a), a = "started" => r \in started PROVE Told(w)
  BY <1>0, <1>2 DEF Reply, Told, RequestTypes
<1>3. CASE RunAnswered(r)
  BY <1>2, <1>3 DEF RunAnswered
<1>4. CASE UnaryAnswered(r)
  <2>1. reply[r] # "started" BY <1>0 DEF RequestTypes, Replies
  <2> QED BY <1>2, <1>4, <2>1 DEF UnaryAnswered
<1>5. CASE SpawnFails(r) \/ GiveUp(r) \/ RestartKillFails(r) \/ RestartFails(r) \/ SendCall(r)
  BY <1>1, <1>2, <1>5 DEF SpawnFails, GiveUp, RestartKillFails, RestartFails, SendCall
<1>6. CASE \/ Arrive(r) \/ Expect(r) \/ Spawn(r) \/ Enlist(r) \/ PreviewReady(r) \/ RestartStop(r)
           \/ RestartReaped(r) \/ RestartCleanup(r) \/ RestartTell(r) \/ RestartMark(r)
  BY <1>1, <1>6 DEF Arrive, BeginRun, BeginUnary, RestartResolve, Expect, Spawn,
     Enlist, PreviewReady, RestartStop, RestartReaped, RestartCleanup, RestartTell, RestartMark
<1>7. CASE Waiter(r) \/ HandlerFails(r) \/ Worker(r)
  BY <1>1, <1>7 DEF Waiter, WaiterForgets, WaiterDone, HandlerFails, Worker, WorkerHello,
     WorkerFirst, WorkerPersist, WorkerRunning, WorkerFails, WorkerEnds, WorkerAnswers,
     WorkerExits, agentVars
<1>8. CASE \/ Admit(r) \/ Greet(r) \/ HandleFinal(r) \/ HandleResult(r) \/ AliasRegistry(r)
           \/ AliasQueue(r) \/ CloseQueue(r) \/ CloseRegistry(r)
  BY <1>1, <1>8 DEF Admit, Greet, HandleFinal, HandleResult, AliasRegistry, AliasQueue,
     CloseQueue, CloseRegistry, agentVars
<1>9. CASE ReportStarted(r)
  BY <1>9 DEF ReportStarted, Told
<1> QED BY <1>3, <1>4, <1>5, <1>6, <1>7, <1>8, <1>9 DEF Step, Handler, Connect

\* A restart takes the ids of a worker it has marked as restarted.
LEMMA RestartTarget ==
  ASSUME TypeInv, AgentInv, NEW r \in Requests,
         RestartStop(r) \/ RestartKillFails(r) \/ RestartReaped(r)
  PROVE  target[r] \in Requests /\ Restarted(target[r])
<1>1. HandlerAt(r) BY DEF AgentInv
<1>2. kind[r] = "restart" /\ target[r] \in Requests
  BY <1>1 DEF HandlerAt, RestartStop, RestartKillFails, RestartReaped
<1> QED BY <1>2 DEF Restarted


\* As long as a worker runs and is not restarted, only the end of its
\* connection takes its ids out of the registry, and nothing takes them out
\* of the manager's table.
LEMMA CalmKeepsIds ==
  ASSUME TypeInv, AgentInv, NEW r \in Requests, Step(r), NEW w \in Requests, Calm(w)'
  PROVE  /\ conn'[w] # "closed" => OfWorker(w) \cap active \subseteq active'
         /\ Pending(w) \in managed => Pending(w) \in managed'
<1>0. /\ SetTypes /\ WorkerTypes /\ ProcessAt(r) /\ ErasedAt(r) /\ ~Restarted(w)' /\ worker[w] # "exited"
  BY CalmBefore DEF TypeInv, AgentInv, Calm
<1>1. CASE active \subseteq active' /\ managed \subseteq managed'
  BY <1>1
<1>2. CASE SpawnFails(r)
  <2>1. UNCHANGED managed /\ ForgetWorker(Pending(r)) /\ Pending(r) \in OfWorker(r)
    BY <1>2 DEF SpawnFails, OfWorker
  <2>2. OfWorker(r) \cap active = {}
    BY <1>0, <1>2 DEF SpawnFails, ProcessAt, ErasedAt
  <2>3. active' = active BY <1>0, <2>1, <2>2, ForgetFacts
  <2> QED BY <2>1, <2>3
<1>3. CASE RestartStop(r) \/ RestartKillFails(r) \/ RestartReaped(r)
  <2> DEFINE s == target[r]
  <2>1. s \in Requests /\ Restarted(s)
    BY <1>3, RestartTarget
  <2>2. s # w
    <3>1. ~Restarted(w) BY <1>0, RestartedKept
    <3> QED BY <2>1, <3>1
  <2>3. \/ UNCHANGED <<active, managed>>
        \/ /\ ForgetWorker(Real(s))
           /\ (managed' = managed \/ managed' = managed \ OfWorker(s))
    BY <1>3 DEF RestartStop, RestartKillFails, RestartReaped, ForgetManaged
  <2>4. Real(s) \in OfWorker(s) BY DEF OfWorker
  <2>5. OfWorker(w) \cap OfWorker(s) = {}
    BY <2>1, <2>2, IdFacts DEF OfWorker
  <2>6. Pending(w) \in OfWorker(w) BY DEF OfWorker
  <2> HIDE DEF s
  <2>7. ForgetWorker(Real(s)) => OfWorker(w) \cap active' = OfWorker(w) \cap active
    BY <1>0, <2>1, <2>2, <2>4, ForgetFacts
  <2> QED BY <2>3, <2>5, <2>6, <2>7
<1>4. CASE WaiterForgets(r)
  <2>1. UNCHANGED managed /\ ForgetWorker(Pending(r)) /\ Pending(r) \in OfWorker(r) /\ w # r
    BY <1>0, <1>4 DEF WaiterForgets, OfWorker
  <2> QED BY <1>0, <2>1, ForgetFacts
<1>5. CASE WaiterDone(r)
  <2>1. w # r /\ UNCHANGED active /\ managed' = managed \ OfWorker(r)
    BY <1>0, <1>5 DEF WaiterDone, ProcessAt, ForgetManaged
  <2>2. Pending(w) \notin OfWorker(r) BY <2>1, IdFacts DEF OfWorker
  <2> QED BY <2>1, <2>2
<1>6. CASE CloseRegistry(r)
  <2>1. UNCHANGED managed /\ ForgetWorker(Pending(r)) /\ Pending(r) \in OfWorker(r)
        /\ conn' = [conn EXCEPT ![r] = "closed"]
    BY <1>6 DEF CloseRegistry, ConnTo, OfWorker
  <2>2. w # r => OfWorker(w) \cap active' = OfWorker(w) \cap active
    BY <1>0, <2>1, ForgetFacts
  <2>3. w = r => conn'[w] = "closed"
    BY <1>0, <2>1 DEF WorkerTypes
  <2> QED BY <2>1, <2>2, <2>3
<1>7. CASE \/ Arrive(r) \/ Admit(r) \/ Greet(r) \/ HandleFinal(r) \/ HandleResult(r)
           \/ AliasRegistry(r) \/ AliasQueue(r) \/ ReportStarted(r) \/ CloseQueue(r) \/ HandlerFails(r)
  BY <1>1, <1>7 DEF Arrive, BeginRun, BeginUnary, RestartResolve, Admit, Greet, HandleFinal,
     HandleResult, AliasRegistry, AliasQueue, ReportStarted, CloseQueue, HandlerFails, tables
<1>8. CASE \/ Expect(r) \/ Spawn(r) \/ Enlist(r) \/ RunAnswered(r) \/ GiveUp(r) \/ PreviewReady(r)
           \/ SendCall(r) \/ UnaryAnswered(r) \/ RestartFails(r) \/ RestartCleanup(r) \/ RestartTell(r) \/ RestartMark(r)
  BY <1>1, <1>8 DEF Expect, Spawn, Enlist, RunAnswered, GiveUp, PreviewReady, SendCall,
     UnaryAnswered, RestartFails, RestartCleanup, RestartTell, RestartMark, tables
<1>9. CASE Worker(r)
  BY <1>1, <1>9 DEF Worker, WorkerHello, WorkerFirst, WorkerPersist, WorkerRunning, WorkerFails,
     WorkerEnds, WorkerAnswers, WorkerExits, tables
<1> QED BY <1>2, <1>3, <1>4, <1>5, <1>6, <1>7, <1>8, <1>9 DEF Step, Handler, Waiter, Connect

\* How a connection advances, and what it leaves in the tables.
LEMMA ConnSteps ==
  ASSUME TypeInv, AgentInv, NEW r \in Requests, Step(r), NEW w \in Requests
  PROVE  \/ conn'[w] = conn[w] /\ (conn[w] \notin {"torn", "closed"} => OfWorker(w) \cap outbound \subseteq outbound')
         \/ w = r /\ Admit(r) /\ conn[w] = "none" /\ conn'[w] \in {"admitted", "closed"}
            /\ (conn'[w] = "admitted" => Pending(w) \in active')
         \/ w = r /\ Greet(r) /\ conn[w] = "admitted" /\ conn'[w] = "open"
         \/ w = r /\ conn[w] \in {"open", "queued"}
            /\ conn'[w] = (IF conn[w] = "open" THEN "registered" ELSE "again")
            /\ Pending(w) \in active /\ Real(w) \in active' /\ UNCHANGED outbound
         \/ w = r /\ conn[w] = "registered" /\ conn'[w] = "queued" /\ Real(w) \in outbound'
         \/ w = r /\ ReportStarted(r) /\ conn[w] = "again" /\ conn'[w] = "open" /\ UNCHANGED outbound
         \/ w = r /\ conn[w] \in {"open", "queued"} /\ conn'[w] = "broken" /\ UNCHANGED outbound
         \/ conn'[w] \in {"torn", "closed"}
<1>0. WorkerTypes BY DEF TypeInv
<1>1. CASE UNCHANGED <<conn, outbound>>
  BY <1>1
<1>2. CASE Admit(r)
  BY <1>0, <1>2 DEF Admit, ConnTo, WorkerTypes
<1>3. CASE Greet(r)
  BY <1>0, <1>3 DEF Greet, ConnTo, WorkerTypes
<1>4. CASE AliasRegistry(r)
  BY <1>0, <1>4 DEF AliasRegistry, ConnTo, WorkerTypes
<1>5. CASE AliasQueue(r)
  BY <1>0, <1>5 DEF AliasQueue, ConnTo, WorkerTypes
<1>6. CASE ReportStarted(r)
  BY <1>0, <1>6 DEF ReportStarted, ConnTo, WorkerTypes
<1>7. CASE HandlerFails(r)
  BY <1>0, <1>7 DEF HandlerFails, ConnTo, WorkerTypes, tables
<1>8. CASE CloseQueue(r)
  <2>1. outbound' = outbound \ OfWorker(r) /\ conn' = [conn EXCEPT ![r] = "torn"]
    BY <1>8 DEF CloseQueue, ConnTo
  <2>2. w # r => OfWorker(w) \cap OfWorker(r) = {}
    BY IdFacts DEF OfWorker
  <2> QED BY <1>0, <2>1, <2>2 DEF WorkerTypes
<1>9. CASE CloseRegistry(r)
  BY <1>0, <1>9 DEF CloseRegistry, ConnTo, WorkerTypes
<1>10. CASE Arrive(r) \/ Waiter(r) \/ HandleFinal(r) \/ HandleResult(r) \/ Worker(r)
  BY <1>1, <1>10 DEF Arrive, BeginRun, BeginUnary, RestartResolve, Waiter, WaiterForgets,
     WaiterDone, HandleFinal, HandleResult, Worker, WorkerHello, WorkerFirst, WorkerPersist,
     WorkerRunning, WorkerFails, WorkerEnds, WorkerAnswers, WorkerExits, tables, connVars
<1>11. CASE Handler(r)
  BY <1>1, <1>11 DEF Handler, Expect, Spawn, SpawnFails, Enlist, RunAnswered, GiveUp, PreviewReady,
     SendCall, UnaryAnswered, RestartStop, RestartKillFails, RestartReaped, RestartFails,
     RestartCleanup, RestartTell, RestartMark, tables, connVars
<1> QED BY <1>2, <1>3, <1>4, <1>5, <1>6, <1>7, <1>8, <1>9, <1>10, <1>11 DEF Step, Connect

\* Enlisting a worker is what makes its waiter exist.
LEMMA WaiterBefore ==
  ASSUME TypeInv, AgentInv, NEW r \in Requests, Step(r), NEW w \in Requests, waiter'[w] # "none"
  PROVE  waiter[w] # "none" \/ Pending(w) \in managed'
<1>0. WorkerTypes BY DEF TypeInv
<1>1. CASE UNCHANGED waiter
  BY <1>1
<1>2. CASE Enlist(r)
  BY <1>0, <1>2 DEF Enlist, WorkerTypes
<1>3. CASE Waiter(r)
  BY <1>0, <1>3 DEF Waiter, WaiterForgets, WaiterDone, WorkerTypes
<1>4. CASE Arrive(r) \/ Connect(r) \/ HandlerFails(r) \/ Worker(r)
  BY <1>1, <1>4 DEF Arrive, BeginRun, BeginUnary, RestartResolve, Connect, Admit, Greet,
     HandleFinal, HandleResult, AliasRegistry, AliasQueue, ReportStarted, CloseQueue,
     CloseRegistry, HandlerFails, Worker, WorkerHello, WorkerFirst, WorkerPersist,
     WorkerRunning, WorkerFails, WorkerEnds, WorkerAnswers, WorkerExits
<1>5. CASE \/ Expect(r) \/ Spawn(r) \/ SpawnFails(r) \/ RunAnswered(r) \/ GiveUp(r) \/ PreviewReady(r)
           \/ SendCall(r) \/ UnaryAnswered(r) \/ RestartStop(r) \/ RestartKillFails(r)
           \/ RestartReaped(r) \/ RestartFails(r) \/ RestartCleanup(r) \/ RestartTell(r) \/ RestartMark(r)
  BY <1>1, <1>5 DEF Expect, Spawn, SpawnFails, RunAnswered, GiveUp, PreviewReady,
     SendCall, UnaryAnswered, RestartStop, RestartKillFails, RestartReaped, RestartFails,
     RestartCleanup, RestartTell, RestartMark
<1> QED BY <1>2, <1>3, <1>4, <1>5 DEF Step, Handler


\* The routes of a worker stand as long as it runs, is connected and is not
\* restarted.
LEMMA RoutedKept ==
  ASSUME TypeInv, AgentInv, NEW r \in Requests, Step(r), NEW w \in Requests
  PROVE  RoutedAt(w)'
<1>0. RoutedAt(w) /\ Pending(w) \in OfWorker(w) /\ Real(w) \in OfWorker(w)
  BY DEF AgentInv, OfWorker
<1>1. Calm(w)' => /\ Calm(w) \/ (conn[w] = "none" /\ waiter[w] = "none" /\ ~Told(w))
                  /\ conn'[w] # "closed" => OfWorker(w) \cap active \subseteq active'
                  /\ Pending(w) \in managed => Pending(w) \in managed'
  BY CalmBefore, CalmKeepsIds, NotSpawned
<1>2. Told(w)' => Told(w) \/ (w = r /\ ReportStarted(r))
  BY ToldBefore
<1>3. ReportStarted(r) /\ w = r => conn[w] = "again"
  BY DEF ReportStarted
<1> HIDE DEF Calm, Told
<1>4. (Calm(w) /\ waiter[w] # "none" => Pending(w) \in managed)'
  BY <1>0, <1>1, WaiterBefore DEF RoutedAt
<1>5. (Calm(w) /\ conn[w] \in {"admitted", "open", "registered", "queued", "again"}
       => Pending(w) \in active)'
  BY <1>0, <1>1, ConnSteps DEF RoutedAt
<1>6. (Calm(w) /\ (\/ conn[w] \in {"registered", "queued", "again"}
                   \/ Told(w) /\ conn[w] \notin {"torn", "closed", "broken"})
       => Real(w) \in active)'
  <2>1. SUFFICES ASSUME Calm(w)',
                        \/ conn'[w] \in {"registered", "queued", "again"}
                        \/ Told(w)' /\ conn'[w] \notin {"torn", "closed", "broken"}
                 PROVE  Real(w) \in active'
    OBVIOUS
  <2>2. conn'[w] # "closed" /\ conn'[w] # "torn" BY <2>1
  <2>3. Real(w) \in active => Real(w) \in active'
    BY <1>0, <1>1, <2>1, <2>2
  <2> QED BY <1>0, <1>1, <1>2, <1>3, <2>1, <2>2, <2>3, ConnSteps DEF RoutedAt
<1>7. ((\/ conn[w] \in {"queued", "again"}
        \/ Told(w) /\ conn[w] \notin {"torn", "closed"})
       => Real(w) \in outbound)'
  <2>1. SUFFICES ASSUME \/ conn'[w] \in {"queued", "again"}
                        \/ Told(w)' /\ conn'[w] \notin {"torn", "closed"}
                 PROVE  Real(w) \in outbound'
    OBVIOUS
  <2>2. conn'[w] # "closed" /\ conn'[w] # "torn" BY <2>1
  <2>3. Admit(r) => UNCHANGED outbound BY DEF Admit
  <2>4. Greet(r) => outbound \subseteq outbound' BY DEF Greet
  <2> QED BY <1>0, <1>2, <1>3, <2>1, <2>2, <2>3, <2>4, ConnSteps DEF RoutedAt
<1> QED BY <1>4, <1>5, <1>6, <1>7 DEF RoutedAt

-----------------------------------------------------------------------------
(* The theorems *)

LEMMA InitAgent == Init => AgentInv
<1> SUFFICES ASSUME Init, NEW r \in Requests
             PROVE  /\ HandlerAt(r) /\ ProcessAt(r) /\ QueueAt(r) /\ ErasedAt(r)
                    /\ RoutedAt(r) /\ FailureAt(r) /\ CallAt(r)
  BY DEF AgentInv
<1>1. HandlerAt(r) /\ ProcessAt(r) /\ CallAt(r)
  BY DEF Init, HandlerAt, ProcessAt, CallAt
<1>2. QueueAt(r)
  BY AgentAssumption DEF Init, QueueAt
<1>3. ErasedAt(r) /\ RoutedAt(r)
  BY DEF Init, ErasedAt, RoutedAt, Calm, Told, Alive
<1>4. FailureAt(r)
  BY DEF Init, FailureAt, FailedFrame
<1> QED BY <1>1, <1>2, <1>3, <1>4

LEMMA NextAgent == TypeInv /\ AgentInv /\ [Next]_vars => TypeInv' /\ AgentInv'
<1> SUFFICES ASSUME TypeInv, AgentInv, [Next]_vars PROVE TypeInv' /\ AgentInv'
  OBVIOUS
<1>1. CASE Next
  <2>1. PICK r \in Requests : Step(r)
    BY <1>1 DEF Next, Step
  <2>2. TypeInv'
    BY <2>1, SetTypesKept, RequestTypesKept, WorkerTypesKept DEF TypeInv
  <2>3. AgentInv'
    BY <2>1, HandlerKept, ProcessKept, QueueKept, ErasedKept, RoutedKept, FailureKept, CallKept
    DEF AgentInv
  <2> QED BY <2>2, <2>3
<1>2. CASE UNCHANGED vars
  <2>1. TypeInv'
    BY <1>2 DEF vars, agentVars, tables, connVars, TypeInv, RequestTypes, SetTypes, WorkerTypes
  <2>2. AgentInv'
    BY <1>2 DEF vars, agentVars, tables, connVars, AgentInv, HandlerAt, ProcessAt, QueueAt,
       ErasedAt, RoutedAt, FailureAt, CallAt, Calm, Told, Alive, Restarted, Out, FailedFrame
  <2> QED BY <2>1, <2>2
<1> QED BY <1>1, <1>2

LEMMA AgentInvariant == Spec => [](TypeInv /\ AgentInv)
<1>1. Init => TypeInv /\ AgentInv BY InitType, InitAgent
<1> QED BY <1>1, NextAgent, PTL DEF Spec

\* The invariant gives the properties of the tables.
LEMMA TablesFromInv == TypeInv /\ AgentInv => TablesSound
<1> SUFFICES ASSUME TypeInv, AgentInv PROVE TablesSound
  OBVIOUS
<1>1. AgentTypeOK
  <2>1. ASSUME NEW r \in Requests
        PROVE  /\ \A i \in 1 .. Len(toAgent[r]) : toAgent[r][i] \in
                    {"hello", "running", "failed", "finished", "result"} \X Requests
               /\ Len(toWorker[r]) <= QueueCap
               /\ \A i \in 1 .. Len(toWorker[r]) : toWorker[r][i] \in {"start", "call"} \X Requests
    <3>1. toAgent[r] \in Seq(Frames) /\ toWorker[r] \in Seq(Orders)
      BY DEF TypeInv, WorkerTypes
    <3>2. \A i \in 1 .. Len(toAgent[r]) : toAgent[r][i] \in Frames BY <3>1
    <3>3. \A i \in 1 .. Len(toWorker[r]) : toWorker[r][i] \in Orders BY <3>1
    <3>4. Len(toWorker[r]) <= QueueCap BY DEF AgentInv, QueueAt
    <3> QED BY <3>2, <3>3, <3>4 DEF Frames, Orders
  <2> QED BY <2>1 DEF AgentTypeOK, TypeInv, RequestTypes, SetTypes, WorkerTypes, Kinds, Places,
          Answers, Replies, Waits, Links, Lives, Rows
<1>2. RoutesAgree
  <2> SUFFICES ASSUME NEW w \in Requests, answer[w] = "started", Alive(w), ~Restarted(w),
                      conn[w] \notin {"broken", "torn", "closed"}
               PROVE  Real(w) \in outbound \cap active /\ Found(Real(w))
    BY DEF RoutesAgree
  <2>1. RoutedAt(w) /\ ProcessAt(w) BY DEF AgentInv
  <2>2. Told(w) /\ Calm(w) /\ waiter[w] # "none" BY <2>1 DEF Told, Calm, ProcessAt
  <2>3. Real(w) \in outbound \cap active /\ Pending(w) \in managed BY <2>1, <2>2 DEF RoutedAt
  <2>4. Real(w)[2] = w BY IdFacts
  <2> QED BY <2>3, <2>4 DEF Found, OfWorker
<1>3. NoStaleRoutes
  <2> SUFFICES ASSUME NEW w \in Requests, Gone(w)
               PROVE  OfWorker(w) \cap (expected \cup active \cup managed \cup outbound) = {}
    BY DEF NoStaleRoutes
  <2>1. ErasedAt(w) /\ QueueAt(w) BY DEF AgentInv
  <2>2. OfWorker(w) \cap expected = {} BY <2>1 DEF Gone, ErasedAt, OfWorker
  <2>3. OfWorker(w) \cap active = {} /\ OfWorker(w) \cap managed = {} BY <2>1 DEF Gone, ErasedAt
  <2>4. OfWorker(w) \cap outbound = {} BY <2>1 DEF Gone, QueueAt
  <2> QED BY <2>2, <2>3, <2>4
<1> QED BY <1>1, <1>2, <1>3 DEF TablesSound

\* The registry, the manager's table and the queues, written in different
\* sections by handlers, waiters, connections and restarts, route to every
\* worker that runs and keep nothing of one that is gone.
THEOREM TablesStaySound == Spec => []TablesSound
  BY AgentInvariant, TablesFromInv, PTL

\* A call that waits for a worker's answer is registered or has been answered
\* (invokeWorkerUnary against cleanupSessionState).
THEOREM AwaitedCallsCanEnd == Spec => []AwaitedCallCanEnd
<1>1. TypeInv /\ AgentInv => AwaitedCallCanEnd
  BY DEF AgentInv, CallAt, AwaitedCallCanEnd
<1> QED BY <1>1, AgentInvariant, PTL

\* The worker of a RunStrategy call that was answered as failed is on its way
\* out or gone (handleRunStrategy against the frames of the worker).
THEOREM FailedStartHasNoSession == Spec => []FailedMeansNoSession
<1>1. TypeInv /\ AgentInv => FailedMeansNoSession
  BY DEF AgentInv, FailureAt, FailedMeansNoSession, Out
<1> QED BY <1>1, AgentInvariant, PTL

=============================================================================
