--------------------------- MODULE RuntimeChannel ---------------------------
(***************************************************************************)
(* A platform call on its way from a worker thread through the agent to    *)
(* the platform and back, and the data batches of the platform on their    *)
(* way to the worker: the worker's client (worker_agent_client.py), the    *)
(* agent's connection handler, which serves one frame of a worker at a     *)
(* time, and the runtime channel with its bounded queue, its receiving     *)
(* goroutine and its table of pending requests (runtime_channel.go).       *)
(*                                                                         *)
(* Time passes in ticks.  Goroutines and threads are prompt: a tick only   *)
(* happens when none of them can step.  The platform is not: it may take   *)
(* any time to read, to answer and to send, and it may never answer.       *)
(***************************************************************************)
EXTENDS Integers, Sequences, FiniteSets

CONSTANTS MaxCalls,  \* the worker's platform calls, numbered as they are made
          Timeout,   \* the timeout a call gives the platform, in ticks
          Grace,     \* what the worker waits beyond it
          Cap,       \* capacity of the channel's outbound queue (128)
          WorkerCap, \* capacity of the worker's queue in the agent (128)
          Batches,   \* how many data batches the platform sends
          MaxStray   \* how many of them at most are for no session

ASSUME ChannelAssumption ==
  /\ MaxCalls \in Nat /\ Timeout \in Nat \ {0} /\ Grace \in Nat \ {0}
  /\ Batches \in Nat /\ MaxStray \in Nat
  /\ Cap \in Nat \ {0} /\ WorkerCap \in Nat \ {0}

Calls == 1 .. MaxCalls
None == 0
NoFrame == <<"none", 0>>

VARIABLES
  call,       \* what each call of the worker has come to
  age,        \* ticks since the worker made it
  alone,      \* calls made while the agent had nothing of the worker to serve
  fromWorker, \* frames of the worker the agent has not taken
  serving,    \* the call the connection handler is in, or None
  left,       \* ticks until its platform request times out
  finished,   \* calls whose result the agent handed to the worker's queue
  refused,    \* calls whose request Send refused
  pending,    \* RuntimeChannelClient.pending
  reply,      \* the reply channel of the pending request
  up,         \* the channel is connected
  outbound,   \* its outbound queue
  held,       \* the frame the receiving goroutine waits to queue, or NoFrame
  inbound,    \* frames of the platform the agent has not received
  open,       \* requests the platform has read and not answered
  executed,   \* requests the platform has executed
  reported,   \* the request it sent a progress frame for
  sent,       \* data batches the platform has sent
  unrouted,   \* those that are for no session: a dataset chunk, or a batch
              \* with a blank session id or without payload
  fate,       \* what the agent did with each batch
  toWorker,   \* the worker's queue in the agent
  linked,     \* the worker's connection stands
  received    \* the data batches the worker took

workerVars == <<call, age, alone>>
handlerVars == <<serving, left, finished, refused, pending, reply>>
platformVars == <<open, executed, reported, sent, unrouted>>
dataVars == <<fate, received>>
vars == <<workerVars, fromWorker, handlerVars, up, outbound, held, inbound,
          platformVars, dataVars, toWorker, linked>>

Init ==
  /\ call = [c \in Calls |-> "idle"] /\ age = [c \in Calls |-> 0]
  /\ alone = {} /\ fromWorker = <<>>
  /\ serving = None /\ left = 0 /\ finished = {} /\ refused = {}
  /\ pending = {} /\ reply = <<>>
  /\ up = TRUE /\ outbound = <<<<"hello", 0>>>> /\ held = NoFrame
  /\ inbound = <<>> /\ open = {} /\ executed = {} /\ reported = {}
  /\ sent = 0 /\ unrouted = {}
  /\ fate = [b \in 1 .. Batches |-> "none"] /\ received = <<>>
  /\ toWorker = <<>> /\ linked = TRUE

-----------------------------------------------------------------------------
(***************************************************************************)
(* The worker: a thread registers its call, sends it and waits; the        *)
(* client's receiving thread gives results to their callers and data to    *)
(* the run thread.  A late result finds no caller.                         *)
(***************************************************************************)
InvokePlatform(c) ==
  /\ call[c] = "idle" /\ linked
  /\ \A d \in 1 .. c - 1 : call[d] # "idle"
  /\ call' = [call EXCEPT ![c] = "waiting"]
  /\ alone' = IF serving = None /\ fromWorker = <<>> THEN alone \cup {c}
              ELSE alone
  /\ fromWorker' = Append(fromWorker, c)
  /\ UNCHANGED <<age, handlerVars, up, outbound, held, inbound, platformVars,
                 dataVars, toWorker, linked>>

WorkerTakes ==
  /\ toWorker # <<>> /\ linked
  /\ toWorker' = Tail(toWorker)
  /\ LET f == Head(toWorker) IN
     \/ /\ f[1] = "data"
        /\ received' = Append(received, f[2])
        /\ UNCHANGED call
     \/ /\ f[1] \in {"ok", "error"}
        /\ call' = IF call[f[2]] = "waiting"
                     THEN [call EXCEPT ![f[2]] = f[1]] ELSE call
        /\ UNCHANGED received
  /\ UNCHANGED <<age, alone, fromWorker, handlerVars, up, outbound, held,
                 inbound, platformVars, fate, linked>>

\* Mutant: the worker waits no longer than the platform may take.
ReplyWaitShort == Timeout

ReplyWait == Timeout + Grace

\* Mutant: the end of the connection is expected to end the wait.
WorkerGivesUpLinked(c) ==
  /\ call[c] = "waiting" /\ age[c] >= ReplyWait /\ linked
  /\ call' = [call EXCEPT ![c] = "timeout"]
  /\ UNCHANGED <<age, alone, fromWorker, handlerVars, up, outbound, held,
                 inbound, platformVars, dataVars, toWorker, linked>>

WorkerGivesUp(c) ==
  /\ call[c] = "waiting" /\ age[c] >= ReplyWait
  /\ call' = [call EXCEPT ![c] = "timeout"]
  /\ UNCHANGED <<age, alone, fromWorker, handlerVars, up, outbound, held,
                 inbound, platformVars, dataVars, toWorker, linked>>

-----------------------------------------------------------------------------
(***************************************************************************)
(* The agent's connection handler: InvokePlatformAny registers the request *)
(* and queues it without waiting, then waits for a reply or its timer.     *)
(***************************************************************************)
\* The result goes to the worker's queue; when that is full the handler's
\* error ends the connection.
Finish(c, outcome) ==
  /\ finished' = finished \cup {c}
  /\ serving' = None /\ left' = 0
  /\ pending' = pending \ {c} /\ reply' = <<>>
  /\ IF Len(toWorker) < WorkerCap
       THEN /\ toWorker' = Append(toWorker, <<outcome, c>>)
            /\ UNCHANGED <<linked, fromWorker>>
       ELSE linked' = FALSE /\ toWorker' = <<>> /\ fromWorker' = <<>>

\* Mutant: a refused request is answered and tried again.
ServeCallRetried ==
  /\ serving = None /\ fromWorker # <<>> /\ linked
  /\ LET c == Head(fromWorker) IN
     \/ /\ up /\ Len(outbound) < Cap
        /\ fromWorker' = Tail(fromWorker)
        /\ outbound' = Append(outbound, <<"request", c>>)
        /\ serving' = c /\ left' = Timeout
        /\ pending' = pending \cup {c}
        /\ UNCHANGED <<finished, refused, reply, toWorker, linked>>
     \/ /\ ~(up /\ Len(outbound) < Cap)
        /\ refused' = refused \cup {c}
        /\ finished' = finished \cup {c}
        /\ IF Len(toWorker) < WorkerCap
             THEN /\ toWorker' = Append(toWorker, <<"error", c>>)
                  /\ UNCHANGED <<linked, fromWorker>>
             ELSE linked' = FALSE /\ toWorker' = <<>> /\ fromWorker' = <<>>
        /\ UNCHANGED <<serving, left, pending, reply, outbound>>
  /\ UNCHANGED <<workerVars, up, held, inbound, platformVars, dataVars>>

\* Mutant: a full queue takes the request that was refused.
ServeCallBlindly ==
  /\ serving = None /\ fromWorker # <<>> /\ linked
  /\ LET c == Head(fromWorker) IN
     \/ /\ up /\ Len(outbound) < Cap
        /\ fromWorker' = Tail(fromWorker)
        /\ outbound' = Append(outbound, <<"request", c>>)
        /\ serving' = c /\ left' = Timeout
        /\ pending' = pending \cup {c}
        /\ UNCHANGED <<finished, refused, reply, toWorker, linked>>
     \/ /\ ~(up /\ Len(outbound) < Cap)
        /\ refused' = refused \cup {c}
        /\ fromWorker' = Tail(fromWorker) /\ finished' = finished \cup {c}
        /\ toWorker' = Append(toWorker, <<"error", c>>)
        /\ outbound' = Append(outbound, <<"request", c>>)
        /\ UNCHANGED <<serving, left, pending, reply, linked>>
  /\ UNCHANGED <<workerVars, up, held, inbound, platformVars, dataVars>>

ServeCall ==
  /\ serving = None /\ fromWorker # <<>> /\ linked
  /\ LET c == Head(fromWorker) IN
     \/ /\ up /\ Len(outbound) < Cap
        /\ fromWorker' = Tail(fromWorker)
        /\ outbound' = Append(outbound, <<"request", c>>)
        /\ serving' = c /\ left' = Timeout
        /\ pending' = pending \cup {c}
        /\ UNCHANGED <<finished, refused, reply, toWorker, linked>>
     \/ /\ ~(up /\ Len(outbound) < Cap)
        /\ refused' = refused \cup {c}
        /\ finished' = finished \cup {c}
        /\ IF Len(toWorker) < WorkerCap
             THEN /\ toWorker' = Append(toWorker, <<"error", c>>)
                  /\ fromWorker' = Tail(fromWorker)
                  /\ UNCHANGED linked
             ELSE linked' = FALSE /\ toWorker' = <<>> /\ fromWorker' = <<>>
        /\ UNCHANGED <<serving, left, pending, reply, outbound>>
  /\ UNCHANGED <<workerVars, up, held, inbound, platformVars, dataVars>>

\* Mutant: whatever comes first counts as the answer.
ServeReplyBlindly ==
  /\ serving # None /\ reply # <<>>
  /\ Finish(serving, IF Head(reply) = "error" THEN "error" ELSE "ok")
  /\ UNCHANGED <<workerVars, refused, up, outbound, held, inbound,
                 platformVars, dataVars>>

\* The first frame that comes decides: a progress frame is an error too.
ServeReply ==
  /\ serving # None /\ reply # <<>>
  /\ Finish(serving, IF Head(reply) = "response" THEN "ok" ELSE "error")
  /\ UNCHANGED <<workerVars, refused, up, outbound, held, inbound,
                 platformVars, dataVars>>

ServeTimeout ==
  /\ serving # None /\ left = 0
  /\ Finish(serving, "error")
  /\ UNCHANGED <<workerVars, refused, up, outbound, held, inbound,
                 platformVars, dataVars>>

-----------------------------------------------------------------------------
(***************************************************************************)
(* The runtime channel's goroutines.                                       *)
(***************************************************************************)
\* The sender; the platform reads what it sends.
SendFrame ==
  /\ up /\ outbound # <<>>
  /\ outbound' = Tail(outbound)
  /\ open' = IF Head(outbound)[1] = "request"
               THEN open \cup {Head(outbound)[2]} ELSE open
  /\ UNCHANGED <<workerVars, fromWorker, handlerVars, up, held, inbound,
                 executed, reported, sent, unrouted, dataVars, toWorker,
                 linked>>

\* The heartbeat goroutine waits for room like the receiving one.
Heartbeat ==
  /\ up /\ Len(outbound) < Cap
  /\ \A i \in 1 .. Len(outbound) : outbound[i][1] # "heartbeat"
  /\ outbound' = Append(outbound, <<"heartbeat", 0>>)
  /\ UNCHANGED <<workerVars, fromWorker, handlerVars, up, held, inbound,
                 platformVars, dataVars, toWorker, linked>>

\* handleInboundFrame: an answer goes to its pending request or nowhere; a
\* batch goes to the worker's queue and is acknowledged, or is pushed back.
ReceiveAnswer ==
  /\ up /\ held = NoFrame /\ inbound # <<>> /\ Head(inbound)[1] # "data"
  /\ inbound' = Tail(inbound)
  /\ reply' = IF Head(inbound)[2] \in pending
                THEN Append(reply, Head(inbound)[1]) ELSE reply
  /\ UNCHANGED <<workerVars, fromWorker, serving, left, finished, refused,
                 pending, up, outbound, held, platformVars, dataVars,
                 toWorker, linked>>

\* HandleRuntimeData gives a batch to the worker, unless its connection is
\* gone or its queue full.
Accepts == linked /\ Len(toWorker) < WorkerCap
Batch(b) == <<"data", b>>

\* What the platform is told about a batch.
Ack(b) == <<"ack", b>>
Backpressure(b) == <<"backpressure", b>>

\* Mutant: a batch the worker's queue refuses is acknowledged all the same.
ReceiveDataAcked ==
  /\ up /\ held = NoFrame /\ inbound # <<>> /\ Head(inbound)[1] = "data"
  /\ inbound' = Tail(inbound)
  /\ LET b == Head(inbound)[2] IN
     /\ toWorker' = IF Accepts /\ b \notin unrouted
                      THEN Append(toWorker, Batch(b)) ELSE toWorker
     /\ held' = Ack(b)
     /\ fate' = [fate EXCEPT ![b] = IF b \in unrouted THEN "discarded"
                                    ELSE "acked"]
  /\ UNCHANGED <<workerVars, fromWorker, handlerVars, up, outbound,
                 platformVars, received, linked>>

\* workerDataFrameFromRuntime finds no session in an unrouted frame:
\* HandleRuntimeData drops it without an error, so it is acknowledged too,
\* unless it has no payload to take a sequence number from.
ReceiveData ==
  /\ up /\ held = NoFrame /\ inbound # <<>> /\ Head(inbound)[1] = "data"
  /\ inbound' = Tail(inbound)
  /\ LET b == Head(inbound)[2] IN
     \/ /\ b \notin unrouted /\ Accepts
        /\ toWorker' = Append(toWorker, Batch(b))
        /\ held' = Ack(b) /\ fate' = [fate EXCEPT ![b] = "acked"]
     \/ /\ b \notin unrouted /\ ~Accepts
        /\ held' = Backpressure(b)
        /\ fate' = [fate EXCEPT ![b] = "pushed back"]
        /\ UNCHANGED toWorker
     \/ /\ b \in unrouted
        /\ held' \in {Ack(b), NoFrame}
        /\ fate' = [fate EXCEPT ![b] = "discarded"]
        /\ UNCHANGED toWorker
  /\ UNCHANGED <<workerVars, fromWorker, handlerVars, up, outbound,
                 platformVars, received, linked>>

\* Mutant: the frame is queued and kept.
FlushKeeping ==
  /\ up /\ held # NoFrame /\ Len(outbound) < Cap
  /\ outbound' = Append(outbound, held) /\ UNCHANGED held
  /\ UNCHANGED <<workerVars, fromWorker, handlerVars, up, inbound,
                 platformVars, dataVars, toWorker, linked>>

\* The receiving goroutine reads nothing until its frame is queued.
Flush ==
  /\ up /\ held # NoFrame /\ Len(outbound) < Cap
  /\ outbound' = Append(outbound, held) /\ held' = NoFrame
  /\ UNCHANGED <<workerVars, fromWorker, handlerVars, up, inbound,
                 platformVars, dataVars, toWorker, linked>>

\* The stream ends and is not opened again; the handlers' calls wait for
\* their timers.
ChannelDown ==
  /\ up /\ up' = FALSE
  /\ outbound' = <<>> /\ held' = NoFrame /\ inbound' = <<>>
  /\ UNCHANGED <<workerVars, fromWorker, handlerVars, platformVars, dataVars,
                 toWorker, linked>>

-----------------------------------------------------------------------------
(***************************************************************************)
(* The platform (external).                                                *)
(***************************************************************************)
PlatformAnswers(c) ==
  /\ c \in open
  /\ open' = open \ {c}
  /\ \E f \in {"response", "error"} :
       /\ executed' = IF f = "response" THEN executed \cup {c} ELSE executed
       /\ inbound' = IF up THEN Append(inbound, <<f, c>>) ELSE inbound
  /\ UNCHANGED <<workerVars, fromWorker, handlerVars, up, outbound, held,
                 reported, sent, unrouted, dataVars, toWorker, linked>>

\* A progress frame announces an answer that is still to come (one per run).
PlatformReports(c) ==
  /\ up /\ c \in open /\ reported = {}
  /\ reported' = reported \cup {c}
  /\ inbound' = Append(inbound, <<"progress", c>>)
  /\ UNCHANGED <<workerVars, fromWorker, handlerVars, up, outbound, held, open,
                 executed, sent, unrouted, dataVars, toWorker, linked>>

PlatformSendsData ==
  /\ up /\ sent < Batches
  /\ sent' = sent + 1
  /\ \/ UNCHANGED unrouted
     \/ /\ Cardinality(unrouted) < MaxStray
        /\ unrouted' = unrouted \cup {sent + 1}
  /\ inbound' = Append(inbound, <<"data", sent + 1>>)
  /\ UNCHANGED <<workerVars, fromWorker, handlerVars, up, outbound, held, open,
                 executed, reported, dataVars, toWorker, linked>>

\* Time passes when no thread or goroutine has anything to do.
Prompt ==
  \/ WorkerTakes \/ \E c \in Calls : WorkerGivesUp(c)
  \/ ServeCall \/ ServeReply \/ ServeTimeout
  \/ ReceiveAnswer \/ ReceiveData \/ Flush

Idle ==
  /\ ~(toWorker # <<>> /\ linked)
  /\ \A c \in Calls : ~(call[c] = "waiting" /\ age[c] >= ReplyWait)
  /\ ~(serving = None /\ fromWorker # <<>> /\ linked)
  /\ serving # None => reply = <<>> /\ left > 0
  /\ up => IF held = NoFrame THEN inbound = <<>> ELSE Len(outbound) = Cap

Waiting == {c \in Calls : call[c] = "waiting"}

Tick ==
  /\ Idle /\ Waiting # {}
  /\ age' = [c \in Calls |-> IF c \in Waiting THEN age[c] + 1 ELSE 0]
  /\ left' = IF serving # None THEN left - 1 ELSE left
  /\ UNCHANGED <<call, alone, fromWorker, serving, finished, refused, pending,
                 reply, up, outbound, held, inbound, platformVars, dataVars,
                 toWorker, linked>>

Next ==
  \/ Prompt \/ Tick
  \/ \E c \in Calls : InvokePlatform(c) \/ PlatformAnswers(c)
                     \/ PlatformReports(c)
  \/ SendFrame \/ Heartbeat \/ ChannelDown \/ PlatformSendsData

Spec == Init /\ [][Next]_vars

\* Threads and goroutines are scheduled, time passes, and the platform reads
\* what it is sent; it owes no answer.
FairSpec ==
  /\ Spec
  /\ WF_vars(Prompt) /\ WF_vars(Tick) /\ WF_vars(SendFrame)
  /\ SF_vars(Flush)

-----------------------------------------------------------------------------
\* Type correctness and the bounds of the queues.
ChannelTypeOK ==
  /\ call \in [Calls -> {"idle", "waiting", "ok", "error", "timeout"}]
  /\ age \in [Calls -> 0 .. ReplyWait] /\ alone \subseteq Calls
  /\ serving \in Calls \cup {None} /\ left \in 0 .. Timeout
  /\ finished \subseteq Calls /\ refused \subseteq Calls
  /\ pending \subseteq Calls /\ open \subseteq Calls
  /\ executed \subseteq Calls /\ reported \subseteq Calls
  /\ up \in BOOLEAN /\ linked \in BOOLEAN /\ sent \in 0 .. Batches
  /\ Len(outbound) <= Cap /\ Len(toWorker) <= WorkerCap
  /\ unrouted \subseteq 1 .. Batches
  /\ fate \in [1 .. Batches -> {"none", "acked", "pushed back", "discarded"}]

\* A call that returns a response was executed by the platform, also when
\* progress frames, timeouts and late answers of other calls are on the way.
OkMeansExecuted == \A c \in Calls : call[c] = "ok" => c \in executed

\* A request that Send refused (no connection, queue full) although it was
\* already registered is never executed.
RefusedNeverExecuted == refused \cap (open \cup executed) = {}

\* Together: what a caller is told, success or refusal, is what happened.
AnswersAreTrue == ChannelTypeOK /\ OkMeansExecuted /\ RefusedNeverExecuted

\* The worker's extra wait is enough for a call that found its connection
\* idle: it gives up only after the agent did, so it is told the reason.
GraceSuffices ==
  \A c \in Calls \cap alone : call[c] = "timeout" => c \in finished

\* The batches the agent handed to the worker's queue and acknowledged, and
\* their places in that queue.
Acked == {b \in 1 .. Batches : fate[b] = "acked"}
Queued == {i \in 1 .. Len(toWorker) : toWorker[i][1] = "data"}

\* What the worker takes is what the agent queued for it and acknowledged, in
\* order, without gaps or repetitions. A batch for a session is missing only
\* when it was pushed back or when the connection went, and then it is newer
\* than all the worker took. A frame that is for no session is discarded,
\* and mostly acknowledged all the same: an acknowledgement alone does not
\* say that the worker gets the frame (AcknowledgedIsDelivered below).
DataInOrder ==
  /\ \A i, j \in 1 .. Len(received) : i < j => received[i] < received[j]
  /\ \A i, j \in Queued : i < j => toWorker[i][2] < toWorker[j][2]
  /\ \A i \in 1 .. Len(received), j \in Queued : received[i] < toWorker[j][2]
  /\ \A i \in 1 .. Len(received) : received[i] \in Acked
  /\ \A i \in Queued : toWorker[i][2] \in Acked
  /\ \A b \in Acked :
       \/ \E i \in 1 .. Len(received) : received[i] = b
       \/ \E i \in Queued : toWorker[i][2] = b
       \/ ~linked /\ \A i \in 1 .. Len(received) : received[i] < b
  /\ \A b \in 1 .. Batches : fate[b] = "discarded" => b \in unrouted

\* Every call of a worker thread returns, whatever the platform does: again
\* and again no thread waits (the calls are finitely many).
EveryCallReturns == []<>(Waiting = {})

\* While the channel stands every batch the platform sent is acknowledged or
\* pushed back (or, without a payload, dropped), also when the receiving goroutine has to wait for room in the
\* outbound queue: again and again the agent owes the platform no answer.
EveryBatchAnswered ==
  []<>(up => held = NoFrame /\ \A b \in 1 .. sent : fate[b] # "none")

\* Together: neither a worker thread nor the receiving goroutine is stuck.
NobodyWaitsForever == EveryCallReturns /\ EveryBatchAnswered

-----------------------------------------------------------------------------
(* What the comments, tests and docs say and the code does not keep *)

\* tests/test_worker_agent_client.py: the worker "waits for agent return
\* grace after platform timeout window": no call times out in the worker
\* before the agent has finished it.
GraceAlwaysSuffices ==
  \A c \in Calls : call[c] = "timeout" => c \in finished

\* An acknowledgement is taken to mean that the frame was handed on: while the
\* connection stands, a frame the agent does not push back reaches the
\* worker's queue. Dataset chunks and batches without a session do not.
AcknowledgedIsDelivered == \A b \in 1 .. Batches : linked => fate[b] # "discarded"

=============================================================================
