----------------------- MODULE RuntimeChannel_proofs -----------------------
(***************************************************************************)
(* Proofs about RuntimeChannel, for any number of calls and batches, any   *)
(* timeout and grace and any capacities: a caller is told the truth, the   *)
(* grace is enough for a call that found its connection idle, and the      *)
(* worker takes the acknowledged batches in order.                         *)
(***************************************************************************)
EXTENDS RuntimeChannel, TLAPS

OutFrames == {"hello", "request", "heartbeat", "ack", "backpressure"} \X Nat
InFrames == {"response", "error", "progress", "data"} \X Nat
WorkerFrames == {"ok", "error", "data"} \X Nat
Replies == {"response", "error", "progress"}

\* The queues hold frames, and the frames name calls or batches.
QueueTypes ==
  /\ fromWorker \in Seq(Calls) /\ reply \in Seq(Replies)
  /\ outbound \in Seq(OutFrames) /\ inbound \in Seq(InFrames)
  /\ toWorker \in Seq(WorkerFrames) /\ received \in Seq(Nat)
  /\ held \in OutFrames \cup {NoFrame}

QueueNames ==
  /\ \A i \in 1 .. Len(outbound) :
       outbound[i][1] = "request" => outbound[i][2] \in Calls
  /\ \A i \in 1 .. Len(inbound) :
       IF inbound[i][1] = "data" THEN inbound[i][2] \in 1 .. sent
       ELSE inbound[i][2] \in Calls
  /\ \A i \in 1 .. Len(toWorker) :
       IF toWorker[i][1] = "data" THEN toWorker[i][2] \in 1 .. Batches
       ELSE toWorker[i][2] \in Calls
  /\ held[1] # "request"

TypeInv == ChannelTypeOK /\ QueueTypes /\ QueueNames

-----------------------------------------------------------------------------
(* What Append and Tail do to a queue. *)

LEMMA AppendFacts ==
  ASSUME NEW S, NEW s \in Seq(S), NEW e \in S
  PROVE  /\ Append(s, e) \in Seq(S)
         /\ Len(Append(s, e)) = Len(s) + 1 /\ Len(s) \in Nat
         /\ \A i \in 1 .. Len(s) : Append(s, e)[i] = s[i]
         /\ Append(s, e)[Len(s) + 1] = e
OBVIOUS

LEMMA TailFacts ==
  ASSUME NEW S, NEW s \in Seq(S), s # <<>>
  PROVE  /\ Tail(s) \in Seq(S)
         /\ Len(s) \in Nat \ {0} /\ Len(Tail(s)) = Len(s) - 1
         /\ Head(s) = s[1] /\ s[1] \in S
         /\ \A i \in 1 .. Len(Tail(s)) : i + 1 \in 1 .. Len(s) /\ Tail(s)[i] = s[i + 1]
OBVIOUS

-----------------------------------------------------------------------------
(* Type correctness *)

\* What an action that only appends to a queue, or only takes its head,
\* leaves of the queues' names.
LEMMA OutboundAppended ==
  ASSUME TypeInv, NEW f \in OutFrames, f[1] = "request" => f[2] \in Calls
  PROVE  /\ Append(outbound, f) \in Seq(OutFrames)
         /\ Len(Append(outbound, f)) = Len(outbound) + 1
         /\ \A i \in 1 .. Len(Append(outbound, f)) :
              Append(outbound, f)[i][1] = "request"
                => Append(outbound, f)[i][2] \in Calls
<1> DEFINE q == Append(outbound, f)
<1>1. outbound \in Seq(OutFrames)
  BY DEF TypeInv, QueueTypes
<1>2. /\ q \in Seq(OutFrames) /\ Len(q) = Len(outbound) + 1 /\ Len(outbound) \in Nat
      /\ \A i \in 1 .. Len(outbound) : q[i] = outbound[i]
      /\ q[Len(outbound) + 1] = f
  BY <1>1, AppendFacts
<1>3. \A i \in 1 .. Len(outbound) : outbound[i][1] = "request" => outbound[i][2] \in Calls
  BY DEF TypeInv, QueueNames
<1> HIDE DEF q
<1>4. ASSUME NEW i \in 1 .. Len(q), q[i][1] = "request" PROVE q[i][2] \in Calls
  <2>1. i \in 1 .. Len(outbound) \/ i = Len(outbound) + 1
    BY <1>2
  <2> QED
    BY <1>2, <1>3, <1>4, <2>1
<1> QED
  BY <1>2, <1>4 DEF q

LEMMA OutboundTaken ==
  ASSUME TypeInv, outbound # <<>>
  PROVE  /\ Tail(outbound) \in Seq(OutFrames)
         /\ Len(Tail(outbound)) <= Cap
         /\ Head(outbound) = outbound[1] /\ 1 \in 1 .. Len(outbound)
         /\ \A i \in 1 .. Len(Tail(outbound)) :
              Tail(outbound)[i][1] = "request" => Tail(outbound)[i][2] \in Calls
<1>1. outbound \in Seq(OutFrames) /\ Len(outbound) <= Cap
  BY DEF TypeInv, QueueTypes, ChannelTypeOK
<1> DEFINE q == Tail(outbound)
<1>2. /\ q \in Seq(OutFrames) /\ Len(q) = Len(outbound) - 1
      /\ Len(outbound) \in Nat \ {0} /\ Head(outbound) = outbound[1]
      /\ \A i \in 1 .. Len(q) : i + 1 \in 1 .. Len(outbound) /\ q[i] = outbound[i + 1]
  BY <1>1, TailFacts
<1>3. \A i \in 1 .. Len(outbound) : outbound[i][1] = "request" => outbound[i][2] \in Calls
  BY DEF TypeInv, QueueNames
<1> HIDE DEF q
<1>4. Len(q) <= Cap
  BY <1>1, <1>2, ChannelAssumption
<1> QED
  BY <1>2, <1>3, <1>4 DEF q

LEMMA InboundAppended ==
  ASSUME TypeInv, NEW f \in InFrames, NEW n \in 0 .. Batches, sent <= n,
         IF f[1] = "data" THEN f[2] \in 1 .. n ELSE f[2] \in Calls
  PROVE  /\ Append(inbound, f) \in Seq(InFrames)
         /\ \A i \in 1 .. Len(Append(inbound, f)) :
              IF Append(inbound, f)[i][1] = "data"
              THEN Append(inbound, f)[i][2] \in 1 .. n
              ELSE Append(inbound, f)[i][2] \in Calls
<1> DEFINE q == Append(inbound, f)
<1>1. inbound \in Seq(InFrames) /\ sent \in 0 .. Batches
  BY DEF TypeInv, QueueTypes, ChannelTypeOK
<1>2. /\ q \in Seq(InFrames) /\ Len(q) = Len(inbound) + 1 /\ Len(inbound) \in Nat
      /\ \A i \in 1 .. Len(inbound) : q[i] = inbound[i]
      /\ q[Len(inbound) + 1] = f
  BY <1>1, AppendFacts
<1>3. \A i \in 1 .. Len(inbound) :
        IF inbound[i][1] = "data" THEN inbound[i][2] \in 1 .. n
        ELSE inbound[i][2] \in Calls
  BY <1>1, ChannelAssumption DEF TypeInv, QueueNames
<1> HIDE DEF q
<1>4. ASSUME NEW i \in 1 .. Len(q)
      PROVE  IF q[i][1] = "data" THEN q[i][2] \in 1 .. n ELSE q[i][2] \in Calls
  <2>1. i \in 1 .. Len(inbound) \/ i = Len(inbound) + 1
    BY <1>2
  <2> QED
    BY <1>2, <1>3, <2>1
<1> QED
  BY <1>2, <1>4 DEF q

LEMMA InboundTaken ==
  ASSUME TypeInv, inbound # <<>>
  PROVE  /\ Tail(inbound) \in Seq(InFrames)
         /\ Head(inbound) = inbound[1] /\ inbound[1] \in InFrames
         /\ 1 \in 1 .. Len(inbound)
         /\ IF inbound[1][1] = "data" THEN inbound[1][2] \in 1 .. sent
            ELSE inbound[1][2] \in Calls
         /\ \A i \in 1 .. Len(Tail(inbound)) :
              IF Tail(inbound)[i][1] = "data"
              THEN Tail(inbound)[i][2] \in 1 .. sent
              ELSE Tail(inbound)[i][2] \in Calls
<1>1. inbound \in Seq(InFrames)
  BY DEF TypeInv, QueueTypes
<1> DEFINE q == Tail(inbound)
<1>2. /\ q \in Seq(InFrames) /\ Len(q) = Len(inbound) - 1
      /\ Len(inbound) \in Nat \ {0} /\ Head(inbound) = inbound[1]
      /\ inbound[1] \in InFrames
      /\ \A i \in 1 .. Len(q) : i + 1 \in 1 .. Len(inbound) /\ q[i] = inbound[i + 1]
  BY <1>1, TailFacts
<1>3. \A i \in 1 .. Len(inbound) :
        IF inbound[i][1] = "data" THEN inbound[i][2] \in 1 .. sent
        ELSE inbound[i][2] \in Calls
  BY DEF TypeInv, QueueNames
<1> HIDE DEF q
<1> QED
  BY <1>2, <1>3 DEF q

LEMMA ToWorkerAppended ==
  ASSUME TypeInv, NEW f \in WorkerFrames,
         IF f[1] = "data" THEN f[2] \in 1 .. Batches ELSE f[2] \in Calls
  PROVE  /\ Append(toWorker, f) \in Seq(WorkerFrames)
         /\ Len(Append(toWorker, f)) = Len(toWorker) + 1
         /\ \A i \in 1 .. Len(Append(toWorker, f)) :
              IF Append(toWorker, f)[i][1] = "data"
              THEN Append(toWorker, f)[i][2] \in 1 .. Batches
              ELSE Append(toWorker, f)[i][2] \in Calls
<1> DEFINE q == Append(toWorker, f)
<1>1. toWorker \in Seq(WorkerFrames)
  BY DEF TypeInv, QueueTypes
<1>2. /\ q \in Seq(WorkerFrames) /\ Len(q) = Len(toWorker) + 1 /\ Len(toWorker) \in Nat
      /\ \A i \in 1 .. Len(toWorker) : q[i] = toWorker[i]
      /\ q[Len(toWorker) + 1] = f
  BY <1>1, AppendFacts
<1>3. \A i \in 1 .. Len(toWorker) :
        IF toWorker[i][1] = "data" THEN toWorker[i][2] \in 1 .. Batches
        ELSE toWorker[i][2] \in Calls
  BY DEF TypeInv, QueueNames
<1> HIDE DEF q
<1>4. ASSUME NEW i \in 1 .. Len(q)
      PROVE  IF q[i][1] = "data" THEN q[i][2] \in 1 .. Batches
             ELSE q[i][2] \in Calls
  <2>1. i \in 1 .. Len(toWorker) \/ i = Len(toWorker) + 1
    BY <1>2
  <2> QED
    BY <1>2, <1>3, <2>1
<1> QED
  BY <1>2, <1>4 DEF q

LEMMA ToWorkerTaken ==
  ASSUME TypeInv, toWorker # <<>>
  PROVE  /\ Tail(toWorker) \in Seq(WorkerFrames)
         /\ Len(Tail(toWorker)) <= WorkerCap
         /\ Head(toWorker) = toWorker[1] /\ toWorker[1] \in WorkerFrames
         /\ 1 \in 1 .. Len(toWorker)
         /\ IF toWorker[1][1] = "data" THEN toWorker[1][2] \in 1 .. Batches
            ELSE toWorker[1][2] \in Calls
         /\ \A i \in 1 .. Len(Tail(toWorker)) :
              IF Tail(toWorker)[i][1] = "data"
              THEN Tail(toWorker)[i][2] \in 1 .. Batches
              ELSE Tail(toWorker)[i][2] \in Calls
<1>1. toWorker \in Seq(WorkerFrames) /\ Len(toWorker) <= WorkerCap
  BY DEF TypeInv, QueueTypes, ChannelTypeOK
<1> DEFINE q == Tail(toWorker)
<1>2. /\ q \in Seq(WorkerFrames) /\ Len(q) = Len(toWorker) - 1
      /\ Len(toWorker) \in Nat \ {0} /\ Head(toWorker) = toWorker[1]
      /\ toWorker[1] \in WorkerFrames
      /\ \A i \in 1 .. Len(q) : i + 1 \in 1 .. Len(toWorker) /\ q[i] = toWorker[i + 1]
  BY <1>1, TailFacts
<1>3. \A i \in 1 .. Len(toWorker) :
        IF toWorker[i][1] = "data" THEN toWorker[i][2] \in 1 .. Batches
        ELSE toWorker[i][2] \in Calls
  BY DEF TypeInv, QueueNames
<1> HIDE DEF q
<1>4. Len(q) <= WorkerCap
  BY <1>1, <1>2, ChannelAssumption
<1> QED
  BY <1>2, <1>3, <1>4 DEF q

LEMMA EmptyQueue == Len(<<>>) = 0 /\ (\A S : <<>> \in Seq(S))
OBVIOUS

LEMMA InitType == Init => TypeInv
<1> SUFFICES ASSUME Init PROVE TypeInv
  OBVIOUS
<1>1. Len(<<<<"hello", 0>>>>) = 1
  OBVIOUS
<1>2. ChannelTypeOK
  BY <1>1, ChannelAssumption, EmptyQueue
     DEF Init, ChannelTypeOK, ReplyWait, Calls, None
<1>3. QueueTypes
  BY EmptyQueue DEF Init, QueueTypes, OutFrames, NoFrame
<1>4. QueueNames
  BY <1>1, EmptyQueue DEF Init, QueueNames, NoFrame
<1> QED
  BY <1>2, <1>3, <1>4 DEF TypeInv

\* The agent's end of a call, whatever its outcome.
LEMMA FinishType ==
  ASSUME TypeInv, NEW c \in Calls, NEW o \in {"ok", "error"}, Finish(c, o),
         UNCHANGED <<workerVars, refused, up, outbound, held, inbound,
                     platformVars, dataVars>>
  PROVE  TypeInv'
<1> USE ChannelAssumption
    DEF workerVars, platformVars, dataVars, Calls
<1>0. <<o, c>> \in WorkerFrames /\ <<o, c>>[1] = o /\ <<o, c>>[2] = c
  BY DEF WorkerFrames
<1>00. /\ finished' \subseteq Calls /\ serving' \in Calls \cup {None}
       /\ left' \in 0 .. Timeout /\ pending' \subseteq Calls /\ reply' = <<>>
  <2>1. /\ finished' = finished \cup {c} /\ serving' = None /\ left' = 0
        /\ pending' = pending \ {c} /\ reply' = <<>>
    BY DEF Finish
  <2>2. finished \subseteq Calls /\ pending \subseteq Calls
    BY DEF TypeInv, ChannelTypeOK
  <2>3. 0 \in 0 .. Timeout
    OBVIOUS
  <2> QED
    BY <2>1, <2>2, <2>3
<1>1. CASE Len(toWorker) < WorkerCap
  <2>1. toWorker' = Append(toWorker, <<o, c>>) /\ UNCHANGED <<linked, fromWorker>>
    BY <1>1 DEF Finish
  <2>2. /\ toWorker' \in Seq(WorkerFrames) /\ Len(toWorker') <= WorkerCap
        /\ \A i \in 1 .. Len(toWorker') :
             IF toWorker'[i][1] = "data" THEN toWorker'[i][2] \in 1 .. Batches
             ELSE toWorker'[i][2] \in Calls
    <3>1. Len(toWorker) \in Nat
      BY DEF TypeInv, QueueTypes
    <3> QED
      BY <1>0, <1>1, <2>1, <3>1, ToWorkerAppended
  <2>3. ChannelTypeOK'
    BY <1>00, <2>1, <2>2 DEF TypeInv, ChannelTypeOK, ReplyWait
  <2>4. QueueTypes'
    BY <2>1, <2>2, EmptyQueue DEF TypeInv, QueueTypes, Finish
  <2>5. QueueNames'
    BY <2>1, <2>2 DEF TypeInv, QueueNames, Finish
  <2> QED
    BY <2>3, <2>4, <2>5 DEF TypeInv
<1>2. CASE ~(Len(toWorker) < WorkerCap)
  <2>1. linked' = FALSE /\ toWorker' = <<>> /\ fromWorker' = <<>>
    BY <1>2 DEF Finish
  <2>2. Len(toWorker') <= WorkerCap /\ linked' \in BOOLEAN
    <3>1. Len(toWorker') = 0
      BY <2>1, EmptyQueue
    <3>2. linked' \in BOOLEAN
      BY <2>1
    <3> QED
      BY <3>1, <3>2
  <2>3. ChannelTypeOK'
    BY <1>00, <2>2 DEF TypeInv, ChannelTypeOK, ReplyWait
  <2>4. QueueTypes'
    BY <2>1, EmptyQueue DEF TypeInv, QueueTypes, Finish
  <2>5. QueueNames'
    BY <2>1, EmptyQueue DEF TypeInv, QueueNames, Finish
  <2> QED
    BY <2>3, <2>4, <2>5 DEF TypeInv
<1> QED
  BY <1>1, <1>2

LEMMA WorkerType ==
  ASSUME TypeInv,
         \/ \E c \in Calls : InvokePlatform(c) \/ WorkerGivesUp(c)
         \/ WorkerTakes
  PROVE  TypeInv'
<1> USE ChannelAssumption DEF workerVars, handlerVars, platformVars, dataVars
<1>1. ASSUME NEW c \in Calls, InvokePlatform(c) PROVE TypeInv'
  <2>1. fromWorker' \in Seq(Calls)
    BY <1>1, AppendFacts DEF InvokePlatform, TypeInv, QueueTypes
  <2>2. ChannelTypeOK'
    BY <1>1 DEF InvokePlatform, TypeInv, ChannelTypeOK, ReplyWait
  <2>3. QueueTypes'
    BY <1>1, <2>1 DEF InvokePlatform, TypeInv, QueueTypes
  <2>4. QueueNames'
    BY <1>1 DEF InvokePlatform, TypeInv, QueueNames
  <2> QED
    BY <2>2, <2>3, <2>4 DEF TypeInv
<1>2. ASSUME NEW c \in Calls, WorkerGivesUp(c) PROVE TypeInv'
  BY <1>2 DEF WorkerGivesUp, TypeInv, ChannelTypeOK, QueueTypes, QueueNames, ReplyWait
<1>3. CASE WorkerTakes
  <2>1. toWorker # <<>> /\ toWorker' = Tail(toWorker)
    BY <1>3 DEF WorkerTakes
  <2>2. /\ toWorker' \in Seq(WorkerFrames) /\ Len(toWorker') <= WorkerCap
        /\ \A i \in 1 .. Len(toWorker') :
             IF toWorker'[i][1] = "data" THEN toWorker'[i][2] \in 1 .. Batches
             ELSE toWorker'[i][2] \in Calls
        /\ Head(toWorker) = toWorker[1] /\ toWorker[1] \in WorkerFrames
        /\ (toWorker[1][1] # "data" => toWorker[1][2] \in Calls)
    BY <2>1, ToWorkerTaken
  <2> DEFINE f == toWorker[1]
  <2>3. f[2] \in Nat
    BY <2>2 DEF WorkerFrames
  <2>4. received' \in Seq(Nat)
    <3>1. received \in Seq(Nat)
      BY DEF TypeInv, QueueTypes
    <3>2. received' = received \/ received' = Append(received, f[2])
      BY <1>3, <2>2 DEF WorkerTakes
    <3> QED
      BY <2>3, <3>1, <3>2, AppendFacts
  <2>5. call' \in [Calls -> {"idle", "waiting", "ok", "error", "timeout"}]
    BY <1>3, <2>2 DEF WorkerTakes, TypeInv, ChannelTypeOK
  <2>6. ChannelTypeOK'
    BY <1>3, <2>2, <2>5 DEF WorkerTakes, TypeInv, ChannelTypeOK, ReplyWait
  <2>7. QueueTypes'
    BY <1>3, <2>2, <2>4 DEF WorkerTakes, TypeInv, QueueTypes
  <2>8. QueueNames'
    BY <1>3, <2>2 DEF WorkerTakes, TypeInv, QueueNames
  <2> QED
    BY <2>6, <2>7, <2>8 DEF TypeInv
<1> QED
  BY <1>1, <1>2, <1>3

LEMMA HandlerType ==
  ASSUME TypeInv, ServeCall \/ ServeReply \/ ServeTimeout PROVE TypeInv'
<1> USE ChannelAssumption DEF workerVars, platformVars, dataVars
<1>1. CASE ServeReply \/ ServeTimeout
  <2>1. serving \in Calls
    BY <1>1 DEF ServeReply, ServeTimeout, TypeInv, ChannelTypeOK
  <2>2. PICK o \in {"ok", "error"} : Finish(serving, o)
    BY <1>1 DEF ServeReply, ServeTimeout
  <2>3. UNCHANGED <<workerVars, refused, up, outbound, held, inbound,
                    platformVars, dataVars>>
    BY <1>1 DEF ServeReply, ServeTimeout
  <2> QED
    BY <2>1, <2>2, <2>3, FinishType
<1>2. CASE ServeCall
  <2> DEFINE c == Head(fromWorker)
  <2>1. fromWorker # <<>> /\ fromWorker \in Seq(Calls)
    BY <1>2 DEF ServeCall, TypeInv, QueueTypes
  <2>2. c \in Calls /\ Tail(fromWorker) \in Seq(Calls)
    BY <2>1, TailFacts
  <2>3. <<"request", c>> \in OutFrames /\ <<"request", c>>[1] = "request" /\ <<"request", c>>[2] = c
    BY <2>2 DEF OutFrames, Calls
  <2>4. /\ <<"error", c>> \in WorkerFrames /\ <<"error", c>>[1] = "error"
        /\ <<"error", c>>[2] = c
    BY <2>2 DEF WorkerFrames, Calls
  <2>5. Len(outbound) \in Nat /\ Len(toWorker) \in Nat
    BY DEF TypeInv, QueueTypes
  <2> HIDE DEF c
  <2>6. CASE /\ up /\ Len(outbound) < Cap
             /\ fromWorker' = Tail(fromWorker)
             /\ outbound' = Append(outbound, <<"request", c>>)
             /\ serving' = c /\ left' = Timeout
             /\ pending' = pending \cup {c}
             /\ UNCHANGED <<finished, refused, reply, toWorker, linked>>
             /\ UNCHANGED <<workerVars, up, held, inbound, platformVars, dataVars>>
    <3>1. /\ outbound' \in Seq(OutFrames) /\ Len(outbound') <= Cap
          /\ \A i \in 1 .. Len(outbound') :
               outbound'[i][1] = "request" => outbound'[i][2] \in Calls
      BY <2>2, <2>3, <2>5, <2>6, OutboundAppended
    <3>2. ChannelTypeOK'
      <4>1. /\ serving' \in Calls \cup {None} /\ left' \in 0 .. Timeout
            /\ pending' \subseteq Calls
        <5>1. serving' = c /\ left' = Timeout /\ pending' = pending \cup {c}
          BY <2>6
        <5>2. pending \subseteq Calls
          BY DEF TypeInv, ChannelTypeOK
        <5> QED
          BY <2>2, <5>1, <5>2
      <4>2. UNCHANGED <<call, age, alone, finished, refused, open, executed, reported,
                        up, linked, sent, unrouted, fate, toWorker>>
        BY <2>6
      <4> QED
        BY <3>1, <4>1, <4>2 DEF TypeInv, ChannelTypeOK, ReplyWait
    <3>3. QueueTypes'
      BY <2>2, <2>6, <3>1 DEF TypeInv, QueueTypes
    <3>4. QueueNames'
      BY <2>6, <3>1 DEF TypeInv, QueueNames
    <3> QED
      BY <3>2, <3>3, <3>4 DEF TypeInv
  <2>7. CASE /\ refused' = refused \cup {c}
             /\ finished' = finished \cup {c}
             /\ IF Len(toWorker) < WorkerCap
                  THEN /\ toWorker' = Append(toWorker, <<"error", c>>)
                       /\ fromWorker' = Tail(fromWorker)
                       /\ UNCHANGED linked
                  ELSE linked' = FALSE /\ toWorker' = <<>> /\ fromWorker' = <<>>
             /\ UNCHANGED <<serving, left, pending, reply, outbound>>
             /\ UNCHANGED <<workerVars, up, held, inbound, platformVars, dataVars>>
    <3>0. finished' \subseteq Calls /\ refused' \subseteq Calls
      BY <2>2, <2>7 DEF TypeInv, ChannelTypeOK
    <3>1. /\ toWorker' \in Seq(WorkerFrames) /\ Len(toWorker') <= WorkerCap
          /\ \A i \in 1 .. Len(toWorker') :
               IF toWorker'[i][1] = "data" THEN toWorker'[i][2] \in 1 .. Batches
               ELSE toWorker'[i][2] \in Calls
          /\ fromWorker' \in Seq(Calls) /\ linked' \in BOOLEAN
      <4>1. CASE Len(toWorker) < WorkerCap
        <5>1. /\ toWorker' = Append(toWorker, <<"error", c>>)
              /\ fromWorker' = Tail(fromWorker) /\ linked' = linked
          BY <2>7, <4>1
        <5>2. linked \in BOOLEAN
          BY DEF TypeInv, ChannelTypeOK
        <5>3. /\ toWorker' \in Seq(WorkerFrames) /\ Len(toWorker') <= WorkerCap
              /\ \A i \in 1 .. Len(toWorker') :
                   IF toWorker'[i][1] = "data" THEN toWorker'[i][2] \in 1 .. Batches
                   ELSE toWorker'[i][2] \in Calls
          BY <2>2, <2>4, <2>5, <4>1, <5>1, ToWorkerAppended
        <5> QED
          BY <2>2, <5>1, <5>2, <5>3
      <4>2. CASE ~(Len(toWorker) < WorkerCap)
        <5>1. linked' = FALSE /\ toWorker' = <<>> /\ fromWorker' = <<>>
          BY <2>7, <4>2
        <5>2. Len(toWorker') = 0
          BY <5>1, EmptyQueue
        <5>3. toWorker' \in Seq(WorkerFrames) /\ fromWorker' \in Seq(Calls)
          BY <5>1, EmptyQueue
        <5>4. linked' \in BOOLEAN
          BY <5>1
        <5> QED
          BY <5>2, <5>3, <5>4
      <4> QED
        BY <4>1, <4>2
    <3>2. ChannelTypeOK'
      BY <2>7, <3>0, <3>1 DEF TypeInv, ChannelTypeOK, ReplyWait
    <3>3. QueueTypes'
      BY <2>7, <3>1 DEF TypeInv, QueueTypes
    <3>4. QueueNames'
      BY <2>7, <3>1 DEF TypeInv, QueueNames
    <3> QED
      BY <3>2, <3>3, <3>4 DEF TypeInv
  <2> QED
    BY <1>2, <2>6, <2>7 DEF ServeCall, c
<1> QED
  BY <1>1, <1>2

LEMMA ChannelType ==
  ASSUME TypeInv,
         \/ SendFrame \/ Heartbeat \/ ReceiveAnswer \/ ReceiveData \/ Flush
         \/ ChannelDown
  PROVE  TypeInv'
<1> USE ChannelAssumption DEF workerVars, handlerVars, platformVars, dataVars
<1>0. Len(outbound) \in Nat /\ Len(toWorker) \in Nat
  BY DEF TypeInv, QueueTypes
<1>1. CASE SendFrame
  <2>1. outbound # <<>> /\ outbound' = Tail(outbound)
    BY <1>1 DEF SendFrame
  <2>2. /\ outbound' \in Seq(OutFrames) /\ Len(outbound') <= Cap
        /\ Head(outbound) = outbound[1] /\ 1 \in 1 .. Len(outbound)
        /\ \A i \in 1 .. Len(outbound') :
             outbound'[i][1] = "request" => outbound'[i][2] \in Calls
    BY <2>1, OutboundTaken
  <2>3. open' \subseteq Calls
    BY <1>1, <2>2 DEF SendFrame, TypeInv, ChannelTypeOK, QueueNames
  <2>4. ChannelTypeOK'
    BY <1>1, <2>2, <2>3 DEF SendFrame, TypeInv, ChannelTypeOK, ReplyWait
  <2>5. QueueTypes'
    BY <1>1, <2>2 DEF SendFrame, TypeInv, QueueTypes
  <2>6. QueueNames'
    BY <1>1, <2>2 DEF SendFrame, TypeInv, QueueNames
  <2> QED
    BY <2>4, <2>5, <2>6 DEF TypeInv
<1>2. CASE Heartbeat \/ Flush
  <2>1. PICK f \in OutFrames : f[1] # "request" /\ outbound' = Append(outbound, f)
    <3>1. CASE Heartbeat
      <4>1. <<"heartbeat", 0>> \in OutFrames /\ <<"heartbeat", 0>>[1] # "request"
        BY DEF OutFrames
      <4> QED
        BY <3>1, <4>1 DEF Heartbeat
    <3>2. CASE Flush
      BY <3>2 DEF Flush, TypeInv, QueueTypes, QueueNames
    <3> QED
      BY <1>2, <3>1, <3>2
  <2>2. Len(outbound) < Cap
    BY <1>2 DEF Heartbeat, Flush
  <2>3. /\ outbound' \in Seq(OutFrames) /\ Len(outbound') <= Cap
        /\ \A i \in 1 .. Len(outbound') :
             outbound'[i][1] = "request" => outbound'[i][2] \in Calls
    BY <1>0, <2>1, <2>2, OutboundAppended
  <2>4. held' = held \/ held' = NoFrame
    BY <1>2 DEF Heartbeat, Flush
  <2>5. ChannelTypeOK'
    BY <1>2, <2>3 DEF Heartbeat, Flush, TypeInv, ChannelTypeOK, ReplyWait
  <2>6. QueueTypes'
    BY <1>2, <2>3, <2>4 DEF Heartbeat, Flush, TypeInv, QueueTypes
  <2>7. QueueNames'
    BY <1>2, <2>3, <2>4 DEF Heartbeat, Flush, TypeInv, QueueNames, NoFrame
  <2> QED
    BY <2>5, <2>6, <2>7 DEF TypeInv
<1>3. CASE ReceiveAnswer
  <2>1. inbound # <<>> /\ inbound' = Tail(inbound)
    BY <1>3 DEF ReceiveAnswer
  <2>2. /\ inbound' \in Seq(InFrames)
        /\ Head(inbound) = inbound[1] /\ inbound[1] \in InFrames
        /\ \A i \in 1 .. Len(inbound') :
             IF inbound'[i][1] = "data" THEN inbound'[i][2] \in 1 .. sent
             ELSE inbound'[i][2] \in Calls
    BY <2>1, InboundTaken
  <2>3. inbound[1][1] \in Replies
    BY <1>3, <2>2 DEF ReceiveAnswer, InFrames, Replies
  <2>4. reply' \in Seq(Replies)
    <3>1. reply \in Seq(Replies)
      BY DEF TypeInv, QueueTypes
    <3>2. reply' = reply \/ reply' = Append(reply, inbound[1][1])
      BY <1>3, <2>2 DEF ReceiveAnswer
    <3> QED
      BY <2>3, <3>1, <3>2, AppendFacts
  <2>5. ChannelTypeOK'
    BY <1>3 DEF ReceiveAnswer, TypeInv, ChannelTypeOK, ReplyWait
  <2>6. QueueTypes'
    BY <1>3, <2>2, <2>4 DEF ReceiveAnswer, TypeInv, QueueTypes
  <2>7. QueueNames'
    BY <1>3, <2>2 DEF ReceiveAnswer, TypeInv, QueueNames
  <2> QED
    BY <2>5, <2>6, <2>7 DEF TypeInv
<1>4. CASE ReceiveData
  <2>1. inbound # <<>> /\ inbound' = Tail(inbound)
    BY <1>4 DEF ReceiveData
  <2> DEFINE b == Head(inbound)[2]
  <2>2. /\ inbound' \in Seq(InFrames)
        /\ b \in 1 .. sent
        /\ \A i \in 1 .. Len(inbound') :
             IF inbound'[i][1] = "data" THEN inbound'[i][2] \in 1 .. sent
             ELSE inbound'[i][2] \in Calls
    BY <1>4, <2>1, InboundTaken DEF ReceiveData
  <2>3. b \in 1 .. Batches
    <3> HIDE DEF b
    <3>1. sent \in 0 .. Batches
      BY DEF TypeInv, ChannelTypeOK
    <3> QED
      BY <2>2, <3>1
  <2>4. /\ <<"data", b>> \in WorkerFrames /\ <<"data", b>>[1] = "data"
        /\ <<"data", b>>[2] = b
    BY <2>3 DEF WorkerFrames
  <2>5. /\ <<"ack", b>> \in OutFrames /\ <<"ack", b>>[1] # "request"
        /\ NoFrame[1] # "request"
        /\ <<"backpressure", b>> \in OutFrames
        /\ <<"backpressure", b>>[1] # "request"
    BY <2>3 DEF OutFrames, NoFrame
  <2>6. /\ fate' \in [1 .. Batches -> {"none", "acked", "pushed back", "discarded"}]
        /\ held' \in {<<"ack", b>>, <<"backpressure", b>>, NoFrame}
        /\ \/ toWorker' = toWorker
           \/ Len(toWorker) < WorkerCap /\ toWorker' = Append(toWorker, <<"data", b>>)
    BY <1>4, <2>3 DEF ReceiveData, Accepts, Batch, Ack, Backpressure, TypeInv, ChannelTypeOK
  <2> HIDE DEF b
  <2>7. /\ toWorker' \in Seq(WorkerFrames) /\ Len(toWorker') <= WorkerCap
        /\ \A i \in 1 .. Len(toWorker') :
             IF toWorker'[i][1] = "data" THEN toWorker'[i][2] \in 1 .. Batches
             ELSE toWorker'[i][2] \in Calls
    <3>1. CASE toWorker' = toWorker
      BY <3>1 DEF TypeInv, ChannelTypeOK, QueueTypes, QueueNames
    <3>2. CASE Len(toWorker) < WorkerCap /\ toWorker' = Append(toWorker, <<"data", b>>)
      BY <1>0, <2>3, <2>4, <3>2, ToWorkerAppended
    <3> QED
      BY <2>6, <3>1, <3>2
  <2>8. UNCHANGED <<workerVars, fromWorker, handlerVars, up, outbound, platformVars,
                    received, linked>>
    BY <1>4 DEF ReceiveData
  <2>9. ChannelTypeOK'
    BY <2>6, <2>7, <2>8 DEF TypeInv, ChannelTypeOK, ReplyWait
  <2>10. QueueTypes'
    BY <2>2, <2>5, <2>6, <2>7, <2>8 DEF TypeInv, QueueTypes
  <2>11. QueueNames'
    BY <2>2, <2>5, <2>6, <2>7, <2>8 DEF TypeInv, QueueNames
  <2> QED
    BY <2>9, <2>10, <2>11 DEF TypeInv
<1>5. CASE ChannelDown
  <2>1. outbound' = <<>> /\ held' = NoFrame /\ inbound' = <<>> /\ up' \in BOOLEAN
    BY <1>5 DEF ChannelDown
  <2>2. Len(outbound') = 0 /\ Len(inbound') = 0
    BY <2>1, EmptyQueue
  <2>3. ChannelTypeOK'
    <3>1. UNCHANGED <<workerVars, fromWorker, handlerVars, platformVars, dataVars,
                      toWorker, linked>>
      BY <1>5 DEF ChannelDown
    <3>2. Len(outbound') <= Cap
      BY <2>2
    <3> QED
      BY <2>1, <3>1, <3>2 DEF TypeInv, ChannelTypeOK, ReplyWait
  <2>4. QueueTypes'
    BY <1>5, <2>1, EmptyQueue DEF ChannelDown, TypeInv, QueueTypes
  <2>5. QueueNames'
    BY <1>5, <2>1, <2>2 DEF ChannelDown, TypeInv, QueueNames, NoFrame
  <2> QED
    BY <2>3, <2>4, <2>5 DEF TypeInv
<1> QED
  BY <1>1, <1>2, <1>3, <1>4, <1>5

LEMMA PlatformType ==
  ASSUME TypeInv,
         \/ \E c \in Calls : PlatformAnswers(c) \/ PlatformReports(c)
         \/ PlatformSendsData \/ Tick
  PROVE  TypeInv'
<1> USE ChannelAssumption DEF workerVars, handlerVars, platformVars, dataVars
<1>0. sent \in 0 .. Batches
  BY DEF TypeInv, ChannelTypeOK
<1>1. ASSUME NEW c \in Calls, PlatformAnswers(c) \/ PlatformReports(c)
      PROVE  TypeInv'
  <2>1. PICK t \in Replies :
          inbound' = inbound \/ inbound' = Append(inbound, <<t, c>>)
    BY <1>1 DEF PlatformAnswers, PlatformReports, Replies
  <2>2. /\ <<t, c>> \in InFrames /\ <<t, c>>[1] # "data" /\ <<t, c>>[2] = c
    BY DEF InFrames, Replies, Calls
  <2>3. /\ inbound' \in Seq(InFrames)
        /\ \A i \in 1 .. Len(inbound') :
             IF inbound'[i][1] = "data" THEN inbound'[i][2] \in 1 .. sent
             ELSE inbound'[i][2] \in Calls
    <3>1. CASE inbound' = inbound
      BY <3>1 DEF TypeInv, QueueTypes, QueueNames
    <3>2. CASE inbound' = Append(inbound, <<t, c>>)
      <4>1. sent <= sent
        BY <1>0
      <4> QED
        BY <1>0, <2>2, <3>2, <4>1, InboundAppended
    <3> QED
      BY <2>1, <3>1, <3>2
  <2>4. /\ open' \subseteq Calls /\ executed' \subseteq Calls
        /\ reported' \subseteq Calls /\ sent' = sent /\ unrouted' = unrouted
    BY <1>1 DEF PlatformAnswers, PlatformReports, TypeInv, ChannelTypeOK
  <2>5. UNCHANGED <<workerVars, fromWorker, handlerVars, up, outbound, held,
                    dataVars, toWorker, linked>>
    BY <1>1 DEF PlatformAnswers, PlatformReports
  <2>6. ChannelTypeOK'
    BY <2>4, <2>5 DEF TypeInv, ChannelTypeOK, ReplyWait
  <2>7. QueueTypes'
    BY <2>3, <2>5 DEF TypeInv, QueueTypes
  <2>8. QueueNames'
    BY <2>3, <2>4, <2>5 DEF TypeInv, QueueNames
  <2> QED
    BY <2>6, <2>7, <2>8 DEF TypeInv
<1>2. CASE PlatformSendsData
  <2>1. /\ sent' = sent + 1 /\ sent < Batches
        /\ inbound' = Append(inbound, <<"data", sent + 1>>)
    BY <1>2 DEF PlatformSendsData
  <2> DEFINE f == <<"data", sent + 1>>
  <2>2. f \in InFrames /\ f[1] = "data" /\ f[2] = sent + 1
    BY <1>0 DEF InFrames
  <2>3. sent' \in 0 .. Batches /\ sent <= sent' /\ sent + 1 \in 1 .. sent'
    BY <1>0, <2>1
  <2> HIDE DEF f
  <2>4. /\ inbound' \in Seq(InFrames)
        /\ \A i \in 1 .. Len(inbound') :
             IF inbound'[i][1] = "data" THEN inbound'[i][2] \in 1 .. sent'
             ELSE inbound'[i][2] \in Calls
    <3>1. inbound' = Append(inbound, f)
      BY <2>1 DEF f
    <3> QED
      BY <2>2, <2>3, <3>1, InboundAppended
  <2>5. UNCHANGED <<workerVars, fromWorker, handlerVars, up, outbound, held, open,
                    executed, reported, dataVars, toWorker, linked>>
    BY <1>2 DEF PlatformSendsData
  <2>9. unrouted' \subseteq 1 .. Batches
    <3>1. unrouted' \subseteq unrouted \cup {sent + 1}
      BY <1>2 DEF PlatformSendsData
    <3>2. sent + 1 \in 1 .. Batches
      BY <1>0, <2>1
    <3> QED
      BY <3>1, <3>2 DEF TypeInv, ChannelTypeOK
  <2>6. ChannelTypeOK'
    BY <2>3, <2>5, <2>9 DEF TypeInv, ChannelTypeOK, ReplyWait
  <2>7. QueueTypes'
    BY <2>4, <2>5 DEF TypeInv, QueueTypes
  <2>8. QueueNames'
    BY <2>4, <2>5 DEF TypeInv, QueueNames
  <2> QED
    BY <2>6, <2>7, <2>8 DEF TypeInv
<1>3. CASE Tick
  <2>1. age' \in [Calls -> 0 .. ReplyWait]
    <3>1. ASSUME NEW c \in Calls, c \in Waiting
          PROVE  age[c] + 1 \in 0 .. ReplyWait
      <4>1. age[c] \in 0 .. ReplyWait /\ ~(age[c] >= ReplyWait)
        BY <1>3, <3>1 DEF Tick, Idle, Waiting, TypeInv, ChannelTypeOK
      <4> QED
        BY <4>1 DEF ReplyWait
    <3>2. 0 \in 0 .. ReplyWait
      BY DEF ReplyWait
    <3> QED
      BY <1>3, <3>1, <3>2 DEF Tick
  <2>2. left' \in 0 .. Timeout
    <3>1. left \in 0 .. Timeout
      BY DEF TypeInv, ChannelTypeOK
    <3>2. CASE serving # None
      <4>1. left > 0 /\ left' = left - 1
        BY <1>3, <3>2 DEF Tick, Idle
      <4> QED
        BY <3>1, <4>1
    <3>3. CASE serving = None
      BY <1>3, <3>1, <3>3 DEF Tick
    <3> QED
      BY <3>2, <3>3
  <2>3. UNCHANGED <<call, alone, fromWorker, serving, finished, refused, pending,
                    reply, up, outbound, held, inbound, platformVars, dataVars,
                    toWorker, linked>>
    BY <1>3 DEF Tick
  <2>4. ChannelTypeOK'
    BY <2>1, <2>2, <2>3 DEF TypeInv, ChannelTypeOK, ReplyWait
  <2>5. QueueTypes' /\ QueueNames'
    BY <2>3 DEF TypeInv, QueueTypes, QueueNames
  <2> QED
    BY <2>4, <2>5 DEF TypeInv
<1> QED
  BY <1>1, <1>2, <1>3

LEMMA NextType == TypeInv /\ [Next]_vars => TypeInv'
<1> SUFFICES ASSUME TypeInv, [Next]_vars PROVE TypeInv'
  OBVIOUS
<1>1. CASE UNCHANGED vars
  BY <1>1 DEF vars, workerVars, handlerVars, platformVars, dataVars, TypeInv,
     ChannelTypeOK, QueueTypes, QueueNames, ReplyWait
<1>2. CASE Next
  BY <1>2, WorkerType, HandlerType, ChannelType, PlatformType DEF Next, Prompt
<1> QED
  BY <1>1, <1>2

\* The state of the channel keeps its types, and its queues their capacities.
THEOREM ChannelTypeCorrect == Spec => []TypeInv
BY InitType, NextType, PTL DEF Spec

-----------------------------------------------------------------------------
(* The queues as sets: the names in the frames of one kind, and the members *)
(* of a queue without repetitions.                                          *)

Names(q, kind) == {q[i][2] : i \in {j \in 1 .. Len(q) : q[j][1] = kind}}
Members(q) == {q[i] : i \in 1 .. Len(q)}
Distinct(q) == \A i, j \in 1 .. Len(q) : q[i] = q[j] => i = j

LEMMA NamesAppended ==
  ASSUME NEW S, NEW q \in Seq(S), NEW f \in S, NEW kind
  PROVE  Names(Append(q, f), kind)
           = IF f[1] = kind THEN Names(q, kind) \cup {f[2]} ELSE Names(q, kind)
<1> DEFINE p == Append(q, f)
<1>1. /\ Len(p) = Len(q) + 1 /\ Len(q) \in Nat
      /\ \A i \in 1 .. Len(q) : p[i] = q[i]
      /\ p[Len(q) + 1] = f
  BY AppendFacts
<1> HIDE DEF p
<1>2. \A i : i \in 1 .. Len(p) <=> i \in 1 .. Len(q) \/ i = Len(q) + 1
  BY <1>1
<1>3. ASSUME NEW n PROVE n \in Names(p, kind) <=> n \in Names(q, kind) \/ (f[1] = kind /\ n = f[2])
  BY <1>1, <1>2 DEF Names
<1>4. CASE f[1] = kind
  BY <1>3, <1>4 DEF p
<1>5. CASE f[1] # kind
  BY <1>3, <1>5 DEF p
<1> QED
  BY <1>4, <1>5

LEMMA NamesTaken ==
  ASSUME NEW S, NEW q \in Seq(S), q # <<>>, NEW kind
  PROVE  /\ Names(Tail(q), kind) \subseteq Names(q, kind)
         /\ q[1][1] = kind => q[1][2] \in Names(q, kind)
<1> DEFINE p == Tail(q)
<1>1. /\ Len(q) \in Nat \ {0}
      /\ \A i \in 1 .. Len(p) : i + 1 \in 1 .. Len(q) /\ p[i] = q[i + 1]
  BY TailFacts
<1>2. 1 \in 1 .. Len(q)
  BY <1>1
<1> HIDE DEF p
<1>3. Names(p, kind) \subseteq Names(q, kind)
  BY <1>1 DEF Names
<1>4. q[1][1] = kind => q[1][2] \in Names(q, kind)
  BY <1>2 DEF Names
<1> QED
  BY <1>3, <1>4 DEF p

LEMMA NamesEmpty == \A kind : Names(<<>>, kind) = {}
BY EmptyQueue DEF Names

LEMMA MembersAppended ==
  ASSUME NEW S, NEW q \in Seq(S), NEW e \in S
  PROVE  /\ Members(Append(q, e)) = Members(q) \cup {e}
         /\ Distinct(q) /\ e \notin Members(q) => Distinct(Append(q, e))
<1> DEFINE p == Append(q, e)
<1>1. /\ Len(p) = Len(q) + 1 /\ Len(q) \in Nat
      /\ \A i \in 1 .. Len(q) : p[i] = q[i]
      /\ p[Len(q) + 1] = e
  BY AppendFacts
<1> HIDE DEF p
<1>2. \A i : i \in 1 .. Len(p) <=> i \in 1 .. Len(q) \/ i = Len(q) + 1
  BY <1>1
<1>3. Members(p) = Members(q) \cup {e}
  BY <1>1, <1>2 DEF Members
<1>4. Distinct(q) /\ e \notin Members(q) => Distinct(p)
  BY <1>1, <1>2 DEF Distinct, Members
<1> QED
  BY <1>3, <1>4 DEF p

LEMMA MembersTaken ==
  ASSUME NEW S, NEW q \in Seq(S), q # <<>>
  PROVE  /\ Head(q) \in Members(q) /\ Members(Tail(q)) \subseteq Members(q)
         /\ Distinct(q) => Distinct(Tail(q)) /\ Head(q) \notin Members(Tail(q))
<1> DEFINE p == Tail(q)
<1>1. /\ Len(q) \in Nat \ {0} /\ Len(p) = Len(q) - 1 /\ Head(q) = q[1]
      /\ \A i \in 1 .. Len(p) : i + 1 \in 1 .. Len(q) /\ p[i] = q[i + 1]
  BY TailFacts
<1>2. 1 \in 1 .. Len(q)
  BY <1>1
<1> HIDE DEF p
<1>3. Head(q) \in Members(q) /\ Members(p) \subseteq Members(q)
  BY <1>1, <1>2 DEF Members
<1>4. ASSUME Distinct(q) PROVE Distinct(p) /\ Head(q) \notin Members(p)
  <2>1. ASSUME NEW i \in 1 .. Len(p), NEW j \in 1 .. Len(p), p[i] = p[j] PROVE i = j
    <3>1. q[i + 1] = q[j + 1] /\ i + 1 \in 1 .. Len(q) /\ j + 1 \in 1 .. Len(q)
      BY <1>1, <2>1
    <3>2. i + 1 = j + 1
      BY <1>4, <3>1 DEF Distinct
    <3> QED
      BY <3>2
  <2>2. ASSUME NEW i \in 1 .. Len(p), p[i] = Head(q) PROVE FALSE
    <3>1. q[i + 1] = q[1] /\ i + 1 \in 1 .. Len(q)
      BY <1>1, <2>2
    <3>2. i + 1 = 1
      BY <1>2, <1>4, <3>1 DEF Distinct
    <3> QED
      BY <3>2
  <2> QED
    BY <2>1, <2>2 DEF Distinct, Members
<1> QED
  BY <1>3, <1>4 DEF p

LEMMA MembersEmpty == Members(<<>>) = {} /\ Distinct(<<>>)
BY EmptyQueue DEF Members, Distinct

-----------------------------------------------------------------------------
(* What callers are told is what happened *)

\* Every answer on its way, in the platform's frames, in the reply of the
\* request in progress and in the worker's queue, is about what it names.
Told ==
  /\ OkMeansExecuted
  /\ Names(toWorker, "ok") \subseteq executed
  /\ Names(inbound, "response") \subseteq executed
  /\ pending \subseteq {serving}
  /\ "response" \in Members(reply) => serving \in executed
  /\ serving = None => reply = <<>>

\* A call waits once in the worker's line, and what waits there or was never
\* made has left no trace further on.
Traces == refused \cup open \cup executed \cup Names(outbound, "request")
Asked ==
  /\ Distinct(fromWorker)
  /\ \A c \in Members(fromWorker) : call[c] # "idle"
  /\ \A c \in Calls : call[c] = "idle" \/ c \in Members(fromWorker) => c \notin Traces
  /\ refused \cap (open \cup executed \cup Names(outbound, "request")) = {}

TruthInv == Told /\ Asked

LEMMA NoneIsNoCall == None \notin Calls
BY DEF None, Calls

LEMMA InitTruth == Init => TruthInv
<1> SUFFICES ASSUME Init PROVE TruthInv
  OBVIOUS
<1>1. Names(outbound, "request") = {}
  <2>1. Len(outbound) = 1 /\ outbound[1][1] = "hello"
    BY DEF Init
  <2> QED
    BY <2>1 DEF Names
<1>2. /\ Names(toWorker, "ok") = {} /\ Names(inbound, "response") = {}
      /\ Members(reply) = {} /\ Members(fromWorker) = {} /\ Distinct(fromWorker)
  BY NamesEmpty, MembersEmpty DEF Init
<1> QED
  BY <1>1, <1>2 DEF Init, TruthInv, Told, Asked, Traces, OkMeansExecuted

\* The worker's steps: a call starts, or one that waits is answered.
LEMMA WorkerTruth ==
  ASSUME TypeInv, TruthInv,
         \/ \E c \in Calls : InvokePlatform(c) \/ WorkerGivesUp(c)
         \/ WorkerTakes
  PROVE  TruthInv'
<1> USE DEF workerVars, handlerVars, platformVars, dataVars
<1>0. call \in [Calls -> {"idle", "waiting", "ok", "error", "timeout"}]
  BY DEF TypeInv, ChannelTypeOK
<1>1. ASSUME NEW c \in Calls, InvokePlatform(c) PROVE TruthInv'
  <2>1. fromWorker' = Append(fromWorker, c) /\ call[c] = "idle" /\ call' = [call EXCEPT ![c] = "waiting"]
    BY <1>1 DEF InvokePlatform
  <2>2. fromWorker \in Seq(Calls)
    BY DEF TypeInv, QueueTypes
  <2>3. c \notin Members(fromWorker)
    BY <2>1 DEF TruthInv, Asked
  <2>4. Members(fromWorker') = Members(fromWorker) \cup {c} /\ Distinct(fromWorker')
    BY <2>1, <2>2, <2>3, MembersAppended DEF TruthInv, Asked
  <2>5. UNCHANGED <<handlerVars, outbound, inbound, platformVars, toWorker>>
    BY <1>1 DEF InvokePlatform
  <2>6. Traces' = Traces
    BY <2>5 DEF Traces
  <2>7. Told'
    BY <1>0, <2>1, <2>5 DEF TruthInv, Told, OkMeansExecuted
  <2>8. Asked'
    BY <1>0, <2>1, <2>4, <2>5, <2>6 DEF TruthInv, Asked
  <2> QED
    BY <2>7, <2>8 DEF TruthInv
<1>2. ASSUME NEW c \in Calls, WorkerGivesUp(c) PROVE TruthInv'
  <2>1. call' = [call EXCEPT ![c] = "timeout"] /\ call[c] = "waiting"
    BY <1>2 DEF WorkerGivesUp
  <2>2. UNCHANGED <<fromWorker, handlerVars, outbound, inbound, platformVars, toWorker>>
    BY <1>2 DEF WorkerGivesUp
  <2>3. Told'
    BY <1>0, <2>1, <2>2 DEF TruthInv, Told, OkMeansExecuted
  <2>4. Traces' = Traces
    BY <2>2 DEF Traces
  <2>5. Asked'
    BY <1>0, <2>1, <2>2, <2>4 DEF TruthInv, Asked
  <2> QED
    BY <2>3, <2>5 DEF TruthInv
<1>3. CASE WorkerTakes
  <2>1. toWorker # <<>> /\ toWorker' = Tail(toWorker) /\ toWorker \in Seq(WorkerFrames)
    BY <1>3 DEF WorkerTakes, TypeInv, QueueTypes
  <2>2. UNCHANGED <<fromWorker, handlerVars, outbound, inbound, platformVars>>
    BY <1>3 DEF WorkerTakes
  <2> DEFINE f == Head(toWorker)
  <2>3. f = toWorker[1]
    BY <2>1, TailFacts
  <2>4. /\ Names(toWorker', "ok") \subseteq Names(toWorker, "ok")
        /\ f[1] = "ok" => f[2] \in Names(toWorker, "ok")
    BY <2>1, <2>3, NamesTaken
  <2>5. f[1] = "ok" => f[2] \in executed
    BY <2>4 DEF TruthInv, Told
  <2>6. \/ call' = call
        \/ /\ f[1] \in {"ok", "error"} /\ call[f[2]] = "waiting"
           /\ call' = [call EXCEPT ![f[2]] = f[1]]
    BY <1>3 DEF WorkerTakes
  <2> HIDE DEF f
  <2>7. \A c \in Calls : /\ call'[c] = "idle" <=> call[c] = "idle"
                         /\ call'[c] = "ok" => call[c] = "ok" \/ c \in executed
    BY <1>0, <2>5, <2>6
  <2>8. Told'
    BY <2>2, <2>4, <2>7 DEF TruthInv, Told, OkMeansExecuted
  <2>9. Traces' = Traces
    BY <2>2 DEF Traces
  <2>10. Members(fromWorker) \subseteq Calls
    BY DEF TypeInv, QueueTypes, Members
  <2>11. Asked'
    BY <2>2, <2>7, <2>9, <2>10 DEF TruthInv, Asked
  <2> QED
    BY <2>8, <2>11 DEF TruthInv
<1> QED
  BY <1>1, <1>2, <1>3

\* The handler: a request that was refused leaves no trace, and a result says
\* "ok" only for a response.
LEMMA HandlerTruth ==
  ASSUME TypeInv, TruthInv, ServeCall \/ ServeReply \/ ServeTimeout
  PROVE  TruthInv'
<1> USE DEF workerVars, platformVars, dataVars
<1>0. /\ fromWorker \in Seq(Calls) /\ outbound \in Seq(OutFrames)
      /\ toWorker \in Seq(WorkerFrames) /\ reply \in Seq(Replies)
  BY DEF TypeInv, QueueTypes
<1>1. CASE ServeReply \/ ServeTimeout
  <2>1. serving \in Calls
    BY <1>1 DEF ServeReply, ServeTimeout, TypeInv, ChannelTypeOK
  <2>2. PICK o \in {"ok", "error"} :
           /\ Finish(serving, o)
           /\ o = "ok" => reply # <<>> /\ Head(reply) = "response"
    BY <1>1 DEF ServeReply, ServeTimeout
  <2>3. UNCHANGED <<workerVars, refused, outbound, inbound, platformVars>>
    BY <1>1 DEF ServeReply, ServeTimeout
  <2>4. o = "ok" => serving \in executed
    BY <1>0, <2>2, MembersTaken DEF TruthInv, Told
  <2>5. serving' = None /\ pending' = pending \ {serving} /\ reply' = <<>>
    BY <2>2 DEF Finish
  <2>6. Names(toWorker', "ok") \subseteq executed
    <3> DEFINE f == <<o, serving>>
    <3>1. f \in WorkerFrames /\ f[1] = o /\ f[2] = serving
      BY <2>1 DEF WorkerFrames, Calls
    <3>2. toWorker' = Append(toWorker, f) \/ toWorker' = <<>>
      BY <2>2 DEF Finish
    <3> HIDE DEF f
    <3>3. CASE toWorker' = Append(toWorker, f)
      <4>1. Names(toWorker', "ok") = IF f[1] = "ok" THEN Names(toWorker, "ok") \cup {f[2]}
                                      ELSE Names(toWorker, "ok")
        BY <1>0, <3>1, <3>3, NamesAppended
      <4> QED
        BY <2>4, <3>1, <4>1 DEF TruthInv, Told
    <3>4. CASE toWorker' = <<>>
      BY <3>4, NamesEmpty
    <3> QED
      BY <3>2, <3>3, <3>4
  <2>7. /\ Distinct(fromWorker') /\ Members(fromWorker') \subseteq Members(fromWorker)
    BY <2>2, MembersEmpty DEF Finish, TruthInv, Asked
  <2>8. Told'
    BY <2>3, <2>5, <2>6, MembersEmpty DEF TruthInv, Told, OkMeansExecuted
  <2>9. Traces' = Traces
    BY <2>3 DEF Traces
  <2>10. Asked'
    BY <2>3, <2>7, <2>9 DEF TruthInv, Asked
  <2> QED
    BY <2>8, <2>10 DEF TruthInv
<1>2. CASE ServeCall
  <2> DEFINE c == Head(fromWorker)
  <2>1. /\ c \in Members(fromWorker) /\ Members(Tail(fromWorker)) \subseteq Members(fromWorker)
        /\ Distinct(Tail(fromWorker)) /\ c \notin Members(Tail(fromWorker))
    BY <1>0, <1>2, MembersTaken DEF ServeCall, TruthInv, Asked
  <2>2. Members(fromWorker) \subseteq Calls
    BY <1>0 DEF Members
  <2>3. c \in Calls /\ c \notin Traces /\ call[c] # "idle"
    BY <2>1, <2>2 DEF TruthInv, Asked
  <2>4. serving = None /\ UNCHANGED <<workerVars, inbound, platformVars>>
    BY <1>2 DEF ServeCall
  <2>5. reply = <<>>
    BY <2>4 DEF TruthInv, Told
  <2> HIDE DEF c
  <2>6. CASE /\ fromWorker' = Tail(fromWorker)
             /\ outbound' = Append(outbound, <<"request", c>>)
             /\ serving' = c /\ pending' = pending \cup {c}
             /\ UNCHANGED <<refused, reply, toWorker>>
    <3> DEFINE f == <<"request", c>>
    <3>1. f \in OutFrames /\ f[1] = "request" /\ f[2] = c
      BY <2>3 DEF OutFrames, Calls
    <3>2. outbound' = Append(outbound, f)
      BY <2>6
    <3> HIDE DEF f
    <3>3. Names(outbound', "request") = Names(outbound, "request") \cup {c}
      BY <1>0, <3>1, <3>2, NamesAppended
    <3>4. Traces' = Traces \cup {c}
      BY <2>4, <2>6, <3>3 DEF Traces
    <3>5. pending = {}
      <4>1. pending \subseteq {None}
        BY <2>4 DEF TruthInv, Told
      <4>2. pending \subseteq Calls
        BY DEF TypeInv, ChannelTypeOK
      <4> QED
        BY <4>1, <4>2, NoneIsNoCall
    <3>6. Told'
      <4>1. serving' = c /\ pending' = {c} /\ reply' = <<>> /\ c # None
        BY <2>3, <2>5, <2>6, <3>5, NoneIsNoCall
      <4>2. UNCHANGED <<call, executed, inbound, toWorker>>
        BY <2>4, <2>6
      <4> QED
        BY <4>1, <4>2, MembersEmpty DEF TruthInv, Told, OkMeansExecuted
    <3>7. Asked'
      BY <2>1, <2>3, <2>4, <2>6, <3>3, <3>4 DEF TruthInv, Asked, Traces
    <3> QED
      BY <3>6, <3>7 DEF TruthInv
  <2>7. CASE /\ refused' = refused \cup {c}
             /\ IF Len(toWorker) < WorkerCap
                  THEN /\ toWorker' = Append(toWorker, <<"error", c>>)
                       /\ fromWorker' = Tail(fromWorker)
                  ELSE toWorker' = <<>> /\ fromWorker' = <<>>
             /\ UNCHANGED <<serving, pending, reply, outbound>>
    <3> DEFINE f == <<"error", c>>
    <3>1. f \in WorkerFrames /\ f[1] = "error"
      BY <2>3 DEF WorkerFrames, Calls
    <3>2. \/ toWorker' = Append(toWorker, f) /\ fromWorker' = Tail(fromWorker)
          \/ toWorker' = <<>> /\ fromWorker' = <<>>
      BY <2>7
    <3> HIDE DEF f
    <3>3. Names(toWorker', "ok") \subseteq Names(toWorker, "ok")
      <4>1. f[1] # "ok"
        BY <3>1
      <4>2. CASE toWorker' = Append(toWorker, f)
        BY <1>0, <3>1, <4>1, <4>2, NamesAppended
      <4>3. CASE toWorker' = <<>>
        BY <4>3, NamesEmpty
      <4> QED
        BY <3>2, <4>2, <4>3
    <3>4. /\ Distinct(fromWorker') /\ Members(fromWorker') \subseteq Members(fromWorker)
          /\ c \notin Members(fromWorker')
      BY <2>1, <3>2, MembersEmpty
    <3>5. Traces' = Traces \cup {c}
      BY <2>4, <2>7 DEF Traces
    <3>6. Told'
      BY <2>4, <2>7, <3>3 DEF TruthInv, Told, OkMeansExecuted
    <3>7. Asked'
      BY <2>3, <2>4, <2>7, <3>4, <3>5 DEF TruthInv, Asked, Traces
    <3> QED
      BY <3>6, <3>7 DEF TruthInv
  <2> QED
    BY <1>2, <2>6, <2>7 DEF ServeCall, c
<1> QED
  BY <1>1, <1>2

\* The channel moves frames: an answer reaches the request it names, or none.
LEMMA ChannelTruth ==
  ASSUME TypeInv, TruthInv,
         \/ SendFrame \/ Heartbeat \/ ReceiveAnswer \/ ReceiveData \/ Flush
         \/ ChannelDown
  PROVE  TruthInv'
<1> USE DEF workerVars, handlerVars, platformVars, dataVars
<1>0. /\ outbound \in Seq(OutFrames) /\ inbound \in Seq(InFrames)
      /\ toWorker \in Seq(WorkerFrames) /\ reply \in Seq(Replies)
  BY DEF TypeInv, QueueTypes
<1>1. CASE SendFrame
  <2>1. UNCHANGED <<workerVars, fromWorker, handlerVars, inbound, executed, toWorker>>
    BY <1>1 DEF SendFrame
  <2>2. /\ Names(outbound', "request") \subseteq Names(outbound, "request")
        /\ Head(outbound) = outbound[1]
        /\ outbound[1][1] = "request" => outbound[1][2] \in Names(outbound, "request")
    BY <1>0, <1>1, NamesTaken, TailFacts DEF SendFrame
  <2>3. open' \subseteq open \cup Names(outbound, "request")
    BY <1>1, <2>2 DEF SendFrame
  <2>4. Traces' \subseteq Traces
    BY <2>1, <2>2, <2>3 DEF Traces
  <2>5. Told'
    BY <2>1 DEF TruthInv, Told, OkMeansExecuted
  <2>6. Asked'
    BY <2>1, <2>2, <2>3, <2>4 DEF TruthInv, Asked
  <2> QED
    BY <2>5, <2>6 DEF TruthInv
<1>2. CASE Heartbeat \/ Flush
  <2>1. PICK f \in OutFrames : f[1] # "request" /\ outbound' = Append(outbound, f)
    <3>1. CASE Heartbeat
      <4>1. <<"heartbeat", 0>> \in OutFrames /\ <<"heartbeat", 0>>[1] # "request"
        BY DEF OutFrames
      <4> QED
        BY <3>1, <4>1 DEF Heartbeat
    <3>2. CASE Flush
      BY <3>2 DEF Flush, TypeInv, QueueTypes, QueueNames
    <3> QED
      BY <1>2, <3>1, <3>2
  <2>2. Names(outbound', "request") = Names(outbound, "request")
    BY <1>0, <2>1, NamesAppended
  <2>3. UNCHANGED <<workerVars, fromWorker, handlerVars, inbound, platformVars, toWorker>>
    BY <1>2 DEF Heartbeat, Flush
  <2>4. Traces' = Traces
    BY <2>2, <2>3 DEF Traces
  <2>5. Told'
    BY <2>3 DEF TruthInv, Told, OkMeansExecuted
  <2>6. Asked'
    BY <2>2, <2>3, <2>4 DEF TruthInv, Asked
  <2> QED
    BY <2>5, <2>6 DEF TruthInv
<1>3. CASE ReceiveAnswer
  <2>1. UNCHANGED <<workerVars, fromWorker, serving, finished, refused, pending,
                    outbound, platformVars, toWorker>>
    BY <1>3 DEF ReceiveAnswer
  <2>2. /\ Names(inbound', "response") \subseteq Names(inbound, "response")
        /\ Head(inbound) = inbound[1]
        /\ inbound[1][1] = "response" => inbound[1][2] \in Names(inbound, "response")
    BY <1>0, <1>3, NamesTaken, TailFacts DEF ReceiveAnswer
  <2>3. inbound[1][1] \in Replies
    <3>1. inbound[1] \in InFrames /\ inbound[1][1] # "data"
      BY <1>0, <1>3, <2>2, TailFacts DEF ReceiveAnswer
    <3> QED
      BY <3>1 DEF InFrames, Replies
  <2>4. CASE reply' = reply
    BY <2>1, <2>2, <2>4 DEF TruthInv, Told, OkMeansExecuted, Asked, Traces
  <2>5. CASE inbound[1][2] \in pending /\ reply' = Append(reply, inbound[1][1])
    <3>1. Members(reply') = Members(reply) \cup {inbound[1][1]}
      BY <1>0, <2>3, <2>5, MembersAppended
    <3>2. inbound[1][2] = serving /\ serving # None
      <4>1. pending \subseteq {serving} /\ pending \subseteq Calls
        BY DEF TruthInv, Told, TypeInv, ChannelTypeOK
      <4> QED
        BY <2>5, <4>1, NoneIsNoCall
    <3>3. "response" \in Members(reply') => serving \in executed
      BY <2>2, <3>1, <3>2 DEF TruthInv, Told
    <3>4. Told'
      BY <2>1, <2>2, <3>2, <3>3 DEF TruthInv, Told, OkMeansExecuted
    <3>5. Asked'
      BY <2>1 DEF TruthInv, Asked, Traces
    <3> QED
      BY <3>4, <3>5 DEF TruthInv
  <2> QED
    BY <1>3, <2>2, <2>4, <2>5 DEF ReceiveAnswer
<1>4. CASE ReceiveData
  <2>1. UNCHANGED <<workerVars, fromWorker, handlerVars, outbound, platformVars>>
    BY <1>4 DEF ReceiveData
  <2>2. Names(inbound', "response") \subseteq Names(inbound, "response")
    BY <1>0, <1>4, NamesTaken DEF ReceiveData
  <2> DEFINE b == Head(inbound)[2]
  <2>3. toWorker' = toWorker \/ toWorker' = Append(toWorker, <<"data", b>>)
    BY <1>4 DEF ReceiveData, Batch
  <2>4. b \in Nat
    <3>1. inbound # <<>>
      BY <1>4 DEF ReceiveData
    <3>2. Head(inbound) = inbound[1] /\ inbound[1] \in InFrames
      BY <1>0, <3>1, TailFacts
    <3> QED
      BY <3>2 DEF InFrames
  <2> HIDE DEF b
  <2> DEFINE f == <<"data", b>>
  <2>5. f \in WorkerFrames /\ f[1] # "ok"
    BY <2>4 DEF WorkerFrames
  <2>6. toWorker' = toWorker \/ toWorker' = Append(toWorker, f)
    BY <2>3
  <2> HIDE DEF f
  <2>7. Names(toWorker', "ok") = Names(toWorker, "ok")
    <3>1. Names(Append(toWorker, f), "ok") = Names(toWorker, "ok")
      BY <1>0, <2>5, NamesAppended
    <3> QED
      BY <2>6, <3>1
  <2>8. Told'
    BY <2>1, <2>2, <2>7 DEF TruthInv, Told, OkMeansExecuted
  <2>9. Asked'
    BY <2>1 DEF TruthInv, Asked, Traces
  <2> QED
    BY <2>8, <2>9 DEF TruthInv
<1>5. CASE ChannelDown
  <2>1. UNCHANGED <<workerVars, fromWorker, handlerVars, platformVars, toWorker>>
    BY <1>5 DEF ChannelDown
  <2>2. Names(outbound', "request") = {} /\ Names(inbound', "response") = {}
    BY <1>5, NamesEmpty DEF ChannelDown
  <2>3. Told'
    BY <2>1, <2>2 DEF TruthInv, Told, OkMeansExecuted
  <2>4. Asked'
    BY <2>1, <2>2 DEF TruthInv, Asked, Traces
  <2> QED
    BY <2>3, <2>4 DEF TruthInv
<1> QED
  BY <1>1, <1>2, <1>3, <1>4, <1>5

\* The platform executes before it answers, and only what it has read.
LEMMA PlatformTruth ==
  ASSUME TypeInv, TruthInv,
         \/ \E c \in Calls : PlatformAnswers(c) \/ PlatformReports(c)
         \/ PlatformSendsData \/ Tick
  PROVE  TruthInv'
<1> USE DEF workerVars, handlerVars, platformVars, dataVars
<1>0. inbound \in Seq(InFrames) /\ sent \in Nat
  <2>1. sent \in 0 .. Batches
    BY DEF TypeInv, ChannelTypeOK
  <2>2. inbound \in Seq(InFrames)
    BY DEF TypeInv, QueueTypes
  <2> QED
    BY <2>1, <2>2
<1>1. ASSUME NEW c \in Calls, PlatformAnswers(c) PROVE TruthInv'
  <2>1. PICK t \in {"response", "error"} :
          /\ executed' = IF t = "response" THEN executed \cup {c} ELSE executed
          /\ inbound' = IF up THEN Append(inbound, <<t, c>>) ELSE inbound
    BY <1>1 DEF PlatformAnswers
  <2>2. UNCHANGED <<workerVars, fromWorker, handlerVars, outbound, toWorker>>
    BY <1>1 DEF PlatformAnswers
  <2>3. c \in open /\ open' = open \ {c}
    BY <1>1 DEF PlatformAnswers
  <2> DEFINE f == <<t, c>>
  <2>4. f \in InFrames /\ f[1] = t /\ f[2] = c
    BY DEF InFrames, Calls
  <2>5. inbound' = inbound \/ inbound' = Append(inbound, f)
    BY <2>1
  <2> HIDE DEF f
  <2>6. Names(inbound', "response") \subseteq executed'
    <3>1. CASE inbound' = inbound
      BY <2>1, <3>1 DEF TruthInv, Told
    <3>2. CASE inbound' = Append(inbound, f)
      <4>1. Names(inbound', "response")
              = IF f[1] = "response" THEN Names(inbound, "response") \cup {f[2]}
                ELSE Names(inbound, "response")
        BY <1>0, <2>4, <3>2, NamesAppended
      <4> QED
        BY <2>1, <2>4, <4>1 DEF TruthInv, Told
    <3> QED
      BY <2>5, <3>1, <3>2
  <2>7. executed \subseteq executed' /\ executed' \subseteq executed \cup {c}
    BY <2>1
  <2>8. Told'
    BY <2>2, <2>6, <2>7 DEF TruthInv, Told, OkMeansExecuted
  <2>9. Traces' \subseteq Traces
    BY <2>2, <2>3, <2>7 DEF Traces
  <2>10. Asked'
    BY <2>2, <2>3, <2>7, <2>9 DEF TruthInv, Asked
  <2> QED
    BY <2>8, <2>10 DEF TruthInv
<1>2. ASSUME NEW c \in Calls, PlatformReports(c) PROVE TruthInv'
  <2>1. UNCHANGED <<workerVars, fromWorker, handlerVars, outbound, open, executed,
                    toWorker>>
    BY <1>2 DEF PlatformReports
  <2> DEFINE f == <<"progress", c>>
  <2>2. f \in InFrames /\ f[1] # "response"
    BY DEF InFrames, Calls
  <2>3. inbound' = Append(inbound, f)
    BY <1>2 DEF PlatformReports
  <2> HIDE DEF f
  <2>4. Names(inbound', "response") = Names(inbound, "response")
    BY <1>0, <2>2, <2>3, NamesAppended
  <2> QED
    BY <2>1, <2>4 DEF TruthInv, Told, OkMeansExecuted, Asked, Traces
<1>3. CASE PlatformSendsData
  <2>1. UNCHANGED <<workerVars, fromWorker, handlerVars, outbound, open, executed,
                    toWorker>>
    BY <1>3 DEF PlatformSendsData
  <2> DEFINE f == <<"data", sent + 1>>
  <2>2. f \in InFrames /\ f[1] # "response"
    BY <1>0 DEF InFrames
  <2>3. inbound' = Append(inbound, f)
    BY <1>3 DEF PlatformSendsData
  <2> HIDE DEF f
  <2>4. Names(inbound', "response") = Names(inbound, "response")
    BY <1>0, <2>2, <2>3, NamesAppended
  <2> QED
    BY <2>1, <2>4 DEF TruthInv, Told, OkMeansExecuted, Asked, Traces
<1>4. CASE Tick
  BY <1>4 DEF Tick, TruthInv, Told, OkMeansExecuted, Asked, Traces
<1> QED
  BY <1>1, <1>2, <1>3, <1>4

LEMMA NextTruth == TypeInv /\ TruthInv /\ [Next]_vars => TruthInv'
<1> SUFFICES ASSUME TypeInv, TruthInv, [Next]_vars PROVE TruthInv'
  OBVIOUS
<1>1. CASE UNCHANGED vars
  BY <1>1 DEF vars, workerVars, handlerVars, platformVars, dataVars, TruthInv,
     Told, OkMeansExecuted, Asked, Traces
<1>2. CASE Next
  BY <1>2, WorkerTruth, HandlerTruth, ChannelTruth, PlatformTruth DEF Next, Prompt
<1> QED
  BY <1>1, <1>2

\* A caller is told the truth: a call that returns a response was executed by
\* the platform, and a request that Send refused is never executed, whatever
\* progress frames, timeouts, full queues and late answers come between
\* (WorkerAgentClient.invoke_platform_unary, InvokePlatformAny).
THEOREM CallersAreToldTheTruth == Spec => []AnswersAreTrue
<1>1. TypeInv /\ TruthInv => AnswersAreTrue
  BY DEF TypeInv, TruthInv, Told, Asked, AnswersAreTrue, RefusedNeverExecuted
<1>2. Spec => [](TypeInv /\ TruthInv)
  BY InitType, NextType, InitTruth, NextTruth, PTL DEF Spec
<1> QED
  BY <1>1, <1>2, PTL

-----------------------------------------------------------------------------
(* The grace of a call that found its connection idle *)

\* Such a call is next in line and has not aged, or it is being served and
\* its age and what is left of its timer make up the timeout; or the agent
\* is done with it.
NextInLine(c) ==
  /\ serving = None /\ linked /\ fromWorker # <<>> /\ Head(fromWorker) = c
  /\ age[c] = 0
OnTime(c) == serving = c /\ age[c] + left = Timeout

GraceOf(c) ==
  /\ call[c] = "idle" => age[c] = 0 /\ c \notin alone
  /\ c \in alone /\ call[c] = "waiting" /\ c \notin finished
       => NextInLine(c) \/ OnTime(c)
  /\ c \in alone /\ call[c] = "timeout" => c \in finished

GraceInv == \A c \in Calls : GraceOf(c)

LEMMA InitGrace == Init => GraceInv
BY DEF Init, GraceInv, GraceOf

\* A call that is added to a line with somebody in it does not change who is
\* next.
LEMMA HeadOfAppend ==
  ASSUME NEW S, NEW q \in Seq(S), NEW e \in S
  PROVE  /\ Append(q, e) # <<>>
         /\ q = <<>> => Head(Append(q, e)) = e
         /\ q # <<>> => Head(Append(q, e)) = Head(q)
<1>1. q # <<>> => Len(q) > 0 /\ Head(q) = q[1]
  OBVIOUS
<1>2. q = <<>> => Len(q) = 0
  OBVIOUS
<1>3. /\ Append(q, e) \in Seq(S) /\ Len(Append(q, e)) = Len(q) + 1 /\ Len(q) \in Nat
      /\ \A i \in 1 .. Len(q) : Append(q, e)[i] = q[i]
      /\ Append(q, e)[Len(q) + 1] = e
  BY AppendFacts
<1>4. Append(q, e) # <<>> /\ Head(Append(q, e)) = Append(q, e)[1]
  BY <1>3
<1> QED
  BY <1>1, <1>2, <1>3, <1>4

LEMMA WorkerGrace ==
  ASSUME TypeInv, GraceInv,
         \/ \E c \in Calls : InvokePlatform(c) \/ WorkerGivesUp(c)
         \/ WorkerTakes
  PROVE  GraceInv'
<1> USE DEF workerVars, handlerVars
<1>0. /\ call \in [Calls -> {"idle", "waiting", "ok", "error", "timeout"}]
      /\ age \in [Calls -> 0 .. ReplyWait] /\ left \in 0 .. Timeout
      /\ serving \in Calls \cup {None} /\ linked \in BOOLEAN
  BY DEF TypeInv, ChannelTypeOK
<1>1. ASSUME NEW c \in Calls, InvokePlatform(c) PROVE GraceInv'
  <2>1. /\ call[c] = "idle" /\ call' = [call EXCEPT ![c] = "waiting"] /\ linked
        /\ fromWorker' = Append(fromWorker, c)
        /\ alone' = IF serving = None /\ fromWorker = <<>> THEN alone \cup {c} ELSE alone
    BY <1>1 DEF InvokePlatform
  <2>2. age' = age /\ UNCHANGED <<serving, left, finished>> /\ linked'
    BY <1>1 DEF InvokePlatform
  <2>3. fromWorker \in Seq(Calls)
    BY DEF TypeInv, QueueTypes
  <2>4. /\ fromWorker' # <<>>
        /\ fromWorker = <<>> => Head(fromWorker') = c
        /\ fromWorker # <<>> => Head(fromWorker') = Head(fromWorker)
    BY <2>1, <2>3, HeadOfAppend
  <2>5. age[c] = 0 /\ c \notin alone
    BY <2>1 DEF GraceInv, GraceOf
  <2>6. GraceOf(c)'
    <3>1. call'[c] = "waiting"
      BY <1>0, <2>1
    <3>2. c \in alone' => NextInLine(c)'
      BY <2>1, <2>2, <2>4, <2>5 DEF NextInLine
    <3> QED
      BY <3>1, <3>2 DEF GraceOf
  <2>7. ASSUME NEW d \in Calls, d # c PROVE GraceOf(d)'
    <3>1. call'[d] = call[d] /\ (d \in alone' <=> d \in alone)
      BY <1>0, <2>1, <2>7
    <3>2. NextInLine(d) => NextInLine(d)'
      BY <2>2, <2>4 DEF NextInLine
    <3>3. OnTime(d) => OnTime(d)'
      BY <2>2 DEF OnTime
    <3> QED
      BY <2>2, <3>1, <3>2, <3>3 DEF GraceInv, GraceOf
  <2> QED
    BY <2>6, <2>7 DEF GraceInv
<1>2. ASSUME NEW c \in Calls, WorkerGivesUp(c) PROVE GraceInv'
  <2>1. /\ call[c] = "waiting" /\ age[c] >= Timeout + Grace
        /\ call' = [call EXCEPT ![c] = "timeout"]
    BY <1>2 DEF WorkerGivesUp, ReplyWait
  <2>2. UNCHANGED <<age, alone, fromWorker, serving, left, finished, linked>>
    BY <1>2 DEF WorkerGivesUp
  <2>3. ~NextInLine(c) /\ ~OnTime(c)
    BY <1>0, <2>1, ChannelAssumption DEF NextInLine, OnTime
  <2>4. GraceOf(c)'
    BY <1>0, <2>1, <2>2, <2>3 DEF GraceInv, GraceOf
  <2>5. ASSUME NEW d \in Calls, d # c PROVE GraceOf(d)'
    <3>1. call'[d] = call[d]
      BY <1>0, <2>1, <2>5
    <3> QED
      BY <2>2, <3>1 DEF GraceInv, GraceOf, NextInLine, OnTime
  <2> QED
    BY <2>4, <2>5 DEF GraceInv
<1>3. CASE WorkerTakes
  <2>1. UNCHANGED <<age, alone, fromWorker, serving, left, finished, linked>>
    BY <1>3 DEF WorkerTakes
  <2> DEFINE f == Head(toWorker)
  <2>2. \/ call' = call
        \/ /\ f[1] \in {"ok", "error"} /\ call[f[2]] = "waiting"
           /\ call' = [call EXCEPT ![f[2]] = f[1]]
    BY <1>3 DEF WorkerTakes
  <2> HIDE DEF f
  <2>3. ASSUME NEW d \in Calls PROVE GraceOf(d)'
    <3>1. call'[d] = call[d] \/ call'[d] \in {"ok", "error"}
      BY <1>0, <2>2
    <3> QED
      BY <2>1, <3>1 DEF GraceInv, GraceOf, NextInLine, OnTime
  <2> QED
    BY <2>3 DEF GraceInv
<1> QED
  BY <1>1, <1>2, <1>3

\* The handler takes who is next in line, and is done with whom it served.
LEMMA HandlerGrace ==
  ASSUME TypeInv, GraceInv, ServeCall \/ ServeReply \/ ServeTimeout
  PROVE  GraceInv'
<1> USE DEF workerVars
<1>1. UNCHANGED <<call, age, alone>>
  BY DEF ServeCall, ServeReply, ServeTimeout
<1>2. CASE ServeReply \/ ServeTimeout
  <2>1. serving # None /\ finished' = finished \cup {serving}
    BY <1>2 DEF ServeReply, ServeTimeout, Finish
  <2> QED
    BY <1>1, <2>1 DEF GraceInv, GraceOf, NextInLine, OnTime
<1>3. CASE ServeCall
  <2> DEFINE h == Head(fromWorker)
  <2>1. serving = None /\ fromWorker # <<>> /\ h \in Calls
    <3>1. serving = None /\ fromWorker # <<>>
      BY <1>3 DEF ServeCall
    <3>2. fromWorker \in Seq(Calls)
      BY DEF TypeInv, QueueTypes
    <3> QED
      BY <3>1, <3>2, TailFacts
  <2>2. \/ serving' = h /\ left' = Timeout /\ finished' = finished
        \/ finished' = finished \cup {h}
    BY <1>3 DEF ServeCall
  <2> HIDE DEF h
  <2>3. ASSUME NEW d \in Calls PROVE GraceOf(d)'
    <3>1. ~OnTime(d)
      BY <2>1, NoneIsNoCall DEF OnTime
    <3>2. NextInLine(d) => d = h /\ age[d] = 0
      BY DEF NextInLine, h
    <3>3. CASE serving' = h /\ left' = Timeout /\ finished' = finished
      <4>1. NextInLine(d) => OnTime(d)'
        BY <1>1, <3>2, <3>3, ChannelAssumption DEF OnTime
      <4> QED
        BY <1>1, <3>1, <3>3, <4>1 DEF GraceInv, GraceOf
    <3>4. CASE finished' = finished \cup {h}
      BY <1>1, <3>1, <3>2, <3>4 DEF GraceInv, GraceOf
    <3> QED
      BY <2>2, <3>3, <3>4
  <2> QED
    BY <2>3 DEF GraceInv
<1> QED
  BY <1>2, <1>3

\* Time passes only when nobody is next in line, and for the call being
\* served it runs down the timer as fast as it ages the call.
LEMMA TickGrace ==
  ASSUME TypeInv, GraceInv, Tick
  PROVE  GraceInv'
<1>1. UNCHANGED <<call, alone, fromWorker, serving, finished, linked>>
  BY DEF Tick
<1>2. /\ age' = [c \in Calls |-> IF c \in Waiting THEN age[c] + 1 ELSE 0]
      /\ left' = IF serving # None THEN left - 1 ELSE left
      /\ ~(serving = None /\ fromWorker # <<>> /\ linked)
  BY DEF Tick, Idle
<1>3. age \in [Calls -> 0 .. ReplyWait] /\ left \in 0 .. Timeout
  BY DEF TypeInv, ChannelTypeOK
<1>4. ASSUME NEW c \in Calls PROVE GraceOf(c)'
  <2>1. ~NextInLine(c)
    BY <1>2 DEF NextInLine
  <2>2. CASE call[c] = "waiting"
    <3>1. age'[c] = age[c] + 1
      BY <1>2, <2>2 DEF Waiting
    <3>2. OnTime(c) => OnTime(c)'
      <4>1. OnTime(c) => left' = left - 1
        BY <1>2, NoneIsNoCall DEF OnTime
      <4> QED
        BY <1>1, <1>3, <3>1, <4>1, ChannelAssumption DEF OnTime
    <3> QED
      BY <1>1, <2>1, <2>2, <3>2 DEF GraceInv, GraceOf
  <2>3. CASE call[c] # "waiting"
    <3>1. age'[c] = 0
      BY <1>2, <2>3 DEF Waiting
    <3> QED
      BY <1>1, <2>3, <3>1 DEF GraceInv, GraceOf
  <2> QED
    BY <2>2, <2>3
<1> QED
  BY <1>4 DEF GraceInv

LEMMA NextGrace == TypeInv /\ GraceInv /\ [Next]_vars => GraceInv'
<1> SUFFICES ASSUME TypeInv, GraceInv, [Next]_vars PROVE GraceInv'
  OBVIOUS
<1>1. CASE UNCHANGED <<workerVars, fromWorker, serving, left, finished, linked>>
  BY <1>1 DEF workerVars, GraceInv, GraceOf, NextInLine, OnTime
<1>2. \/ UNCHANGED vars \/ SendFrame \/ Heartbeat \/ ReceiveAnswer \/ ReceiveData
      \/ Flush \/ ChannelDown \/ PlatformSendsData
      \/ \E c \in Calls : PlatformAnswers(c) \/ PlatformReports(c)
      => UNCHANGED <<workerVars, fromWorker, serving, left, finished, linked>>
  BY DEF vars, handlerVars, SendFrame, Heartbeat, ReceiveAnswer, ReceiveData,
     Flush, ChannelDown, PlatformSendsData, PlatformAnswers, PlatformReports
<1> QED
  BY <1>1, <1>2, WorkerGrace, HandlerGrace, TickGrace DEF Next, Prompt

\* The worker's extra wait is enough for a call that found its connection
\* idle: when it gives up the agent was done with it, for every timeout and
\* every grace of at least one tick (WorkerAgentClient.invoke_platform_unary).
THEOREM GraceIsEnough == Spec => []GraceSuffices
<1>1. GraceInv => GraceSuffices
  BY DEF GraceInv, GraceOf, GraceSuffices
<1>2. Spec => [](TypeInv /\ GraceInv)
  BY InitType, NextType, InitGrace, NextGrace, PTL DEF Spec
<1> QED
  BY <1>1, <1>2, PTL

-----------------------------------------------------------------------------
(* The batches reach the worker in order *)

\* The data frames of a queue name ever later batches.
Rising(q) ==
  \A i, j \in 1 .. Len(q) :
    q[i][1] = "data" /\ q[j][1] = "data" /\ i < j => q[i][2] < q[j][2]
Increasing(s) == \A i, j \in 1 .. Len(s) : i < j => s[i] < s[j]
Below(A, B) == \A a \in A, b \in B : a < b

\* Received, queued and not yet received batches follow each other, and the
\* agent has acknowledged nothing newer than what is still to come.
DataInv ==
  /\ Increasing(received) /\ Rising(toWorker) /\ Rising(inbound)
  /\ Below(Members(received), Names(toWorker, "data"))
  /\ Below(Acked, Names(inbound, "data"))
  /\ Members(received) \subseteq Acked /\ Names(toWorker, "data") \subseteq Acked
  /\ Acked \subseteq 1 .. sent
  /\ \A b \in Acked : \/ b \in Members(received) \/ b \in Names(toWorker, "data")
                      \/ ~linked /\ Below(Members(received), {b})

LEMMA RisingAppended ==
  ASSUME NEW S, NEW q \in Seq(S), NEW f \in S, Rising(q),
         f[1] = "data" => Below(Names(q, "data"), {f[2]})
  PROVE  Rising(Append(q, f))
<1> DEFINE p == Append(q, f)
<1>1. /\ Len(p) = Len(q) + 1 /\ Len(q) \in Nat
      /\ \A i \in 1 .. Len(q) : p[i] = q[i]
      /\ p[Len(q) + 1] = f
  BY AppendFacts
<1> HIDE DEF p
<1>2. ASSUME NEW i \in 1 .. Len(p), NEW j \in 1 .. Len(p),
             p[i][1] = "data", p[j][1] = "data", i < j
      PROVE  p[i][2] < p[j][2]
  <2>1. i \in 1 .. Len(q) /\ p[i] = q[i]
    BY <1>1, <1>2
  <2>2. CASE j \in 1 .. Len(q)
    BY <1>1, <1>2, <2>1, <2>2 DEF Rising
  <2>3. CASE j = Len(q) + 1
    <3>1. q[i][2] \in Names(q, "data") /\ p[j] = f
      BY <1>1, <1>2, <2>1, <2>3 DEF Names
    <3> QED
      BY <1>2, <2>1, <3>1 DEF Below
  <2> QED
    BY <1>1, <2>2, <2>3
<1> QED
  BY <1>2 DEF Rising, p

LEMMA RisingTaken ==
  ASSUME NEW S, NEW q \in Seq(S), q # <<>>, Rising(q)
  PROVE  /\ Rising(Tail(q))
         /\ q[1][1] = "data" => Below({q[1][2]}, Names(Tail(q), "data"))
         /\ \A n \in Names(q, "data") :
              n \in Names(Tail(q), "data") \/ (q[1][1] = "data" /\ n = q[1][2])
<1> DEFINE p == Tail(q)
<1>1. /\ Len(q) \in Nat \ {0} /\ Len(p) = Len(q) - 1
      /\ \A i \in 1 .. Len(p) : i + 1 \in 1 .. Len(q) /\ p[i] = q[i + 1]
  BY TailFacts
<1>2. 1 \in 1 .. Len(q)
  BY <1>1
<1> HIDE DEF p
<1>3. ASSUME NEW i \in 1 .. Len(p), NEW j \in 1 .. Len(p),
             p[i][1] = "data", p[j][1] = "data", i < j
      PROVE  p[i][2] < p[j][2]
  <2>1. /\ i + 1 \in 1 .. Len(q) /\ p[i] = q[i + 1]
        /\ j + 1 \in 1 .. Len(q) /\ p[j] = q[j + 1] /\ i + 1 < j + 1
    BY <1>1, <1>3
  <2> QED
    BY <1>3, <2>1 DEF Rising
<1>4. ASSUME q[1][1] = "data", NEW n \in Names(p, "data") PROVE q[1][2] < n
  <2>1. PICK i \in 1 .. Len(p) : p[i][1] = "data" /\ p[i][2] = n
    BY DEF Names
  <2>2. i + 1 \in 1 .. Len(q) /\ p[i] = q[i + 1] /\ 1 < i + 1
    BY <1>1, <2>1
  <2> QED
    BY <1>2, <1>4, <2>1, <2>2 DEF Rising
<1>5. ASSUME NEW n \in Names(q, "data")
      PROVE  n \in Names(p, "data") \/ (q[1][1] = "data" /\ n = q[1][2])
  <2>1. PICK i \in 1 .. Len(q) : q[i][1] = "data" /\ q[i][2] = n
    BY DEF Names
  <2>2. CASE i = 1
    BY <2>1, <2>2
  <2>3. CASE i # 1
    <3>1. i - 1 \in 1 .. Len(p) /\ i - 1 + 1 = i
      BY <1>1, <2>3
    <3>2. p[i - 1] = q[i]
      BY <1>1, <3>1
    <3> QED
      BY <2>1, <3>1, <3>2 DEF Names
  <2> QED
    BY <2>2, <2>3
<1> QED
  BY <1>3, <1>4, <1>5 DEF Rising, Below, p

LEMMA IncreasingAppended ==
  ASSUME NEW s \in Seq(Nat), NEW n \in Nat, Increasing(s), Below(Members(s), {n})
  PROVE  Increasing(Append(s, n))
<1> DEFINE p == Append(s, n)
<1>1. /\ Len(p) = Len(s) + 1 /\ Len(s) \in Nat
      /\ \A i \in 1 .. Len(s) : p[i] = s[i]
      /\ p[Len(s) + 1] = n
  BY AppendFacts
<1> HIDE DEF p
<1>2. ASSUME NEW i \in 1 .. Len(p), NEW j \in 1 .. Len(p), i < j PROVE p[i] < p[j]
  <2>1. i \in 1 .. Len(s) /\ p[i] = s[i]
    BY <1>1, <1>2
  <2>2. CASE j \in 1 .. Len(s)
    BY <1>1, <1>2, <2>1, <2>2 DEF Increasing
  <2>3. CASE j = Len(s) + 1
    BY <1>1, <2>1, <2>3 DEF Below, Members
  <2> QED
    BY <1>1, <2>2, <2>3
<1> QED
  BY <1>2 DEF Increasing, p

LEMMA EmptyData == Rising(<<>>) /\ Increasing(<<>>)
BY EmptyQueue DEF Rising, Increasing

LEMMA InitData == Init => DataInv
<1> SUFFICES ASSUME Init PROVE DataInv
  OBVIOUS
<1>1. received = <<>> /\ toWorker = <<>> /\ inbound = <<>>
  BY DEF Init
<1>2. Acked = {}
  BY DEF Init, Acked
<1> QED
  BY <1>1, <1>2, NamesEmpty, MembersEmpty, EmptyData DEF DataInv, Below

\* The worker takes the oldest batch of its queue.
LEMMA WorkerTakesData ==
  ASSUME TypeInv, DataInv, WorkerTakes
  PROVE  DataInv'
<1> DEFINE f == toWorker[1]
<1>1. toWorker # <<>> /\ toWorker \in Seq(WorkerFrames) /\ toWorker' = Tail(toWorker)
      /\ received \in Seq(Nat)
  BY DEF WorkerTakes, TypeInv, QueueTypes
<1>2. Head(toWorker) = f /\ f \in WorkerFrames
  BY <1>1, TailFacts
<1>3. f[2] \in Nat
  BY <1>2 DEF WorkerFrames
<1>4. /\ Rising(toWorker')
      /\ f[1] = "data" => Below({f[2]}, Names(toWorker', "data"))
      /\ \A n \in Names(toWorker, "data") :
           n \in Names(toWorker', "data") \/ (f[1] = "data" /\ n = f[2])
  BY <1>1, RisingTaken DEF DataInv
<1>5. /\ Names(toWorker', "data") \subseteq Names(toWorker, "data")
      /\ f[1] = "data" => f[2] \in Names(toWorker, "data")
  BY <1>1, NamesTaken
<1>6. \/ f[1] = "data" /\ received' = Append(received, f[2])
      \/ f[1] # "data" /\ received' = received
  BY <1>2 DEF WorkerTakes
<1>7. UNCHANGED <<fate, sent, inbound, linked>> /\ linked
  BY DEF WorkerTakes, platformVars
<1>8. Acked' = Acked
  BY <1>7 DEF Acked
<1> HIDE DEF f
<1>9. CASE f[1] # "data" /\ received' = received
  BY <1>4, <1>5, <1>7, <1>8, <1>9 DEF DataInv, Below
<1>10. CASE f[1] = "data" /\ received' = Append(received, f[2])
  <2>1. Below(Members(received), {f[2]})
    BY <1>5, <1>10 DEF DataInv, Below
  <2>2. Increasing(received')
    BY <1>1, <1>3, <1>10, <2>1, IncreasingAppended DEF DataInv
  <2>3. Members(received') = Members(received) \cup {f[2]}
    <3> DEFINE n == f[2]
    <3>1. n \in Nat /\ received' = Append(received, n)
      BY <1>3, <1>10
    <3> HIDE DEF n
    <3>2. Members(Append(received, n)) = Members(received) \cup {n}
      BY <1>1, <3>1, MembersAppended
    <3> QED
      BY <3>1, <3>2 DEF n
  <2>4. Below(Members(received'), Names(toWorker', "data"))
    BY <1>4, <1>5, <1>10, <2>3 DEF DataInv, Below
  <2>5. Members(received') \subseteq Acked /\ Names(toWorker', "data") \subseteq Acked
    BY <1>5, <1>10, <2>3 DEF DataInv
  <2>6. \A b \in Acked : b \in Members(received') \/ b \in Names(toWorker', "data")
    BY <1>4, <1>7, <2>3 DEF DataInv
  <2> QED
    BY <1>4, <1>7, <1>8, <2>2, <2>4, <2>5, <2>6 DEF DataInv
<1> QED
  BY <1>6, <1>9, <1>10

\* The handler adds results to the worker's queue, or loses it altogether.
LEMMA HandlerData ==
  ASSUME TypeInv, DataInv, ServeCall \/ ServeReply \/ ServeTimeout
  PROVE  DataInv'
<1>0. toWorker \in Seq(WorkerFrames) /\ fromWorker \in Seq(Calls)
  BY DEF TypeInv, QueueTypes
<1>1. UNCHANGED <<fate, received, sent, inbound>>
  BY DEF ServeCall, ServeReply, ServeTimeout, platformVars, dataVars
<1>2. Acked' = Acked
  BY <1>1 DEF Acked
<1>3. \/ UNCHANGED <<toWorker, linked>>
      \/ /\ linked' = linked
         /\ \E o \in {"ok", "error"}, c \in Calls : toWorker' = Append(toWorker, <<o, c>>)
      \/ linked' = FALSE /\ toWorker' = <<>>
  <2>1. CASE ServeReply \/ ServeTimeout
    <3>1. serving \in Calls
      BY <2>1 DEF ServeReply, ServeTimeout, TypeInv, ChannelTypeOK
    <3>2. PICK o \in {"ok", "error"} : Finish(serving, o)
      BY <2>1 DEF ServeReply, ServeTimeout
    <3> QED
      BY <3>1, <3>2 DEF Finish
  <2>2. CASE ServeCall
    <3>1. Head(fromWorker) \in Calls
      BY <1>0, <2>2, TailFacts DEF ServeCall
    <3> QED
      BY <2>2, <3>1 DEF ServeCall
  <2> QED
    BY <2>1, <2>2
<1>4. CASE UNCHANGED <<toWorker, linked>>
  BY <1>1, <1>2, <1>4 DEF DataInv
<1>5. ASSUME NEW o \in {"ok", "error"}, NEW c \in Calls,
             toWorker' = Append(toWorker, <<o, c>>), linked' = linked
      PROVE  DataInv'
  <2> DEFINE f == <<o, c>>
  <2>1. f \in WorkerFrames /\ f[1] # "data"
    BY DEF WorkerFrames, Calls
  <2>2. toWorker' = Append(toWorker, f)
    BY <1>5
  <2> HIDE DEF f
  <2>3. Rising(toWorker')
    BY <1>0, <2>1, <2>2, RisingAppended DEF DataInv
  <2>4. Names(toWorker', "data") = Names(toWorker, "data")
    BY <1>0, <2>1, <2>2, NamesAppended
  <2> QED
    BY <1>1, <1>2, <1>5, <2>3, <2>4 DEF DataInv
<1>6. CASE linked' = FALSE /\ toWorker' = <<>>
  <2>1. Rising(toWorker') /\ Names(toWorker', "data") = {}
    BY <1>6, EmptyData, NamesEmpty
  <2>2. \A b \in Acked : b \in Members(received) \/ Below(Members(received), {b})
    BY DEF DataInv, Below
  <2> QED
    BY <1>1, <1>2, <1>6, <2>1, <2>2 DEF DataInv, Below
<1> QED
  BY <1>3, <1>4, <1>5, <1>6

\* The receiving goroutine: the batch it has is newer than every
\* acknowledged one and older than every other still to come.
LEMMA ChannelData ==
  ASSUME TypeInv, DataInv, ReceiveAnswer \/ ReceiveData \/ ChannelDown
  PROVE  DataInv'
<1>0. /\ inbound \in Seq(InFrames) /\ toWorker \in Seq(WorkerFrames)
  BY DEF TypeInv, QueueTypes
<1>1. UNCHANGED <<received, sent, linked>>
  BY DEF ReceiveAnswer, ReceiveData, ChannelDown, platformVars, dataVars
<1>2. CASE ChannelDown
  <2>1. UNCHANGED <<fate, toWorker>> /\ inbound' = <<>>
    BY <1>2 DEF ChannelDown, dataVars
  <2>2. Rising(inbound') /\ Names(inbound', "data") = {}
    BY <2>1, EmptyData, NamesEmpty
  <2>3. Acked' = Acked
    BY <2>1 DEF Acked
  <2> QED
    BY <1>1, <2>1, <2>2, <2>3 DEF DataInv, Below
<1>3. CASE ReceiveAnswer
  <2>1. UNCHANGED <<fate, toWorker>> /\ inbound' = Tail(inbound) /\ inbound # <<>>
    BY <1>3 DEF ReceiveAnswer, dataVars
  <2>2. Rising(inbound') /\ Names(inbound', "data") \subseteq Names(inbound, "data")
    BY <1>0, <2>1, RisingTaken, NamesTaken DEF DataInv
  <2>3. Acked' = Acked
    BY <2>1 DEF Acked
  <2> QED
    BY <1>1, <2>1, <2>2, <2>3 DEF DataInv, Below
<1>4. CASE ReceiveData
  <2> DEFINE b == inbound[1][2]
  <2>1. inbound' = Tail(inbound) /\ inbound # <<>> /\ Head(inbound)[1] = "data"
    BY <1>4 DEF ReceiveData
  <2>2. Head(inbound) = inbound[1] /\ 1 \in 1 .. Len(inbound) /\ inbound[1][1] = "data"
    BY <1>0, <2>1, TailFacts
  <2>3. /\ Rising(inbound') /\ Names(inbound', "data") \subseteq Names(inbound, "data")
        /\ Below({b}, Names(inbound', "data")) /\ b \in Names(inbound, "data")
    BY <1>0, <2>1, <2>2, RisingTaken, NamesTaken DEF DataInv
  <2>4. b \in 1 .. sent /\ sent \in 0 .. Batches
    BY <2>2 DEF TypeInv, QueueNames, ChannelTypeOK
  <2>5. b \in 1 .. Batches /\ b \in Nat
    <3> HIDE DEF b
    <3> QED
      BY <2>4, ChannelAssumption
  <2>6. Below(Acked, {b}) /\ b \notin Acked
    <3>1. Below(Acked, {b})
      BY <2>3 DEF DataInv, Below
    <3>2. ~(b < b)
      BY <2>5
    <3> QED
      BY <3>1, <3>2 DEF Below
  <2>7. fate \in [1 .. Batches -> {"none", "acked", "pushed back", "discarded"}]
    BY DEF TypeInv, ChannelTypeOK
  <2>8. \/ /\ linked /\ toWorker' = Append(toWorker, <<"data", b>>)
           /\ fate' = [fate EXCEPT ![b] = "acked"]
        \/ /\ toWorker' = toWorker
           /\ \E x \in {"pushed back", "discarded"} : fate' = [fate EXCEPT ![b] = x]
    BY <1>4, <2>2 DEF ReceiveData, Accepts, Batch
  <2> HIDE DEF b
  <2>9. CASE /\ toWorker' = toWorker
             /\ \E x \in {"pushed back", "discarded"} : fate' = [fate EXCEPT ![b] = x]
    <3>1. Acked' = Acked
      BY <2>5, <2>6, <2>7, <2>9 DEF Acked
    <3> QED
      BY <1>1, <2>3, <2>9, <3>1 DEF DataInv, Below
  <2>10. CASE /\ linked /\ toWorker' = Append(toWorker, <<"data", b>>)
              /\ fate' = [fate EXCEPT ![b] = "acked"]
    <3>1. Acked' = Acked \cup {b}
      BY <2>5, <2>7, <2>10 DEF Acked
    <3> DEFINE f == <<"data", b>>
    <3>2. f \in WorkerFrames /\ f[1] = "data" /\ f[2] = b
      BY <2>5 DEF WorkerFrames
    <3>3. toWorker' = Append(toWorker, f)
      BY <2>10
    <3> HIDE DEF f
    <3>4. Below(Names(toWorker, "data"), {b}) /\ Below(Members(received), {b})
      BY <2>6 DEF DataInv, Below
    <3>5. Rising(toWorker')
      BY <1>0, <3>2, <3>3, <3>4, RisingAppended DEF DataInv
    <3>6. Names(toWorker', "data") = Names(toWorker, "data") \cup {b}
      BY <1>0, <3>2, <3>3, NamesAppended
    <3>7. Below(Acked', Names(inbound', "data"))
      BY <2>3, <3>1 DEF DataInv, Below
    <3>8. Below(Members(received), Names(toWorker', "data"))
      BY <3>4, <3>6 DEF DataInv, Below
    <3>9. Acked' \subseteq 1 .. sent
      BY <2>4, <3>1 DEF DataInv
    <3> QED
      BY <1>1, <2>3, <2>10, <3>1, <3>5, <3>6, <3>7, <3>8, <3>9 DEF DataInv
  <2> QED
    BY <2>8, <2>9, <2>10
<1> QED
  BY <1>2, <1>3, <1>4

\* The platform numbers its batches as it sends them.
LEMMA PlatformData ==
  ASSUME TypeInv, DataInv,
         \/ \E c \in Calls : PlatformAnswers(c) \/ PlatformReports(c)
         \/ PlatformSendsData
  PROVE  DataInv'
<1>0. inbound \in Seq(InFrames) /\ sent \in 0 .. Batches /\ sent \in Nat
  <2>1. sent \in 0 .. Batches
    BY DEF TypeInv, ChannelTypeOK
  <2>2. inbound \in Seq(InFrames)
    BY DEF TypeInv, QueueTypes
  <2> QED
    BY <2>1, <2>2
<1>1. UNCHANGED <<fate, received, toWorker, linked>>
  BY DEF PlatformAnswers, PlatformReports, PlatformSendsData, dataVars
<1>2. Acked' = Acked
  BY <1>1 DEF Acked
<1>3. ASSUME NEW c \in Calls, PlatformAnswers(c) \/ PlatformReports(c) PROVE DataInv'
  <2>1. PICK t \in {"response", "error", "progress"} :
          inbound' = inbound \/ inbound' = Append(inbound, <<t, c>>)
    BY <1>3 DEF PlatformAnswers, PlatformReports
  <2>2. sent' = sent
    BY <1>3 DEF PlatformAnswers, PlatformReports
  <2> DEFINE f == <<t, c>>
  <2>3. f \in InFrames /\ f[1] # "data"
    BY DEF InFrames, Calls
  <2>4. inbound' = inbound \/ inbound' = Append(inbound, f)
    BY <2>1
  <2> HIDE DEF f
  <2>5. Rising(Append(inbound, f)) /\ Names(Append(inbound, f), "data") = Names(inbound, "data")
    <3>1. Rising(Append(inbound, f))
      BY <1>0, <2>3, RisingAppended DEF DataInv
    <3>2. Names(Append(inbound, f), "data") = Names(inbound, "data")
      BY <1>0, <2>3, NamesAppended
    <3> QED
      BY <3>1, <3>2
  <2>6. Rising(inbound') /\ Names(inbound', "data") = Names(inbound, "data")
    BY <2>4, <2>5 DEF DataInv
  <2> QED
    BY <1>1, <1>2, <2>2, <2>6 DEF DataInv
<1>4. CASE PlatformSendsData
  <2> DEFINE f == <<"data", sent + 1>>
  <2>1. sent' = sent + 1 /\ inbound' = Append(inbound, f)
    BY <1>4 DEF PlatformSendsData
  <2>2. f \in InFrames /\ f[1] = "data" /\ f[2] = sent + 1
    BY <1>0 DEF InFrames
  <2> HIDE DEF f
  <2>3. Names(inbound, "data") \subseteq 1 .. sent
    BY DEF Names, TypeInv, QueueNames
  <2>4. Below(Names(inbound, "data"), {sent + 1}) /\ Below(Acked, {sent + 1})
    BY <1>0, <2>3 DEF DataInv, Below
  <2>5. Rising(inbound')
    BY <1>0, <2>1, <2>2, <2>4, RisingAppended DEF DataInv
  <2>6. Names(inbound', "data") = Names(inbound, "data") \cup {sent + 1}
    BY <1>0, <2>1, <2>2, NamesAppended
  <2>7. Below(Acked, Names(inbound', "data"))
    BY <2>4, <2>6 DEF DataInv, Below
  <2>8. Acked \subseteq 1 .. sent'
    BY <1>0, <2>1 DEF DataInv
  <2> QED
    BY <1>1, <1>2, <2>5, <2>7, <2>8 DEF DataInv
<1> QED
  BY <1>3, <1>4

LEMMA NextData == TypeInv /\ DataInv /\ [Next]_vars => DataInv'
<1> SUFFICES ASSUME TypeInv, DataInv, [Next]_vars PROVE DataInv'
  OBVIOUS
<1>1. CASE UNCHANGED <<fate, received, sent, inbound, toWorker, linked>>
  BY <1>1 DEF DataInv, Acked
<1>2. \/ UNCHANGED vars \/ SendFrame \/ Heartbeat \/ Flush \/ Tick
      \/ \E c \in Calls : InvokePlatform(c) \/ WorkerGivesUp(c)
      => UNCHANGED <<fate, received, sent, inbound, toWorker, linked>>
  BY DEF vars, platformVars, dataVars, SendFrame, Heartbeat, Flush, Tick,
     InvokePlatform, WorkerGivesUp
<1> QED
  BY <1>1, <1>2, WorkerTakesData, HandlerData, ChannelData, PlatformData
     DEF Next, Prompt

\* Only frames for no session are discarded: a frame keeps its kind.
Strays == \A b \in 1 .. Batches : fate[b] = "discarded" => b \in unrouted

LEMMA NextStrays == TypeInv /\ Strays /\ [Next]_vars => Strays'
<1> SUFFICES ASSUME TypeInv, Strays, [Next]_vars PROVE Strays'
  OBVIOUS
<1>1. CASE UNCHANGED fate /\ unrouted \subseteq unrouted'
  BY <1>1 DEF Strays
<1>2. CASE ReceiveData
  <2>1. UNCHANGED unrouted
    BY <1>2 DEF ReceiveData, platformVars
  <2>2. \E x \in {"acked", "pushed back", "discarded"} :
          /\ fate' = [fate EXCEPT ![Head(inbound)[2]] = x]
          /\ x = "discarded" => Head(inbound)[2] \in unrouted
    BY <1>2 DEF ReceiveData
  <2>3. fate \in [1 .. Batches -> {"none", "acked", "pushed back", "discarded"}]
    BY DEF TypeInv, ChannelTypeOK
  <2> QED
    BY <2>1, <2>2, <2>3 DEF Strays
<1>3. PlatformSendsData => UNCHANGED fate /\ unrouted \subseteq unrouted'
  BY DEF PlatformSendsData, dataVars
<1>4. \/ WorkerTakes \/ ServeCall \/ ServeReply \/ ServeTimeout \/ ReceiveAnswer
      \/ UNCHANGED vars
      => UNCHANGED <<fate, unrouted>>
  BY DEF WorkerTakes, ServeCall, ServeReply, ServeTimeout, ReceiveAnswer, vars,
         platformVars, dataVars
<1>5. Flush \/ Tick \/ SendFrame \/ Heartbeat \/ ChannelDown
      => UNCHANGED <<fate, unrouted>>
  BY DEF Flush, Tick, SendFrame, Heartbeat, ChannelDown, platformVars, dataVars
<1>6. ASSUME NEW c \in Calls
      PROVE  WorkerGivesUp(c) \/ InvokePlatform(c) \/ PlatformAnswers(c)
             \/ PlatformReports(c) => UNCHANGED <<fate, unrouted>>
  BY DEF WorkerGivesUp, InvokePlatform, PlatformAnswers, PlatformReports,
         platformVars, dataVars
<1> QED
  BY <1>1, <1>2, <1>3, <1>4, <1>5, <1>6 DEF Next, Prompt

\* What the worker takes is what the agent queued for it and acknowledged, in
\* order and without gaps or repetitions; such a batch is lost only with the
\* connection, and then it is newer than all the worker took; only frames for
\* no session (dataset chunks, batches with a blank session id or without
\* payload) are discarded (HandleRuntimeData, workerDataFrameFromRuntime and
\* the worker's queue in agent.go, handleInboundFrame).
THEOREM BatchesArriveInOrder == Spec => []DataInOrder
<1>1. DataInv /\ Strays => DataInOrder
  <2> SUFFICES ASSUME DataInv, Strays PROVE DataInOrder
    OBVIOUS
  <2>1. \A i \in 1 .. Len(received) : received[i] \in Members(received)
    BY DEF Members
  <2>2. \A i \in Queued : toWorker[i][2] \in Names(toWorker, "data")
    BY DEF Names, Queued
  <2>3. \A m \in Members(received) : \E i \in 1 .. Len(received) : received[i] = m
    BY DEF Members
  <2>4. \A n \in Names(toWorker, "data") : \E i \in Queued : toWorker[i][2] = n
    BY DEF Names, Queued
  <2>5. \A i, j \in 1 .. Len(received) : i < j => received[i] < received[j]
    BY DEF DataInv, Increasing
  <2>6. \A i, j \in Queued : i < j => toWorker[i][2] < toWorker[j][2]
    BY DEF DataInv, Rising, Queued
  <2>7. \A i \in 1 .. Len(received), j \in Queued : received[i] < toWorker[j][2]
    BY <2>1, <2>2 DEF DataInv, Below
  <2>8. /\ \A i \in 1 .. Len(received) : received[i] \in Acked
        /\ \A i \in Queued : toWorker[i][2] \in Acked
    BY <2>1, <2>2 DEF DataInv
  <2>9. \A b \in Acked :
          \/ \E i \in 1 .. Len(received) : received[i] = b
          \/ \E i \in Queued : toWorker[i][2] = b
          \/ ~linked /\ \A i \in 1 .. Len(received) : received[i] < b
    BY <2>1, <2>3, <2>4 DEF DataInv, Below
  <2> QED
    BY <2>5, <2>6, <2>7, <2>8, <2>9 DEF DataInOrder, Strays
<1>2. Init => Strays
  BY DEF Init, Strays
<1>3. Spec => [](TypeInv /\ DataInv /\ Strays)
  BY <1>2, InitType, NextType, InitData, NextData, NextStrays, PTL DEF Spec
<1> QED
  BY <1>1, <1>3, PTL

=============================================================================
