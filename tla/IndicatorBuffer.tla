-------------------------- MODULE IndicatorBuffer ---------------------------
(***************************************************************************)
(* The collection of custom indicators of one session and stream: the      *)
(* frame the strategy drains after each bar, and its two ways to the       *)
(* platform.  With a frame sink (a session worker) the frame travels to    *)
(* the agent, which appends one point per indicator to its IndicatorBuffer *)
(* and saves the sealed chunks and the open one.  Without a sink the       *)
(* worker's own IndicatorChunkBuffer saves each full chunk and, at the     *)
(* end, the open ones.  A point is the number of the bar it belongs to;    *)
(* its value, the text of the chunk and the other attributes of a          *)
(* definition are left out.  The definitions the collection sends are      *)
(* those of the code the session started with; a hot reload may bring      *)
(* code with others before any bar.                                        *)
(***************************************************************************)
EXTENDS Integers, Sequences

CONSTANTS Keys,        \* the indicators any version of the strategy declares
          Limit,       \* points per chunk (1024 in the code)
          MaxBars,     \* how many bars are processed
          MaxFaults,   \* how many saves fail while the worker lives
          MaxRestarts  \* how many restart commands the operator gives

ASSUME IndicatorAssumption ==
  /\ Limit \in Nat \ {0} /\ MaxBars \in Nat
  /\ MaxFaults \in Nat /\ MaxRestarts \in Nat

VARIABLES
  sink,      \* "agent", or "direct" when there is no frame sink
  first,     \* the indicators of the code the session started with
  hot,       \* the session reloads its strategy when the file changes
  bar,       \* bars processed by the strategy
  raised,    \* those of which no frame was drained
  unset,     \* those whose frame had no point of an indicator
  defined,   \* definition_streams_sent (or _saved) holds the stream
  wire,      \* frames on their way to the agent, oldest first
  buffers,   \* Agent.indicatorBuffers, or IndicatorChunkBuffer per indicator
  call,      \* the SaveStrategyIndicators call of the connection handler
  linked,    \* the connection handler of the worker is running
  cut,       \* it ended with frames unread or a save cancelled
  alive,     \* the worker process is there
  ended,     \* the run has flushed its open chunks
  chunks,    \* the chunks the platform stores, by indicator and index
  known,     \* the platform stores the definitions of first
  taken,     \* points added to the buffers since they were made
  restarts,  \* cleanups of the session's state
  faults     \* failed saves

sessionVars == <<sink, first, hot>>
barVars == <<bar, raised, unset>>
linkVars == <<linked, cut>>
vars == <<sessionVars, barVars, defined, wire, buffers, call, linkVars, alive,
          ended, chunks, known, taken, restarts, faults>>

\* Chunks by index, and the chunks of the first over those of the second.
NoChunks == [i \in {} |-> <<>>]
Chunk(i, sequence, complete) ==
  [j \in {i} |-> [points |-> sequence, final |-> complete]]
Over(f, g) == [i \in DOMAIN f \cup DOMAIN g |->
                 IF i \in DOMAIN f THEN f[i] ELSE g[i]]

\* The buffer an indicator has when it is first asked for.
EmptyBuffer == [index |-> 0, active |-> <<>>, pending |-> NoChunks]
NoCall == [phase |-> "none"]

Init ==
  /\ sink \in {"agent", "direct"}
  /\ first \in SUBSET Keys \ {{}} /\ hot \in BOOLEAN
  /\ bar = 0 /\ raised = {} /\ unset = [k \in Keys |-> {}]
  /\ defined = FALSE /\ wire = <<>>
  /\ buffers = [k \in Keys |-> EmptyBuffer]
  /\ call = NoCall /\ linked = TRUE /\ cut = FALSE
  /\ alive = TRUE /\ ended = FALSE
  /\ chunks = [k \in Keys |-> NoChunks] /\ known = FALSE
  /\ taken = [k \in Keys |-> <<>>]
  /\ restarts = 0 /\ faults = 0

-----------------------------------------------------------------------------
\* Mutant: the limit is off by one.
AddPointLate(b, point) ==
  LET active == Append(b.active, point)
  IN  IF Len(active) <= Limit
      THEN [index |-> b.index, active |-> active, pending |-> b.pending]
      ELSE [index |-> b.index + 1, active |-> <<>>,
            pending |-> Over(Chunk(b.index, active, TRUE), b.pending)]

\* Append a point; a chunk that reached the limit is sealed and waits, under
\* its index, for an acknowledged save.
AddPoint(b, point) ==
  LET active == Append(b.active, point)
  IN  IF Len(active) < Limit
      THEN [index |-> b.index, active |-> active, pending |-> b.pending]
      ELSE [index |-> b.index + 1, active |-> <<>>,
            pending |-> Over(Chunk(b.index, active, TRUE), b.pending)]

\* Mutant: only the newest point of the open chunk is sent.
SnapshotForFlushNewest(b) ==
  IF b.active = <<>> THEN b.pending
  ELSE Over(b.pending, Chunk(b.index, <<b.active[Len(b.active)]>>, FALSE))

\* The sealed chunks and the open one, by index; an empty open chunk is not
\* sent.
SnapshotForFlush(b) ==
  IF b.active = <<>> THEN b.pending
  ELSE Over(b.pending, Chunk(b.index, b.active, FALSE))

MarkFinalizedAcked(b, indexes) ==
  [b EXCEPT !.pending = [i \in DOMAIN b.pending \ indexes |-> b.pending[i]]]

\* The platform stores the chunks of a request under their index, over what
\* it had there.  Modelled from how the code uses it.
Upsert(stored, saved) == [k \in Keys |->
  IF k \in DOMAIN saved THEN Over(saved[k], stored[k]) ELSE stored[k]]

-----------------------------------------------------------------------------
\* What the strategy may set during a bar: keys its code does not declare are
\* ignored.  In a hot-reload session that code may be new at every bar, with
\* any definitions: only inputs, targets and routes must stay.
WriterFrames == SUBSET (IF hot THEN Keys ELSE first)

\* The next bar is being processed.
BarStarts == alive /\ ~ended /\ bar < MaxBars /\ bar' = bar + 1

\* The frame of the next bar, of which the strategy set the indicators in S.
\* The first one carries the definitions of first and a value, possibly null,
\* for every one of them; a later one only has values for those that were set.
Frame(S) == [bar |-> bar + 1, defs |-> ~defined,
             keys |-> IF defined THEN S ELSE S \cup first]

\* The bar has a point of the indicators in S, and none of the others.
Drain(S) ==
  /\ unset' = [k \in Keys |-> IF k \in S THEN unset[k]
                              ELSE unset[k] \cup {bar + 1}]
  /\ UNCHANGED raised

\* Mutant: the definitions wait for the second frame.
SendIndicatorFrameUndefined(S) ==
  /\ sink = "agent" /\ BarStarts
  /\ wire' = Append(wire, [bar |-> bar + 1, defs |-> defined, keys |-> S])
  /\ defined' = TRUE /\ Drain(S)
  /\ UNCHANGED <<sessionVars, buffers, call, linkVars, alive, ended, chunks,
                 known, taken, restarts, faults>>

\* One bar with a frame sink: the drained frame is queued.
SendIndicatorFrame(S) ==
  /\ sink = "agent" /\ BarStarts
  /\ wire' = Append(wire, Frame(S))
  /\ defined' = TRUE /\ Drain(Frame(S).keys)
  /\ UNCHANGED <<sessionVars, buffers, call, linkVars, alive, ended, chunks,
                 known, taken, restarts, faults>>

\* The save of the definitions is followed by the record of the same bar.
Defining ==
  sink = "direct" /\ defined /\ \A k \in first : taken[k] = <<>>

\* A bar of which no frame is drained: in a hot-reload session the callback
\* raised and the run goes on, or the new code declares no indicators.
SkipBar ==
  /\ hot /\ BarStarts /\ ~Defining
  /\ raised' = raised \cup {bar + 1}
  /\ UNCHANGED <<sessionVars, unset, defined, wire, buffers, call, linkVars,
                 alive, ended, chunks, known, taken, restarts, faults>>

\* The agent receives a frame: it appends a point for each value and calls
\* the platform with everything that is not yet known to be stored.  A frame
\* with nothing to save is dropped.
HandleIndicatorFrame ==
  /\ linked /\ call = NoCall /\ wire # <<>>
  /\ LET frame == Head(wire)
         added == [k \in Keys |-> IF k \in frame.keys
                                  THEN AddPoint(buffers[k], frame.bar)
                                  ELSE buffers[k]]
     IN  /\ wire' = Tail(wire)
         /\ buffers' = added
         /\ taken' = [k \in Keys |-> IF k \in frame.keys
                                     THEN Append(taken[k], frame.bar)
                                     ELSE taken[k]]
         /\ call' = IF frame.keys = {} /\ ~frame.defs THEN NoCall
                    ELSE [phase |-> "sent", keys |-> frame.keys,
                          defs |-> frame.defs,
                          chunks |-> [k \in frame.keys |->
                                        SnapshotForFlush(added[k])]]
  /\ UNCHANGED <<sessionVars, barVars, defined, linkVars, alive, ended,
                 chunks, known, restarts, faults>>

\* The platform executes the save.
PlatformSaves ==
  /\ call.phase = "sent"
  /\ chunks' = Upsert(chunks, call.chunks)
  /\ known' = (known \/ call.defs)
  /\ call' = [call EXCEPT !.phase = "stored"]
  /\ UNCHANGED <<sessionVars, barVars, defined, wire, buffers, linkVars,
                 alive, ended, taken, restarts, faults>>

\* The answer comes: the sealed chunks the buffers hold now are dropped.
MarkIndicatorFinalsAcked ==
  /\ call.phase = "stored"
  /\ call' = NoCall
  /\ buffers' = [k \in Keys |->
                   IF k \in call.keys
                   THEN MarkFinalizedAcked(buffers[k], DOMAIN buffers[k].pending)
                   ELSE buffers[k]]
  /\ UNCHANGED <<sessionVars, barVars, defined, wire, linkVars, alive, ended,
                 chunks, known, taken, restarts, faults>>

\* Mutant: the sealed chunks are dropped whether or not they were saved.
SaveFailsAcked ==
  /\ call # NoCall
  /\ IF alive THEN faults < MaxFaults /\ faults' = faults + 1
     ELSE faults' = faults
  /\ call' = NoCall /\ linked' = FALSE /\ cut' = (cut \/ ~alive)
  /\ buffers' = [k \in Keys |->
                   IF k \in call.keys
                   THEN MarkFinalizedAcked(buffers[k], DOMAIN buffers[k].pending)
                   ELSE buffers[k]]
  /\ UNCHANGED <<sessionVars, barVars, defined, wire, alive, ended, chunks,
                 known, taken, restarts>>

\* The call fails, before or after the platform stored the chunks: a time
\* out, a lost channel, or the worker's process is gone and with it the
\* context of the call.  The error ends the connection handler.
SaveFails ==
  /\ call # NoCall
  /\ IF alive THEN faults < MaxFaults /\ faults' = faults + 1
     ELSE faults' = faults
  /\ call' = NoCall /\ linked' = FALSE /\ cut' = (cut \/ ~alive)
  /\ UNCHANGED <<sessionVars, barVars, defined, wire, buffers, alive, ended,
                 chunks, known, taken, restarts>>

\* The restart command kills the worker; its connection closes some time
\* later, and until then frames that had arrived may still be handled.
WorkerKilled ==
  /\ sink = "agent" /\ alive /\ restarts < MaxRestarts
  /\ alive' = FALSE
  /\ UNCHANGED <<sessionVars, barVars, defined, wire, buffers, call,
                 linkVars, ended, chunks, known, taken, restarts, faults>>

\* The stream of a process that is gone ends; frames that had not arrived are
\* lost.
ConnectionCloses ==
  /\ ~alive /\ linked /\ call = NoCall
  /\ linked' = FALSE /\ cut' = (cut \/ wire # <<>>)
  /\ UNCHANGED <<sessionVars, barVars, defined, wire, buffers, call, alive,
                 ended, chunks, known, taken, restarts, faults>>

\* The restart command forgets the session's buffers.
CleanupSessionState ==
  /\ ~alive /\ restarts < MaxRestarts
  /\ restarts' = restarts + 1
  /\ buffers' = [k \in Keys |-> EmptyBuffer]
  /\ taken' = [k \in Keys |-> <<>>]
  /\ UNCHANGED <<sessionVars, barVars, defined, wire, call, linkVars, alive,
                 ended, chunks, known, faults>>

-----------------------------------------------------------------------------
\* Without a sink a failed save is logged and the run goes on; the platform
\* may or may not have stored it.
SavePayload(saved, defs) ==
  \/ /\ chunks' = Upsert(chunks, saved) /\ known' = (known \/ defs)
     /\ \/ faults' = faults
        \/ faults < MaxFaults /\ faults' = faults + 1
  \/ /\ faults < MaxFaults /\ faults' = faults + 1
     /\ UNCHANGED <<chunks, known>>

\* Mutant: a bar for which nothing was set (here the second) is not recorded.
RecordBarSet(b) ==
  [k \in Keys |-> IF k \notin first \/ bar = 1 THEN b[k]
                  ELSE AddPoint(b[k], bar + 1)]

\* record_bar appends a point, or null, to the open chunk of every indicator
\* the session started with, whether the strategy set it or not, and emits
\* the full ones.
RecordBar(b) ==
  [k \in Keys |-> IF k \in first THEN AddPoint(b[k], bar + 1) ELSE b[k]]

Emitted(b) ==
  [k \in {i \in Keys : DOMAIN b[i].pending # {}} |-> b[k].pending]

\* What remains in the worker's buffers after the emitted chunks were taken.
Drained(b) == [k \in Keys |-> [b[k] EXCEPT !.pending = NoChunks]]

\* The first frame of the stream saves the definitions before it records.
SaveDefinitions ==
  /\ sink = "direct" /\ ~ended /\ bar < MaxBars /\ ~defined
  /\ SavePayload(NoChunks, TRUE)
  /\ defined' = TRUE
  /\ UNCHANGED <<sessionVars, barVars, wire, buffers, call, linkVars, alive,
                 ended, taken, restarts>>

RecordFrame ==
  /\ sink = "direct" /\ BarStarts /\ defined
  /\ LET b == RecordBar(buffers)
     IN  /\ buffers' = Drained(b)
         /\ IF DOMAIN Emitted(b) = {} THEN UNCHANGED <<chunks, known, faults>>
            ELSE SavePayload(Emitted(b), FALSE)
  /\ taken' = [k \in Keys |-> IF k \in first THEN Append(taken[k], bar + 1)
                              ELSE taken[k]]
  /\ Drain(first)
  /\ UNCHANGED <<sessionVars, defined, wire, call, linkVars, alive, ended,
                 restarts>>

\* The run ends: the open chunks are emitted under their index, and the next
\* chunk would have the next one.
OpenChunks(b) ==
  [k \in {i \in Keys : b[i].active # <<>>} |->
     Chunk(b[k].index, b[k].active, FALSE)]

\* Mutant: the emitted chunks are not saved.
FlushOpenUnsaved ==
  /\ sink = "direct" /\ ~ended /\ ~Defining
  /\ ended' = TRUE
  /\ UNCHANGED <<sessionVars, barVars, defined, wire, buffers, call,
                 linkVars, alive, chunks, known, taken, restarts, faults>>

FlushOpen ==
  /\ sink = "direct" /\ ~ended /\ ~Defining
  /\ buffers' = [k \in Keys |-> IF buffers[k].active = <<>> THEN buffers[k]
                                 ELSE [buffers[k] EXCEPT !.index = @ + 1,
                                                         !.active = <<>>]]
  /\ IF DOMAIN OpenChunks(buffers) = {} THEN UNCHANGED <<chunks, known, faults>>
     ELSE SavePayload(OpenChunks(buffers), FALSE)
  /\ ended' = TRUE
  /\ UNCHANGED <<sessionVars, barVars, defined, wire, call, linkVars, alive,
                 taken, restarts>>

\* With a sink there is nothing to flush, and nothing waits for the frames.
RunEnds ==
  /\ sink = "agent" /\ alive /\ ~ended
  /\ ended' = TRUE
  /\ UNCHANGED <<sessionVars, barVars, defined, wire, buffers, call,
                 linkVars, alive, chunks, known, taken, restarts, faults>>

\* The worker's process leaves once it has seen that the run has ended: close
\* waits two seconds at most for the frames that are still queued.
WorkerLeaves ==
  /\ sink = "agent" /\ alive /\ ended
  /\ alive' = FALSE
  /\ UNCHANGED <<sessionVars, barVars, defined, wire, buffers, call, linkVars,
                 ended, chunks, known, taken, restarts, faults>>

\* One bar of the strategy, drained into a frame or not.
Worker ==
  \/ \E S \in WriterFrames : SendIndicatorFrame(S)
  \/ SaveDefinitions \/ RecordFrame \/ SkipBar

Next ==
  \/ Worker \/ FlushOpen \/ RunEnds \/ WorkerLeaves
  \/ HandleIndicatorFrame \/ PlatformSaves \/ MarkIndicatorFinalsAcked
  \/ SaveFails \/ WorkerKilled \/ ConnectionCloses \/ CleanupSessionState

Spec == Init /\ [][Next]_vars

\* The threads run, and the platform executes what reaches it and answers.
FairSpec ==
  /\ Spec
  /\ WF_vars(FlushOpen) /\ WF_vars(HandleIndicatorFrame)
  /\ WF_vars(PlatformSaves) /\ WF_vars(MarkIndicatorFinalsAcked)

-----------------------------------------------------------------------------
\* Type correctness: chunks have at most Limit points, sealed ones exactly
\* Limit, and the open chunk is never a full one.
IndicatorTypeOK ==
  /\ bar \in 0 .. MaxBars /\ restarts \in 0 .. MaxRestarts
  /\ faults \in 0 .. MaxFaults
  /\ \A k \in Keys :
       /\ Len(buffers[k].active) < Limit
       /\ \A i \in DOMAIN buffers[k].pending :
            Len(buffers[k].pending[i].points) = Limit
       /\ \A i \in DOMAIN chunks[k] :
            Len(chunks[k][i].points) \in 1 .. Limit

\* The points the platform shows, by position, of an indicator whose stored
\* chunks are f.
Positions(f) ==
  UNION {{i * Limit + j : j \in 1 .. Len(f[i].points)} : i \in DOMAIN f}

Chart(f) ==
  [p \in Positions(f) |->
     f[(p - 1) \div Limit].points[((p - 1) % Limit) + 1]]

\* The two ways to the platform implement the log: a stored point is never
\* lost or changed by a later save, a save that fails or is repeated does not
\* shift or duplicate points, until a restart drops the agent's buffers.
Log == INSTANCE IndicatorLog WITH
         log <- taken, chart <- [k \in Keys |-> Chart(chunks[k])],
         open <- (restarts = 0)

ImplementsLog == Log!LogSpec

\* A sealed chunk leaves the agent's buffer only once the platform has it:
\* up to a restart every sealed chunk is pending or stored in full.
SealedNeverLost ==
  sink = "agent" /\ restarts = 0 =>
    \A k \in Keys : \A i \in 0 .. buffers[k].index - 1 :
      \/ i \in DOMAIN buffers[k].pending
      \/ i \in DOMAIN chunks[k] /\ chunks[k][i].final

\* The platform has no points of an indicator without its definition: with a
\* sink the definitions travel with the first frame and are stored in the
\* same save; without one this needs the save of the definitions to work.
\* The one exception is an indicator that a hot reload brought to a session
\* with a sink: its points are stored and its definition never is
\* (AlwaysDefined below).
DefinedBeforeDrawn ==
  \A k \in Keys : DOMAIN chunks[k] # {} =>
    \/ k \in first /\ known
    \/ k \in first /\ sink = "direct" /\ faults > 0
    \/ k \notin first /\ sink = "agent" /\ hot

\* Together: neither a sealed chunk nor the definitions a chart needs are
\* lost on the way, whatever saves fail.
NothingLost == IndicatorTypeOK /\ SealedNeverLost /\ DefinedBeforeDrawn

\* The bars without a point of an indicator: no frame was drained, or the
\* frame had none.  Without a sink only the first, for an indicator the
\* session started with.
Gaps(k) == raised \cup unset[k]

\* A stored chunk is drawn at one interval per point from its first point, so
\* a point is at its bar when every earlier bar has its point before it.  On
\* both ways, until a restart, the points of a chart are in the order of
\* their bars and a bar is left out between them only when it is a gap,
\* although saves fail, frames wait and chunks are sent again.
PointsAtTheirBars ==
  restarts = 0 =>
    \A k \in Keys : \A p \in DOMAIN Chart(chunks[k]) :
      LET at == Chart(chunks[k])[p]
      IN  /\ p \in DOMAIN taken[k] /\ taken[k][p] = at
          /\ \A q \in 1 .. p - 1 : taken[k][q] < at
          /\ \A b \in 1 .. at - 1 :
               b \in Gaps(k) \/ \E q \in 1 .. p - 1 : taken[k][q] = b

\* Every bar has its point on the platform, or is a gap.
AllShown ==
  \A k \in Keys : \A b \in (1 .. bar) \ Gaps(k) :
    \E p \in DOMAIN Chart(chunks[k]) : Chart(chunks[k])[p] = b

\* In the end every point is on the platform, if no save failed, the session
\* was not restarted and the worker's connection did not end with frames
\* unread or a save under way: the code waits for neither (AlwaysShown below).
EverythingShown ==
  <>[](faults = 0 /\ restarts = 0 /\ ~cut =>
         (sink = "direct" /\ ~ended) \/ AllShown)

-----------------------------------------------------------------------------
(* What the comments, tests and docs say and the code does not keep *)

\* tests/test_strategy_indicators.py: a bar for which the strategy sets no
\* value "keeps nulls": the values of a chunk stay at the offsets of their
\* bars.
NullsKept ==
  \A k \in Keys : \A i \in DOMAIN chunks[k] :
    LET points == chunks[k][i].points
    IN  \A j \in 1 .. Len(points) - 1 : points[j + 1] = points[j] + 1

\* A chart needs the definition of every indicator it draws; the hot reload
\* takes over other definitions (base.py:489) and nothing sends them.
AlwaysDefined ==
  sink = "agent" => \A k \in Keys : DOMAIN chunks[k] # {} => k \in first /\ known

\* Every point a finished run drained is shown in the end, if no save failed
\* and there was no restart; the process leaves before the frames are saved.
AlwaysShown ==
  <>[](faults = 0 /\ restarts = 0 => (sink = "direct" /\ ~ended) \/ AllShown)

=============================================================================
