----------------------- MODULE IndicatorBuffer_proofs -----------------------
(***************************************************************************)
(* Proofs about IndicatorBuffer, for any indicators, chunk sizes, numbers  *)
(* of bars, failed saves and restarts.                                     *)
(***************************************************************************)
EXTENDS IndicatorBuffer, TLAPS

-----------------------------------------------------------------------------
(* The inductive invariant *)

Frames == [bar : Nat, defs : BOOLEAN, keys : SUBSET Keys]

\* Chunks by index, each with at least one point and no more than the limit.
IsChunks(f) ==
  /\ DOMAIN f \subseteq Nat
  /\ \A i \in DOMAIN f : f[i].points \in Seq(Nat) /\ Len(f[i].points) \in 1 .. Limit

\* An open chunk that is not full, and sealed chunks that are.
IsBuffer(b) ==
  /\ b = [index |-> b.index, active |-> b.active, pending |-> b.pending]
  /\ b.index \in Nat
  /\ b.active \in Seq(Nat) /\ Len(b.active) < Limit
  /\ IsChunks(b.pending)
  /\ \A i \in DOMAIN b.pending : Len(b.pending[i].points) = Limit

IsCall ==
  /\ call = [phase |-> call.phase, keys |-> call.keys, defs |-> call.defs, chunks |-> call.chunks]
  /\ call.phase \in {"sent", "stored"}
  /\ call.keys \subseteq Keys /\ call.defs \in BOOLEAN
  /\ DOMAIN call.chunks = call.keys
  /\ \A k \in call.keys : IsChunks(call.chunks[k])

FlagTypes ==
  /\ sink \in {"agent", "direct"} /\ first \subseteq Keys /\ hot \in BOOLEAN
  /\ defined \in BOOLEAN /\ linked \in BOOLEAN /\ alive \in BOOLEAN
  /\ ended \in BOOLEAN /\ known \in BOOLEAN
  /\ bar \in 0 .. MaxBars /\ restarts \in 0 .. MaxRestarts
  /\ faults \in 0 .. MaxFaults

DataTypes ==
  /\ wire \in Seq(Frames)
  /\ taken \in [Keys -> Seq(Nat)]
  /\ \A k \in Keys : IsBuffer(buffers[k]) /\ IsChunks(chunks[k])
  /\ call = NoCall \/ IsCall

TypeInv == FlagTypes /\ DataTypes

\* The points s are those a log l has from position i * Limit + 1 on.
Fits(l, i, s) ==
  \A j \in 1 .. Len(s) : i * Limit + j \in 1 .. Len(l) /\ s[j] = l[i * Limit + j]

\* What a buffer holds of the log of its indicator: the sealed chunks that
\* wait, each at its place, and the points after the last sealed chunk.
Holds(b, l) ==
  /\ Len(l) = b.index * Limit + Len(b.active)
  /\ Fits(l, b.index, b.active)
  /\ \A i \in DOMAIN b.pending :
       i < b.index /\ b.pending[i].final /\ Fits(l, i, b.pending[i].points)

AllFit(l, f) == \A i \in DOMAIN f : Fits(l, i, f[i].points)

\* Until a restart the buffers hold the logs, the platform's chunks fit them,
\* and a call carries what the buffers have to save.
LogInv ==
  restarts = 0 =>
    /\ ~(sink = "direct" /\ ended) => \A k \in Keys : Holds(buffers[k], taken[k])
    /\ \A k \in Keys : AllFit(taken[k], chunks[k])
    /\ call # NoCall => \A k \in call.keys : call.chunks[k] = SnapshotForFlush(buffers[k])

\* A sealed chunk waits in the buffer until the platform has it.
SealedInv ==
  sink = "agent" /\ restarts = 0 =>
    /\ \A k \in Keys : \A i \in 0 .. buffers[k].index - 1 :
         \/ i \in DOMAIN buffers[k].pending
         \/ i \in DOMAIN chunks[k] /\ chunks[k][i].final
    /\ call.phase = "stored" =>
         \A k \in call.keys : \A i \in DOMAIN call.chunks[k] :
           i \in DOMAIN chunks[k] /\ chunks[k][i] = call.chunks[k][i]

\* Without a sink there is no agent.
DirectInv ==
  sink = "direct" =>
    /\ restarts = 0 /\ alive /\ call = NoCall /\ wire = <<>>
    /\ \A k \in Keys : DOMAIN buffers[k].pending = {}

\* The definitions are known, or nothing is stored yet; with a sink they
\* travel ahead of every point.
DefinitionInv ==
  /\ sink = "direct" => /\ ~defined => \A k \in Keys : taken[k] = <<>> /\ DOMAIN chunks[k] = {}
                        /\ defined /\ faults = 0 => known
  /\ sink = "agent" =>
       /\ ~linked => call = NoCall
       /\ ~defined => wire = <<>> /\ call = NoCall
       /\ call.phase = "stored" => known
       /\ ~known =>
            /\ \A k \in Keys : DOMAIN chunks[k] = {}
            /\ call # NoCall => call.defs
            /\ defined /\ linked /\ call = NoCall => wire # <<>> /\ Head(wire).defs

IndicatorInv == LogInv /\ SealedInv /\ DirectInv /\ DefinitionInv

-----------------------------------------------------------------------------
(* Logs, chunks and buffers *)

\* Chunks that fit a log fit what it grows to.
LEMMA FitsGrowing ==
  ASSUME NEW l \in Seq(Nat), NEW p \in Nat, NEW i \in Nat, NEW s \in Seq(Nat), Fits(l, i, s)
  PROVE  Fits(Append(l, p), i, s)
<1>1. Len(Append(l, p)) = Len(l) + 1 /\ \A n \in 1 .. Len(l) : Append(l, p)[n] = l[n]
  OBVIOUS
<1>2. Len(l) \in Nat OBVIOUS
<1> QED BY <1>1, <1>2 DEF Fits

\* A point appended to the log and to the open chunk is at the same place.
LEMMA FitsAppended ==
  ASSUME NEW l \in Seq(Nat), NEW p \in Nat, NEW i \in Nat, NEW s \in Seq(Nat), Fits(l, i, s),
         Limit \in Nat, Len(l) = i * Limit + Len(s)
  PROVE  Fits(Append(l, p), i, Append(s, p))
<1>1. Fits(Append(l, p), i, s) BY FitsGrowing
<1>2. /\ Len(s) \in Nat /\ Len(l) \in Nat /\ i * Limit \in Nat
      /\ Len(Append(s, p)) = Len(s) + 1 /\ Len(Append(l, p)) = Len(l) + 1
  OBVIOUS
<1>3. SUFFICES ASSUME NEW j \in 1 .. Len(s) + 1
               PROVE  i * Limit + j \in 1 .. Len(l) + 1 /\ Append(s, p)[j] = Append(l, p)[i * Limit + j]
  BY <1>2 DEF Fits
<1>4. CASE j = Len(s) + 1
  <2>1. i * Limit + j = Len(l) + 1 BY <1>2, <1>4
  <2>2. Append(s, p)[Len(s) + 1] = p BY <1>2
  <2>3. Append(l, p)[Len(l) + 1] = p BY <1>2
  <2> QED BY <1>2, <1>4, <2>1, <2>2, <2>3
<1>5. CASE j # Len(s) + 1
  <2>1. j \in 1 .. Len(s) BY <1>2, <1>5
  <2>2. Append(s, p)[j] = s[j] BY <2>1
  <2> QED BY <1>1, <1>2, <2>1, <2>2 DEF Fits
<1> QED BY <1>4, <1>5

\* One chunk over others.
LEMMA OverFacts ==
  ASSUME NEW f, NEW g
  PROVE  /\ DOMAIN Over(f, g) = DOMAIN f \cup DOMAIN g
         /\ \A i \in DOMAIN f : Over(f, g)[i] = f[i]
         /\ \A i \in DOMAIN g : i \notin DOMAIN f => Over(f, g)[i] = g[i]
  BY DEF Over

LEMMA ChunkFacts ==
  ASSUME NEW i, NEW s
  PROVE  /\ DOMAIN Chunk(i, s, TRUE) = {i} /\ DOMAIN Chunk(i, s, FALSE) = {i}
         /\ Chunk(i, s, TRUE)[i].points = s /\ Chunk(i, s, FALSE)[i].points = s
         /\ Chunk(i, s, TRUE)[i].final
  BY DEF Chunk

LEMMA OverIsChunks ==
  ASSUME NEW f, NEW g, IsChunks(f), IsChunks(g)
  PROVE  IsChunks(Over(f, g))
<1> DEFINE h == Over(f, g)
<1>1. DOMAIN h = DOMAIN f \cup DOMAIN g /\ \A i \in DOMAIN h : h[i] = IF i \in DOMAIN f THEN f[i] ELSE g[i]
  BY DEF Over
<1> HIDE DEF h
<1>2. ASSUME NEW i \in DOMAIN h
      PROVE  i \in Nat /\ h[i].points \in Seq(Nat) /\ Len(h[i].points) \in 1 .. Limit
  BY <1>1, <1>2 DEF IsChunks
<1> QED BY <1>2 DEF IsChunks, h

LEMMA ChunkIsChunks ==
  ASSUME NEW i \in Nat, NEW s \in Seq(Nat), NEW c \in BOOLEAN, Len(s) \in 1 .. Limit
  PROVE  IsChunks(Chunk(i, s, c))
<1> DEFINE h == Chunk(i, s, c)
<1>1. DOMAIN h = {i} /\ h[i].points = s BY DEF Chunk
<1> HIDE DEF h
<1>2. IsChunks(h) BY <1>1 DEF IsChunks
<1> QED BY <1>2 DEF h

LEMMA EmptyIsBuffer == IsBuffer(EmptyBuffer) /\ IsChunks(NoChunks) /\ DOMAIN NoChunks = {}
<1>1. DOMAIN NoChunks = {} BY DEF NoChunks
<1>2. IsChunks(NoChunks) BY <1>1 DEF IsChunks
<1>3. <<>> \in Seq(Nat) /\ Len(<<>>) = 0 OBVIOUS
<1>4. /\ EmptyBuffer.index = 0 /\ EmptyBuffer.active = <<>> /\ EmptyBuffer.pending = NoChunks
      /\ EmptyBuffer = [index |-> EmptyBuffer.index, active |-> EmptyBuffer.active,
                        pending |-> EmptyBuffer.pending]
  BY DEF EmptyBuffer
<1> HIDE DEF EmptyBuffer, NoChunks
<1> QED BY <1>1, <1>2, <1>3, <1>4, IndicatorAssumption DEF IsBuffer

\* A point keeps the buffer well formed; a chunk is sealed exactly at the
\* limit.
LEMMA AddPointType ==
  ASSUME NEW b, NEW p \in Nat, IsBuffer(b)
  PROVE  IsBuffer(AddPoint(b, p))
<1> DEFINE a == Append(b.active, p)
           s == Over(Chunk(b.index, a, TRUE), b.pending)
<1>0. Limit \in Nat \ {0} /\ b.active \in Seq(Nat) /\ b.index \in Nat /\ Len(b.active) < Limit
  BY IndicatorAssumption DEF IsBuffer
<1>1. a \in Seq(Nat) /\ Len(a) = Len(b.active) + 1 /\ Len(b.active) \in Nat
  BY <1>0
<1>2. CASE Len(a) < Limit
  <2>1. AddPoint(b, p) = [index |-> b.index, active |-> a, pending |-> b.pending]
    BY <1>2 DEF AddPoint
  <2> QED BY <1>0, <1>1, <1>2, <2>1 DEF IsBuffer
<1>3. CASE ~(Len(a) < Limit)
  <2>1. AddPoint(b, p) = [index |-> b.index + 1, active |-> <<>>, pending |-> s]
    BY <1>3 DEF AddPoint
  <2>2. Len(a) = Limit /\ Len(a) \in 1 .. Limit BY <1>0, <1>1, <1>3
  <2>3. IsChunks(s)
    BY <1>0, <1>1, <2>2, ChunkIsChunks, OverIsChunks DEF IsBuffer
  <2>4. \A i \in DOMAIN s : Len(s[i].points) = Limit
    <3>1. DOMAIN s = {b.index} \cup DOMAIN b.pending /\ s[b.index].points = a
          /\ \A j \in DOMAIN b.pending : j # b.index => s[j] = b.pending[j]
      BY DEF Over, Chunk
    <3> HIDE DEF s, a
    <3> QED BY <2>2, <3>1 DEF IsBuffer
  <2>5. <<>> \in Seq(Nat) /\ Len(<<>>) = 0 OBVIOUS
  <2> HIDE DEF s, a
  <2> QED BY <1>0, <2>1, <2>3, <2>4, <2>5 DEF IsBuffer
<1> QED BY <1>2, <1>3

\* A buffer that holds a log holds it with the point added to both.
LEMMA AddPointHolds ==
  ASSUME NEW b, NEW p \in Nat, NEW l \in Seq(Nat), IsBuffer(b), Holds(b, l)
  PROVE  Holds(AddPoint(b, p), Append(l, p))
<1> DEFINE a == Append(b.active, p)
           m == Append(l, p)
           s == Over(Chunk(b.index, a, TRUE), b.pending)
<1>0. Limit \in Nat \ {0} /\ b.active \in Seq(Nat) /\ b.index \in Nat /\ Len(b.active) < Limit
  BY IndicatorAssumption DEF IsBuffer
<1>1. a \in Seq(Nat) /\ Len(a) = Len(b.active) + 1 /\ Len(b.active) \in Nat /\ Len(m) = Len(l) + 1
  BY <1>0
<1>2. Fits(m, b.index, a)
  BY <1>0, FitsAppended DEF Holds
<1>3. \A i \in DOMAIN b.pending :
        i < b.index /\ b.pending[i].final /\ Fits(m, i, b.pending[i].points)
  BY FitsGrowing DEF Holds, IsBuffer, IsChunks
<1>4. Len(m) = b.index * Limit + Len(a)
  <2>1. b.index * Limit \in Nat BY <1>0
  <2> QED BY <1>1, <2>1 DEF Holds
<1>5. CASE Len(a) < Limit
  <2>1. AddPoint(b, p) = [index |-> b.index, active |-> a, pending |-> b.pending]
    BY <1>5 DEF AddPoint
  <2> DEFINE c == AddPoint(b, p)
  <2>2. c.index = b.index /\ c.active = a /\ c.pending = b.pending BY <2>1
  <2> HIDE DEF a, m, s, c
  <2>3. Holds(c, m) BY <1>2, <1>3, <1>4, <2>2 DEF Holds
  <2> QED BY <2>3 DEF c, m
<1>6. CASE ~(Len(a) < Limit)
  <2>1. AddPoint(b, p) = [index |-> b.index + 1, active |-> <<>>, pending |-> s]
    BY <1>6 DEF AddPoint
  <2>2. Len(a) = Limit BY <1>0, <1>1, <1>6
  <2>3. Len(m) = (b.index + 1) * Limit + Len(<<>>)
    <3>1. (b.index + 1) * Limit = b.index * Limit + Limit /\ Len(<<>>) = 0 BY <1>0
    <3> HIDE DEF a, m
    <3> QED BY <1>0, <1>4, <2>2, <3>1
  <2>4. Fits(m, b.index + 1, <<>>) BY DEF Fits
  <2>5. DOMAIN s = {b.index} \cup DOMAIN b.pending /\ s[b.index].points = a /\ s[b.index].final
        /\ \A i \in DOMAIN b.pending : s[i] = b.pending[i]
    <3>1. b.index \notin DOMAIN b.pending BY <1>0, <1>3
    <3> QED BY <3>1 DEF Over, Chunk
  <2>6. \A i \in DOMAIN s : i < b.index + 1 /\ s[i].final /\ Fits(m, i, s[i].points)
    <3> HIDE DEF a, m, s
    <3>1. DOMAIN b.pending \subseteq Nat BY DEF IsBuffer, IsChunks
    <3> QED BY <1>0, <1>2, <1>3, <2>5, <3>1
  <2> DEFINE c == AddPoint(b, p)
  <2>7. c.index = b.index + 1 /\ c.active = <<>> /\ c.pending = s BY <2>1
  <2> HIDE DEF a, m, s, c
  <2>8. Holds(c, m) BY <2>3, <2>4, <2>6, <2>7 DEF Holds
  <2> QED BY <2>8 DEF c, m
<1> QED BY <1>5, <1>6

\* What a flush sends: the sealed chunks as they are, and the open one.
LEMMA SnapshotFacts ==
  ASSUME NEW b, IsBuffer(b)
  PROVE  LET f == SnapshotForFlush(b)
         IN  /\ IsChunks(f)
             /\ \A i \in DOMAIN b.pending : i \in DOMAIN f /\ f[i] = b.pending[i]
             /\ \A i \in DOMAIN f : i \in DOMAIN b.pending \/ (i = b.index /\ f[i].points = b.active)
<1> DEFINE f == SnapshotForFlush(b)
<1>1. CASE b.active = <<>>
  <2>1. f = b.pending BY <1>1 DEF SnapshotForFlush
  <2> QED BY <2>1 DEF IsBuffer
<1>2. CASE b.active # <<>>
  <2>1. f = Over(b.pending, Chunk(b.index, b.active, FALSE))
    BY <1>2 DEF SnapshotForFlush
  <2>2. Len(b.active) \in 1 .. Limit
    <3>1. b.active \in Seq(Nat) /\ Len(b.active) < Limit /\ Limit \in Nat
      BY IndicatorAssumption DEF IsBuffer
    <3>2. Len(b.active) \in Nat /\ Len(b.active) # 0 BY <1>2, <3>1
    <3> QED BY <3>1, <3>2
  <2>3. IsChunks(Chunk(b.index, b.active, FALSE))
    BY <2>2, ChunkIsChunks DEF IsBuffer
  <2>4. IsChunks(f)
    BY <2>1, <2>3, OverIsChunks DEF IsBuffer
  <2>5. \A i \in DOMAIN b.pending : i \in DOMAIN f /\ f[i] = b.pending[i]
    BY <2>1 DEF Over
  <2>6. \A i \in DOMAIN f : i \in DOMAIN b.pending \/ (i = b.index /\ f[i].points = b.active)
    BY <2>1 DEF Over, Chunk
  <2> QED BY <2>4, <2>5, <2>6
<1> QED BY <1>1, <1>2

\* What is sent fits the log.
LEMMA SnapshotFits ==
  ASSUME NEW b, NEW l \in Seq(Nat), IsBuffer(b), Holds(b, l)
  PROVE  AllFit(l, SnapshotForFlush(b))
<1> DEFINE f == SnapshotForFlush(b)
<1>1. /\ \A i \in DOMAIN b.pending : i \in DOMAIN f /\ f[i] = b.pending[i]
      /\ \A i \in DOMAIN f : i \in DOMAIN b.pending \/ (i = b.index /\ f[i].points = b.active)
  BY SnapshotFacts
<1> HIDE DEF f
<1>2. AllFit(l, f)
  BY <1>1 DEF AllFit, Holds
<1> QED BY <1>2 DEF f

\* A stored chunk has no more points than the open chunk at its place.
LEMMA OpenOutgrows ==
  ASSUME NEW b, NEW l \in Seq(Nat), NEW f, IsBuffer(b), Holds(b, l), IsChunks(f), AllFit(l, f),
         b.index \in DOMAIN f
  PROVE  Len(f[b.index].points) <= Len(b.active)
<1> DEFINE n == Len(f[b.index].points)
<1>1. n \in 1 .. Limit /\ b.index \in Nat /\ Limit \in Nat
  BY IndicatorAssumption DEF IsChunks
<1>2. b.index * Limit + n \in 1 .. Len(l)
  BY <1>1 DEF AllFit, Fits
<1>3. Len(l) = b.index * Limit + Len(b.active) BY DEF Holds
<1>4. Len(b.active) \in Nat BY DEF IsBuffer
<1>5. b.index * Limit \in Nat BY <1>1
<1>6. n <= Len(b.active)
  <2> HIDE DEF n
  <2> QED BY <1>1, <1>2, <1>3, <1>4, <1>5
<1> QED BY <1>6

\* What is sent never has fewer points than what is stored at its place.
LEMMA SnapshotOutgrows ==
  ASSUME NEW b, NEW l \in Seq(Nat), NEW f, IsBuffer(b), Holds(b, l), IsChunks(f), AllFit(l, f),
         NEW i \in DOMAIN f, i \in DOMAIN SnapshotForFlush(b)
  PROVE  Len(f[i].points) <= Len(SnapshotForFlush(b)[i].points)
<1> DEFINE g == SnapshotForFlush(b)
<1>1. /\ \A j \in DOMAIN b.pending : g[j] = b.pending[j]
      /\ i \in DOMAIN b.pending \/ (i = b.index /\ g[i].points = b.active)
  BY SnapshotFacts
<1>2. Len(f[i].points) \in 1 .. Limit /\ Limit \in Nat
  BY IndicatorAssumption DEF IsChunks
<1>3. CASE i \in DOMAIN b.pending
  BY <1>1, <1>2, <1>3 DEF IsBuffer
<1>4. CASE i = b.index /\ g[i].points = b.active
  BY <1>4, OpenOutgrows
<1> QED BY <1>1, <1>3, <1>4

\* g has every chunk of f, with no fewer points.
Grows(f, g) ==
  \A i \in DOMAIN f : i \in DOMAIN g /\ Len(f[i].points) <= Len(g[i].points)

LEMMA GrowsItself ==
  ASSUME NEW f, IsChunks(f)
  PROVE  Grows(f, f)
  BY DEF IsChunks, Grows

\* Storing chunks that fit, and are no shorter than what they replace, keeps
\* what is stored fitting and growing.
LEMMA OverFits ==
  ASSUME NEW l \in Seq(Nat), NEW f, NEW g, IsChunks(f), IsChunks(g), AllFit(l, f), AllFit(l, g),
         \A i \in DOMAIN g : i \in DOMAIN f => Len(g[i].points) <= Len(f[i].points)
  PROVE  AllFit(l, Over(f, g)) /\ Grows(g, Over(f, g))
<1> DEFINE h == Over(f, g)
<1>1. DOMAIN h = DOMAIN f \cup DOMAIN g /\ \A i \in DOMAIN h : h[i] = IF i \in DOMAIN f THEN f[i] ELSE g[i]
  BY DEF Over
<1> HIDE DEF h
<1>2. AllFit(l, h) BY <1>1 DEF AllFit
<1>3. Grows(g, h) BY <1>1 DEF Grows, IsChunks
<1> QED BY <1>2, <1>3 DEF h

LEMMA AllFitGrowing ==
  ASSUME NEW l \in Seq(Nat), NEW p \in Nat, NEW f, IsChunks(f), AllFit(l, f)
  PROVE  AllFit(Append(l, p), f)
  BY FitsGrowing DEF AllFit, IsChunks

\* The same for what the platform stores of one indicator.
LEMMA UpsertFits ==
  ASSUME NEW stored, NEW saved, NEW k \in Keys, NEW l \in Seq(Nat),
         IsChunks(stored[k]), AllFit(l, stored[k]),
         k \in DOMAIN saved =>
           /\ IsChunks(saved[k]) /\ AllFit(l, saved[k])
           /\ \A i \in DOMAIN stored[k] :
                i \in DOMAIN saved[k] => Len(stored[k][i].points) <= Len(saved[k][i].points)
  PROVE  /\ IsChunks(Upsert(stored, saved)[k]) /\ AllFit(l, Upsert(stored, saved)[k])
         /\ Grows(stored[k], Upsert(stored, saved)[k])
<1>1. CASE k \in DOMAIN saved
  <2>1. Upsert(stored, saved)[k] = Over(saved[k], stored[k]) BY <1>1 DEF Upsert
  <2>2. IsChunks(Over(saved[k], stored[k])) BY <1>1, OverIsChunks
  <2>3. AllFit(l, Over(saved[k], stored[k])) /\ Grows(stored[k], Over(saved[k], stored[k]))
    BY <1>1, OverFits
  <2> QED BY <2>1, <2>2, <2>3
<1>2. CASE k \notin DOMAIN saved
  <2>1. Upsert(stored, saved)[k] = stored[k] BY <1>2 DEF Upsert
  <2> QED BY <2>1, GrowsItself
<1> QED BY <1>1, <1>2

\* What a point adds to the chunks that wait.
LEMMA AddPointSeals ==
  ASSUME NEW b, NEW p \in Nat, IsBuffer(b)
  PROVE  /\ \A i \in DOMAIN b.pending : i \in DOMAIN AddPoint(b, p).pending
         /\ \/ AddPoint(b, p).index = b.index
            \/ AddPoint(b, p).index = b.index + 1 /\ b.index \in DOMAIN AddPoint(b, p).pending
  BY DEF AddPoint, Over, Chunk

-----------------------------------------------------------------------------
(* The chart *)

\* A place in a chunk and a position on the chart.
LEMMA PositionFacts ==
  ASSUME NEW i \in Nat, NEW j \in 1 .. Limit, NEW p \in Int, p = i * Limit + j
  PROVE  (p - 1) \div Limit = i /\ ((p - 1) % Limit) + 1 = j
<1>1. Limit \in Nat \ {0} BY IndicatorAssumption
<1> QED BY <1>1

\* The chart shows the points of the chunks, each at its position.
LEMMA ChartFacts ==
  ASSUME NEW f, IsChunks(f)
  PROVE  /\ \A i \in DOMAIN f : \A j \in 1 .. Len(f[i].points) :
              i * Limit + j \in DOMAIN Chart(f) /\ Chart(f)[i * Limit + j] = f[i].points[j]
         /\ \A p \in DOMAIN Chart(f) :
              \E i \in DOMAIN f : \E j \in 1 .. Len(f[i].points) : p = i * Limit + j
<1>1. DOMAIN Chart(f) = Positions(f) BY DEF Chart
<1>2. ASSUME NEW i \in DOMAIN f, NEW j \in 1 .. Len(f[i].points)
      PROVE  i * Limit + j \in DOMAIN Chart(f) /\ Chart(f)[i * Limit + j] = f[i].points[j]
  <2>1. i \in Nat /\ j \in 1 .. Limit /\ Limit \in Nat \ {0}
    BY <1>2, IndicatorAssumption DEF IsChunks
  <2>2. PICK p \in Int : p = i * Limit + j BY <2>1
  <2>3. p \in Positions(f) BY <1>2, <2>2 DEF Positions
  <2>4. (p - 1) \div Limit = i /\ ((p - 1) % Limit) + 1 = j
    BY <2>1, <2>2, PositionFacts, Zenon
  <2>5. Chart(f)[p] = f[(p - 1) \div Limit].points[((p - 1) % Limit) + 1]
    BY <2>3 DEF Chart
  <2>6. p \in DOMAIN Chart(f) /\ Chart(f)[p] = f[i].points[j]
    BY <1>1, <2>3, <2>4, <2>5, Zenon
  <2> QED BY <2>2, <2>6, Zenon
<1>3. ASSUME NEW p \in Positions(f)
      PROVE  \E i \in DOMAIN f : \E j \in 1 .. Len(f[i].points) : p = i * Limit + j
  BY <1>3 DEF Positions
<1> QED BY <1>1, <1>2, <1>3

LEMMA ChartFits ==
  ASSUME NEW f, NEW l \in Seq(Nat), IsChunks(f), AllFit(l, f), NEW p \in DOMAIN Chart(f)
  PROVE  p \in 1 .. Len(l) /\ Chart(f)[p] = l[p]
<1>1. PICK i \in DOMAIN f : \E j \in 1 .. Len(f[i].points) : p = i * Limit + j
  BY ChartFacts
<1>2. PICK j \in 1 .. Len(f[i].points) : p = i * Limit + j
  BY <1>1
<1>3. Chart(f)[p] = f[i].points[j] BY <1>2, ChartFacts
<1> QED BY <1>2, <1>3 DEF AllFit, Fits

LEMMA ChartGrows ==
  ASSUME NEW f, NEW g, IsChunks(f), IsChunks(g), Grows(f, g)
  PROVE  DOMAIN Chart(f) \subseteq DOMAIN Chart(g)
<1> SUFFICES ASSUME NEW p \in DOMAIN Chart(f) PROVE p \in DOMAIN Chart(g)
  OBVIOUS
<1>1. PICK i \in DOMAIN f : \E j \in 1 .. Len(f[i].points) : p = i * Limit + j
  BY ChartFacts
<1>2. PICK j \in 1 .. Len(f[i].points) : p = i * Limit + j
  BY <1>1
<1>3. i \in DOMAIN g /\ j \in 1 .. Len(g[i].points)
  <2>1. i \in DOMAIN g /\ Len(f[i].points) <= Len(g[i].points) BY DEF Grows
  <2>2. Len(f[i].points) \in Nat /\ Len(g[i].points) \in Nat BY <2>1 DEF IsChunks
  <2> QED BY <2>1, <2>2
<1> QED BY <1>2, <1>3, ChartFacts

-----------------------------------------------------------------------------
(* The steps *)

\* What a step before a restart does to the logs and the stored chunks.
Shown ==
  restarts' = 0 =>
    \A k \in Keys :
      /\ Grows(chunks[k], chunks'[k])
      /\ \A p \in 1 .. Len(taken[k]) : p \in 1 .. Len(taken'[k]) /\ taken'[k][p] = taken[k][p]

Kept == TypeInv' /\ IndicatorInv' /\ Shown

\* A step that leaves logs and chunks alone shows nothing new.
LEMMA NothingNew ==
  ASSUME TypeInv, taken' = taken, \A k \in Keys : chunks'[k] = chunks[k]
  PROVE  Shown
<1>1. \A k \in Keys : Grows(chunks[k], chunks'[k])
  BY GrowsItself DEF TypeInv, DataTypes
<1> QED BY <1>1 DEF Shown

LEMMA InitIndicator == Init => TypeInv /\ IndicatorInv
<1> SUFFICES ASSUME Init PROVE TypeInv /\ IndicatorInv
  OBVIOUS
<1>1. FlagTypes
  <2>1. bar \in 0 .. MaxBars /\ restarts \in 0 .. MaxRestarts /\ faults \in 0 .. MaxFaults
    BY IndicatorAssumption DEF Init
  <2>2. /\ defined \in BOOLEAN /\ linked \in BOOLEAN /\ alive \in BOOLEAN
        /\ ended \in BOOLEAN /\ known \in BOOLEAN /\ sink \in {"agent", "direct"}
        /\ first \subseteq Keys /\ hot \in BOOLEAN
    BY Zenon DEF Init
  <2> QED BY <2>1, <2>2, Zenon DEF FlagTypes
<1>2. /\ \A k \in Keys : buffers[k] = EmptyBuffer /\ chunks[k] = NoChunks /\ taken[k] = <<>>
      /\ taken = [k \in Keys |-> <<>>]
      /\ wire = <<>> /\ call = NoCall /\ bar = 0 /\ restarts = 0 /\ defined = FALSE /\ alive = TRUE
      /\ linked = TRUE
  BY DEF Init
<1>3. <<>> \in Seq(Nat) /\ <<>> \in Seq(Frames) /\ Len(<<>>) = 0
  OBVIOUS
<1>4. DataTypes
  BY <1>2, <1>3, EmptyIsBuffer DEF DataTypes
<1>5. /\ EmptyBuffer.index = 0 /\ EmptyBuffer.active = <<>> /\ EmptyBuffer.pending = NoChunks
  BY DEF EmptyBuffer
<1>6. DOMAIN NoChunks = {} BY EmptyIsBuffer
<1>7. NoCall.phase = "none" BY DEF NoCall
<1>8. Holds(EmptyBuffer, <<>>)
  <2>1. 0 * Limit = 0 BY IndicatorAssumption
  <2> QED BY <1>3, <1>5, <1>6, <2>1 DEF Holds, Fits
<1>9. LogInv
  BY <1>2, <1>6, <1>8 DEF LogInv, AllFit
<1>10. SealedInv
  BY <1>2, <1>5, <1>7 DEF SealedInv
<1>11. DirectInv
  BY <1>2, <1>3, <1>5, <1>6 DEF DirectInv
<1>12. DefinitionInv
  BY <1>2, <1>6, <1>7 DEF DefinitionInv
<1> QED BY <1>1, <1>4, <1>9, <1>10, <1>11, <1>12 DEF TypeInv, IndicatorInv

\* A frame is queued behind the others; the first one has the definitions.
LEMMA SendKeeps ==
  ASSUME TypeInv, IndicatorInv, NEW S \in WriterFrames, SendIndicatorFrame(S)
  PROVE  Kept
<1>0. FlagTypes /\ DataTypes /\ LogInv /\ SealedInv /\ DirectInv /\ DefinitionInv
  BY DEF TypeInv, IndicatorInv
<1>1. /\ sink = "agent" /\ bar < MaxBars /\ bar' = bar + 1 /\ defined' = TRUE
      /\ wire' = Append(wire, Frame(S))
      /\ UNCHANGED <<sink, first, hot, buffers, call, linked, alive, ended, chunks, known, taken, restarts, faults>>
  BY DEF SendIndicatorFrame, BarStarts, sessionVars, linkVars
<1>2. bar \in Nat /\ bar + 1 \in 0 .. MaxBars
  BY <1>0, <1>1, IndicatorAssumption DEF FlagTypes
<1>3. FlagTypes'
  BY <1>0, <1>1, <1>2 DEF FlagTypes
<1>4. Frame(S) \in Frames
  <2>1. S \in SUBSET Keys /\ first \in SUBSET Keys BY <1>0 DEF WriterFrames, FlagTypes
  <2> QED BY <1>0, <1>2, <2>1 DEF Frame, Frames, FlagTypes
<1>5. wire \in Seq(Frames) BY <1>0 DEF DataTypes
<1>6. wire' \in Seq(Frames) BY <1>1, <1>4, <1>5
<1>7. DataTypes'
  BY <1>0, <1>1, <1>6 DEF DataTypes, IsCall
<1>8. LogInv' /\ SealedInv' /\ DirectInv'
  BY <1>0, <1>1 DEF LogInv, SealedInv, DirectInv
<1>9. wire' # <<>> /\ (wire # <<>> => Head(wire') = Head(wire)) /\ (wire = <<>> => Head(wire') = Frame(S))
  BY <1>1, <1>4, <1>5
<1>10. ~defined => Frame(S).defs
  BY DEF Frame
<1>11. DefinitionInv'
  BY <1>0, <1>1, <1>9, <1>10 DEF DefinitionInv
<1>12. Shown BY <1>1, NothingNew
<1> QED BY <1>3, <1>7, <1>8, <1>11, <1>12 DEF Kept, TypeInv, IndicatorInv

\* A bar without a frame changes nothing but the bar.
LEMMA SkipKeeps ==
  ASSUME TypeInv, IndicatorInv, SkipBar
  PROVE  Kept
<1>0. FlagTypes /\ DataTypes /\ LogInv /\ SealedInv /\ DirectInv /\ DefinitionInv
  BY DEF TypeInv, IndicatorInv
<1>1. /\ UNCHANGED <<sink, first, hot, defined, wire, buffers, call, linked, alive, ended, chunks, known,
                      taken, restarts, faults>>
      /\ bar < MaxBars /\ bar' = bar + 1
  BY DEF SkipBar, BarStarts, sessionVars, linkVars
<1>2. bar + 1 \in 0 .. MaxBars
  BY <1>0, <1>1, IndicatorAssumption DEF FlagTypes
<1>3. FlagTypes' /\ DataTypes'
  BY <1>0, <1>1, <1>2 DEF FlagTypes, DataTypes, IsCall
<1>4. LogInv' /\ SealedInv' /\ DirectInv' /\ DefinitionInv'
  BY <1>0, <1>1 DEF LogInv, SealedInv, DirectInv, DefinitionInv
<1>5. Shown BY <1>1, NothingNew
<1> QED BY <1>3, <1>4, <1>5 DEF Kept, TypeInv, IndicatorInv

\* The worker ends or is killed and its connection closes: nothing is taken
\* or stored.
LEMMA EndKeeps ==
  ASSUME TypeInv, IndicatorInv, WorkerKilled \/ ConnectionCloses \/ RunEnds \/ WorkerLeaves
  PROVE  Kept
<1>0. FlagTypes /\ DataTypes /\ LogInv /\ SealedInv /\ DirectInv /\ DefinitionInv
  BY DEF TypeInv, IndicatorInv
<1>1. /\ UNCHANGED <<sink, first, hot, bar, defined, wire, buffers, call, chunks, known, taken,
                      restarts, faults>>
      /\ alive' \in BOOLEAN /\ linked' \in BOOLEAN /\ ended' \in BOOLEAN
      /\ sink = "direct" => alive' = alive /\ ended' = ended
      /\ ~linked' => (~linked \/ call = NoCall)
      /\ linked' => linked
  <2>1. CASE WorkerKilled
    BY <1>0, <2>1, Zenon DEF WorkerKilled, FlagTypes, sessionVars, barVars, linkVars
  <2>2. CASE ConnectionCloses
    BY <1>0, <2>2, Zenon DEF ConnectionCloses, FlagTypes, sessionVars, barVars
  <2>3. CASE RunEnds
    BY <1>0, <2>3, Zenon DEF RunEnds, FlagTypes, sessionVars, barVars, linkVars
  <2>4. CASE WorkerLeaves
    BY <1>0, <2>4, Zenon DEF WorkerLeaves, FlagTypes, sessionVars, barVars, linkVars
  <2> QED BY <2>1, <2>2, <2>3, <2>4
<1>2. FlagTypes' /\ DataTypes'
  BY <1>0, <1>1 DEF FlagTypes, DataTypes, IsCall
<1>3. LogInv' /\ SealedInv' /\ DirectInv'
  BY <1>0, <1>1 DEF LogInv, SealedInv, DirectInv, FlagTypes
<1>4. DefinitionInv'
  BY <1>0, <1>1 DEF DefinitionInv
<1>5. Shown BY <1>1, NothingNew
<1> QED BY <1>2, <1>3, <1>4, <1>5 DEF Kept, TypeInv, IndicatorInv

\* A failed save ends the connection and leaves everything in the buffers.
LEMMA SaveFailsKeeps ==
  ASSUME TypeInv, IndicatorInv, SaveFails
  PROVE  Kept
<1>0. FlagTypes /\ DataTypes /\ LogInv /\ SealedInv /\ DirectInv /\ DefinitionInv
  BY DEF TypeInv, IndicatorInv
<1>1. /\ UNCHANGED <<sink, first, hot, bar, defined, wire, buffers, alive, ended, chunks, known, taken,
                      restarts>>
      /\ call # NoCall /\ call' = NoCall /\ linked' = FALSE
      /\ faults' = faults \/ (faults < MaxFaults /\ faults' = faults + 1)
  BY DEF SaveFails, sessionVars, barVars
<1>2. faults' \in 0 .. MaxFaults
  <2>1. MaxFaults \in Nat /\ faults \in 0 .. MaxFaults BY <1>0, IndicatorAssumption DEF FlagTypes
  <2> QED BY <1>1, <2>1
<1>3. sink = "agent" BY <1>0, <1>1 DEF FlagTypes, DirectInv
<1>4. NoCall.phase = "none" BY DEF NoCall
<1>5. FlagTypes' /\ DataTypes'
  BY <1>0, <1>1, <1>2 DEF FlagTypes, DataTypes
<1>6. LogInv' /\ SealedInv' /\ DirectInv'
  BY <1>0, <1>1, <1>3, <1>4 DEF LogInv, SealedInv, DirectInv
<1>7. DefinitionInv'
  BY <1>0, <1>1, <1>3, <1>4 DEF DefinitionInv
<1>8. Shown BY <1>1, NothingNew
<1> QED BY <1>5, <1>6, <1>7, <1>8 DEF Kept, TypeInv, IndicatorInv

\* A restart starts over with empty buffers and gives up the old logs.
LEMMA CleanupKeeps ==
  ASSUME TypeInv, IndicatorInv, CleanupSessionState
  PROVE  Kept
<1>0. FlagTypes /\ DataTypes /\ LogInv /\ SealedInv /\ DirectInv /\ DefinitionInv
  BY DEF TypeInv, IndicatorInv
<1>1. /\ UNCHANGED <<sink, first, hot, bar, defined, wire, call, linked, alive, ended, chunks, known, faults>>
      /\ ~alive /\ restarts < MaxRestarts /\ restarts' = restarts + 1
      /\ buffers' = [k \in Keys |-> EmptyBuffer] /\ taken' = [k \in Keys |-> <<>>]
  BY DEF CleanupSessionState, sessionVars, barVars, linkVars
<1>2. restarts' \in 0 .. MaxRestarts /\ restarts' # 0
  <2>1. MaxRestarts \in Nat /\ restarts \in 0 .. MaxRestarts BY <1>0, IndicatorAssumption DEF FlagTypes
  <2> QED BY <1>1, <2>1
<1>3. sink = "agent" BY <1>0, <1>1 DEF FlagTypes, DirectInv
<1>4. FlagTypes'
  BY <1>0, <1>1, <1>2 DEF FlagTypes
<1>5. <<>> \in Seq(Nat) OBVIOUS
<1>6. DataTypes'
  BY <1>0, <1>1, <1>5, EmptyIsBuffer DEF DataTypes, IsCall
<1>7. LogInv' /\ SealedInv' /\ DirectInv' /\ Shown
  BY <1>1, <1>2, <1>3 DEF LogInv, SealedInv, DirectInv, Shown
<1>8. DefinitionInv'
  BY <1>0, <1>1 DEF DefinitionInv
<1> QED BY <1>4, <1>6, <1>7, <1>8 DEF Kept, TypeInv, IndicatorInv

\* A frame is taken into the buffers and the logs, and what is not yet known
\* to be stored is sent; while the definitions are unknown they go with it.
LEMMA HandleKeeps ==
  ASSUME TypeInv, IndicatorInv, HandleIndicatorFrame
  PROVE  Kept
<1> DEFINE frame == Head(wire)
<1>0. FlagTypes /\ DataTypes /\ LogInv /\ SealedInv /\ DirectInv /\ DefinitionInv
  BY DEF TypeInv, IndicatorInv
<1>1. /\ UNCHANGED <<sink, first, hot, bar, defined, linked, alive, ended, chunks, known, restarts, faults>>
      /\ linked /\ call = NoCall /\ wire # <<>> /\ wire' = Tail(wire)
  BY DEF HandleIndicatorFrame, sessionVars, barVars, linkVars
<1>2. wire \in Seq(Frames) BY <1>0 DEF DataTypes
<1>3. frame \in Frames /\ wire' \in Seq(Frames)
  BY <1>1, <1>2
<1> HIDE DEF frame
<1>4. frame.bar \in Nat /\ frame.keys \subseteq Keys /\ frame.defs \in BOOLEAN
  BY <1>3 DEF Frames
<1>5. sink = "agent" BY <1>0, <1>1 DEF FlagTypes, DirectInv
<1>6. ASSUME NEW k \in Keys
      PROVE  /\ k \in frame.keys => /\ buffers'[k] = AddPoint(buffers[k], frame.bar)
                                    /\ taken'[k] = Append(taken[k], frame.bar)
             /\ k \notin frame.keys => buffers'[k] = buffers[k] /\ taken'[k] = taken[k]
  BY <1>6 DEF HandleIndicatorFrame, frame
<1>7. ASSUME NEW k \in Keys
      PROVE  IsBuffer(buffers[k]) /\ IsBuffer(buffers'[k]) /\ IsChunks(chunks[k]) /\ taken[k] \in Seq(Nat)
  <2>1. IsBuffer(buffers[k]) /\ IsChunks(chunks[k]) /\ taken[k] \in Seq(Nat)
    BY <1>0 DEF DataTypes
  <2>2. IsBuffer(buffers'[k])
    BY <1>4, <1>6, <2>1, AddPointType
  <2> QED BY <2>1, <2>2
<1>8. taken' \in [Keys -> Seq(Nat)]
  <2>1. taken' = [k \in Keys |-> IF k \in frame.keys THEN Append(taken[k], frame.bar) ELSE taken[k]]
    BY DEF HandleIndicatorFrame, frame
  <2>2. \A k \in Keys : taken[k] \in Seq(Nat) /\ Append(taken[k], frame.bar) \in Seq(Nat)
    BY <1>4, <1>7
  <2> QED BY <2>1, <2>2
<1>9. \/ call' = NoCall /\ frame.keys = {} /\ ~frame.defs
      \/ /\ call' = [phase |-> "sent", keys |-> frame.keys, defs |-> frame.defs,
                     chunks |-> [k \in frame.keys |-> SnapshotForFlush(buffers'[k])]]
         /\ ~(frame.keys = {} /\ ~frame.defs)
  <2> DEFINE added == [k \in Keys |-> IF k \in frame.keys THEN AddPoint(buffers[k], frame.bar)
                                     ELSE buffers[k]]
  <2>1. /\ buffers' = added
        /\ call' = IF frame.keys = {} /\ ~frame.defs THEN NoCall
                   ELSE [phase |-> "sent", keys |-> frame.keys, defs |-> frame.defs,
                         chunks |-> [k \in frame.keys |-> SnapshotForFlush(added[k])]]
    BY Zenon DEF HandleIndicatorFrame, frame
  <2> HIDE DEF added
  <2> QED BY <2>1, Zenon
<1>10. call' # NoCall =>
         /\ call'.phase = "sent" /\ call'.keys = frame.keys /\ call'.defs = frame.defs
         /\ call' = [phase |-> call'.phase, keys |-> call'.keys, defs |-> call'.defs,
                     chunks |-> call'.chunks]
         /\ DOMAIN call'.chunks = frame.keys
         /\ \A k \in frame.keys : call'.chunks[k] = SnapshotForFlush(buffers'[k])
  BY <1>9
<1>11. FlagTypes' BY <1>0, <1>1 DEF FlagTypes
<1>12. DataTypes'
  <2>1. call' # NoCall => IsCall'
    <3>1. \A k \in frame.keys : IsChunks(SnapshotForFlush(buffers'[k]))
      BY <1>4, <1>7, SnapshotFacts
    <3> QED BY <1>4, <1>10, <3>1 DEF IsCall
  <2> QED BY <1>1, <1>3, <1>7, <1>8, <2>1 DEF DataTypes
<1>13. LogInv'
  <2> SUFFICES ASSUME restarts = 0
               PROVE  \A k \in Keys : Holds(buffers'[k], taken'[k]) /\ AllFit(taken'[k], chunks[k])
    BY <1>1, <1>10 DEF LogInv
  <2> TAKE k \in Keys
  <2>1. Holds(buffers[k], taken[k]) /\ AllFit(taken[k], chunks[k])
    BY <1>0, <1>5 DEF LogInv
  <2>2. CASE k \in frame.keys
    BY <1>4, <1>6, <1>7, <2>1, <2>2, AddPointHolds, AllFitGrowing
  <2>3. CASE k \notin frame.keys
    BY <1>6, <2>1, <2>3
  <2> QED BY <2>2, <2>3
<1>14. SealedInv'
  <2> SUFFICES ASSUME restarts = 0, NEW k \in Keys, NEW i \in 0 .. buffers'[k].index - 1
               PROVE  i \in DOMAIN buffers'[k].pending \/ (i \in DOMAIN chunks[k] /\ chunks[k][i].final)
    <3>1. NoCall.phase = "none" BY DEF NoCall
    <3> QED BY <1>1, <1>10, <3>1 DEF SealedInv
  <2>1. i \in 0 .. buffers[k].index - 1 =>
          i \in DOMAIN buffers[k].pending \/ (i \in DOMAIN chunks[k] /\ chunks[k][i].final)
    BY <1>0, <1>5 DEF SealedInv
  <2>2. buffers[k].index \in Nat /\ IsBuffer(buffers[k]) BY <1>7 DEF IsBuffer
  <2>3. CASE k \in frame.keys
    <3>1. /\ \A j \in DOMAIN buffers[k].pending : j \in DOMAIN buffers'[k].pending
          /\ \/ buffers'[k].index = buffers[k].index
             \/ buffers'[k].index = buffers[k].index + 1 /\ buffers[k].index \in DOMAIN buffers'[k].pending
      BY <1>4, <1>6, <2>2, <2>3, AddPointSeals
    <3>2. i \in 0 .. buffers[k].index - 1 \/ (i = buffers[k].index /\ i \in DOMAIN buffers'[k].pending)
      BY <2>2, <3>1
    <3> QED BY <2>1, <3>1, <3>2
  <2>4. CASE k \notin frame.keys
    BY <1>6, <2>1, <2>4
  <2> QED BY <2>3, <2>4
<1>15. DirectInv' BY <1>1, <1>5 DEF DirectInv
<1>16. DefinitionInv'
  <2>1. NoCall.phase = "none" BY DEF NoCall
  <2>2. defined /\ (~known => frame.defs) BY <1>0, <1>1, <1>5 DEF DefinitionInv, frame
  <2> QED BY <1>0, <1>1, <1>5, <1>9, <1>10, <2>1, <2>2 DEF DefinitionInv
<1>17. Shown
  <2>1. \A k \in Keys : Grows(chunks[k], chunks'[k])
    BY <1>1, <1>7, GrowsItself
  <2>2. ASSUME NEW k \in Keys, NEW p \in 1 .. Len(taken[k])
        PROVE  p \in 1 .. Len(taken'[k]) /\ taken'[k][p] = taken[k][p]
    BY <1>4, <1>6, <1>7, <2>2
  <2> QED BY <2>1, <2>2 DEF Shown
<1> QED BY <1>11, <1>12, <1>13, <1>14, <1>15, <1>16, <1>17 DEF Kept, TypeInv, IndicatorInv

\* The platform stores what was sent: every chunk is at least as long as what
\* it replaces, and no sealed chunk is replaced by an open one.
LEMMA PlatformSavesKeeps ==
  ASSUME TypeInv, IndicatorInv, PlatformSaves
  PROVE  Kept
<1>0. FlagTypes /\ DataTypes /\ LogInv /\ SealedInv /\ DirectInv /\ DefinitionInv
  BY DEF TypeInv, IndicatorInv
<1>1. /\ UNCHANGED <<sink, first, hot, bar, defined, wire, buffers, linked, alive, ended, taken, restarts,
                      faults>>
      /\ call.phase = "sent" /\ call' = [call EXCEPT !.phase = "stored"]
      /\ chunks' = Upsert(chunks, call.chunks) /\ known' = (known \/ call.defs)
  BY DEF PlatformSaves, sessionVars, barVars, linkVars
<1>2. call # NoCall /\ IsCall
  <2>1. NoCall.phase = "none" BY DEF NoCall
  <2> QED BY <1>0, <1>1, <2>1 DEF DataTypes
<1>3. sink = "agent" BY <1>0, <1>2 DEF FlagTypes, DirectInv
<1>4. call' = [phase |-> "stored", keys |-> call.keys, defs |-> call.defs, chunks |-> call.chunks]
  BY <1>1, <1>2 DEF IsCall
<1>5. /\ call'.phase = "stored" /\ call'.keys = call.keys /\ call'.defs = call.defs
      /\ call'.chunks = call.chunks /\ call' # NoCall
  BY <1>4 DEF NoCall
<1>6. known' = TRUE /\ linked /\ defined
  BY <1>0, <1>1, <1>2, <1>3 DEF DefinitionInv, FlagTypes
<1>7. ASSUME NEW k \in Keys
      PROVE  /\ k \in call.keys => chunks'[k] = Over(call.chunks[k], chunks[k])
             /\ k \notin call.keys => chunks'[k] = chunks[k]
  BY <1>1, <1>2, <1>7 DEF Upsert, IsCall
<1>8. ASSUME NEW k \in Keys
      PROVE  IsBuffer(buffers[k]) /\ IsChunks(chunks[k]) /\ taken[k] \in Seq(Nat)
  BY <1>0, <1>8 DEF DataTypes
<1>9. ASSUME NEW k \in Keys PROVE IsChunks(chunks'[k])
  BY <1>2, <1>7, <1>8, <1>9, OverIsChunks DEF IsCall
<1>10. FlagTypes'
  BY <1>0, <1>1, <1>6 DEF FlagTypes
<1>11. DataTypes'
  <2>1. IsCall' BY <1>2, <1>4, <1>5 DEF IsCall
  <2> QED BY <1>0, <1>1, <1>9, <2>1 DEF DataTypes
<1>12. ASSUME restarts = 0, NEW k \in Keys
       PROVE  /\ Holds(buffers[k], taken[k])
              /\ k \in call.keys => call.chunks[k] = SnapshotForFlush(buffers[k])
              /\ AllFit(taken[k], chunks'[k]) /\ Grows(chunks[k], chunks'[k])
  <2>1. Holds(buffers[k], taken[k]) /\ AllFit(taken[k], chunks[k])
    BY <1>0, <1>3, <1>12 DEF LogInv
  <2>2. k \in call.keys => call.chunks[k] = SnapshotForFlush(buffers[k])
    BY <1>0, <1>2, <1>12 DEF LogInv
  <2>3. CASE k \in call.keys
    <3> DEFINE s == SnapshotForFlush(buffers[k])
    <3>1. IsChunks(s) /\ AllFit(taken[k], s)
      BY <1>8, <2>1, SnapshotFacts, SnapshotFits
    <3>2. \A i \in DOMAIN chunks[k] : i \in DOMAIN s => Len(chunks[k][i].points) <= Len(s[i].points)
      BY <1>8, <2>1, SnapshotOutgrows
    <3>3. chunks'[k] = Over(s, chunks[k]) BY <1>7, <2>2, <2>3
    <3> HIDE DEF s
    <3>4. AllFit(taken[k], chunks'[k]) /\ Grows(chunks[k], chunks'[k])
      BY <1>8, <2>1, <3>1, <3>2, <3>3, OverFits
    <3> QED BY <2>1, <2>2, <3>4
  <2>4. CASE k \notin call.keys
    BY <1>7, <1>8, <2>1, <2>4, GrowsItself
  <2> QED BY <2>3, <2>4
<1>13. LogInv'
  BY <1>1, <1>2, <1>5, <1>12 DEF LogInv, IsCall
<1>14. SealedInv'
  <2> SUFFICES ASSUME restarts = 0
               PROVE  /\ \A k \in Keys : \A i \in 0 .. buffers[k].index - 1 :
                           i \in DOMAIN buffers[k].pending \/ (i \in DOMAIN chunks'[k] /\ chunks'[k][i].final)
                      /\ \A k \in call.keys : \A i \in DOMAIN call.chunks[k] :
                           i \in DOMAIN chunks'[k] /\ chunks'[k][i] = call.chunks[k][i]
    BY <1>1, <1>5 DEF SealedInv
  <2>1. ASSUME NEW k \in Keys, NEW i \in 0 .. buffers[k].index - 1, i \notin DOMAIN buffers[k].pending
        PROVE  i \in DOMAIN chunks'[k] /\ chunks'[k][i].final
    <3>1. i \in DOMAIN chunks[k] /\ chunks[k][i].final
      BY <1>0, <1>3, <2>1 DEF SealedInv
    <3>2. k \in call.keys => i \notin DOMAIN call.chunks[k]
      <4>1. i # buffers[k].index /\ IsBuffer(buffers[k]) BY <1>8 DEF IsBuffer
      <4>2. i \notin DOMAIN SnapshotForFlush(buffers[k])
        BY <2>1, <4>1, SnapshotFacts
      <4> QED BY <1>12, <4>2
    <3> QED BY <1>7, <3>1, <3>2 DEF Over
  <2>2. ASSUME NEW k \in call.keys, NEW i \in DOMAIN call.chunks[k]
        PROVE  i \in DOMAIN chunks'[k] /\ chunks'[k][i] = call.chunks[k][i]
    <3>1. chunks'[k] = Over(call.chunks[k], chunks[k]) BY <1>2, <1>7 DEF IsCall
    <3> QED BY <3>1 DEF Over
  <2> QED BY <2>1, <2>2
<1>15. DirectInv' BY <1>1, <1>3 DEF DirectInv
<1>16. DefinitionInv' BY <1>1, <1>3, <1>6 DEF DefinitionInv
<1>17. Shown BY <1>1, <1>12 DEF Shown
<1> QED BY <1>10, <1>11, <1>13, <1>14, <1>15, <1>16, <1>17 DEF Kept, TypeInv, IndicatorInv

\* An acknowledged save empties the list of sealed chunks, and nothing else.
LEMMA MarkFacts ==
  ASSUME NEW b, IsBuffer(b)
  PROVE  LET c == MarkFinalizedAcked(b, DOMAIN b.pending)
         IN  /\ IsBuffer(c) /\ c.index = b.index /\ DOMAIN c.pending = {}
             /\ \A l \in Seq(Nat) : Holds(b, l) => Holds(c, l)
<1> DEFINE c == MarkFinalizedAcked(b, DOMAIN b.pending)
           none == [i \in DOMAIN b.pending \ DOMAIN b.pending |-> b.pending[i]]
<1>1. c = [index |-> b.index, active |-> b.active, pending |-> none]
  BY DEF MarkFinalizedAcked, IsBuffer
<1>2. DOMAIN none = {} OBVIOUS
<1> HIDE DEF none
<1>3. c.index = b.index /\ c.active = b.active /\ c.pending = none BY <1>1
<1> HIDE DEF c
<1>4. IsBuffer(c)
  BY <1>1, <1>2, <1>3 DEF IsBuffer, IsChunks
<1>5. \A l \in Seq(Nat) : Holds(b, l) => Holds(c, l)
  BY <1>2, <1>3 DEF Holds
<1>6. DOMAIN c.pending = {} BY <1>2, <1>3
<1> QED BY <1>3, <1>4, <1>5, <1>6 DEF c

\* The sealed chunks leave the buffers when the platform has them: during the
\* call nothing was added to what the call carries.
LEMMA AckKeeps ==
  ASSUME TypeInv, IndicatorInv, MarkIndicatorFinalsAcked
  PROVE  Kept
<1>0. FlagTypes /\ DataTypes /\ LogInv /\ SealedInv /\ DirectInv /\ DefinitionInv
  BY DEF TypeInv, IndicatorInv
<1>1. /\ UNCHANGED <<sink, first, hot, bar, defined, wire, linked, alive, ended, chunks, known, taken,
                      restarts, faults>>
      /\ call.phase = "stored" /\ call' = NoCall
  BY DEF MarkIndicatorFinalsAcked, sessionVars, barVars, linkVars
<1>2. call # NoCall /\ IsCall /\ NoCall.phase = "none"
  <2>1. NoCall.phase = "none" BY DEF NoCall
  <2> QED BY <1>0, <1>1, <2>1 DEF DataTypes
<1>3. sink = "agent" BY <1>0, <1>2 DEF FlagTypes, DirectInv
<1>4. ASSUME NEW k \in Keys
      PROVE  /\ k \in call.keys => buffers'[k] = MarkFinalizedAcked(buffers[k], DOMAIN buffers[k].pending)
             /\ k \notin call.keys => buffers'[k] = buffers[k]
  BY <1>4 DEF MarkIndicatorFinalsAcked
<1>5. ASSUME NEW k \in Keys
      PROVE  IsBuffer(buffers[k]) /\ IsChunks(chunks[k]) /\ taken[k] \in Seq(Nat)
  BY <1>0, <1>5 DEF DataTypes
<1>6. ASSUME NEW k \in Keys
      PROVE  /\ IsBuffer(buffers'[k]) /\ buffers'[k].index = buffers[k].index
             /\ Holds(buffers[k], taken[k]) => Holds(buffers'[k], taken[k])
  <2>1. CASE k \in call.keys
    BY <1>4, <1>5, <2>1, MarkFacts
  <2>2. CASE k \notin call.keys
    BY <1>4, <1>5, <2>2
  <2> QED BY <2>1, <2>2
<1>7. FlagTypes' BY <1>0, <1>1 DEF FlagTypes
<1>8. DataTypes' BY <1>0, <1>1, <1>6 DEF DataTypes
<1>9. LogInv' BY <1>0, <1>1, <1>6 DEF LogInv
<1>10. SealedInv'
  <2> SUFFICES ASSUME restarts = 0, NEW k \in Keys, NEW i \in 0 .. buffers[k].index - 1
               PROVE  i \in DOMAIN buffers'[k].pending \/ (i \in DOMAIN chunks[k] /\ chunks[k][i].final)
    BY <1>1, <1>2, <1>6 DEF SealedInv
  <2>1. i \in DOMAIN buffers[k].pending \/ (i \in DOMAIN chunks[k] /\ chunks[k][i].final)
    BY <1>0, <1>3 DEF SealedInv
  <2>2. ASSUME k \in call.keys, i \in DOMAIN buffers[k].pending
        PROVE  i \in DOMAIN chunks[k] /\ chunks[k][i].final
    <3>1. call.chunks[k] = SnapshotForFlush(buffers[k]) /\ Holds(buffers[k], taken[k])
      BY <1>0, <1>2, <1>3, <2>2 DEF LogInv
    <3>2. i \in DOMAIN call.chunks[k] /\ call.chunks[k][i] = buffers[k].pending[i]
      BY <1>5, <2>2, <3>1, SnapshotFacts
    <3>3. i \in DOMAIN chunks[k] /\ chunks[k][i] = call.chunks[k][i]
      BY <1>0, <1>1, <1>3, <2>2, <3>2 DEF SealedInv
    <3>4. buffers[k].pending[i].final BY <2>2, <3>1 DEF Holds
    <3> QED BY <3>2, <3>3, <3>4
  <2> QED BY <1>4, <2>1, <2>2
<1>11. DirectInv' BY <1>1, <1>3 DEF DirectInv
<1>12. DefinitionInv'
  BY <1>0, <1>1, <1>2, <1>3 DEF DefinitionInv
<1>13. Shown BY <1>1, NothingNew
<1> QED BY <1>7, <1>8, <1>9, <1>10, <1>11, <1>12, <1>13 DEF Kept, TypeInv, IndicatorInv

\* A save without a sink works, fails after it was stored, or fails.
LEMMA PayloadFacts ==
  ASSUME FlagTypes, NEW saved, NEW defs \in BOOLEAN, SavePayload(saved, defs)
  PROVE  /\ faults' \in 0 .. MaxFaults /\ known' \in BOOLEAN
         /\ known => known'
         /\ faults' = 0 => faults = 0 /\ (defs => known')
         /\ chunks' = Upsert(chunks, saved) \/ chunks' = chunks
<1>1. faults \in 0 .. MaxFaults /\ MaxFaults \in Nat
  BY IndicatorAssumption DEF FlagTypes
<1>2. known \in BOOLEAN BY DEF FlagTypes
<1>3. /\ faults' = faults \/ (faults < MaxFaults /\ faults' = faults + 1)
      /\ \/ chunks' = Upsert(chunks, saved) /\ known' = (known \/ defs)
         \/ chunks' = chunks /\ known' = known /\ faults < MaxFaults /\ faults' = faults + 1
  BY DEF SavePayload
<1>4. faults' \in 0 .. MaxFaults /\ (faults' = 0 => faults = 0) /\ (faults' = faults + 1 => faults' # 0)
  BY <1>1, <1>3
<1>5. known' \in BOOLEAN /\ (known => known')
  <2>1. CASE known' = (known \/ defs) BY <1>2, <2>1
  <2>2. CASE known' = known BY <1>2, <2>2
  <2> QED BY <1>3, <2>1, <2>2
<1> QED BY <1>3, <1>4, <1>5, Zenon

\* The definitions are saved before the first bar; no chunk is stored.
LEMMA SaveDefinitionsKeeps ==
  ASSUME TypeInv, IndicatorInv, SaveDefinitions
  PROVE  Kept
<1>0. FlagTypes /\ DataTypes /\ LogInv /\ SealedInv /\ DirectInv /\ DefinitionInv
  BY DEF TypeInv, IndicatorInv
<1>1. /\ UNCHANGED <<sink, first, hot, bar, wire, buffers, call, linked, alive, ended, taken, restarts>>
      /\ sink = "direct" /\ defined' = TRUE /\ SavePayload(NoChunks, TRUE)
  BY DEF SaveDefinitions, sessionVars, barVars, linkVars
<1>2. /\ faults' \in 0 .. MaxFaults /\ known' \in BOOLEAN /\ (faults' = 0 => known')
      /\ chunks' = Upsert(chunks, NoChunks) \/ chunks' = chunks
  <2>1. TRUE \in BOOLEAN OBVIOUS
  <2> QED BY <1>0, <1>1, <2>1, PayloadFacts, Zenon
<1>3. ASSUME NEW k \in Keys PROVE chunks'[k] = chunks[k]
  BY <1>2, <1>3, EmptyIsBuffer DEF Upsert
<1>4. FlagTypes' BY <1>0, <1>1, <1>2 DEF FlagTypes
<1>5. call = NoCall BY <1>0, <1>1 DEF DirectInv
<1>6. DataTypes' BY <1>0, <1>1, <1>3, <1>5 DEF DataTypes
<1>7. LogInv' BY <1>0, <1>1, <1>3, <1>5 DEF LogInv
<1>8. SealedInv' /\ DirectInv' BY <1>0, <1>1 DEF SealedInv, DirectInv
<1>9. DefinitionInv' BY <1>1, <1>2 DEF DefinitionInv
<1>10. Shown BY <1>1, <1>3, NothingNew
<1> QED BY <1>4, <1>6, <1>7, <1>8, <1>9, <1>10 DEF Kept, TypeInv, IndicatorInv

\* The worker's buffer keeps its open chunk when the full ones are taken.
LEMMA DrainedFacts ==
  ASSUME NEW b, IsBuffer(b)
  PROVE  LET c == [b EXCEPT !.pending = NoChunks]
         IN  /\ IsBuffer(c) /\ DOMAIN c.pending = {}
             /\ \A l \in Seq(Nat) : Holds(b, l) => Holds(c, l)
<1> DEFINE c == [b EXCEPT !.pending = NoChunks]
<1>1. c = [index |-> b.index, active |-> b.active, pending |-> NoChunks]
  BY DEF IsBuffer
<1>2. DOMAIN NoChunks = {} /\ IsChunks(NoChunks) BY EmptyIsBuffer
<1>3. c.index = b.index /\ c.active = b.active /\ c.pending = NoChunks BY <1>1
<1> HIDE DEF c
<1>4. IsBuffer(c)
  BY <1>1, <1>2, <1>3 DEF IsBuffer
<1>5. \A l \in Seq(Nat) : Holds(b, l) => Holds(c, l)
  BY <1>2, <1>3 DEF Holds
<1> QED BY <1>2, <1>3, <1>4, <1>5 DEF c

\* A bar without a sink: every log grows by that bar, and the chunks it
\* filled are saved or lost, never half of one.
LEMMA RecordFrameKeeps ==
  ASSUME TypeInv, IndicatorInv, RecordFrame
  PROVE  Kept
<1> DEFINE b == RecordBar(buffers)
<1>0. FlagTypes /\ DataTypes /\ LogInv /\ SealedInv /\ DirectInv /\ DefinitionInv
  BY DEF TypeInv, IndicatorInv
<1>1. /\ UNCHANGED <<sink, first, hot, defined, wire, call, linked, alive, ended, restarts>>
      /\ sink = "direct" /\ ~ended /\ bar < MaxBars /\ defined /\ bar' = bar + 1
      /\ buffers' = Drained(b) /\ taken' = [k \in Keys |-> IF k \in first THEN Append(taken[k], bar + 1) ELSE taken[k]]
      /\ UNCHANGED <<chunks, known, faults>> \/ SavePayload(Emitted(b), FALSE)
  BY DEF RecordFrame, BarStarts, sessionVars, linkVars
<1>2. bar \in Nat /\ bar + 1 \in Nat /\ bar + 1 \in 0 .. MaxBars
  BY <1>0, <1>1, IndicatorAssumption DEF FlagTypes
<1>3. /\ faults' \in 0 .. MaxFaults /\ known' \in BOOLEAN
      /\ (known => known') /\ (faults' = 0 => faults = 0)
      /\ chunks' = Upsert(chunks, Emitted(b)) \/ chunks' = chunks
  <2>1. CASE SavePayload(Emitted(b), FALSE)
    <3>1. FALSE \in BOOLEAN OBVIOUS
    <3> HIDE DEF b
    <3> QED BY <1>0, <2>1, <3>1, PayloadFacts, Zenon
  <2>2. CASE UNCHANGED <<chunks, known, faults>>
    BY <1>0, <2>2, Zenon DEF FlagTypes
  <2> QED BY <1>1, <2>1, <2>2
<1>4. call = NoCall /\ restarts = 0 /\ wire = <<>> BY <1>0, <1>1 DEF DirectInv
<1>5. ASSUME NEW k \in Keys
      PROVE  /\ IsBuffer(buffers[k]) /\ IsChunks(chunks[k]) /\ taken[k] \in Seq(Nat)
             /\ Holds(buffers[k], taken[k]) /\ AllFit(taken[k], chunks[k])
  BY <1>0, <1>1, <1>4, <1>5 DEF DataTypes, LogInv, DirectInv
<1>6. ASSUME NEW k \in Keys
      PROVE  /\ \/ b[k] = AddPoint(buffers[k], bar + 1) /\ taken'[k] = Append(taken[k], bar + 1)
                \/ b[k] = buffers[k] /\ taken'[k] = taken[k]
             /\ buffers'[k] = [b[k] EXCEPT !.pending = NoChunks]
  BY <1>1, <1>6 DEF RecordBar, Drained
<1>7. ASSUME NEW k \in Keys
      PROVE  k \in DOMAIN Emitted(b) => Emitted(b)[k] = b[k].pending
  BY DEF Emitted
<1> HIDE DEF b
<1>8. ASSUME NEW k \in Keys
      PROVE  /\ taken'[k] \in Seq(Nat) /\ IsBuffer(b[k]) /\ Holds(b[k], taken'[k])
             /\ AllFit(taken'[k], chunks[k])
  <2>1. /\ IsBuffer(buffers[k]) /\ IsChunks(chunks[k]) /\ taken[k] \in Seq(Nat)
        /\ Holds(buffers[k], taken[k]) /\ AllFit(taken[k], chunks[k])
    BY <1>5
  <2>2. CASE b[k] = AddPoint(buffers[k], bar + 1) /\ taken'[k] = Append(taken[k], bar + 1)
    <3>3. taken'[k] \in Seq(Nat) BY <1>2, <2>1, <2>2
    <3>4. IsBuffer(b[k]) BY <1>2, <2>1, <2>2, AddPointType
    <3>5. Holds(b[k], taken'[k]) BY <1>2, <2>1, <2>2, AddPointHolds
    <3>6. AllFit(taken'[k], chunks[k]) BY <1>2, <2>1, <2>2, AllFitGrowing
    <3> QED BY <3>3, <3>4, <3>5, <3>6
  <2>3. CASE b[k] = buffers[k] /\ taken'[k] = taken[k]
    BY <2>1, <2>3
  <2> QED BY <1>6, <2>2, <2>3
<1>9. ASSUME NEW k \in Keys
      PROVE  IsBuffer(buffers'[k]) /\ Holds(buffers'[k], taken'[k]) /\ DOMAIN buffers'[k].pending = {}
  <2> DEFINE c == [b[k] EXCEPT !.pending = NoChunks]
  <2>1. buffers'[k] = c BY <1>6
  <2>2. IsBuffer(b[k]) /\ Holds(b[k], taken'[k]) /\ taken'[k] \in Seq(Nat) BY <1>8
  <2>3. IsBuffer(c) /\ DOMAIN c.pending = {} /\ \A l \in Seq(Nat) : Holds(b[k], l) => Holds(c, l)
    BY <2>2, DrainedFacts
  <2> HIDE DEF c
  <2> QED BY <2>1, <2>2, <2>3
<1>10. ASSUME NEW k \in Keys
       PROVE  IsChunks(chunks'[k]) /\ AllFit(taken'[k], chunks'[k]) /\ Grows(chunks[k], chunks'[k])
  <2>1. CASE chunks' = chunks
    BY <1>5, <1>8, <1>10, <2>1, GrowsItself
  <2>2. CASE chunks' = Upsert(chunks, Emitted(b))
    <3>1. IsChunks(b[k].pending) /\ AllFit(taken'[k], b[k].pending)
      BY <1>8 DEF IsBuffer, Holds, AllFit
    <3>2. \A i \in DOMAIN chunks[k] : i \in DOMAIN b[k].pending =>
            Len(chunks[k][i].points) <= Len(b[k].pending[i].points)
      <4>1. \A i \in DOMAIN b[k].pending : Len(b[k].pending[i].points) = Limit
        BY <1>8 DEF IsBuffer
      <4>2. \A i \in DOMAIN chunks[k] : Len(chunks[k][i].points) <= Limit
        BY <1>5, IndicatorAssumption DEF IsChunks
      <4> QED BY <4>1, <4>2
    <3>3. k \in DOMAIN Emitted(b) => Emitted(b)[k] = b[k].pending BY <1>7
    <3>4. /\ IsChunks(Upsert(chunks, Emitted(b))[k]) /\ AllFit(taken'[k], Upsert(chunks, Emitted(b))[k])
          /\ Grows(chunks[k], Upsert(chunks, Emitted(b))[k])
      BY <1>5, <1>8, <3>1, <3>2, <3>3, UpsertFits
    <3> QED BY <2>2, <3>4
  <2> QED BY <1>3, <2>1, <2>2
<1>11. FlagTypes' BY <1>0, <1>1, <1>2, <1>3 DEF FlagTypes
<1>12. DataTypes'
  <2>1. taken' \in [Keys -> Seq(Nat)] BY <1>1, <1>6, <1>8
  <2> QED BY <1>0, <1>1, <1>4, <1>9, <1>10, <2>1 DEF DataTypes
<1>13. LogInv' BY <1>1, <1>4, <1>9, <1>10 DEF LogInv
<1>14. SealedInv' BY <1>1 DEF SealedInv
<1>15. ASSUME NEW k \in Keys
       PROVE  \A n \in 1 .. Len(taken[k]) : n \in 1 .. Len(taken'[k]) /\ taken'[k][n] = taken[k][n]
  <2>1. taken[k] \in Seq(Nat) BY <1>5
  <2>2. /\ Len(Append(taken[k], bar + 1)) = Len(taken[k]) + 1 /\ Len(taken[k]) \in Nat
        /\ \A n \in 1 .. Len(taken[k]) : Append(taken[k], bar + 1)[n] = taken[k][n]
    BY <1>2, <2>1
  <2>3. CASE taken'[k] = Append(taken[k], bar + 1) BY <2>2, <2>3
  <2>4. CASE taken'[k] = taken[k] BY <2>4
  <2> QED BY <1>6, <2>3, <2>4
<1>16. DirectInv' BY <1>0, <1>1, <1>9 DEF DirectInv
<1>17. DefinitionInv' BY <1>0, <1>1, <1>3 DEF DefinitionInv
<1>18. Shown BY <1>2, <1>5, <1>10, <1>15 DEF Shown
<1> QED BY <1>11, <1>12, <1>13, <1>14, <1>16, <1>17, <1>18 DEF Kept, TypeInv, IndicatorInv

\* At the end the open chunks are stored over their shorter versions, if any,
\* and nothing is recorded any more.
LEMMA FlushOpenKeeps ==
  ASSUME TypeInv, IndicatorInv, FlushOpen
  PROVE  Kept
<1> DEFINE open == OpenChunks(buffers)
<1>0. FlagTypes /\ DataTypes /\ LogInv /\ SealedInv /\ DirectInv /\ DefinitionInv
  BY DEF TypeInv, IndicatorInv
<1>1. /\ UNCHANGED <<sink, first, hot, bar, defined, wire, call, linked, alive, taken, restarts>>
      /\ sink = "direct" /\ ~ended /\ ended' = TRUE
      /\ UNCHANGED <<chunks, known, faults>> \/ (DOMAIN open # {} /\ SavePayload(open, FALSE))
  BY DEF FlushOpen, sessionVars, barVars, linkVars
<1>2. ASSUME NEW k \in Keys
      PROVE  /\ k \in DOMAIN open <=> buffers[k].active # <<>>
             /\ k \in DOMAIN open => open[k] = Chunk(buffers[k].index, buffers[k].active, FALSE)
  BY <1>2 DEF OpenChunks
<1>3. DOMAIN open \subseteq Keys BY DEF OpenChunks
<1> HIDE DEF open
<1>4. /\ faults' \in 0 .. MaxFaults /\ known' \in BOOLEAN
      /\ (known => known') /\ (faults' = 0 => faults = 0)
      /\ (DOMAIN open # {} /\ chunks' = Upsert(chunks, open)) \/ chunks' = chunks
  <2>1. CASE DOMAIN open # {} /\ SavePayload(open, FALSE)
    <3>1. FALSE \in BOOLEAN OBVIOUS
    <3> QED BY <1>0, <2>1, <3>1, PayloadFacts, Zenon
  <2>2. CASE UNCHANGED <<chunks, known, faults>>
    BY <1>0, <2>2, Zenon DEF FlagTypes
  <2> QED BY <1>1, <2>1, <2>2
<1>5. call = NoCall /\ restarts = 0 BY <1>0, <1>1 DEF DirectInv
<1>6. ASSUME NEW k \in Keys
      PROVE  /\ IsBuffer(buffers[k]) /\ IsChunks(chunks[k]) /\ taken[k] \in Seq(Nat)
             /\ Holds(buffers[k], taken[k]) /\ AllFit(taken[k], chunks[k])
             /\ DOMAIN buffers[k].pending = {}
  BY <1>0, <1>1, <1>5, <1>6 DEF DataTypes, LogInv, DirectInv
<1>7. ASSUME NEW k \in Keys
      PROVE  IsBuffer(buffers'[k]) /\ DOMAIN buffers'[k].pending = {}
  <2>1. /\ buffers[k].active = <<>> => buffers'[k] = buffers[k]
        /\ buffers[k].active # <<>> => buffers'[k] = [buffers[k] EXCEPT !.index = @ + 1, !.active = <<>>]
    BY <1>7 DEF FlushOpen
  <2>2. CASE buffers[k].active # <<>>
    <3>1. buffers'[k] = [index |-> buffers[k].index + 1, active |-> <<>>, pending |-> buffers[k].pending]
      BY <1>6, <2>1, <2>2 DEF IsBuffer
    <3>2. <<>> \in Seq(Nat) /\ Len(<<>>) = 0 OBVIOUS
    <3>3. /\ buffers'[k].index = buffers[k].index + 1 /\ buffers'[k].active = <<>>
          /\ buffers'[k].pending = buffers[k].pending
      BY <3>1
    <3> DEFINE c == buffers'[k]
    <3>4. /\ c = [index |-> c.index, active |-> c.active, pending |-> c.pending]
          /\ DOMAIN c.pending = {} /\ c.active = <<>>
      BY <1>6, <3>1, <3>3
    <3>5. c.index \in Nat
      <4>1. buffers[k].index \in Nat BY <1>6 DEF IsBuffer
      <4> QED BY <3>3, <4>1
    <3> HIDE DEF c
    <3>6. IsBuffer(c) BY <3>2, <3>4, <3>5, IndicatorAssumption DEF IsBuffer, IsChunks
    <3> QED BY <3>4, <3>6 DEF c
  <2> QED BY <1>6, <2>1, <2>2
<1>8. ASSUME NEW k \in Keys
      PROVE  IsChunks(chunks'[k]) /\ AllFit(taken[k], chunks'[k]) /\ Grows(chunks[k], chunks'[k])
  <2>1. CASE chunks' = chunks
    BY <1>6, <1>8, <2>1, GrowsItself
  <2>2. CASE chunks' = Upsert(chunks, open)
    <3>1. ASSUME k \in DOMAIN open
          PROVE  /\ IsChunks(open[k]) /\ AllFit(taken[k], open[k])
                 /\ \A i \in DOMAIN chunks[k] :
                      i \in DOMAIN open[k] => Len(chunks[k][i].points) <= Len(open[k][i].points)
      <4> DEFINE i == buffers[k].index
                 s == buffers[k].active
      <4>1. open[k] = Chunk(i, s, FALSE) /\ s # <<>> BY <1>2, <3>1
      <4>2. DOMAIN open[k] = {i} /\ open[k][i].points = s BY <4>1 DEF Chunk
      <4>3. i \in Nat /\ s \in Seq(Nat) /\ Len(s) \in 1 .. Limit
        <5>1. i \in Nat /\ s \in Seq(Nat) /\ Len(s) < Limit /\ Limit \in Nat
          BY <1>6, IndicatorAssumption DEF IsBuffer
        <5>2. Len(s) \in Nat /\ Len(s) # 0 BY <4>1, <5>1
        <5> QED BY <5>1, <5>2
      <4>4. IsChunks(open[k]) BY <4>2, <4>3 DEF IsChunks
      <4>5. AllFit(taken[k], open[k]) BY <1>6, <4>2 DEF AllFit, Holds
      <4>6. i \in DOMAIN chunks[k] => Len(chunks[k][i].points) <= Len(s)
        BY <1>6, OpenOutgrows
      <4> QED BY <4>2, <4>4, <4>5, <4>6
    <3>2. /\ IsChunks(Upsert(chunks, open)[k]) /\ AllFit(taken[k], Upsert(chunks, open)[k])
          /\ Grows(chunks[k], Upsert(chunks, open)[k])
      BY <1>6, <3>1, UpsertFits
    <3> QED BY <2>2, <3>2
  <2> QED BY <1>4, <2>1, <2>2
<1>9. FlagTypes' BY <1>0, <1>1, <1>4 DEF FlagTypes
<1>10. DataTypes' BY <1>0, <1>1, <1>5, <1>7, <1>8 DEF DataTypes
<1>11. LogInv' BY <1>1, <1>5, <1>8 DEF LogInv
<1>12. SealedInv' BY <1>1 DEF SealedInv
<1>13. DirectInv' BY <1>0, <1>1, <1>7 DEF DirectInv
<1>14. DefinitionInv'
  <2>1. (\A k \in Keys : taken[k] = <<>>) => DOMAIN open = {}
    <3> SUFFICES ASSUME NEW k \in Keys, taken[k] = <<>> PROVE buffers[k].active = <<>>
      BY <1>2, <1>3
    <3>1. buffers[k].index \in Nat /\ buffers[k].active \in Seq(Nat) /\ Limit \in Nat
      BY <1>6, IndicatorAssumption DEF IsBuffer
    <3>2. buffers[k].index * Limit \in Nat /\ Len(buffers[k].active) \in Nat BY <3>1
    <3>3. buffers[k].index * Limit + Len(buffers[k].active) = 0 BY <1>6 DEF Holds
    <3>4. Len(buffers[k].active) = 0 BY <3>2, <3>3
    <3> QED BY <3>1, <3>4
  <2>2. ~defined => chunks' = chunks
    BY <1>0, <1>1, <1>4, <2>1 DEF DefinitionInv
  <2> QED BY <1>0, <1>1, <1>4, <2>2 DEF DefinitionInv
<1>15. Shown BY <1>1, <1>8 DEF Shown
<1> QED BY <1>9, <1>10, <1>11, <1>12, <1>13, <1>14, <1>15 DEF Kept, TypeInv, IndicatorInv

LEMMA NextKeeps ==
  ASSUME TypeInv, IndicatorInv, Next
  PROVE  Kept
<1>1. CASE \E S \in WriterFrames : SendIndicatorFrame(S)
  BY <1>1, SendKeeps
<1>2. CASE SaveDefinitions BY <1>2, SaveDefinitionsKeeps
<1>3. CASE RecordFrame BY <1>3, RecordFrameKeeps
<1>4. CASE FlushOpen BY <1>4, FlushOpenKeeps
<1>5. CASE WorkerKilled \/ ConnectionCloses \/ RunEnds \/ WorkerLeaves BY <1>5, EndKeeps
<1>6. CASE HandleIndicatorFrame BY <1>6, HandleKeeps
<1>7. CASE PlatformSaves BY <1>7, PlatformSavesKeeps
<1>8. CASE MarkIndicatorFinalsAcked BY <1>8, AckKeeps
<1>9. CASE SaveFails BY <1>9, SaveFailsKeeps
<1>10. CASE CleanupSessionState BY <1>10, CleanupKeeps
<1>11. CASE SkipBar BY <1>11, SkipKeeps
<1> QED BY <1>1, <1>2, <1>3, <1>4, <1>5, <1>6, <1>7, <1>8, <1>9, <1>10, <1>11 DEF Next, Worker

LEMMA StutterKeeps ==
  ASSUME TypeInv, IndicatorInv, UNCHANGED vars
  PROVE  TypeInv' /\ IndicatorInv'
<1>1. UNCHANGED <<sink, first, hot, bar, defined, wire, buffers, call, linked, alive, ended, chunks,
                  known, taken, restarts, faults>>
  BY DEF vars, sessionVars, barVars, linkVars
<1>2. TypeInv'
  BY <1>1 DEF TypeInv, FlagTypes, DataTypes, IsCall
<1>3. LogInv' /\ SealedInv'
  BY <1>1 DEF IndicatorInv, LogInv, SealedInv
<1>4. DirectInv' /\ DefinitionInv'
  BY <1>1 DEF IndicatorInv, DirectInv, DefinitionInv
<1> QED BY <1>2, <1>3, <1>4 DEF IndicatorInv

LEMMA IndicatorInvariant == Spec => [](TypeInv /\ IndicatorInv)
<1>1. TypeInv /\ IndicatorInv /\ [Next]_vars => TypeInv' /\ IndicatorInv'
  BY NextKeeps, StutterKeeps DEF Kept
<1> QED BY <1>1, InitIndicator, PTL DEF Spec

-----------------------------------------------------------------------------
(* Indicators a hot reload brought, and the places of bars *)

\* Only a session with a sink and hot reload has anything of an indicator it
\* did not start with.
StrayInv ==
  ~(hot /\ sink = "agent") =>
    \A k \in Keys \ first :
      /\ taken[k] = <<>> /\ DOMAIN chunks[k] = {}
      /\ \A i \in 1 .. Len(wire) : k \notin wire[i].keys
      /\ call # NoCall => k \notin call.keys

LEMMA StrayStep ==
  ASSUME TypeInv, IndicatorInv, StrayInv, Next
  PROVE  StrayInv'
<1>0. FlagTypes /\ DataTypes /\ LogInv /\ DirectInv
  BY DEF TypeInv, IndicatorInv
<1>1. UNCHANGED <<sink, first, hot>>
  BY DEF Next, Worker, SendIndicatorFrame, SaveDefinitions, RecordFrame, SkipBar, FlushOpen, RunEnds,
     WorkerLeaves, HandleIndicatorFrame, PlatformSaves, MarkIndicatorFinalsAcked, SaveFails,
     WorkerKilled, ConnectionCloses, CleanupSessionState, sessionVars
<1> SUFFICES ASSUME ~(hot /\ sink = "agent"), NEW k \in Keys, k \notin first
             PROVE  /\ taken'[k] = <<>> /\ DOMAIN chunks'[k] = {}
                    /\ \A i \in 1 .. Len(wire') : k \notin wire'[i].keys
                    /\ call' # NoCall => k \notin call'.keys
  BY <1>1 DEF StrayInv
<1>2. /\ taken[k] = <<>> /\ DOMAIN chunks[k] = {} /\ wire \in Seq(Frames)
      /\ \A i \in 1 .. Len(wire) : k \notin wire[i].keys
      /\ call # NoCall => k \notin call.keys
  BY <1>0 DEF StrayInv, DataTypes
<1>3. CASE UNCHANGED <<taken, chunks, wire>> /\ (call' = NoCall \/ call' = call)
  BY <1>2, <1>3
<1>4. SkipBar \/ RunEnds \/ WorkerLeaves \/ WorkerKilled \/ ConnectionCloses \/ SaveFails
        \/ MarkIndicatorFinalsAcked
      => UNCHANGED <<taken, chunks, wire>> /\ (call' = NoCall \/ call' = call)
  BY DEF SkipBar, RunEnds, WorkerLeaves, WorkerKilled, ConnectionCloses, SaveFails,
     MarkIndicatorFinalsAcked
<1>5. CASE CleanupSessionState
  BY <1>2, <1>5 DEF CleanupSessionState
<1>6. ASSUME NEW S \in WriterFrames, SendIndicatorFrame(S)
      PROVE  StrayInv'
  <2>1. sink = "agent" /\ UNCHANGED <<taken, chunks, call>> /\ wire' = Append(wire, Frame(S))
    BY <1>6 DEF SendIndicatorFrame
  <2>2. S \subseteq first BY <1>0, <2>1 DEF WriterFrames, FlagTypes
  <2>3. Frame(S).keys \subseteq first /\ Frame(S) \in Frames
    BY <1>0, <2>2 DEF Frame, Frames, FlagTypes
  <2>4. \A x \in Keys \ first : \A i \in 1 .. Len(wire') : x \notin wire'[i].keys
    BY <1>2, <2>1, <2>3 DEF StrayInv
  <2> QED BY <1>1, <2>1, <2>4 DEF StrayInv
<1>7. CASE HandleIndicatorFrame
  <2>1. wire # <<>> /\ wire' = Tail(wire) /\ UNCHANGED chunks
    BY <1>7 DEF HandleIndicatorFrame
  <2>2. Head(wire) = wire[1] /\ 1 \in 1 .. Len(wire) BY <1>2, <2>1
  <2>3. k \notin Head(wire).keys BY <1>2, <2>2
  <2>4. taken'[k] = taken[k] BY <1>7, <2>3 DEF HandleIndicatorFrame
  <2>5. call' = NoCall \/ call'.keys = Head(wire).keys
    BY <1>7 DEF HandleIndicatorFrame
  <2>6. \A i \in 1 .. Len(wire') : i + 1 \in 1 .. Len(wire) /\ wire'[i] = wire[i + 1]
    BY <1>2, <2>1
  <2> QED BY <1>2, <2>1, <2>3, <2>4, <2>5, <2>6
<1>8. CASE PlatformSaves
  <2>1. NoCall.phase = "none" BY DEF NoCall
  <2>2. call # NoCall /\ IsCall BY <1>0, <1>8, <2>1 DEF PlatformSaves, DataTypes
  <2>3. chunks'[k] = chunks[k] BY <1>2, <1>8, <2>2 DEF PlatformSaves, Upsert, IsCall
  <2>4. call'.keys = call.keys BY <1>8, <2>2 DEF PlatformSaves, IsCall
  <2> QED BY <1>2, <1>8, <2>2, <2>3, <2>4 DEF PlatformSaves
<1>9. ASSUME NEW saved, NEW defs, SavePayload(saved, defs), k \notin DOMAIN saved
      PROVE  chunks'[k] = chunks[k]
  BY <1>9 DEF SavePayload, Upsert
<1>10. CASE SaveDefinitions
  <2>1. k \notin DOMAIN NoChunks BY EmptyIsBuffer
  <2>2. SavePayload(NoChunks, TRUE) BY <1>10 DEF SaveDefinitions
  <2>3. chunks'[k] = chunks[k] BY <1>9, <2>1, <2>2
  <2> QED BY <1>2, <1>10, <2>3 DEF SaveDefinitions
<1>11. CASE RecordFrame
  <2> DEFINE b == RecordBar(buffers)
  <2>1. sink = "direct" /\ UNCHANGED <<wire, call>> /\ taken'[k] = taken[k]
        /\ (UNCHANGED chunks \/ SavePayload(Emitted(b), FALSE))
    BY <1>11 DEF RecordFrame
  <2>2. b[k] = buffers[k] BY DEF RecordBar
  <2>3. DOMAIN buffers[k].pending = {} BY <1>0, <2>1 DEF DirectInv
  <2>4. k \notin DOMAIN Emitted(b)
    <3> HIDE DEF b
    <3> QED BY <2>2, <2>3 DEF Emitted
  <2> HIDE DEF b
  <2>5. chunks'[k] = chunks[k] BY <1>9, <2>1, <2>4
  <2> QED BY <1>2, <2>1, <2>5
<1>12. CASE FlushOpen
  <2>1. sink = "direct" /\ ~ended /\ UNCHANGED <<wire, call, taken>>
        /\ (UNCHANGED chunks \/ SavePayload(OpenChunks(buffers), FALSE))
    BY <1>12 DEF FlushOpen
  <2>2. Holds(buffers[k], taken[k]) /\ IsBuffer(buffers[k])
    BY <1>0, <2>1 DEF DirectInv, LogInv, DataTypes
  <2>3. Len(buffers[k].active) = 0
    <3>1. buffers[k].index \in Nat /\ Limit \in Nat /\ Len(buffers[k].active) \in Nat
      BY <2>2, IndicatorAssumption DEF IsBuffer
    <3>2. buffers[k].index * Limit \in Nat BY <3>1
    <3>3. buffers[k].index * Limit + Len(buffers[k].active) = 0 BY <1>2, <2>2 DEF Holds
    <3> QED BY <3>1, <3>2, <3>3
  <2>4. buffers[k].active = <<>> BY <2>2, <2>3 DEF IsBuffer
  <2>5. k \notin DOMAIN OpenChunks(buffers) BY <2>4 DEF OpenChunks
  <2>6. chunks'[k] = chunks[k] BY <1>9, <2>1, <2>5
  <2> QED BY <1>2, <2>1, <2>6
<1>13. CASE \E S \in WriterFrames : SendIndicatorFrame(S)
  <2>1. StrayInv' BY <1>6, <1>13
  <2> QED BY <1>1, <2>1 DEF StrayInv
<1> QED BY <1>3, <1>4, <1>5, <1>7, <1>8, <1>10, <1>11, <1>12, <1>13 DEF Next, Worker

\* Frames are in the order of their bars, and so are the points taken.
WireOrder ==
  /\ \A i \in 1 .. Len(wire) : wire[i].bar \in 1 .. bar
  /\ \A i, j \in 1 .. Len(wire) : i < j => wire[i].bar < wire[j].bar

TakenOrder(k) ==
  /\ \A p \in 1 .. Len(taken[k]) : taken[k][p] \in 1 .. bar
  /\ \A p, q \in 1 .. Len(taken[k]) : p < q => taken[k][p] < taken[k][q]
  /\ \A p \in 1 .. Len(taken[k]), i \in 1 .. Len(wire) : taken[k][p] < wire[i].bar

\* Every bar has a point, a frame that brings it, or is a gap.
Accounted(k) ==
  \A b \in 1 .. bar :
    \/ b \in Gaps(k)
    \/ \E p \in 1 .. Len(taken[k]) : taken[k][p] = b
    \/ \E i \in 1 .. Len(wire) : wire[i].bar = b /\ k \in wire[i].keys

BarInv == restarts = 0 => WireOrder /\ \A k \in Keys : TakenOrder(k) /\ Accounted(k)

LEMMA BarStep ==
  ASSUME TypeInv, IndicatorInv, BarInv, Next
  PROVE  BarInv'
<1>0. FlagTypes /\ DataTypes /\ DirectInv /\ bar \in Nat /\ wire \in Seq(Frames)
  <2>1. FlagTypes /\ DataTypes /\ DirectInv BY DEF TypeInv, IndicatorInv
  <2> QED BY <2>1, IndicatorAssumption DEF FlagTypes, DataTypes
<1>1. ASSUME UNCHANGED <<bar, raised, unset, wire, taken, restarts>> PROVE BarInv'
  BY <1>1 DEF BarInv, WireOrder, TakenOrder, Accounted, Gaps
<1>2. RunEnds \/ WorkerLeaves \/ WorkerKilled \/ ConnectionCloses \/ SaveFails
        \/ MarkIndicatorFinalsAcked \/ PlatformSaves \/ SaveDefinitions \/ FlushOpen
      => UNCHANGED <<bar, raised, unset, wire, taken, restarts>>
  BY DEF RunEnds, WorkerLeaves, WorkerKilled, ConnectionCloses, SaveFails,
     MarkIndicatorFinalsAcked, PlatformSaves, SaveDefinitions, FlushOpen, barVars
<1>3. CASE CleanupSessionState
  <2>1. restarts' = restarts + 1 /\ restarts \in Nat
    BY <1>0, <1>3 DEF CleanupSessionState, FlagTypes
  <2>2. restarts' # 0 BY <2>1
  <2> QED BY <2>2 DEF BarInv
<1>4. CASE SkipBar
  <2>1. bar' = bar + 1 /\ raised' = raised \cup {bar + 1} /\ UNCHANGED <<unset, wire, taken, restarts>>
    BY <1>4 DEF SkipBar, BarStarts
  <2> SUFFICES ASSUME restarts = 0 PROVE WireOrder' /\ \A k \in Keys : TakenOrder(k)' /\ Accounted(k)'
    BY <2>1 DEF BarInv
  <2>2. WireOrder /\ \A k \in Keys : TakenOrder(k) /\ Accounted(k) BY DEF BarInv
  <2>3. \A n \in 1 .. bar : n \in 1 .. bar' BY <1>0, <2>1
  <2>4. WireOrder' BY <2>1, <2>2, <2>3 DEF WireOrder
  <2>5. ASSUME NEW k \in Keys PROVE TakenOrder(k)' BY <2>1, <2>2, <2>3 DEF TakenOrder
  <2>6. ASSUME NEW k \in Keys PROVE Accounted(k)'
    <3>1. \A n \in 1 .. bar' : n \in 1 .. bar \/ n = bar + 1 BY <1>0, <2>1
    <3> QED BY <2>1, <2>2, <3>1 DEF Accounted, Gaps
  <2> QED BY <2>4, <2>5, <2>6
<1>5. ASSUME NEW S \in WriterFrames, SendIndicatorFrame(S) PROVE BarInv'
  <2> DEFINE f == Frame(S)
  <2>1. /\ bar' = bar + 1 /\ wire' = Append(wire, f) /\ UNCHANGED <<raised, taken, restarts>>
        /\ \A k \in Keys : unset'[k] = IF k \in f.keys THEN unset[k] ELSE unset[k] \cup {bar + 1}
    BY <1>5 DEF SendIndicatorFrame, BarStarts, Drain
  <2>2. f.bar = bar + 1 /\ f \in Frames
    <3>1. S \subseteq Keys /\ first \subseteq Keys BY <1>0 DEF WriterFrames, FlagTypes
    <3> QED BY <1>0, <3>1 DEF Frame, Frames, FlagTypes
  <2> HIDE DEF f
  <2> SUFFICES ASSUME restarts = 0 PROVE WireOrder' /\ \A k \in Keys : TakenOrder(k)' /\ Accounted(k)'
    BY <2>1 DEF BarInv
  <2>3. WireOrder /\ \A k \in Keys : TakenOrder(k) /\ Accounted(k) BY DEF BarInv
  <2>4. /\ Len(wire') = Len(wire) + 1 /\ Len(wire) \in Nat /\ wire'[Len(wire) + 1] = f
        /\ \A i \in 1 .. Len(wire) : wire'[i] = wire[i]
    BY <1>0, <2>1, <2>2
  <2>5. /\ \A n \in 1 .. bar : n \in 1 .. bar' /\ n < bar + 1
        /\ \A n \in 1 .. bar' : n \in 1 .. bar \/ n = bar + 1
        /\ bar + 1 \in 1 .. bar'
    BY <1>0, <2>1
  <2>6. /\ \A i \in 1 .. Len(wire') : i \in 1 .. Len(wire) \/ i = Len(wire) + 1
        /\ \A i \in 1 .. Len(wire) : i \in 1 .. Len(wire') /\ ~(Len(wire) + 1 < i)
        /\ Len(wire) + 1 \in 1 .. Len(wire') /\ ~(Len(wire) + 1 < Len(wire) + 1)
    BY <2>4
  <2>7. WireOrder'
    <3>1. \A i \in 1 .. Len(wire') : wire'[i].bar \in 1 .. bar'
      BY <2>2, <2>3, <2>4, <2>5, <2>6 DEF WireOrder
    <3>2. ASSUME NEW i \in 1 .. Len(wire'), NEW j \in 1 .. Len(wire'), i < j
          PROVE  wire'[i].bar < wire'[j].bar
      BY <2>2, <2>3, <2>4, <2>5, <2>6, <3>2 DEF WireOrder
    <3> QED BY <3>1, <3>2 DEF WireOrder
  <2>8. ASSUME NEW k \in Keys PROVE TakenOrder(k)'
    BY <2>1, <2>2, <2>3, <2>4, <2>5, <2>6 DEF TakenOrder
  <2>9. ASSUME NEW k \in Keys PROVE Accounted(k)'
    <3> SUFFICES ASSUME NEW b \in 1 .. bar'
                 PROVE  \/ b \in Gaps(k)'
                        \/ \E p \in 1 .. Len(taken[k]) : taken[k][p] = b
                        \/ \E i \in 1 .. Len(wire') : wire'[i].bar = b /\ k \in wire'[i].keys
      BY <2>1 DEF Accounted
    <3>1. CASE b \in 1 .. bar
      <4>1. \/ b \in Gaps(k)
            \/ \E p \in 1 .. Len(taken[k]) : taken[k][p] = b
            \/ \E i \in 1 .. Len(wire) : wire[i].bar = b /\ k \in wire[i].keys
        BY <2>3, <3>1 DEF Accounted
      <4>2. Gaps(k) \subseteq Gaps(k)' BY <2>1 DEF Gaps
      <4> QED BY <2>4, <2>6, <4>1, <4>2
    <3>2. CASE b = bar + 1 /\ k \in f.keys
      BY <2>2, <2>4, <2>6, <3>2
    <3>3. CASE b = bar + 1 /\ k \notin f.keys
      BY <2>1, <3>3 DEF Gaps
    <3> QED BY <2>5, <3>1, <3>2, <3>3
  <2> QED BY <2>7, <2>8, <2>9
<1>6. CASE HandleIndicatorFrame
  <2> DEFINE f == Head(wire)
  <2>1. /\ wire # <<>> /\ wire' = Tail(wire) /\ UNCHANGED <<bar, raised, unset, restarts>>
        /\ \A k \in Keys : taken'[k] = IF k \in f.keys THEN Append(taken[k], f.bar) ELSE taken[k]
    BY <1>6 DEF HandleIndicatorFrame, barVars
  <2>2. f = wire[1] /\ 1 \in 1 .. Len(wire) /\ f \in Frames BY <1>0, <2>1
  <2> HIDE DEF f
  <2> SUFFICES ASSUME restarts = 0 PROVE WireOrder' /\ \A k \in Keys : TakenOrder(k)' /\ Accounted(k)'
    BY <2>1 DEF BarInv
  <2>3. WireOrder /\ \A k \in Keys : TakenOrder(k) /\ Accounted(k) BY DEF BarInv
  <2>4. /\ \A i \in 1 .. Len(wire') : i + 1 \in 1 .. Len(wire) /\ wire'[i] = wire[i + 1] /\ 1 < i + 1
        /\ \A i \in 1 .. Len(wire) : i = 1 \/ (i - 1 \in 1 .. Len(wire') /\ wire'[i - 1] = wire[i])
        /\ \A i, j \in 1 .. Len(wire') : i < j => i + 1 < j + 1
    BY <1>0, <2>1
  <2>5. WireOrder' BY <2>1, <2>3, <2>4 DEF WireOrder
  <2>6. ASSUME NEW k \in Keys PROVE TakenOrder(k)' /\ Accounted(k)'
    <3>0. taken[k] \in Seq(Nat) /\ TakenOrder(k) /\ Accounted(k) BY <1>0, <2>3, <2>6 DEF DataTypes
    <3>1. CASE k \notin f.keys
      <4>1. taken'[k] = taken[k] BY <2>1, <3>1
      <4>2. TakenOrder(k)' BY <2>1, <2>4, <3>0, <4>1 DEF TakenOrder
      <4>3. Accounted(k)'
        <5> SUFFICES ASSUME NEW b \in 1 .. bar
                     PROVE  \/ b \in Gaps(k)
                            \/ \E p \in 1 .. Len(taken[k]) : taken[k][p] = b
                            \/ \E i \in 1 .. Len(wire') : wire'[i].bar = b /\ k \in wire'[i].keys
          BY <2>1, <4>1 DEF Accounted, Gaps
        <5>1. \/ b \in Gaps(k)
              \/ \E p \in 1 .. Len(taken[k]) : taken[k][p] = b
              \/ \E i \in 1 .. Len(wire) : wire[i].bar = b /\ k \in wire[i].keys
          BY <3>0 DEF Accounted
        <5>2. ASSUME NEW i \in 1 .. Len(wire), wire[i].bar = b, k \in wire[i].keys
              PROVE  i - 1 \in 1 .. Len(wire') /\ wire'[i - 1] = wire[i]
          BY <2>2, <2>4, <3>1, <5>2
        <5> QED BY <5>1, <5>2
      <4> QED BY <4>2, <4>3
    <3>2. CASE k \in f.keys
      <4> DEFINE t == taken[k]
                 n == Len(t) + 1
      <4>1. taken'[k] = Append(t, f.bar) BY <2>1, <3>2
      <4>2. f.bar \in Nat /\ t \in Seq(Nat) BY <2>2, <3>0 DEF Frames
      <4> HIDE DEF t
      <4>3. /\ Len(taken'[k]) = n /\ taken'[k][n] = f.bar /\ Len(t) \in Nat
            /\ \A p \in 1 .. Len(t) : taken'[k][p] = t[p]
        BY <4>1, <4>2
      <4>4. /\ \A p \in 1 .. Len(taken'[k]) : p \in 1 .. Len(t) \/ p = n
            /\ \A p \in 1 .. Len(t) : p \in 1 .. Len(taken'[k]) /\ ~(n < p)
            /\ n \in 1 .. Len(taken'[k]) /\ ~(n < n)
        BY <4>3
      <4> HIDE DEF n
      <4>5. /\ \A p \in 1 .. Len(t) : t[p] \in 1 .. bar /\ t[p] < f.bar
            /\ \A p, q \in 1 .. Len(t) : p < q => t[p] < t[q]
            /\ \A p \in 1 .. Len(t), i \in 1 .. Len(wire) : t[p] < wire[i].bar
        BY <2>2, <3>0 DEF TakenOrder, t
      <4>6. f.bar \in 1 .. bar /\ \A i \in 1 .. Len(wire') : f.bar < wire'[i].bar
        BY <2>2, <2>3, <2>4 DEF WireOrder
      <4>7. TakenOrder(k)'
        <5>1. \A p \in 1 .. Len(taken'[k]) : taken'[k][p] \in 1 .. bar'
          BY <2>1, <4>3, <4>4, <4>5, <4>6
        <5>2. \A p, q \in 1 .. Len(taken'[k]) : p < q => taken'[k][p] < taken'[k][q]
          BY <4>3, <4>4, <4>5
        <5>3. \A p \in 1 .. Len(taken'[k]), i \in 1 .. Len(wire') : taken'[k][p] < wire'[i].bar
          BY <2>4, <4>3, <4>4, <4>5, <4>6
        <5> QED BY <5>1, <5>2, <5>3 DEF TakenOrder
      <4>8. Accounted(k)'
        <5> SUFFICES ASSUME NEW b \in 1 .. bar
                     PROVE  \/ b \in Gaps(k)
                            \/ \E p \in 1 .. Len(taken'[k]) : taken'[k][p] = b
                            \/ \E i \in 1 .. Len(wire') : wire'[i].bar = b /\ k \in wire'[i].keys
          BY <2>1 DEF Accounted, Gaps
        <5>1. \/ b \in Gaps(k)
              \/ \E p \in 1 .. Len(t) : t[p] = b
              \/ \E i \in 1 .. Len(wire) : wire[i].bar = b /\ k \in wire[i].keys
          BY <3>0 DEF Accounted, t
        <5>2. CASE \E p \in 1 .. Len(t) : t[p] = b BY <4>3, <4>4, <5>2
        <5>3. ASSUME NEW i \in 1 .. Len(wire), wire[i].bar = b /\ k \in wire[i].keys
              PROVE  \/ \E p \in 1 .. Len(taken'[k]) : taken'[k][p] = b
                     \/ \E j \in 1 .. Len(wire') : wire'[j].bar = b /\ k \in wire'[j].keys
          BY <2>2, <2>4, <4>3, <4>4, <5>3
        <5> QED BY <5>1, <5>2, <5>3
      <4> QED BY <4>7, <4>8
    <3> QED BY <3>1, <3>2
  <2> QED BY <2>5, <2>6
<1>7. CASE RecordFrame
  <2>1. /\ sink = "direct" /\ bar' = bar + 1 /\ UNCHANGED <<raised, wire, restarts>>
        /\ \A k \in Keys : unset'[k] = IF k \in first THEN unset[k] ELSE unset[k] \cup {bar + 1}
        /\ \A k \in Keys : taken'[k] = IF k \in first THEN Append(taken[k], bar + 1) ELSE taken[k]
    BY <1>7 DEF RecordFrame, BarStarts, Drain
  <2>2. wire = <<>> /\ Len(wire) = 0 BY <1>0, <2>1 DEF DirectInv
  <2> SUFFICES ASSUME restarts = 0 PROVE WireOrder' /\ \A k \in Keys : TakenOrder(k)' /\ Accounted(k)'
    BY <2>1 DEF BarInv
  <2>3. WireOrder /\ \A k \in Keys : TakenOrder(k) /\ Accounted(k) BY DEF BarInv
  <2>4. /\ \A n \in 1 .. bar : n \in 1 .. bar' /\ n < bar + 1
        /\ \A n \in 1 .. bar' : n \in 1 .. bar \/ n = bar + 1
        /\ bar + 1 \in 1 .. bar'
    BY <1>0, <2>1
  <2>5. WireOrder' BY <2>1, <2>2 DEF WireOrder
  <2>6. ASSUME NEW k \in Keys PROVE TakenOrder(k)' /\ Accounted(k)'
    <3>0. taken[k] \in Seq(Nat) /\ TakenOrder(k) /\ Accounted(k) BY <1>0, <2>3, <2>6 DEF DataTypes
    <3>1. CASE k \notin first
      <4>1. taken'[k] = taken[k] /\ unset'[k] = unset[k] \cup {bar + 1} BY <2>1, <3>1
      <4>2. TakenOrder(k)' BY <2>1, <2>4, <3>0, <4>1 DEF TakenOrder
      <4>3. Accounted(k)' BY <2>1, <2>4, <3>0, <4>1 DEF Accounted, Gaps
      <4> QED BY <4>2, <4>3
    <3>2. CASE k \in first
      <4> DEFINE t == taken[k]
                 n == Len(t) + 1
      <4>1. taken'[k] = Append(t, bar + 1) /\ unset'[k] = unset[k] BY <2>1, <3>2
      <4>2. t \in Seq(Nat) /\ bar + 1 \in Nat BY <1>0, <3>0
      <4> HIDE DEF t
      <4>3. /\ Len(taken'[k]) = n /\ taken'[k][n] = bar + 1 /\ Len(t) \in Nat
            /\ \A p \in 1 .. Len(t) : taken'[k][p] = t[p]
        BY <4>1, <4>2
      <4>4. /\ \A p \in 1 .. Len(taken'[k]) : p \in 1 .. Len(t) \/ p = n
            /\ \A p \in 1 .. Len(t) : p \in 1 .. Len(taken'[k]) /\ ~(n < p)
            /\ n \in 1 .. Len(taken'[k]) /\ ~(n < n)
        BY <4>3
      <4> HIDE DEF n
      <4>5. /\ \A p \in 1 .. Len(t) : t[p] \in 1 .. bar
            /\ \A p, q \in 1 .. Len(t) : p < q => t[p] < t[q]
        BY <3>0 DEF TakenOrder, t
      <4>6. TakenOrder(k)'
        <5>1. \A p \in 1 .. Len(taken'[k]) : taken'[k][p] \in 1 .. bar'
          BY <2>4, <4>3, <4>4, <4>5
        <5>2. \A p, q \in 1 .. Len(taken'[k]) : p < q => taken'[k][p] < taken'[k][q]
          BY <2>4, <4>3, <4>4, <4>5
        <5>3. ~\E i \in 1 .. Len(wire') : TRUE BY <2>1, <2>2
        <5> QED BY <5>1, <5>2, <5>3 DEF TakenOrder
      <4>7. Accounted(k)'
        <5>1. \A b \in 1 .. bar : \/ b \in Gaps(k)
                                  \/ \E p \in 1 .. Len(t) : t[p] = b
                                  \/ \E i \in 1 .. Len(wire) : wire[i].bar = b /\ k \in wire[i].keys
          BY <3>0 DEF Accounted, t
        <5>2. \A b \in 1 .. bar' : \/ b \in Gaps(k)
                                   \/ \E p \in 1 .. Len(taken'[k]) : taken'[k][p] = b
                                   \/ \E i \in 1 .. Len(wire) : wire[i].bar = b /\ k \in wire[i].keys
          BY <2>4, <4>3, <4>4, <5>1
        <5> QED BY <2>1, <4>1, <5>2 DEF Accounted, Gaps
      <4> QED BY <4>6, <4>7
    <3> QED BY <3>1, <3>2
  <2> QED BY <2>5, <2>6
<1> QED BY <1>1, <1>2, <1>3, <1>4, <1>5, <1>6, <1>7 DEF Next, Worker

LEMMA PlaceInvariant == Spec => [](TypeInv /\ IndicatorInv /\ StrayInv /\ BarInv)
<1>1. Init => StrayInv /\ BarInv
  <2> SUFFICES ASSUME Init PROVE StrayInv /\ BarInv
    OBVIOUS
  <2>1. /\ \A k \in Keys : taken[k] = <<>> /\ DOMAIN chunks[k] = {}
        /\ wire = <<>> /\ bar = 0 /\ call = NoCall /\ Len(<<>>) = 0
    BY EmptyIsBuffer DEF Init
  <2> QED BY <2>1 DEF StrayInv, BarInv, WireOrder, TakenOrder, Accounted
<1>2. StrayInv /\ BarInv /\ UNCHANGED vars => StrayInv' /\ BarInv'
  BY DEF StrayInv, BarInv, WireOrder, TakenOrder, Accounted, Gaps, vars, sessionVars, barVars
<1>3. TypeInv /\ IndicatorInv /\ StrayInv /\ BarInv /\ [Next]_vars => StrayInv' /\ BarInv'
  BY <1>2, StrayStep, BarStep
<1> QED BY <1>1, <1>3, IndicatorInvariant, PTL DEF Spec

-----------------------------------------------------------------------------
(* The theorems *)

\* For any number of indicators, bars, failed saves and restarts, no chunk is
\* longer than the limit; until a restart a sealed chunk leaves the agent's
\* buffer only once the platform has it in full; and the platform has no
\* points of an indicator without its definition, unless a hot reload brought
\* the indicator to a session with a sink (without a sink: unless a save
\* failed).
THEOREM NothingIsLost == Spec => []NothingLost
<1>1. TypeInv /\ IndicatorInv /\ StrayInv => NothingLost
  <2> SUFFICES ASSUME TypeInv, IndicatorInv, StrayInv PROVE NothingLost
    OBVIOUS
  <2>1. IndicatorTypeOK
    <3>1. bar \in 0 .. MaxBars /\ restarts \in 0 .. MaxRestarts /\ faults \in 0 .. MaxFaults
      BY DEF TypeInv, FlagTypes
    <3>2. ASSUME NEW k \in Keys
          PROVE  /\ Len(buffers[k].active) < Limit
                 /\ \A i \in DOMAIN buffers[k].pending : Len(buffers[k].pending[i].points) = Limit
                 /\ \A i \in DOMAIN chunks[k] : Len(chunks[k][i].points) \in 1 .. Limit
      BY <3>2 DEF TypeInv, DataTypes, IsBuffer, IsChunks
    <3> QED BY <3>1, <3>2 DEF IndicatorTypeOK
  <2>2. SealedNeverLost
    BY DEF IndicatorInv, SealedInv, SealedNeverLost
  <2>3. DefinedBeforeDrawn
    <3> SUFFICES ASSUME NEW k \in Keys, DOMAIN chunks[k] # {}
                 PROVE  \/ k \in first /\ known
                        \/ k \in first /\ sink = "direct" /\ faults > 0
                        \/ k \notin first /\ sink = "agent" /\ hot
      BY DEF DefinedBeforeDrawn
    <3>1. faults \in Nat /\ sink \in {"agent", "direct"} BY DEF TypeInv, FlagTypes
    <3>2. faults > 0 \/ faults = 0 BY <3>1
    <3>3. CASE k \in first
      BY <3>1, <3>2, <3>3 DEF IndicatorInv, DefinitionInv
    <3>4. CASE k \notin first
      BY <3>1, <3>4 DEF StrayInv
    <3> QED BY <3>3, <3>4
  <2> QED BY <2>1, <2>2, <2>3 DEF NothingLost
<1> QED BY <1>1, PlaceInvariant, PTL

\* On both ways to the platform, until a restart, the points of a chart are
\* in the order of their bars, and a bar is left out between them only when
\* no frame was drained for it (the callback raised) or its frame had no
\* point of the indicator; whatever saves failed or were repeated.
THEOREM PointsStayAtTheirBars == Spec => []PointsAtTheirBars
<1>1. TypeInv /\ IndicatorInv /\ BarInv => PointsAtTheirBars
  <2> SUFFICES ASSUME TypeInv, IndicatorInv, BarInv, restarts = 0, NEW k \in Keys,
                      NEW p \in DOMAIN Chart(chunks[k])
               PROVE  LET at == Chart(chunks[k])[p]
                      IN  /\ p \in DOMAIN taken[k] /\ taken[k][p] = at
                          /\ \A q \in 1 .. p - 1 : taken[k][q] < at
                          /\ \A b \in 1 .. at - 1 :
                               b \in Gaps(k) \/ \E q \in 1 .. p - 1 : taken[k][q] = b
    BY DEF PointsAtTheirBars
  <2> DEFINE t == taken[k]
             at == t[p]
  <2>1. IsChunks(chunks[k]) /\ t \in Seq(Nat) /\ AllFit(t, chunks[k])
    BY DEF TypeInv, DataTypes, IndicatorInv, LogInv
  <2>2. p \in 1 .. Len(t) /\ Chart(chunks[k])[p] = at
    BY <2>1, ChartFits
  <2>3. TakenOrder(k) /\ Accounted(k) /\ bar \in Nat
    BY IndicatorAssumption DEF BarInv, TypeInv, FlagTypes
  <2> HIDE DEF t
  <2>4. /\ \A q \in 1 .. Len(t) : t[q] \in 1 .. bar
        /\ \A q, r \in 1 .. Len(t) : q < r => t[q] < t[r]
        /\ \A q \in 1 .. Len(t), i \in 1 .. Len(wire) : t[q] < wire[i].bar
        /\ \A b \in 1 .. bar : \/ b \in Gaps(k)
                               \/ \E q \in 1 .. Len(t) : t[q] = b
                               \/ \E i \in 1 .. Len(wire) : wire[i].bar = b /\ k \in wire[i].keys
    BY <2>3 DEF TakenOrder, Accounted, t
  <2>5. DOMAIN t = 1 .. Len(t) /\ Len(t) \in Nat BY <2>1
  <2>6. at \in 1 .. bar BY <2>2, <2>4
  <2>7. \A q \in 1 .. p - 1 : q \in 1 .. Len(t) /\ q < p BY <2>2, <2>5
  <2>8. \A q \in 1 .. p - 1 : t[q] < at BY <2>2, <2>4, <2>7
  <2>9. ASSUME NEW b \in 1 .. at - 1
        PROVE  b \in Gaps(k) \/ \E q \in 1 .. p - 1 : t[q] = b
    <3>1. b \in 1 .. bar /\ b < at /\ ~(at < b) /\ b # at BY <2>3, <2>6
    <3>2. ~\E i \in 1 .. Len(wire) : wire[i].bar = b BY <2>2, <2>4, <3>1
    <3>3. ASSUME NEW q \in 1 .. Len(t), t[q] = b PROVE q \in 1 .. p - 1
      <4>1. ~(p < q) /\ q # p BY <2>2, <2>4, <3>1, <3>3
      <4> QED BY <2>2, <2>5, <4>1
    <3> QED BY <2>4, <3>1, <3>2, <3>3
  <2> QED BY <2>2, <2>5, <2>8, <2>9 DEF t
<1> QED BY <1>1, PlaceInvariant, PTL

\* A step is one of the log, or abandons it.
LEMMA StepImplementsLog ==
  ASSUME TypeInv, IndicatorInv, TypeInv', IndicatorInv', [Next]_vars
  PROVE  [Log!Collect \/ Log!Abandon]_Log!logVars
<1>1. CASE UNCHANGED vars
  BY <1>1 DEF vars, sessionVars, barVars, linkVars, Log!logVars
<1>2. CASE Next /\ restarts' # 0
  BY <1>2 DEF Log!Abandon
<1>3. CASE Next /\ restarts' = 0
  <2>1. Shown BY <1>3, NextKeeps DEF Kept
  <2>2. restarts = 0
    <3>1. restarts' = restarts \/ restarts' = restarts + 1
      BY <1>3 DEF Next, Worker, SendIndicatorFrame, SaveDefinitions, RecordFrame, SkipBar, FlushOpen, RunEnds, WorkerLeaves,
                  HandleIndicatorFrame, PlatformSaves, MarkIndicatorFinalsAcked, SaveFails,
                  WorkerKilled, ConnectionCloses, CleanupSessionState
    <3>2. restarts \in Nat BY DEF TypeInv, FlagTypes
    <3> QED BY <1>3, <3>1, <3>2
  <2>3. ASSUME NEW k \in Keys
        PROVE  \A p \in DOMAIN taken[k] : p \in DOMAIN taken'[k] /\ taken'[k][p] = taken[k][p]
    <3>1. taken[k] \in Seq(Nat) /\ taken'[k] \in Seq(Nat)
      BY DEF TypeInv, DataTypes
    <3>2. DOMAIN taken[k] = 1 .. Len(taken[k]) /\ DOMAIN taken'[k] = 1 .. Len(taken'[k])
      BY <3>1
    <3> QED BY <1>3, <2>1, <3>2 DEF Shown
  <2>4. ASSUME NEW k \in Keys
        PROVE  /\ DOMAIN Chart(chunks[k]) \subseteq DOMAIN Chart(chunks'[k])
               /\ \A p \in DOMAIN Chart(chunks'[k]) :
                    p \in DOMAIN taken'[k] /\ Chart(chunks'[k])[p] = taken'[k][p]
    <3>1. /\ IsChunks(chunks[k]) /\ IsChunks(chunks'[k]) /\ Grows(chunks[k], chunks'[k])
          /\ taken'[k] \in Seq(Nat) /\ AllFit(taken'[k], chunks'[k])
      BY <1>3, <2>1, <2>4 DEF TypeInv, DataTypes, Shown, IndicatorInv, LogInv
    <3>2. DOMAIN taken'[k] = 1 .. Len(taken'[k]) BY <3>1
    <3> QED BY <3>1, <3>2, ChartGrows, ChartFits
  <2>5. Log!Collect
    BY <1>3, <2>2, <2>3, <2>4 DEF Log!Collect, Log!Extend, Log!Show
  <2> QED BY <2>5
<1> QED BY <1>1, <1>2, <1>3

\* Both ways to the platform implement the log: what is recorded is only
\* appended to, and what the platform shows is what was recorded there and
\* never changes, although saves fail, are repeated after a failure or carry
\* the open chunk again and again; until a restart abandons the session.
THEOREM BuffersImplementTheLog == Spec => ImplementsLog
<1>1. Init => Log!LogInit
  <2> SUFFICES ASSUME Init PROVE Log!LogInit
    OBVIOUS
  <2>1. taken = [k \in Keys |-> <<>>] /\ restarts = 0 /\ \A k \in Keys : chunks[k] = NoChunks
    BY DEF Init
  <2>2. DOMAIN Chart(NoChunks) = {}
    BY EmptyIsBuffer DEF Chart, Positions
  <2> QED BY <2>1, <2>2 DEF Log!LogInit
<1>2. TypeInv /\ IndicatorInv /\ TypeInv' /\ IndicatorInv' /\ [Next]_vars
        => [Log!Collect \/ Log!Abandon]_Log!logVars
  BY StepImplementsLog
<1> QED BY <1>1, <1>2, IndicatorInvariant, PTL DEF Spec, ImplementsLog, Log!LogSpec

=============================================================================
