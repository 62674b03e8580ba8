-------------------------- MODULE BarReplay_proofs --------------------------
(***************************************************************************)
(* Proofs about BarReplay, for any streams and intervals, any range and    *)
(* page size and any number of edits, backfills and failing fetches: what  *)
(* runs is what was admitted, a reload catches up with the file, and the   *)
(* replay is in order, without repetition and complete.                    *)
(***************************************************************************)
EXTENDS BarReplay, FiniteSetTheorems, WellFoundedInduction, TLAPS

Bars == (1..End) \X Streams
Versions == [ver : Nat, kind : Kinds]
Cursors == [time : Int, page : SUBSET (1..End), exhausted : BOOLEAN]
Places == {"construct", "sign", "prime", "pop", "bar", "stat", "read", "adopt",
           "call", "advance", "done"}

\* Where the thread has a bar in hand, and where it reloads on the way.
Reloading == {"stat", "read", "adopt"}
Handling == Reloading \cup {"call", "advance"}
InHand == Handling \cup {"bar"}

\* The way on after a reload: further reloads, then the call or the next bar.
ThenOK ==
    /\ then \in Seq({"stat", "call", "advance"})
    /\ pc \in Reloading =>
         /\ then # <<>>
         /\ \A i \in 1..(Len(then) - 1) : then[i] = "stat"
         /\ then[Len(then)] \in {"call", "advance"}

ReplayTypes ==
    /\ rows \in [Streams -> SUBSET (1..End)]
    /\ cursor \in [Streams -> Cursors] /\ primed \in 0..Len(Steps)
    /\ heap \subseteq Bars /\ bar \in Bars \cup {NoBar} /\ out \in Seq(Bars)
    /\ pc \in InHand => bar \in Bars
    /\ view \in [Streams -> 0..End]

CodeTypes ==
    /\ {file, inst, cand} \subseteq Versions
    /\ inst.ver <= file.ver /\ cand.ver <= file.ver
    /\ sig \in 0..file.ver /\ seen \in 0..file.ver /\ missed \in 0..file.ver
    /\ keys \subseteq Streams /\ ThenOK

FlagTypes ==
    /\ hot \in BOOLEAN /\ err \in BOOLEAN
    /\ status \in {"running", "finished", "failed", "stopped"}
    /\ pc \in Places

TypeInv == ReplayTypes /\ CodeTypes /\ FlagTypes

---------------------------------------------------------------------------
(* Streams, pages and the way on                                           *)

LEMMA StreamFacts ==
    /\ Streams = 1..Len(Steps) /\ Len(Steps) \in Nat
    /\ \A s \in Streams : Steps[s] \in Nat \ {0}
BY ReplayConstants DEF Streams

LEMMA BarFacts ==
    /\ \A b \in Bars : b[1] \in 1..End /\ b[2] \in Streams /\ b = <<b[1], b[2]>>
    /\ \A t \in 1..End, s \in Streams :
         <<t, s>> \in Bars /\ <<t, s>>[1] = t /\ <<t, s>>[2] = s
BY DEF Bars

\* A step to the next place of the way on.
LEMMA ContinueFacts ==
    ASSUME ThenOK, pc \in Reloading, Continue
    PROVE  /\ then' \in Seq({"stat", "call", "advance"})
           /\ \/ pc' = then[Len(then)] /\ pc' \in {"call", "advance"}
              \/ /\ pc' = "stat" /\ then' # <<>>
                 /\ \A i \in 1..(Len(then') - 1) : then'[i] = "stat"
                 /\ then'[Len(then')] = then[Len(then)]
<1>1. /\ then \in Seq({"stat", "call", "advance"}) /\ then # <<>>
      /\ \A i \in 1..(Len(then) - 1) : then[i] = "stat"
      /\ then[Len(then)] \in {"call", "advance"}
    BY DEF ThenOK
<1>2. pc' = Head(then) /\ then' = Tail(then)
    BY DEF Continue
<1>3. /\ Len(then) \in Nat \ {0} /\ Head(then) = then[1]
      /\ Tail(then) \in Seq({"stat", "call", "advance"}) /\ Len(Tail(then)) = Len(then) - 1
      /\ \A i \in 1..(Len(then) - 1) : Tail(then)[i] = then[i + 1]
    BY <1>1
<1>4. CASE Len(then) = 1
    BY <1>1, <1>2, <1>3, <1>4
<1>5. CASE Len(then) > 1
    <2> DEFINE q == Tail(then)
    <2>1. pc' = "stat"
        BY <1>1, <1>2, <1>3, <1>5
    <2>2. Len(q) \in Nat \ {0} /\ q[Len(q)] = then[Len(then)] /\ q \in Seq({"stat", "call", "advance"})
        BY <1>3, <1>5
    <2>3. \A i \in 1..(Len(q) - 1) : q[i] = "stat"
        BY <1>1, <1>3, <1>5
    <2> HIDE DEF q
    <2>4. q # <<>>
        BY <2>2
    <2> QED
        BY <1>2, <2>1, <2>2, <2>3, <2>4 DEF q
<1> QED
    BY <1>3, <1>4, <1>5

LEMMA LeastOf ==
    ASSUME NEW T \in SUBSET Nat, T # {}
    PROVE  \E m \in T : \A n \in T : m <= n
<1>1. PICK m \in T : \A n \in T : ~(<<n, m>> \in OpToRel(<, Nat))
    BY WFMin, NatLessThanWellFounded
<1>2. \A n \in T : ~(n < m)
    BY <1>1 DEF OpToRel
<1> QED
    BY <1>2

LEMMA GreatestOf ==
    ASSUME NEW T \in SUBSET (1..End), T # {}
    PROVE  \E m \in T : \A n \in T : n <= m
<1> DEFINE U == {End - n : n \in T}
<1>0. End \in Nat
    BY ReplayConstants
<1>1. U \in SUBSET Nat /\ U # {}
    <2>1. \A n \in T : End - n \in Nat
        BY <1>0
    <2>2. PICK n \in T : TRUE
        OBVIOUS
    <2>3. End - n \in U
        OBVIOUS
    <2> QED
        BY <2>1, <2>3
<1>2. PICK d \in U : \A e \in U : d <= e
    <2> HIDE DEF U
    <2> QED
        BY <1>1, LeastOf
<1>3. PICK m \in T : d = End - m
    BY <1>2
<1>4. \A n \in T : End - m <= End - n
    BY <1>2, <1>3
<1> QED
    BY <1>0, <1>4

LEMMA FirstFacts ==
    ASSUME NEW page \in SUBSET (1..End)
    PROVE  /\ First(page) \subseteq page
           /\ \A t \in First(page), u \in page : t <= u /\ (t = u \/ u \notin First(page))
           /\ page # {} => First(page) # {}
<1>1. First(page) \subseteq page /\ \A t \in First(page), u \in page : t <= u
    BY DEF First
<1>2. ASSUME NEW t \in First(page), NEW u \in First(page) PROVE t = u
    <2>1. t <= u /\ u <= t /\ t \in 1..End /\ u \in 1..End
        BY <1>1
    <2> QED
        BY <2>1, ReplayConstants
<1>3. ASSUME page # {} PROVE First(page) # {}
    <2>1. page \in SUBSET Nat
        BY ReplayConstants
    <2>2. PICK m \in page : \A n \in page : m <= n
        BY <1>3, <2>1, LeastOf
    <2> QED
        BY <2>2 DEF First
<1> QED
    BY <1>1, <1>2, <1>3

LEMMA LastFacts ==
    ASSUME NEW page \in SUBSET (1..End), page # {}
    PROVE  LastOf(page) \in page /\ \A u \in page : u <= LastOf(page)
<1>1. \E t \in page : \A u \in page : u <= t
    BY GreatestOf
<1> QED
    BY <1>1 DEF LastOf

\* A page holds the first rows after the cursor: none is left out below its
\* last row, it is empty only when nothing follows, and when it is said to be
\* the last it holds all that follows.
LEMMA PageFacts ==
    ASSUME rows \in [Streams -> SUBSET (1..End)],
           NEW s \in Streams, NEW after \in Int, NEW p \in Pages(s, after)
    PROVE  LET left == {t \in rows[s] : after < t} IN
           /\ p.rows \subseteq left /\ p.more \in BOOLEAN
           /\ \A t \in p.rows, u \in left : u <= t => u \in p.rows
           /\ left # {} => p.rows # {}
           /\ ~p.more => p.rows = left
           /\ p.rows = {} => ~p.more
<1> DEFINE left == {t \in rows[s] : after < t}
           upTo(t) == {u \in left : u <= t}
           page == {t \in left : Cardinality(upTo(t)) <= PageSize}
<1>1. PICK m \in {page # left, page # left \/ Cardinality(page) = PageSize} :
        p = [rows |-> page, more |-> m]
    BY DEF Pages
<1>2. p.rows = page /\ p.more = m
    BY <1>1
<1>3. left \subseteq 1..End /\ PageSize \in Nat \ {0} /\ End \in Nat
    BY ReplayConstants
<1>4. IsFiniteSet(1..End)
    BY <1>3, FS_Interval
<1>5. \A t : IsFiniteSet(upTo(t)) /\ Cardinality(upTo(t)) \in Nat
    <2> TAKE t
    <2>1. upTo(t) \in SUBSET (1..End)
        BY <1>3
    <2> HIDE DEF upTo
    <2> QED
        BY <1>4, <2>1, FS_Subset, FS_CardinalityType
<1>6. ASSUME NEW t \in page, NEW u \in left, u <= t PROVE u \in page
    <2>1. upTo(u) \subseteq upTo(t)
        <3>1. t \in 1..End /\ u \in 1..End /\ left \subseteq 1..End
            BY <1>3
        <3> QED
            BY <1>3, <1>6, <3>1
    <2>2. Cardinality(upTo(t)) <= PageSize
        OBVIOUS
    <2> HIDE DEF upTo
    <2>3. Cardinality(upTo(u)) <= Cardinality(upTo(t))
        BY <1>5, <2>1, FS_Subset
    <2>4. Cardinality(upTo(u)) <= PageSize
        BY <1>3, <1>5, <2>2, <2>3
    <2> QED
        BY <2>4
<1>7. ASSUME left # {} PROVE page # {}
    <2>1. PICK k \in left : \A n \in left : k <= n
        <3>1. left \in SUBSET Nat
            BY <1>3
        <3> HIDE DEF left
        <3> QED
            BY <1>7, <3>1, LeastOf
    <2>2. upTo(k) = {k}
        <3>1. \A n \in left : n <= k => n = k
            <4>1. \A n \in left : n \in Int
                BY <1>3
            <4> QED
                BY <2>1, <4>1
        <3>2. k <= k
            BY <1>3
        <3> QED
            BY <3>1, <3>2
    <2>3. Cardinality(upTo(k)) = 1
        BY <2>2, FS_Singleton
    <2>4. Cardinality(upTo(k)) <= PageSize
        BY <1>3, <2>3
    <2> QED
        BY <2>4
<1>8. page = {} => Cardinality(page) # PageSize
    BY <1>3, FS_EmptySet
<1> HIDE DEF page, left
<1>9. m \in BOOLEAN /\ (~m => page = left)
    BY <1>1
<1>10. page = {} => ~m
    BY <1>1, <1>7, <1>8
<1>11. page \subseteq left
    BY DEF page
<1> QED
    BY <1>2, <1>6, <1>7, <1>9, <1>10, <1>11 DEF left

\* What _fill makes of a cursor.
LEMMA FilledFacts ==
    ASSUME rows \in [Streams -> SUBSET (1..End)],
           NEW s \in Streams, NEW c \in Cursors, NEW p \in Pages(s, c.time)
    PROVE  LET f == Filled(c, p) IN
           /\ f \in Cursors /\ f.page = p.rows /\ f.page \subseteq rows[s]
           /\ c.time <= f.time /\ \A t \in f.page : c.time < t /\ t <= f.time
           /\ f.page # {} => f.time \in f.page
           /\ f.page = {} => f.exhausted
           /\ \A t \in rows[s] : c.time < t => t \in f.page \/ (f.time < t /\ ~f.exhausted)
<1> DEFINE f == Filled(c, p)
           left == {t \in rows[s] : c.time < t}
<1>0. c.time \in Int /\ rows[s] \subseteq 1..End /\ left \subseteq rows[s]
    BY DEF Cursors
<1>1. /\ p.rows \subseteq left /\ p.more \in BOOLEAN
      /\ \A t \in p.rows, u \in left : u <= t => u \in p.rows
      /\ left # {} => p.rows # {}
      /\ ~p.more => p.rows = left
      /\ p.rows = {} => ~p.more
    BY <1>0, PageFacts
<1>2. /\ f.time = IF p.rows = {} THEN c.time ELSE LastOf(p.rows)
      /\ f.page = p.rows /\ f.exhausted = ~p.more
    BY DEF Filled
<1>3. p.rows \in SUBSET (1..End)
    BY <1>0, <1>1
<1>4. p.rows # {} => LastOf(p.rows) \in p.rows /\ \A u \in p.rows : u <= LastOf(p.rows)
    BY <1>3, LastFacts
<1>5. \A t \in left : t \in rows[s] /\ c.time < t /\ t \in Int
    BY <1>0
<1>6. f \in Cursors
    <2>1. f.time \in Int
        BY <1>0, <1>2, <1>3, <1>4
    <2> QED
        BY <1>1, <1>2, <1>3, <2>1 DEF Filled, Cursors
<1>7. c.time <= f.time /\ \A t \in f.page : c.time < t /\ t <= f.time
    <2>1. CASE p.rows = {}
        BY <1>0, <1>2, <2>1
    <2>2. CASE p.rows # {}
        <3>1. f.time = LastOf(p.rows) /\ f.time \in left
            BY <1>1, <1>2, <1>4, <2>2
        <3> QED
            BY <1>0, <1>1, <1>2, <1>4, <1>5, <2>2, <3>1
    <2> QED
        BY <2>1, <2>2
<1>8. ASSUME NEW t \in rows[s], c.time < t
      PROVE  t \in f.page \/ (f.time < t /\ ~f.exhausted)
    <2>1. t \in left /\ p.rows # {}
        BY <1>1, <1>8
    <2>2. CASE p.rows = left
        BY <1>2, <2>1, <2>2
    <2>3. CASE p.rows # left
        <3>1. p.more /\ ~f.exhausted
            BY <1>1, <1>2, <2>3
        <3>2. f.time \in p.rows /\ f.time \in Int /\ t \in Int
            BY <1>2, <1>3, <1>4, <1>5, <2>1
        <3>3. t <= f.time => t \in p.rows
            BY <1>1, <2>1, <3>2
        <3> QED
            BY <1>2, <3>1, <3>2, <3>3
    <2> QED
        BY <2>2, <2>3
<1>9. f.page # {} => f.time \in f.page
    BY <1>2, <1>4
<1>10. f.page = {} => f.exhausted
    BY <1>1, <1>2
<1>11. f.page \subseteq rows[s]
    BY <1>0, <1>1, <1>2
<1> QED
    BY <1>2, <1>6, <1>7, <1>8, <1>9, <1>10, <1>11

\* What _pop and the push make of the cursors and the heap.
LEMMA PopPushFacts ==
    ASSUME cursor \in [Streams -> Cursors], NEW s \in Streams, NEW c \in Cursors,
           PopPush(s, c)
    PROVE  /\ cursor' \in [Streams -> Cursors]
           /\ cursor'[s].time = c.time /\ cursor'[s].exhausted = c.exhausted
           /\ cursor'[s].page = c.page \ First(c.page)
           /\ \A r \in Streams : r # s => cursor'[r] = cursor[r]
           /\ heap' = heap \cup {<<t, s>> : t \in First(c.page)}
<1> DEFINE d == [c EXCEPT !.page = @ \ First(@)]
<1>1. cursor' = [cursor EXCEPT ![s] = d]
    BY DEF PopPush
<1>2. /\ d.time = c.time /\ d.exhausted = c.exhausted
      /\ d.page = c.page \ First(c.page) /\ d \in Cursors
    BY DEF Cursors
<1>3. heap' = heap \cup {<<t, s>> : t \in First(c.page)}
    <2>1. heap' = heap \cup (First(c.page) \X {s})
        BY DEF PopPush
    <2>2. First(c.page) \X {s} = {<<t, s>> : t \in First(c.page)}
        OBVIOUS
    <2> QED
        BY <2>1, <2>2
<1> HIDE DEF d
<1> QED
    BY <1>1, <1>2, <1>3

---------------------------------------------------------------------------
(* Type correctness                                                        *)

LEMMA InitType == Init => TypeInv
<1> SUFFICES ASSUME Init PROVE TypeInv
    OBVIOUS
<1>1. cursor \in [Streams -> Cursors]
    <2>1. \A s \in Streams : Start - Steps[s] \in Int
        BY StreamFacts, ReplayConstants
    <2> QED
        BY <2>1 DEF Init, Cursors
<1>2. view \in [Streams -> 0..End]
    BY ReplayConstants DEF Init
<1>3. ReplayTypes
    BY <1>1, <1>2, StreamFacts DEF Init, ReplayTypes, InHand, Handling, Reloading, Bars
<1>4. /\ file.ver = 1 /\ file.kind \in {"ok", "fails"} /\ file \in Versions
      /\ inst = file /\ cand = file
    BY DEF Init, Versions, Kinds
<1>5. CodeTypes
    BY <1>4 DEF Init, CodeTypes, ThenOK, Reloading
<1>6. FlagTypes
    <2>1. PICK bare \in BOOLEAN, stored \in BOOLEAN : hot = (bare /\ stored)
        BY DEF Init, DebugSource
    <2>2. hot \in BOOLEAN
        BY <2>1
    <2> QED
        BY <2>2 DEF Init, FlagTypes, Places
<1> QED
    BY <1>3, <1>5, <1>6 DEF TypeInv

\* Steps that leave the replay, or the code, alone.
LEMMA ReplayTypesKept ==
    ASSUME ReplayTypes, UNCHANGED <<rows, replay, view>>, pc' \in InHand => pc \in InHand
    PROVE  ReplayTypes'
BY DEF ReplayTypes, replay

LEMMA CodeTypesKept ==
    ASSUME CodeTypes, UNCHANGED <<file, strategy>>, pc' \in Reloading => pc \in Reloading
    PROVE  CodeTypes'
BY DEF CodeTypes, ThenOK, strategy

\* The constructor and the reload.
LEMMA CodeStepTypes ==
    ASSUME TypeInv, Construct \/ Sign \/ Stat \/ Read \/ Adopt
    PROVE  TypeInv'
<1> USE DEF Places, Reloading, Handling, InHand
<1>0. /\ file \in Versions /\ inst \in Versions /\ cand \in Versions
      /\ inst.ver <= file.ver /\ cand.ver <= file.ver /\ file.ver \in Nat
      /\ inst.ver \in Nat /\ cand.ver \in Nat
      /\ sig \in 0..file.ver /\ seen \in 0..file.ver /\ missed \in 0..file.ver
      /\ keys \subseteq Streams /\ ThenOK
    BY DEF TypeInv, CodeTypes, Versions
<1>1. UNCHANGED <<rows, replay, view, hot, err, file>>
    BY DEF Construct, Sign, Stat, Read, Adopt, store
<1>2. CASE Construct
    <2>1. /\ inst' \in {inst, file} /\ cand' \in {cand, file} /\ keys' \subseteq Streams
          /\ pc' \in {"sign", "done"}
        BY <1>0, <1>2 DEF Construct, Fail, Keys
    <2>2. UNCHANGED <<sig, seen, then, missed>>
        BY <1>2 DEF Construct
    <2>3. CodeTypes'
        BY <1>0, <1>1, <2>1, <2>2 DEF CodeTypes, ThenOK
    <2>4. ReplayTypes'
        BY <1>1, <2>1, ReplayTypesKept DEF TypeInv
    <2>5. FlagTypes'
        BY <1>1, <1>2 DEF Construct, Fail, TypeInv, FlagTypes
    <2> QED
        BY <2>3, <2>4, <2>5 DEF TypeInv
<1>3. CASE Sign
    <2>1. /\ sig' \in {sig, file.ver} /\ missed' \in {missed, 0, file.ver}
          /\ pc' \in {"prime", "done"}
        BY <1>3 DEF Sign, Fail
    <2>2. UNCHANGED <<inst, keys, seen, cand, then>>
        BY <1>3 DEF Sign
    <2>3. CodeTypes'
        BY <1>0, <1>1, <2>1, <2>2 DEF CodeTypes, ThenOK
    <2>4. ReplayTypes'
        BY <1>1, <2>1, ReplayTypesKept DEF TypeInv
    <2>5. FlagTypes'
        BY <1>1, <1>3 DEF Sign, Fail, TypeInv, FlagTypes
    <2> QED
        BY <2>3, <2>4, <2>5 DEF TypeInv
<1>4. CASE Stat
    <2>1. UNCHANGED <<inst, keys, sig, cand, missed, status>>
        BY <1>4 DEF Stat
    <2>2. pc = "stat" /\ seen' \in {seen, file.ver}
        BY <1>4 DEF Stat
    <2>3. Continue \/ (pc' = "read" /\ then' = then)
        BY <1>4 DEF Stat
    <2>4. ThenOK' /\ pc' \in {"stat", "read", "call", "advance"}
        <3>1. CASE Continue
            BY <1>0, <2>2, <3>1, ContinueFacts DEF ThenOK
        <3>2. CASE pc' = "read" /\ then' = then
            BY <1>0, <2>2, <3>2 DEF ThenOK
        <3> QED
            BY <2>3, <3>1, <3>2
    <2>5. CodeTypes'
        BY <1>0, <1>1, <2>1, <2>2, <2>4 DEF CodeTypes
    <2>6. ReplayTypes'
        BY <1>1, <2>2, ReplayTypesKept DEF TypeInv
    <2>7. FlagTypes'
        BY <1>1, <2>1, <2>4 DEF TypeInv, FlagTypes
    <2> QED
        BY <2>5, <2>6, <2>7 DEF TypeInv
<1>5. CASE Read
    <2>1. UNCHANGED <<inst, keys, sig, seen, then, missed, status>>
        BY <1>5 DEF Read
    <2>2. pc = "read" /\ pc' = "adopt" /\ cand' = file
        BY <1>5 DEF Read
    <2>3. CodeTypes'
        BY <1>0, <1>1, <2>1, <2>2 DEF CodeTypes, ThenOK
    <2>4. ReplayTypes'
        BY <1>1, <2>2, ReplayTypesKept DEF TypeInv
    <2>5. FlagTypes'
        BY <1>1, <2>1, <2>2 DEF TypeInv, FlagTypes
    <2> QED
        BY <2>3, <2>4, <2>5 DEF TypeInv
<1>6. CASE Adopt
    <2>1. UNCHANGED <<keys, missed, status>>
        BY <1>6 DEF Adopt
    <2>2. /\ pc = "adopt" /\ sig' = seen /\ inst' \in {cand, inst} /\ seen' = 0
          /\ cand' = inst' /\ Continue
        BY <1>6 DEF Adopt
    <2>3. ThenOK' /\ pc' \in {"stat", "call", "advance"}
        BY <1>0, <2>2, ContinueFacts DEF ThenOK
    <2>4. CodeTypes'
        BY <1>0, <1>1, <2>1, <2>2, <2>3 DEF CodeTypes
    <2>5. ReplayTypes'
        BY <1>1, <2>2, ReplayTypesKept DEF TypeInv
    <2>6. FlagTypes'
        BY <1>1, <2>1, <2>3 DEF TypeInv, FlagTypes
    <2> QED
        BY <2>4, <2>5, <2>6 DEF TypeInv
<1> QED
    BY <1>2, <1>3, <1>4, <1>5, <1>6

\* The call, and what runs beside the thread.
LEMMA OtherStepTypes ==
    ASSUME TypeInv,
           CallReturns \/ CallRaises \/ DecisionRefused \/ Stop \/ Edit \/ Backfill
    PROVE  TypeInv'
<1> USE DEF Places, Reloading, Handling, InHand
<1>1. CASE CallReturns
    <2>1. /\ UNCHANGED <<rows, hot, file, replay, view, inst, keys, sig, seen, cand,
                         missed, status>>
          /\ pc = "call" /\ err' = FALSE
        BY <1>1 DEF CallReturns, ClearError, store
    <2>2. (pc' = "advance" /\ then' = then) \/ (pc' = "stat" /\ then' = <<"advance">>)
        BY <1>1 DEF CallReturns
    <2>3. ThenOK'
        <3>1. CASE pc' = "advance" /\ then' = then
            BY <3>1 DEF TypeInv, CodeTypes, ThenOK
        <3>2. CASE pc' = "stat" /\ then' = <<"advance">>
            BY <3>2 DEF ThenOK
        <3> QED
            BY <2>2, <3>1, <3>2
    <2>4. CodeTypes'
        BY <2>1, <2>3 DEF TypeInv, CodeTypes
    <2>5. ReplayTypes'
        BY <2>1, ReplayTypesKept DEF TypeInv
    <2>6. FlagTypes'
        BY <2>1, <2>2 DEF TypeInv, FlagTypes
    <2> QED
        BY <2>4, <2>5, <2>6 DEF TypeInv
<1>2. CASE CallRaises \/ DecisionRefused
    <2>1. /\ UNCHANGED <<rows, hot, file, replay, view, strategy>>
          /\ pc = "call" /\ pc' \in {"advance", "done"}
        BY <1>2 DEF CallRaises, DecisionRefused, Fail, store
    <2>2. /\ err' \in {err, TRUE, FALSE}
          /\ status' \in {status, "failed"}
        BY <1>2 DEF CallRaises, DecisionRefused, ShowError, ClearError, Fail
    <2>3. CodeTypes' /\ ReplayTypes'
        BY <2>1, CodeTypesKept, ReplayTypesKept DEF TypeInv
    <2>4. FlagTypes'
        BY <2>1, <2>2 DEF TypeInv, FlagTypes
    <2> QED
        BY <2>3, <2>4 DEF TypeInv
<1>3. CASE Stop
    <2>1. UNCHANGED <<rows, hot, file, replay, view, strategy, err, pc>> /\ status' = "stopped"
        BY <1>3 DEF Stop, store
    <2>2. CodeTypes' /\ ReplayTypes'
        BY <2>1, CodeTypesKept, ReplayTypesKept DEF TypeInv
    <2>3. FlagTypes'
        BY <2>1 DEF TypeInv, FlagTypes
    <2> QED
        BY <2>2, <2>3 DEF TypeInv
<1>4. CASE Edit
    <2>1. UNCHANGED <<rows, hot, replay, view, strategy, err, status, pc>>
        BY <1>4 DEF Edit, store
    <2>2. PICK k \in Kinds : file' = [ver |-> file.ver + 1, kind |-> k]
        BY <1>4 DEF Edit
    <2>3. file.ver \in Nat /\ inst.ver \in Nat /\ cand.ver \in Nat
        BY DEF TypeInv, CodeTypes, Versions
    <2>4. file' \in Versions /\ file'.ver = file.ver + 1
        BY <2>2, <2>3 DEF Versions
    <2>5. CodeTypes'
        <3>1. UNCHANGED <<inst, cand, sig, seen, missed, keys, then, pc>>
            BY <2>1 DEF strategy
        <3>2. /\ inst \in Versions /\ cand \in Versions /\ keys \subseteq Streams /\ ThenOK
              /\ inst.ver <= file.ver /\ cand.ver <= file.ver
              /\ sig \in 0..file.ver /\ seen \in 0..file.ver /\ missed \in 0..file.ver
            BY DEF TypeInv, CodeTypes
        <3>3. ThenOK'
            BY <3>1, <3>2 DEF ThenOK
        <3> QED
            BY <2>3, <2>4, <3>1, <3>2, <3>3 DEF CodeTypes
    <2>6. ReplayTypes'
        BY <2>1, ReplayTypesKept DEF TypeInv
    <2>7. FlagTypes'
        BY <2>1 DEF TypeInv, FlagTypes
    <2> QED
        BY <2>5, <2>6, <2>7 DEF TypeInv
<1>5. CASE Backfill
    <2>1. UNCHANGED <<hot, file, replay, view, strategy, err, status, pc>>
        BY <1>5 DEF Backfill
    <2>2. PICK s \in Streams : \E t \in Grid(s) : rows' = [rows EXCEPT ![s] = @ \cup {t}]
        BY <1>5 DEF Backfill
    <2>3. Grid(s) \subseteq 1..End
        BY DEF Grid
    <2>4. rows' \in [Streams -> SUBSET (1..End)]
        BY <2>2, <2>3 DEF TypeInv, ReplayTypes
    <2>5. ReplayTypes'
        BY <2>1, <2>4 DEF TypeInv, ReplayTypes, replay
    <2>6. CodeTypes'
        BY <2>1, CodeTypesKept DEF TypeInv
    <2>7. FlagTypes'
        BY <2>1 DEF TypeInv, FlagTypes
    <2> QED
        BY <2>5, <2>6, <2>7 DEF TypeInv
<1> QED
    BY <1>1, <1>2, <1>3, <1>4, <1>5

\* The replay.
LEMMA ReplayStepTypes ==
    ASSUME TypeInv, Prime \/ Pop \/ Finish \/ Advance \/ FetchFails \/ Deliver
    PROVE  TypeInv'
<1> USE DEF Places, Reloading, Handling, InHand
<1>0. /\ rows \in [Streams -> SUBSET (1..End)] /\ cursor \in [Streams -> Cursors]
      /\ primed \in 0..Len(Steps) /\ heap \subseteq Bars /\ bar \in Bars \cup {NoBar}
      /\ out \in Seq(Bars) /\ view \in [Streams -> 0..End]
      /\ pc \in InHand => bar \in Bars
    BY DEF TypeInv, ReplayTypes
<1>1. CASE Finish \/ FetchFails
    <2>1. /\ UNCHANGED <<rows, hot, file, replay, view, strategy, err>> /\ pc' = "done"
          /\ status' \in {status, "finished", "failed"}
        BY <1>1 DEF Finish, FetchFails, Fail, store
    <2>2. ReplayTypes' /\ CodeTypes'
        BY <2>1, CodeTypesKept, ReplayTypesKept DEF TypeInv
    <2>3. FlagTypes'
        BY <2>1 DEF TypeInv, FlagTypes
    <2> QED
        BY <2>2, <2>3 DEF TypeInv
<1>2. CASE Pop
    <2>1. UNCHANGED <<rows, hot, file, cursor, primed, out, view, strategy, err, status>>
        BY <1>2 DEF Pop, store
    <2>2. bar' \in heap /\ heap' \subseteq heap /\ pc' \in {"bar", "done"}
        BY <1>2 DEF Pop
    <2>3. ReplayTypes'
        BY <1>0, <2>1, <2>2 DEF ReplayTypes
    <2>4. CodeTypes'
        BY <2>1, <2>2, CodeTypesKept DEF TypeInv
    <2>5. FlagTypes'
        BY <2>1, <2>2 DEF TypeInv, FlagTypes
    <2> QED
        BY <2>3, <2>4, <2>5 DEF TypeInv
<1>3. CASE Deliver
    <2>1. /\ UNCHANGED <<rows, hot, file, cursor, primed, heap, bar, inst, keys, sig, seen,
                         cand, missed, err, status>>
          /\ pc = "bar" /\ out' = Append(out, bar)
        BY <1>3 DEF Deliver, store
    <2>2. pc' \in {"advance", "call", "stat"}
        BY <1>3 DEF Deliver
    <2>3. view' \in [Streams -> 0..End]
        <3>1. bar \in Bars
            BY <1>0, <2>1
        <3>2. bar[1] \in 0..End /\ bar[2] \in Streams
            BY <3>1, BarFacts
        <3>3. view' = view \/ view' = [view EXCEPT ![bar[2]] = bar[1]]
            BY <1>3 DEF Deliver, Update
        <3> QED
            BY <1>0, <3>2, <3>3
    <2>4. out' \in Seq(Bars)
        BY <1>0, <2>1
    <2>5. ReplayTypes'
        BY <1>0, <2>1, <2>3, <2>4 DEF ReplayTypes
    <2>6. ThenOK'
        <3>1. \/ then' = then /\ pc' \in {"advance", "call"}
              \/ then' \in {<<"call">>, <<"stat", "call">>}
            BY <1>3 DEF Deliver
        <3>2. CASE then' = then /\ pc' \in {"advance", "call"}
            BY <3>2 DEF TypeInv, CodeTypes, ThenOK
        <3>3. CASE then' = <<"call">>
            BY <3>3 DEF ThenOK
        <3>4. CASE then' = <<"stat", "call">>
            BY <3>4 DEF ThenOK
        <3> QED
            BY <3>1, <3>2, <3>3, <3>4
    <2>7. CodeTypes'
        BY <2>1, <2>6 DEF TypeInv, CodeTypes
    <2>8. FlagTypes'
        BY <2>1, <2>2 DEF TypeInv, FlagTypes
    <2> QED
        BY <2>5, <2>7, <2>8 DEF TypeInv
<1>4. CASE Prime \/ Advance
    <2>1. /\ UNCHANGED <<rows, hot, file, bar, out, view, strategy, err, status>>
          /\ pc' \in {"prime", "pop"} /\ primed' \in {primed, primed + 1}
        BY <1>4 DEF Prime, Advance, store
    <2>2. primed' \in 0..Len(Steps)
        BY <1>0, <1>4, StreamFacts DEF Prime, Advance, Unprimed
    <2>3. \/ UNCHANGED <<cursor, heap>>
          \/ \E s \in Streams, c \in Cursors : PopPush(s, c)
        <3>1. CASE Advance
            <4>1. bar[2] \in Streams /\ cursor[bar[2]] \in Cursors
                BY <1>0, <3>1, BarFacts DEF Advance
            <4>2. \A p \in Pages(bar[2], cursor[bar[2]].time) : Filled(cursor[bar[2]], p) \in Cursors
                BY <1>0, <4>1, FilledFacts
            <4> QED
                BY <3>1, <4>1, <4>2 DEF Advance
        <3>2. CASE Prime
            <4>1. Unprimed => primed + 1 \in Streams
                BY <1>0, StreamFacts DEF Unprimed
            <4>2. Unprimed => \A p \in Pages(primed + 1, cursor[primed + 1].time) :
                                Filled(cursor[primed + 1], p) \in Cursors
                BY <1>0, <4>1, FilledFacts
            <4> QED
                BY <3>2, <4>1, <4>2 DEF Prime
        <3> QED
            BY <1>4, <3>1, <3>2
    <2>4. cursor' \in [Streams -> Cursors] /\ heap' \subseteq Bars
        <3>1. ASSUME NEW s \in Streams, NEW c \in Cursors, PopPush(s, c)
              PROVE  cursor' \in [Streams -> Cursors] /\ heap' \subseteq Bars
            <4>1. c.page \in SUBSET (1..End)
                BY DEF Cursors
            <4>2. First(c.page) \subseteq 1..End
                BY <4>1 DEF First
            <4>3. {<<t, s>> : t \in First(c.page)} \subseteq Bars
                BY <4>2, BarFacts
            <4> QED
                BY <1>0, <3>1, <4>3, PopPushFacts
        <3> QED
            BY <1>0, <2>3, <3>1
    <2>5. ReplayTypes'
        BY <1>0, <2>1, <2>2, <2>4 DEF ReplayTypes
    <2>6. CodeTypes'
        BY <2>1, CodeTypesKept DEF TypeInv
    <2>7. FlagTypes'
        BY <2>1 DEF TypeInv, FlagTypes
    <2> QED
        BY <2>5, <2>6, <2>7 DEF TypeInv
<1> QED
    BY <1>1, <1>2, <1>3, <1>4

LEMMA NextType == TypeInv /\ [Next]_vars => TypeInv'
<1> SUFFICES ASSUME TypeInv, [Next]_vars PROVE TypeInv'
    OBVIOUS
<1>1. CASE UNCHANGED vars
    <2>1. UNCHANGED <<rows, replay, view, file, strategy, hot, err, status, pc>>
        BY <1>1 DEF vars, store
    <2>2. ReplayTypes' /\ CodeTypes'
        BY <2>1, CodeTypesKept, ReplayTypesKept DEF TypeInv
    <2>3. FlagTypes'
        BY <2>1 DEF TypeInv, FlagTypes
    <2> QED
        BY <2>2, <2>3 DEF TypeInv
<1>2. CASE Next
    BY <1>2, CodeStepTypes, OtherStepTypes, ReplayStepTypes DEF Next, Thread, Environment
<1> QED
    BY <1>1, <1>2

---------------------------------------------------------------------------
(* The code that runs                                                      *)

\* An error shown on the way to the next bar is that of the code that runs:
\* behind a call that returned there is none, whatever reload comes between.
ErrorInv ==
    /\ pc \in {"construct", "sign", "prime"} => ~err
    /\ err /\ pc \in {"advance", "pop", "bar"} => inst.kind = "fails"
    /\ pc \in Reloading /\ then[Len(then)] = "advance" => ~err

\* The candidate is as new as the signature it was loaded for, and the code
\* that runs is the file's when the signature is.
ReloadInv ==
    /\ file.ver \in Nat \ {0}
    /\ pc \in {"construct", "sign"} => sig = 0
    /\ pc = "adopt" => seen <= cand.ver /\ (cand.ver = file.ver => cand = file)
    /\ file.ver = sig /\ Acceptable(file) => inst.ver = file.ver \/ file.ver = missed

CodeInv == DeclarationsStay /\ ErrorInv /\ ReloadInv

LEMMA InitCode == Init => CodeInv
<1> SUFFICES ASSUME Init PROVE CodeInv
    OBVIOUS
<1>1. file.ver = 1 /\ sig = 0 /\ pc = "construct" /\ ~err
    BY DEF Init
<1> QED
    BY <1>1 DEF CodeInv, DeclarationsStay, ErrorInv, ReloadInv, Reloading

LEMMA CodeKept ==
    ASSUME CodeInv, UNCHANGED <<file, strategy, err>>,
           pc' = pc \/ pc' = "done" \/ <<pc, pc'>> \in
             {<<"prime", "pop">>, <<"pop", "bar">>, <<"advance", "pop">>}
    PROVE  CodeInv'
<1> USE DEF Reloading
<1>1. UNCHANGED <<file, inst, keys, sig, seen, cand, then, missed, err>>
    BY DEF strategy
<1>2. \/ pc' = pc \/ pc' = "done" \/ (pc = "prime" /\ pc' = "pop")
      \/ (pc = "pop" /\ pc' = "bar") \/ (pc = "advance" /\ pc' = "pop")
    OBVIOUS
<1>3. DeclarationsStay'
    BY <1>1, <1>2 DEF CodeInv, DeclarationsStay, Keys
<1>4. ErrorInv'
    BY <1>1, <1>2 DEF CodeInv, ErrorInv
<1>5. ReloadInv'
    BY <1>1, <1>2 DEF CodeInv, ReloadInv, Acceptable, Loads, Keys
<1> QED
    BY <1>3, <1>4, <1>5 DEF CodeInv

LEMMA NextCode == TypeInv /\ CodeInv /\ [Next]_vars => CodeInv'
<1> SUFFICES ASSUME TypeInv, CodeInv, [Next]_vars PROVE CodeInv'
    OBVIOUS
<1> USE DEF Reloading
<1>0. /\ file.ver \in Nat \ {0} /\ inst.ver \in Nat /\ cand.ver \in Nat
      /\ cand.ver <= file.ver /\ sig \in 0..file.ver /\ seen \in 0..file.ver
      /\ missed \in 0..file.ver /\ ThenOK
    BY DEF TypeInv, CodeTypes, Versions, CodeInv, ReloadInv
<1>1. CASE Construct
    <2>1. /\ pc = "construct" /\ UNCHANGED <<file, sig, seen, then, missed, err>>
          /\ \/ inst' = file /\ cand' = file /\ keys' = Keys(file) /\ pc' = "sign"
             \/ pc' = "done" /\ UNCHANGED <<inst, cand, keys>>
        BY <1>1 DEF Construct, Fail
    <2>2. sig = 0 /\ ~err /\ file.ver # 0
        BY <1>0, <2>1 DEF CodeInv, ReloadInv, ErrorInv
    <2>3. DeclarationsStay'
        BY <2>1 DEF DeclarationsStay, Keys
    <2>4. ErrorInv'
        BY <2>1, <2>2 DEF ErrorInv
    <2>5. ReloadInv'
        BY <1>0, <2>1, <2>2 DEF ReloadInv
    <2> QED
        BY <2>3, <2>4, <2>5 DEF CodeInv
<1>2. CASE Sign
    <2>1. /\ pc = "sign" /\ UNCHANGED <<file, inst, keys, seen, cand, then, err>>
          /\ \/ /\ sig' = file.ver /\ missed' = IF file.ver = inst.ver THEN 0 ELSE file.ver
                /\ pc' = "prime"
             \/ pc' \in {"prime", "done"} /\ UNCHANGED <<sig, missed>>
        BY <1>2 DEF Sign, Fail
    <2>2. sig = 0 /\ ~err /\ file.ver # 0
        BY <1>0, <2>1 DEF CodeInv, ReloadInv, ErrorInv
    <2>3. DeclarationsStay'
        BY <2>1 DEF CodeInv, DeclarationsStay, Keys
    <2>4. ErrorInv'
        BY <2>1, <2>2 DEF ErrorInv
    <2>5. ReloadInv'
        BY <1>0, <2>1, <2>2 DEF ReloadInv
    <2> QED
        BY <2>3, <2>4, <2>5 DEF CodeInv
<1>3. CASE Prime \/ Pop \/ Finish \/ Advance \/ FetchFails \/ Stop \/ Backfill
    <2>1. UNCHANGED <<file, strategy, err>>
        BY <1>3 DEF Prime, Pop, Finish, Advance, FetchFails, Stop, Backfill
    <2>2. \/ pc' = pc \/ pc' = "done" \/ (pc = "prime" /\ pc' = "pop")
          \/ (pc = "pop" /\ pc' = "bar") \/ (pc = "advance" /\ pc' = "pop")
        BY <1>3 DEF Prime, Pop, Finish, Advance, FetchFails, Fail, Stop, Backfill
    <2> QED
        BY <2>1, <2>2, CodeKept
<1>4. CASE Deliver
    <2>1. /\ pc = "bar" /\ UNCHANGED <<file, inst, keys, sig, seen, cand, missed, err>>
          /\ \/ pc' \in {"advance", "call"}
             \/ pc' = "stat" /\ then' \in {<<"call">>, <<"stat", "call">>}
        BY <1>4 DEF Deliver
    <2>2. pc' = "stat" => then'[Len(then')] = "call"
        BY <2>1
    <2>3. DeclarationsStay'
        BY <2>1 DEF CodeInv, DeclarationsStay, Keys
    <2>4. ErrorInv'
        BY <2>1, <2>2 DEF CodeInv, ErrorInv
    <2>5. ReloadInv'
        BY <2>1 DEF CodeInv, ReloadInv, Acceptable, Loads, Keys
    <2> QED
        BY <2>3, <2>4, <2>5 DEF CodeInv
<1>5. CASE Stat
    <2>1. /\ pc = "stat" /\ UNCHANGED <<file, inst, keys, sig, cand, missed, err>>
          /\ Continue \/ (pc' = "read" /\ then' = then)
        BY <1>5 DEF Stat
    <2>2. \/ pc' = then[Len(then)] /\ pc' \in {"call", "advance"}
          \/ pc' = "stat" /\ then'[Len(then')] = then[Len(then)]
          \/ pc' = "read" /\ then' = then
        BY <1>0, <2>1, ContinueFacts
    <2>3. DeclarationsStay'
        BY <2>1 DEF CodeInv, DeclarationsStay, Keys
    <2>4. ErrorInv'
        BY <2>1, <2>2 DEF CodeInv, ErrorInv
    <2>5. ReloadInv'
        BY <2>1, <2>2 DEF CodeInv, ReloadInv, Acceptable, Loads, Keys
    <2> QED
        BY <2>3, <2>4, <2>5 DEF CodeInv
<1>6. CASE Read
    <2>1. /\ pc = "read" /\ pc' = "adopt" /\ cand' = file
          /\ UNCHANGED <<file, inst, keys, sig, seen, then, missed, err>>
        BY <1>6 DEF Read
    <2>2. DeclarationsStay'
        BY <2>1 DEF CodeInv, DeclarationsStay, Keys
    <2>3. ErrorInv'
        BY <2>1 DEF CodeInv, ErrorInv
    <2>4. ReloadInv'
        BY <1>0, <2>1 DEF CodeInv, ReloadInv, Acceptable, Loads, Keys
    <2> QED
        BY <2>2, <2>3, <2>4 DEF CodeInv
<1>7. CASE Adopt
    <2>1. /\ pc = "adopt" /\ sig' = seen /\ Continue
          /\ inst' = IF Acceptable(cand) THEN cand ELSE inst
          /\ UNCHANGED <<file, keys, missed, err>>
        BY <1>7 DEF Adopt
    <2>2. \/ pc' = then[Len(then)] /\ pc' \in {"call", "advance"}
          \/ pc' = "stat" /\ then'[Len(then')] = then[Len(then)]
        BY <1>0, <2>1, ContinueFacts
    <2>3. DeclarationsStay'
        BY <2>1 DEF CodeInv, DeclarationsStay, Acceptable, Keys
    <2>4. ErrorInv'
        BY <2>1, <2>2 DEF CodeInv, ErrorInv
    <2>5. ReloadInv'
        <3>1. ASSUME file.ver = seen, Acceptable(file) PROVE inst' = file
            <4>1. seen <= cand.ver /\ (cand.ver = file.ver => cand = file)
                BY <2>1 DEF CodeInv, ReloadInv
            <4>2. cand = file
                BY <1>0, <3>1, <4>1
            <4> QED
                BY <2>1, <3>1, <4>2
        <3>2. Acceptable(file)' <=> Acceptable(file)
            BY <2>1 DEF Acceptable, Loads, Keys
        <3> QED
            BY <1>0, <2>1, <2>2, <3>1, <3>2 DEF ReloadInv
    <2> QED
        BY <2>3, <2>4, <2>5 DEF CodeInv
<1>8. CASE CallReturns \/ CallRaises \/ DecisionRefused
    <2>1. /\ pc = "call" /\ UNCHANGED <<file, inst, keys, sig, seen, cand, missed>>
          /\ \/ err' = FALSE
             \/ pc' = "advance" /\ inst.kind = "fails"
             \/ pc' = "done"
          /\ pc' \in {"stat", "advance", "done"}
        BY <1>8 DEF CallReturns, CallRaises, DecisionRefused, ClearError, Fail, strategy
    <2>2. DeclarationsStay'
        BY <2>1 DEF CodeInv, DeclarationsStay, Keys
    <2>3. ErrorInv'
        BY <2>1 DEF ErrorInv
    <2>4. ReloadInv'
        BY <2>1 DEF CodeInv, ReloadInv, Acceptable, Loads, Keys
    <2> QED
        BY <2>2, <2>3, <2>4 DEF CodeInv
<1>9. CASE Edit
    <2>1. /\ file'.ver = file.ver + 1
          /\ UNCHANGED <<inst, keys, sig, seen, cand, then, missed, err, pc>>
        BY <1>9 DEF Edit, strategy
    <2>2. file'.ver # sig /\ cand.ver # file'.ver /\ file'.ver \in Nat \ {0}
        BY <1>0, <2>1
    <2>3. DeclarationsStay' /\ ErrorInv'
        BY <2>1 DEF CodeInv, DeclarationsStay, ErrorInv, Keys
    <2>4. ReloadInv'
        BY <2>1, <2>2 DEF CodeInv, ReloadInv
    <2> QED
        BY <2>3, <2>4 DEF CodeInv
<1>10. CASE UNCHANGED vars
    <2>1. UNCHANGED <<file, strategy, err, pc>>
        BY <1>10 DEF vars
    <2> QED
        BY <2>1, CodeKept
<1> QED
    BY <1>1, <1>2, <1>3, <1>4, <1>5, <1>6, <1>7, <1>8, <1>9, <1>10
       DEF Next, Thread, Environment

LEMMA CodeAlways == Spec => [](TypeInv /\ CodeInv)
BY InitType, NextType, InitCode, NextCode, PTL DEF Spec

\* What runs is what was admitted: the instance keeps the declared inputs
\* through every reload, and the error a running session shows between two
\* bars is that of the code it still runs (_maybe_reload_strategy,
\* _persist_runtime_error, _clear_runtime_error).
THEOREM AdmittedCodeRuns == Spec => []CodeSound
<1>1. TypeInv /\ CodeInv => CodeSound
    BY DEF CodeInv, ErrorInv, CodeSound, ErrorIsOfThisCode
<1> QED
    BY <1>1, CodeAlways, PTL

\* A reload catches up with the file: code that is called is the file's, when
\* the file may be taken and has not changed since the bar looked at it, save
\* for an edit the constructor marked as known (_maybe_reload_strategy).
THEOREM ReloadIsCurrent == Spec => []ReloadCatchesUp
<1>1. TypeInv /\ CodeInv => ReloadCatchesUp
    BY DEF CodeInv, ReloadInv, ReloadCatchesUp
<1> QED
    BY <1>1, CodeAlways, PTL

---------------------------------------------------------------------------
(* The replay                                                              *)

\* The bars that wait for their turn: those of the heap and the one in hand.
Current == IF pc \in InHand THEN heap \cup {bar} ELSE heap

\* The rows of a page are stored rows up to the cursor.
PageInv(s) ==
    LET c == cursor[s] IN
    /\ c.page \subseteq rows[s] /\ \A t \in c.page : t <= c.time
    /\ c.page # {} => c.time \in c.page

\* A filled stream has one bar waiting, older than the rest of its page and
\* than what is still to be fetched, or nothing is left of it.
TurnInv(s) ==
    LET c == cursor[s] IN
    /\ \A b \in Current : b[2] = s =>
         b[1] <= c.time /\ \A t \in c.page : b[1] < t
    /\ s <= primed =>
         (\E b \in Current : b[2] = s) \/ (c.page = {} /\ c.exhausted)
    /\ primed < s => c.page = {} /\ \A b \in Current : b[2] # s

\* Of the rows stored at the beginning none is forgotten.
CompleteInv(s) ==
    LET c == cursor[s] IN
    \A t \in rows[s] :
      \/ <<t, s>> \in added \cup Given \cup Current
      \/ t \in c.page \/ (c.time < t /\ ~c.exhausted)

\* What was given comes before what waits.
OrderInv ==
    /\ pc \in {"construct", "sign"} => primed = 0
    /\ pc \in {"construct", "sign", "prime"} => out = <<>>
    /\ pc \in InHand \cup {"pop"} => primed = Len(Steps)
    /\ pc = "pop" => \A g \in Given, c \in heap : Before(g, c)
    /\ pc \in InHand => \A c \in heap : Before(bar, c)
    /\ pc = "bar" => \A g \in Given : Before(g, bar)
    /\ pc \in Handling => bar \in Given /\ \A g \in Given : g = bar \/ Before(g, bar)

\* What is stored, given and seen.
StoreInv ==
    /\ \A s \in Streams : PageInv(s)
    /\ \A b \in heap \cup Given : b[1] \in rows[b[2]]
    /\ pc \in InHand => bar[1] \in rows[bar[2]]
    /\ \A b, c \in Current : b[2] = c[2] => b = c
    /\ \A i, j \in 1..Len(out) : i < j => Before(out[i], out[j])

ViewInv ==
    /\ \A s \in Streams : view[s] = 0 \/ <<view[s], s>> \in Given
    /\ pc = "construct" => out = <<>>
    /\ \A g \in Given : g[2] \in keys => g[1] <= view[g[2]]
    /\ pc \in Reloading \cup {"call"} => trigger = bar

AllGiven ==
    \A s \in Streams : \A t \in rows[s] : <<t, s>> \notin added => <<t, s>> \in Given
EndInv == status = "finished" => pc = "done" /\ AllGiven

ReplayInv ==
    /\ StoreInv /\ ViewInv /\ EndInv
    /\ pc # "done" =>
         OrderInv /\ \A s \in Streams : TurnInv(s) /\ CompleteInv(s)

LEMMA GivenFacts ==
    ASSUME out \in Seq(Bars)
    PROVE  /\ Given \subseteq Bars /\ (out = <<>> => Given = {})
           /\ \A b \in Bars : {Append(out, b)[i] : i \in 1..Len(Append(out, b))} = Given \cup {b}
<1>1. Given \subseteq Bars
    BY DEF Given
<1>2. out = <<>> => Given = {}
    <2>1. out = <<>> => Len(out) = 0
        OBVIOUS
    <2>2. Len(out) = 0 => 1..Len(out) = {}
        OBVIOUS
    <2> QED
        BY <2>1, <2>2 DEF Given
<1>3. ASSUME NEW b \in Bars
      PROVE  {Append(out, b)[i] : i \in 1..Len(Append(out, b))} = Given \cup {b}
    <2> DEFINE q == Append(out, b)
    <2>1. /\ Len(q) = Len(out) + 1 /\ Len(out) \in Nat
          /\ \A i \in 1..Len(out) : q[i] = out[i]
          /\ q[Len(out) + 1] = b
        OBVIOUS
    <2> HIDE DEF q
    <2>2. \A i : i \in 1..Len(q) <=> i \in 1..Len(out) \/ i = Len(out) + 1
        BY <2>1
    <2>3. {q[i] : i \in 1..Len(q)} = Given \cup {b}
        BY <2>1, <2>2 DEF Given
    <2> QED
        BY <2>3 DEF q
<1> QED
    BY <1>1, <1>2, <1>3

LEMMA BeforeFacts ==
    /\ \A a, b, c \in Bars : Before(a, b) /\ Before(b, c) => Before(a, c)
    /\ \A b \in Bars : ~Before(b, b)
    /\ \A b, c \in Bars : Before(b, c) => b[1] <= c[1]
    /\ \A b, c \in Bars : b[2] = c[2] /\ b[1] < c[1] => Before(b, c)
    /\ \A b, c \in Bars : b[1] < c[1] => Before(b, c)
    /\ \A a, b, c \in Bars : Before(a, b) /\ b[2] = c[2] /\ b[1] <= c[1] => Before(a, c)
<1>1. \A b \in Bars : b[1] \in Int /\ b[2] \in Int
    <2>1. \A b \in Bars : b[1] \in 1..End /\ b[2] \in 1..Len(Steps)
        BY BarFacts, StreamFacts
    <2> QED
        BY <2>1
<1> QED
    BY <1>1 DEF Before

LEMMA InitReplay == Init => ReplayInv
<1> SUFFICES ASSUME Init PROVE ReplayInv
    OBVIOUS
<1> USE DEF Reloading, Handling, InHand
<1>1. /\ pc = "construct" /\ out = <<>> /\ heap = {} /\ primed = 0 /\ status = "running"
      /\ view = [s \in Streams |-> 0]
      /\ cursor = [s \in Streams |->
           [time |-> Start - Steps[s], page |-> {}, exhausted |-> FALSE]]
      /\ \A s \in Streams : rows[s] \subseteq Grid(s)
    BY DEF Init
<1>2. Current = {} /\ Given = {}
    BY <1>1, InitType, GivenFacts DEF Current, TypeInv, ReplayTypes
<1>3. \A s \in Streams : /\ cursor[s].page = {} /\ ~cursor[s].exhausted
                         /\ cursor[s].time = Start - Steps[s]
    BY <1>1
<1>4. StoreInv
    <2>1. Len(out) = 0
        BY <1>1
    <2>2. 1..Len(out) = {}
        BY <2>1
    <2> QED
        BY <1>1, <1>2, <1>3, <2>2 DEF StoreInv, PageInv
<1>5. ViewInv
    BY <1>1, <1>2 DEF ViewInv
<1>6. EndInv
    BY <1>1 DEF EndInv
<1>7. OrderInv
    BY <1>1, <1>2 DEF OrderInv
<1>8. ASSUME NEW s \in Streams PROVE TurnInv(s) /\ CompleteInv(s)
    <2>1. TurnInv(s)
        <3>1. ~(s <= 0)
            BY StreamFacts
        <3> QED
            BY <1>1, <1>2, <1>3, <3>1 DEF TurnInv
    <2>2. \A t \in rows[s] : Start - Steps[s] < t
        BY <1>1 DEF Grid
    <2>3. CompleteInv(s)
        BY <1>3, <2>2 DEF CompleteInv
    <2> QED
        BY <2>1, <2>3
<1> QED
    BY <1>4, <1>5, <1>6, <1>7, <1>8 DEF ReplayInv

\* Steps that leave the replay and the store alone: the thread stays in the
\* part of the loop it is in, or ends.
LEMMA ReplayKept ==
    ASSUME TypeInv, ReplayInv, UNCHANGED <<rows, added, replay, view, trigger>>,
           \/ pc' = pc \/ pc' = "done" \/ (pc = "construct" /\ pc' = "sign")
           \/ (pc = "sign" /\ pc' = "prime")
           \/ (pc \in Reloading \cup {"call"} /\ pc' \in Handling),
           keys' = keys \/ pc = "construct",
           status' = "finished" => status = "finished" \/ (pc' = "done" /\ AllGiven)
    PROVE  ReplayInv'
<1> USE DEF Reloading, Handling, InHand
<1>1. UNCHANGED <<rows, added, cursor, primed, heap, bar, out, view, trigger>>
    BY DEF replay
<1>2. Given' = Given /\ (pc = "construct" => Given = {})
    BY <1>1, GivenFacts DEF Given, TypeInv, ReplayTypes, ReplayInv, ViewInv
<1>3. /\ Current' \subseteq Current
      /\ pc' # "done" => Current' = Current
    BY <1>1 DEF Current
<1>4. StoreInv'
    BY <1>1, <1>2, <1>3 DEF ReplayInv, StoreInv, PageInv
<1>5. ViewInv'
    BY <1>1, <1>2 DEF ReplayInv, ViewInv
<1>6. EndInv'
    BY <1>1, <1>2 DEF ReplayInv, EndInv, AllGiven
<1>7. pc' # "done" => OrderInv'
    BY <1>1, <1>2 DEF ReplayInv, OrderInv
<1>8. ASSUME pc' # "done", NEW s \in Streams PROVE TurnInv(s)' /\ CompleteInv(s)'
    <2>1. pc # "done" /\ TurnInv(s) /\ CompleteInv(s)
        BY <1>8 DEF ReplayInv
    <2> QED
        BY <1>1, <1>2, <1>3, <1>8, <2>1 DEF TurnInv, CompleteInv
<1> QED
    BY <1>4, <1>5, <1>6, <1>7, <1>8 DEF ReplayInv

\* heappop takes the oldest bar that waits into the hand.
LEMMA PopReplay ==
    ASSUME TypeInv, ReplayInv, Pop
    PROVE  ReplayInv'
<1> USE DEF Reloading, Handling, InHand
<1>1. /\ UNCHANGED <<rows, added, cursor, primed, out, view, trigger, keys, status>>
      /\ pc = "pop" /\ pc' \in {"bar", "done"}
    BY DEF Pop, store, strategy
<1>2. /\ bar' \in heap /\ heap' = heap \ {bar'}
      /\ \A d \in heap : d # bar' => Before(bar', d)
    BY DEF Pop
<1>3. Given' = Given
    BY <1>1 DEF Given
<1>4. /\ Current = heap /\ Current' \subseteq Current
      /\ pc' # "done" => Current' = Current
    BY <1>1, <1>2 DEF Current
<1>5. StoreInv'
    BY <1>1, <1>2, <1>3, <1>4 DEF ReplayInv, StoreInv, PageInv
<1>6. ViewInv'
    BY <1>1, <1>3 DEF ReplayInv, ViewInv
<1>7. EndInv'
    BY <1>1 DEF ReplayInv, EndInv
<1>8. pc' # "done" => OrderInv'
    BY <1>1, <1>2, <1>3 DEF ReplayInv, OrderInv
<1>9. ASSUME pc' # "done", NEW s \in Streams PROVE TurnInv(s)' /\ CompleteInv(s)'
    <2>1. TurnInv(s) /\ CompleteInv(s)
        BY <1>1 DEF ReplayInv
    <2> QED
        BY <1>1, <1>3, <1>4, <1>9, <2>1 DEF TurnInv, CompleteInv
<1> QED
    BY <1>5, <1>6, <1>7, <1>8, <1>9 DEF ReplayInv

\* The bar in hand is given to the engine and enters the view.
LEMMA DeliverReplay ==
    ASSUME TypeInv, ReplayInv, Deliver
    PROVE  ReplayInv'
<1> USE DEF Reloading, Handling, InHand
<1>0. /\ out \in Seq(Bars) /\ bar \in Bars /\ heap \subseteq Bars
      /\ view \in [Streams -> 0..End]
    BY DEF Deliver, TypeInv, ReplayTypes
<1>1. /\ UNCHANGED <<rows, added, cursor, primed, heap, bar, keys, status>>
      /\ pc = "bar" /\ out' = Append(out, bar) /\ pc' \in Handling
    BY DEF Deliver, store
<1>2. \/ bar[2] \notin keys /\ pc' = "advance" /\ UNCHANGED <<view, trigger>>
      \/ bar[2] \in keys /\ view' = [view EXCEPT ![bar[2]] = bar[1]] /\ trigger' = bar
    BY DEF Deliver, Routed, Update
<1>3. Given' = Given \cup {bar} /\ Given \subseteq Bars
    BY <1>0, <1>1, GivenFacts DEF Given
<1>4. Current' = Current
    BY <1>1 DEF Current
<1>5. \A g \in Given : Before(g, bar)
    BY <1>1 DEF ReplayInv, OrderInv
<1>6. StoreInv'
    <2>1. \A i, j \in 1..Len(out') : i < j => Before(out'[i], out'[j])
        <3>1. /\ Len(out') = Len(out) + 1 /\ Len(out) \in Nat
              /\ \A i \in 1..Len(out) : out'[i] = out[i]
              /\ out'[Len(out) + 1] = bar
            BY <1>0, <1>1
        <3>2. ASSUME NEW i \in 1..Len(out'), NEW j \in 1..Len(out'), i < j
              PROVE  Before(out'[i], out'[j])
            <4>1. i \in 1..Len(out)
                BY <3>1, <3>2
            <4>2. CASE j \in 1..Len(out)
                BY <3>1, <3>2, <4>1, <4>2 DEF ReplayInv, StoreInv
            <4>3. CASE j = Len(out) + 1
                <5>1. out[i] \in Given
                    BY <4>1 DEF Given
                <5> QED
                    BY <1>5, <3>1, <4>1, <4>3, <5>1
            <4> QED
                BY <3>1, <4>2, <4>3
        <3> QED
            BY <3>2
    <2>2. \A b \in heap' \cup Given' : b[1] \in rows'[b[2]]
        BY <1>1, <1>3 DEF ReplayInv, StoreInv
    <2> QED
        BY <1>1, <1>4, <2>1, <2>2 DEF ReplayInv, StoreInv, PageInv
<1>7. ViewInv'
    <2>1. bar[2] \in Streams /\ bar[1] \in 1..End /\ <<bar[1], bar[2]>> = bar
        BY <1>0, BarFacts
    <2>2. ASSUME NEW s \in Streams PROVE view'[s] = 0 \/ <<view'[s], s>> \in Given'
        <3>1. view'[s] = view[s] \/ (s = bar[2] /\ view'[s] = bar[1])
            BY <1>0, <1>2, <2>1
        <3> QED
            BY <1>3, <2>1, <3>1 DEF ReplayInv, ViewInv
    <2>3. ASSUME NEW g \in Given', g[2] \in keys PROVE g[1] <= view'[g[2]]
        <3>1. g \in Bars /\ g[2] \in Streams /\ g[1] \in 1..End
            BY <1>0, <1>3, BarFacts
        <3>2. CASE g[2] = bar[2]
            <4>1. view'[g[2]] = bar[1]
                BY <1>0, <1>2, <2>1, <2>3, <3>2
            <4>2. g = bar \/ Before(g, bar)
                BY <1>3, <1>5
            <4>3. g[1] <= bar[1]
                BY <1>0, <2>1, <3>1, <4>2, BeforeFacts
            <4> QED
                BY <4>1, <4>3
        <3>3. CASE g[2] # bar[2]
            <4>1. view'[g[2]] = view[g[2]]
                BY <1>0, <1>2, <2>1, <3>1, <3>3
            <4>2. g \in Given
                BY <1>3, <3>3
            <4> QED
                BY <2>3, <4>1, <4>2 DEF ReplayInv, ViewInv
        <3> QED
            BY <3>2, <3>3
    <2>4. pc' \in Reloading \cup {"call"} => trigger' = bar'
        BY <1>1, <1>2
    <2> QED
        BY <1>1, <2>2, <2>3, <2>4 DEF ViewInv
<1>8. EndInv'
    BY <1>1 DEF ReplayInv, EndInv
<1>9. OrderInv'
    BY <1>1, <1>3, <1>5 DEF ReplayInv, OrderInv
<1>10. ASSUME NEW s \in Streams PROVE TurnInv(s)' /\ CompleteInv(s)'
    <2>1. TurnInv(s) /\ CompleteInv(s)
        BY <1>1 DEF ReplayInv
    <2> QED
        BY <1>1, <1>3, <1>4, <2>1 DEF TurnInv, CompleteInv
<1> QED
    BY <1>6, <1>7, <1>8, <1>9, <1>10 DEF ReplayInv

\* A row that is stored during the run is not missed.
LEMMA BackfillReplay ==
    ASSUME TypeInv, ReplayInv, Backfill
    PROVE  ReplayInv'
<1> USE DEF Reloading, Handling, InHand
<1>1. UNCHANGED <<cursor, primed, heap, bar, out, view, trigger, keys, status, pc>> /\ pc # "done"
    BY DEF Backfill, replay, strategy
<1>2. PICK r \in Streams : \E u \in Grid(r) \ rows[r] :
        rows' = [rows EXCEPT ![r] = @ \cup {u}] /\ added' = added \cup {<<u, r>>}
    BY DEF Backfill
<1>3. PICK u \in Grid(r) \ rows[r] :
        rows' = [rows EXCEPT ![r] = @ \cup {u}] /\ added' = added \cup {<<u, r>>}
    BY <1>2
<1>4. \A s \in Streams : rows[s] \subseteq rows'[s]
                         /\ \A t \in rows'[s] : t \in rows[s] \/ <<t, s>> \in added'
    BY <1>3 DEF TypeInv, ReplayTypes
<1>5. Given' = Given /\ Current' = Current /\ Given \subseteq Bars /\ heap \subseteq Bars
    BY <1>1, GivenFacts DEF Given, Current, TypeInv, ReplayTypes
<1>6. \A b \in Bars : b[2] \in Streams
    BY BarFacts
<1>7. StoreInv'
    <2>1. \A b \in heap' \cup Given' : b[1] \in rows'[b[2]]
        BY <1>1, <1>4, <1>5, <1>6 DEF ReplayInv, StoreInv
    <2>2. pc' \in InHand => bar'[1] \in rows'[bar'[2]]
        BY <1>1, <1>4, <1>6 DEF ReplayInv, StoreInv, TypeInv, ReplayTypes
    <2>3. \A s \in Streams : PageInv(s)'
        BY <1>1, <1>4 DEF ReplayInv, StoreInv, PageInv
    <2> QED
        BY <1>1, <1>5, <2>1, <2>2, <2>3 DEF ReplayInv, StoreInv
<1>8. ViewInv'
    BY <1>1, <1>5 DEF ReplayInv, ViewInv
<1>9. EndInv'
    BY <1>1 DEF ReplayInv, EndInv
<1>10. OrderInv'
    BY <1>1, <1>5 DEF ReplayInv, OrderInv
<1>11. ASSUME NEW s \in Streams PROVE TurnInv(s)' /\ CompleteInv(s)'
    <2>1. TurnInv(s) /\ CompleteInv(s)
        BY <1>1 DEF ReplayInv
    <2>2. added \subseteq added'
        BY <1>3
    <2> QED
        BY <1>1, <1>4, <1>5, <2>1, <2>2 DEF TurnInv, CompleteInv
<1> QED
    BY <1>7, <1>8, <1>9, <1>10, <1>11 DEF ReplayInv

\* A cursor c of stream s, filled when that was due, gives its first row to
\* the heap: the stream has no bar waiting, what is not given is on the page
\* or still to be fetched, and everything on the page or to be fetched is
\* newer than what was given.
LEMMA PushReplay ==
    ASSUME TypeInv, ReplayInv, NEW s \in Streams, NEW c \in Cursors, PopPush(s, c),
           UNCHANGED <<rows, added, out, view, trigger, keys, status, bar>>,
           pc \in {"prime", "advance"}, pc' \in {"prime", "pop"},
           pc' = "prime" => pc = "prime" /\ out = <<>>,
           primed' \in 0..Len(Steps), s <= primed', pc' = "pop" => primed' = Len(Steps),
           \A r \in Streams : r # s => (r <= primed' <=> r <= primed),
           \A b \in heap : b[2] # s,
           \A b \in Given, d \in heap : Before(b, d),
           \A b \in Given : b[2] = s \/ b \notin Current,
           \A b \in Given, t \in c.page : Before(b, <<t, s>>),
           c.page \subseteq rows[s], \A t \in c.page : t <= c.time,
           c.page # {} => c.time \in c.page,
           c.page = {} => c.exhausted,
           \A t \in rows[s] : \/ <<t, s>> \in added \cup Given \/ t \in c.page
                              \/ (c.time < t /\ ~c.exhausted)
    PROVE  ReplayInv'
<1> USE DEF Reloading, Handling, InHand
<1> DEFINE new == {<<t, s>> : t \in First(c.page)}
<1>0. /\ cursor \in [Streams -> Cursors] /\ heap \subseteq Bars /\ out \in Seq(Bars)
      /\ primed \in 0..Len(Steps) /\ rows \in [Streams -> SUBSET (1..End)]
      /\ c.page \in SUBSET (1..End) /\ c.time \in Int
    BY DEF TypeInv, ReplayTypes, Cursors
<1>1. /\ cursor'[s].time = c.time /\ cursor'[s].exhausted = c.exhausted
      /\ cursor'[s].page = c.page \ First(c.page)
      /\ \A r \in Streams : r # s => cursor'[r] = cursor[r]
      /\ heap' = heap \cup new
    BY <1>0, PopPushFacts
<1>2. /\ First(c.page) \subseteq c.page
      /\ \A t \in First(c.page), u \in c.page : t <= u /\ (t = u \/ u \notin First(c.page))
      /\ c.page # {} => First(c.page) # {}
    BY <1>0, FirstFacts
<1>3. \A b \in new : b \in Bars /\ b[2] = s /\ b[1] \in First(c.page) /\ b = <<b[1], s>>
    BY <1>0, <1>2, BarFacts
<1>4. \A t \in First(c.page) : <<t, s>> \in new
    OBVIOUS
<1>5. \A b, d \in new : b = d
    <2>1. \A t, u \in First(c.page) : t = u
        BY <1>2
    <2> QED
        BY <2>1
<1> HIDE DEF new
<1>6. Given' = Given /\ Given \subseteq Bars
    BY <1>0, GivenFacts DEF Given
<1>7. Current' = heap \cup new
    BY <1>1 DEF Current
<1>8. heap \subseteq Current /\ \A b \in Current : b \in heap \/ (pc = "advance" /\ b = bar)
    BY DEF Current
<1>9. ASSUME NEW r \in Streams, r # s PROVE \A b \in Current' : b[2] = r => b \in heap /\ b \in Current
    BY <1>3, <1>7, <1>8, <1>9
<1>10. StoreInv'
    <2>1. PageInv(s)'
        <3>1. cursor'[s].page # {} => c.time \in cursor'[s].page
            <4>1. ASSUME c.time \in First(c.page), NEW u \in c.page PROVE u = c.time
                <5>1. c.time <= u /\ u <= c.time /\ u \in 1..End
                    BY <1>0, <1>2, <4>1
                <5> QED
                    BY <1>0, <5>1
            <4> QED
                BY <1>1, <4>1
        <3> QED
            BY <1>1, <3>1 DEF PageInv
    <2>2. \A r \in Streams : r # s => PageInv(r)'
        BY <1>1 DEF ReplayInv, StoreInv, PageInv
    <2>3. \A b \in heap' \cup Given' : b[1] \in rows'[b[2]]
        <3>1. \A b \in new : b[1] \in rows[b[2]]
            BY <1>2, <1>3
        <3> QED
            BY <1>1, <1>6, <3>1 DEF ReplayInv, StoreInv
    <2>4. \A b, d \in Current' : b[2] = d[2] => b = d
        BY <1>3, <1>5, <1>7, <1>8 DEF ReplayInv, StoreInv
    <2> QED
        BY <2>1, <2>2, <2>3, <2>4 DEF ReplayInv, StoreInv
<1>11. ViewInv'
    BY <1>6 DEF ReplayInv, ViewInv
<1>12. EndInv'
    BY DEF ReplayInv, EndInv
<1>13. OrderInv'
    <2>1. \A g \in Given, d \in heap' : Before(g, d)
        BY <1>1, <1>2, <1>3
    <2> QED
        BY <1>6, <2>1 DEF ReplayInv, OrderInv
<1>14. TurnInv(s)'
    <2>1. \A b \in Current' : b[2] = s => b[1] <= c.time /\ \A t \in cursor'[s].page : b[1] < t
        <3>1. ASSUME NEW b \in Current', b[2] = s, NEW t \in cursor'[s].page PROVE b[1] < t
            <4>1. b \in new /\ b[1] \in First(c.page) /\ t \in c.page /\ t \notin First(c.page)
                BY <1>1, <1>3, <1>7, <3>1
            <4>2. b[1] <= t /\ b[1] # t /\ b[1] \in 1..End /\ t \in 1..End
                BY <1>0, <1>2, <4>1
            <4> QED
                BY <1>0, <4>2
        <3>2. ASSUME NEW b \in Current', b[2] = s PROVE b[1] <= c.time
            BY <1>2, <1>3, <1>7, <3>2
        <3> QED
            BY <3>1, <3>2
    <2>2. (\E b \in Current' : b[2] = s) \/ (cursor'[s].page = {} /\ cursor'[s].exhausted)
        BY <1>1, <1>2, <1>3, <1>4, <1>7
    <2>3. ~(primed' < s)
        BY StreamFacts
    <2> QED
        BY <1>1, <2>1, <2>2, <2>3 DEF TurnInv
<1>15. ASSUME NEW r \in Streams, r # s PROVE TurnInv(r)'
    <2>1. TurnInv(r) /\ cursor'[r] = cursor[r] /\ (r <= primed' <=> r <= primed)
        BY <1>1, <1>15 DEF ReplayInv
    <2>2. primed' < r <=> primed < r
        BY <1>0, <2>1, StreamFacts
    <2>3. ASSUME NEW b \in Current, b[2] = r, r <= primed
          PROVE  \E d \in Current' : d[2] = r
        <3>1. CASE b \in heap
            BY <1>7, <2>3, <3>1
        <3>2. CASE pc = "advance" /\ b = bar
            <4>1. bar \in Given /\ bar \in Current
                BY <1>8, <3>2 DEF ReplayInv, OrderInv, Current
            <4> QED
                BY <1>15, <2>3, <3>2, <4>1
        <3> QED
            BY <1>8, <3>1, <3>2
    <2> QED
        BY <1>9, <1>15, <2>1, <2>2, <2>3 DEF TurnInv
<1>16. CompleteInv(s)'
    <2>1. ASSUME NEW t \in c.page PROVE t \in cursor'[s].page \/ <<t, s>> \in Current'
        BY <1>1, <1>4, <1>7
    <2> QED
        BY <1>1, <1>6, <2>1 DEF CompleteInv
<1>17. ASSUME NEW r \in Streams, r # s PROVE CompleteInv(r)'
    <2>1. CompleteInv(r) /\ cursor'[r] = cursor[r]
        BY <1>1, <1>17 DEF ReplayInv
    <2>2. \A t \in rows[r] : <<t, r>> \in Current => <<t, r>> \in Current' \/ <<t, r>> \in Given
        <3>1. pc = "advance" => bar \in Given
            BY DEF ReplayInv, OrderInv
        <3> QED
            BY <1>7, <1>8, <3>1
    <2> QED
        BY <1>6, <2>1, <2>2 DEF CompleteInv
<1> QED
    BY <1>10, <1>11, <1>12, <1>13, <1>14, <1>15, <1>16, <1>17 DEF ReplayInv

\* The generator resumes: the stream of the bar in hand has the next turn.
LEMMA AdvanceReplay ==
    ASSUME TypeInv, ReplayInv, Advance
    PROVE  ReplayInv'
<1> USE DEF Reloading, Handling, InHand
<1> DEFINE s == bar[2]
<1>0. /\ cursor \in [Streams -> Cursors] /\ heap \subseteq Bars /\ out \in Seq(Bars)
      /\ primed \in 0..Len(Steps) /\ rows \in [Streams -> SUBSET (1..End)]
      /\ bar \in Bars
    BY DEF Advance, TypeInv, ReplayTypes
<1>1. /\ UNCHANGED <<rows, added, out, view, trigger, keys, status, bar, primed>>
      /\ pc = "advance" /\ pc' = "pop"
    BY DEF Advance, store, strategy
<1>2. /\ s \in Streams /\ bar[1] \in 1..End /\ bar = <<bar[1], s>>
      /\ Given \subseteq Bars
    BY <1>0, BarFacts, GivenFacts
<1>3. /\ bar \in Given /\ \A g \in Given : g = bar \/ Before(g, bar)
      /\ \A d \in heap : Before(bar, d)
      /\ primed = Len(Steps) /\ TurnInv(s) /\ CompleteInv(s) /\ PageInv(s)
    BY <1>1, <1>2 DEF ReplayInv, OrderInv, StoreInv
<1>4. Current = heap \cup {bar}
    BY <1>1 DEF Current
<1>5. /\ cursor[s] \in Cursors /\ cursor[s].page \in SUBSET (1..End) /\ cursor[s].time \in Int
      /\ cursor[s].exhausted \in BOOLEAN
      /\ bar[1] <= cursor[s].time /\ \A t \in cursor[s].page : bar[1] < t
    BY <1>0, <1>2, <1>3, <1>4 DEF TurnInv, Cursors
<1>6. \A b \in heap : b[2] # s
    <2> SUFFICES ASSUME NEW b \in heap, b[2] = s PROVE FALSE
        OBVIOUS
    <2>1. b = bar
        BY <1>4 DEF ReplayInv, StoreInv
    <2> QED
        BY <1>0, <1>3, <2>1, BeforeFacts
<1>7. /\ \A b \in Given, d \in heap : Before(b, d)
      /\ \A b \in Given : b[2] = s \/ b \notin Current
    <2>1. \A b \in Given, d \in heap : Before(b, d)
        BY <1>0, <1>2, <1>3, BeforeFacts
    <2>2. \A b \in Given : b \notin heap
        BY <1>0, <2>1, BeforeFacts
    <2> QED
        BY <1>4, <2>1, <2>2
<1>8. \A t \in 1..End : bar[1] < t => \A b \in Given : Before(b, <<t, s>>)
    <2> SUFFICES ASSUME NEW t \in 1..End, bar[1] < t, NEW b \in Given
                 PROVE  Before(b, <<t, s>>)
        OBVIOUS
    <2> DEFINE e == <<t, s>>
    <2>1. e \in Bars /\ e[1] = t
        BY <1>2, BarFacts
    <2> HIDE DEF e
    <2>2. Before(bar, e)
        BY <1>0, <2>1, BeforeFacts
    <2>3. Before(b, e)
        BY <1>0, <1>2, <1>3, <2>1, <2>2, BeforeFacts
    <2> QED
        BY <2>3 DEF e
<1>9. \A t \in rows[s] : \/ <<t, s>> \in added \cup Given \/ t \in cursor[s].page
                         \/ (cursor[s].time < t /\ ~cursor[s].exhausted)
    <2>1. \A t \in rows[s] : <<t, s>> \in Current => <<t, s>> \in Given
        <3>1. \A t \in rows[s] : <<t, s>>[2] = s
            OBVIOUS
        <3> QED
            BY <1>3, <1>4, <1>6, <3>1
    <2> QED
        BY <1>3, <2>1 DEF CompleteInv
<1>10. s <= primed /\ primed \in 0..Len(Steps) /\ primed' = primed
    BY <1>0, <1>1, <1>2, <1>3, StreamFacts
<1> HIDE DEF s
<1>11. CASE ~NeedsPage(s) /\ PopPush(s, cursor[s])
    <2> DEFINE c == cursor[s]
    <2>1. c.page = {} => c.exhausted
        BY <1>11 DEF NeedsPage
    <2>2. /\ c.page \subseteq rows[s] /\ \A t \in c.page : t <= c.time
          /\ c.page # {} => c.time \in c.page
        BY <1>3 DEF PageInv
    <2>3. \A b \in Given, t \in c.page : Before(b, <<t, s>>)
        BY <1>5, <1>8
    <2>4. c \in Cursors /\ PopPush(s, c)
        BY <1>5, <1>11
    <2>5. \A t \in rows[s] : \/ <<t, s>> \in added \cup Given \/ t \in c.page
                             \/ (c.time < t /\ ~c.exhausted)
        BY <1>9
    <2> HIDE DEF c
    <2> QED
        BY <1>1, <1>2, <1>3, <1>6, <1>7, <1>10, <2>1, <2>2, <2>3, <2>4, <2>5, PushReplay
<1>12. ASSUME NeedsPage(s), NEW p \in Pages(s, cursor[s].time),
              PopPush(s, Filled(cursor[s], p))
       PROVE  ReplayInv'
    <2> DEFINE c == Filled(cursor[s], p)
    <2>1. /\ c \in Cursors /\ c.page \subseteq rows[s]
          /\ \A t \in c.page : cursor[s].time < t /\ t <= c.time
          /\ c.page # {} => c.time \in c.page
          /\ c.page = {} => c.exhausted
          /\ \A t \in rows[s] : cursor[s].time < t =>
               t \in c.page \/ (c.time < t /\ ~c.exhausted)
        BY <1>0, <1>2, <1>5, FilledFacts
    <2>2. PopPush(s, c)
        BY <1>12
    <2> HIDE DEF c
    <2>3. \A b \in Given, t \in c.page : Before(b, <<t, s>>)
        <3>1. \A t \in c.page : t \in 1..End /\ bar[1] < t
            <4>1. rows[s] \subseteq 1..End
                BY <1>0, <1>2
            <4> QED
                BY <1>2, <1>5, <2>1, <4>1
        <3> QED
            BY <1>8, <3>1
    <2>4. \A t \in rows[s] : \/ <<t, s>> \in added \cup Given \/ t \in c.page
                             \/ (c.time < t /\ ~c.exhausted)
        BY <1>9, <1>12, <2>1 DEF NeedsPage
    <2>5. \A t \in c.page : t <= c.time
        BY <2>1
    <2> QED
        BY <1>1, <1>2, <1>3, <1>6, <1>7, <1>10, <2>1, <2>2, <2>3, <2>4, <2>5, PushReplay
<1> QED
    BY <1>11, <1>12 DEF Advance, s

\* The first loop fills the streams one after the other.
LEMMA PrimeReplay ==
    ASSUME TypeInv, ReplayInv, Prime
    PROVE  ReplayInv'
<1> USE DEF Reloading, Handling, InHand
<1>0. /\ cursor \in [Streams -> Cursors] /\ heap \subseteq Bars /\ out \in Seq(Bars)
      /\ primed \in 0..Len(Steps) /\ rows \in [Streams -> SUBSET (1..End)]
    BY DEF TypeInv, ReplayTypes
<1>1. /\ UNCHANGED <<rows, added, out, view, trigger, keys, status, bar>>
      /\ pc = "prime" /\ pc' \in {"prime", "pop"} /\ out = <<>>
    BY DEF Prime, store, strategy, ReplayInv, OrderInv
<1>2. Given = {} /\ Current = heap
    BY <1>0, <1>1, GivenFacts DEF Current
<1>3. CASE Unprimed
    <2> DEFINE s == primed + 1
    <2>1. PICK p \in Pages(s, cursor[s].time) : PopPush(s, Filled(cursor[s], p))
        BY <1>3 DEF Prime
    <2>2. primed' = primed + 1 /\ pc' = "prime"
        BY <1>3 DEF Prime
    <2>3. s \in Streams /\ primed < s /\ s <= primed' /\ primed' \in 0..Len(Steps)
          /\ \A r \in Streams : r # s => (r <= primed' <=> r <= primed)
        BY <1>0, <1>3, <2>2, StreamFacts DEF Unprimed
    <2> DEFINE c == Filled(cursor[s], p)
    <2>4. /\ c \in Cursors /\ c.page \subseteq rows[s]
          /\ \A t \in c.page : cursor[s].time < t /\ t <= c.time
          /\ c.page # {} => c.time \in c.page
          /\ c.page = {} => c.exhausted
          /\ \A t \in rows[s] : cursor[s].time < t =>
               t \in c.page \/ (c.time < t /\ ~c.exhausted)
        <3>1. cursor[s] \in Cursors
            BY <1>0, <2>3
        <3> QED
            BY <1>0, <2>1, <2>3, <3>1, FilledFacts
    <2>5. PopPush(s, c)
        BY <2>1
    <2> HIDE DEF c, s
    <2>6. TurnInv(s) /\ CompleteInv(s)
        BY <1>1, <2>3 DEF ReplayInv
    <2>7. cursor[s].page = {} /\ \A b \in heap : b[2] # s
        BY <1>2, <2>3, <2>6 DEF TurnInv
    <2>8. \A t \in rows[s] : \/ <<t, s>> \in added \cup Given \/ t \in c.page
                             \/ (c.time < t /\ ~c.exhausted)
        <3>1. \A t \in rows[s] : <<t, s>> \notin Current
            <4>1. \A t \in rows[s] : <<t, s>>[2] = s
                OBVIOUS
            <4> QED
                BY <1>2, <2>7, <4>1
        <3> QED
            BY <2>4, <2>6, <2>7, <3>1 DEF CompleteInv
    <2>9. \A t \in c.page : t <= c.time
        BY <2>4
    <2> QED
        BY <1>1, <1>2, <2>2, <2>3, <2>4, <2>5, <2>7, <2>8, <2>9, PushReplay
<1>4. CASE ~Unprimed
    <2>1. pc' = "pop" /\ UNCHANGED <<cursor, primed, heap>>
        BY <1>4 DEF Prime
    <2>2. primed = Len(Steps)
        BY <1>0, <1>4, StreamFacts DEF Unprimed
    <2>3. Given' = Given /\ Current' = Current
        BY <1>1, <1>2, <2>1 DEF Given, Current
    <2>4. StoreInv'
        BY <1>1, <2>1, <2>3 DEF ReplayInv, StoreInv, PageInv
    <2>5. ViewInv'
        BY <1>1, <2>1, <2>3 DEF ReplayInv, ViewInv
    <2>6. EndInv' /\ OrderInv'
        BY <1>1, <1>2, <2>1, <2>2, <2>3 DEF ReplayInv, EndInv, OrderInv
    <2>7. ASSUME NEW s \in Streams PROVE TurnInv(s)' /\ CompleteInv(s)'
        <3>1. TurnInv(s) /\ CompleteInv(s)
            BY <1>1 DEF ReplayInv
        <3> QED
            BY <1>1, <2>1, <2>3, <3>1 DEF TurnInv, CompleteInv
    <2> QED
        BY <2>4, <2>5, <2>6, <2>7 DEF ReplayInv
<1> QED
    BY <1>3, <1>4

\* When no bar waits and none is in hand, all were given.
LEMMA FinishReplay ==
    ASSUME TypeInv, ReplayInv, Finish
    PROVE  ReplayInv'
<1> USE DEF Reloading, Handling, InHand
<1>1. /\ UNCHANGED <<rows, added, replay, view, trigger, keys>>
      /\ pc = "pop" /\ heap = {} /\ pc' = "done"
    BY DEF Finish, store, strategy
<1>2. AllGiven
    <2> SUFFICES ASSUME NEW s \in Streams, NEW t \in rows[s], <<t, s>> \notin added
                 PROVE  <<t, s>> \in Given
        BY DEF AllGiven
    <2>1. TurnInv(s) /\ CompleteInv(s) /\ Current = {} /\ s <= primed
        BY <1>1, StreamFacts DEF ReplayInv, OrderInv, Current
    <2>2. cursor[s].page = {} /\ cursor[s].exhausted
        BY <2>1 DEF TurnInv
    <2> QED
        BY <2>1, <2>2 DEF CompleteInv
<1> QED
    BY <1>1, <1>2, ReplayKept

\* What the other steps of the thread and of its surroundings leave alone.
LEMMA OtherReplay ==
    ASSUME TypeInv, ReplayInv,
           \/ Construct \/ Sign \/ FetchFails \/ CallReturns \/ CallRaises
           \/ DecisionRefused \/ Stop \/ Edit \/ UNCHANGED vars
    PROVE  ReplayInv'
<1>1. UNCHANGED <<rows, added, replay, view, trigger>>
    BY DEF Construct, Sign, FetchFails, CallReturns, CallRaises,
       DecisionRefused, Stop, Edit, vars, store
<1>2. keys' = keys \/ pc = "construct"
    BY DEF Construct, Sign, FetchFails, CallReturns, CallRaises,
       DecisionRefused, Stop, Edit, vars, strategy
<1>3. status' = "finished" => status = "finished"
    BY DEF Construct, Sign, FetchFails, CallReturns, CallRaises,
       DecisionRefused, Stop, Edit, Fail, vars
<1>4. \/ pc' = pc \/ pc' = "done" \/ (pc = "construct" /\ pc' = "sign")
      \/ (pc = "sign" /\ pc' = "prime")
      \/ (pc \in Reloading \cup {"call"} /\ pc' \in Handling)
    BY DEF Construct, Sign, FetchFails, CallReturns, CallRaises,
       DecisionRefused, Stop, Edit, Fail, vars, Reloading, Handling
<1> QED
    BY <1>1, <1>2, <1>3, <1>4, ReplayKept

LEMMA ReloadReplay ==
    ASSUME TypeInv, ReplayInv, Stat \/ Read \/ Adopt
    PROVE  ReplayInv'
<1>1. UNCHANGED <<rows, added, replay, view, trigger, keys, status>> /\ pc \in Reloading
    BY DEF Stat, Read, Adopt, store, Reloading
<1>2. pc' \in Handling
    <2>1. ThenOK
        BY DEF TypeInv, CodeTypes
    <2>2. Continue \/ pc' \in {"read", "adopt"}
        BY DEF Stat, Read, Adopt
    <2> QED
        BY <1>1, <2>1, <2>2, ContinueFacts DEF Handling, Reloading
<1> QED
    BY <1>1, <1>2, ReplayKept

LEMMA NextReplay == TypeInv /\ ReplayInv /\ [Next]_vars => ReplayInv'
<1> SUFFICES ASSUME TypeInv, ReplayInv, [Next]_vars PROVE ReplayInv'
    OBVIOUS
<1> QED
    BY PopReplay, DeliverReplay, BackfillReplay, AdvanceReplay, PrimeReplay,
       FinishReplay, OtherReplay, ReloadReplay DEF Next, Thread, Environment

LEMMA ReplayAlways == Spec => [](TypeInv /\ ReplayInv)
BY InitType, NextType, InitReplay, NextReplay, PTL DEF Spec

\* A backtest replays in order, without repetition and completely: bars reach
\* the engine in the order of their open times and of the declaration, and a
\* session that finished has given its engine every bar of the range that was
\* stored when it began, for every page size and whatever is stored meanwhile
\* (PagedBacktestDataSource.iter_klines, _fill, _pop).
THEOREM ReplayIsSound == Spec => []ReplaySound
<1>1. TypeInv /\ ReplayInv => ReplaySound
    <2> SUFFICES ASSUME TypeInv, ReplayInv PROVE ReplaySound
        OBVIOUS
    <2>1. InOrder
        <3>1. \A i \in 1..(Len(out) - 1) : i \in 1..Len(out) /\ i + 1 \in 1..Len(out) /\ i < i + 1
            <4>1. Len(out) \in Nat
                BY DEF TypeInv, ReplayTypes
            <4> QED
                BY <4>1
        <3> QED
            BY <3>1 DEF InOrder, ReplayInv, StoreInv
    <2>2. FinishedIsComplete
        BY DEF FinishedIsComplete, ReplayInv, EndInv, AllGiven
    <2>3. ReplayTypeOK
        <3>1. heap \subseteq UNION {rows[s] \X {s} : s \in Streams}
            <4> SUFFICES ASSUME NEW b \in heap
                         PROVE  \E s \in Streams : b \in rows[s] \X {s}
                OBVIOUS
            <4>1. b \in Bars
                BY DEF TypeInv, ReplayTypes
            <4>2. b[2] \in Streams /\ b = <<b[1], b[2]>>
                BY <4>1, BarFacts
            <4>3. b[1] \in rows[b[2]]
                BY DEF ReplayInv, StoreInv
            <4> QED
                BY <4>2, <4>3
        <3>2. \A b, c \in heap : b[2] = c[2] => b = c
            BY DEF ReplayInv, StoreInv, Current
        <3>3. \A s \in Streams : view[s] \in rows[s] \cup {0}
            <4> SUFFICES ASSUME NEW s \in Streams, view[s] # 0 PROVE view[s] \in rows[s]
                OBVIOUS
            <4> DEFINE g == <<view[s], s>>
            <4>1. g \in Given /\ g[1] = view[s] /\ g[2] = s
                BY DEF ReplayInv, ViewInv
            <4> HIDE DEF g
            <4> QED
                BY <4>1 DEF ReplayInv, StoreInv
        <3>4. ASSUME NEW s \in Streams, cursor[s].page # {}
              PROVE  LastOf(cursor[s].page) = cursor[s].time
            <4>1. PageInv(s) /\ cursor[s].page \in SUBSET (1..End) /\ cursor[s].time \in Int
                BY DEF ReplayInv, StoreInv, TypeInv, ReplayTypes, Cursors
            <4>2. /\ LastOf(cursor[s].page) \in cursor[s].page
                  /\ \A u \in cursor[s].page : u <= LastOf(cursor[s].page)
                BY <3>4, <4>1, LastFacts
            <4>3. /\ LastOf(cursor[s].page) <= cursor[s].time
                  /\ cursor[s].time <= LastOf(cursor[s].page)
                  /\ LastOf(cursor[s].page) \in 1..End
                BY <3>4, <4>1, <4>2 DEF PageInv
            <4> QED
                BY <4>1, <4>3
        <3>5. {inst.ver, sig, seen, missed} \subseteq 0..file.ver /\ file.kind \in Kinds
            BY DEF TypeInv, CodeTypes, Versions
        <3>6. /\ rows \in [Streams -> SUBSET (1..End)]
              /\ keys \subseteq Streams /\ primed \in 0..Len(Steps)
              /\ {hot, err} \subseteq BOOLEAN
              /\ status \in {"running", "finished", "failed", "stopped"}
              /\ pc \in Places
            BY DEF TypeInv, ReplayTypes, CodeTypes, FlagTypes
        <3> QED
            BY <3>1, <3>2, <3>3, <3>4, <3>5, <3>6 DEF ReplayTypeOK, Places
    <2> QED
        BY <2>1, <2>2, <2>3 DEF ReplaySound
<1> QED
    BY <1>1, ReplayAlways, PTL

\* When the user's code is called, its view holds of every input the newest
\* stored bar up to the one in hand and none that opens later, and what it is
\* called for is the bar in hand (InputView.update, iter_klines).
THEOREM ViewStaysCurrent == Spec => []ViewIsCurrent
<1>1. TypeInv /\ ReplayInv => ViewIsCurrent
    <2> SUFFICES ASSUME TypeInv, ReplayInv, pc = "call" PROVE
                   /\ trigger = bar
                   /\ \A s \in keys :
                        /\ view[s] <= bar[1]
                        /\ \A t \in rows[s] :
                             (~Before(bar, <<t, s>>) /\ <<t, s>> \notin added) => t <= view[s]
        BY DEF ViewIsCurrent, TriggerSeen, InputSeen
    <2> USE DEF Reloading, Handling, InHand
    <2>1. trigger = bar
        BY DEF ReplayInv, ViewInv
    <2>2. /\ bar \in Bars /\ heap \subseteq Bars /\ Given \subseteq Bars /\ keys \subseteq Streams
          /\ view \in [Streams -> 0..End] /\ cursor \in [Streams -> Cursors]
          /\ rows \in [Streams -> SUBSET (1..End)]
        BY GivenFacts DEF TypeInv, ReplayTypes, CodeTypes
    <2>3. /\ bar \in Given /\ \A g \in Given : g = bar \/ Before(g, bar)
          /\ primed = Len(Steps) /\ \A d \in heap : Before(bar, d)
          /\ Current = heap \cup {bar}
        BY DEF ReplayInv, OrderInv, Current
    <2>4. ASSUME NEW s \in keys PROVE view[s] <= bar[1]
        <3>1. s \in Streams /\ view[s] \in 0..End /\ bar[1] \in 1..End
            BY <2>2, BarFacts
        <3>2. CASE view[s] = 0
            BY <3>1, <3>2
        <3>3. CASE view[s] # 0
            <4> DEFINE g == <<view[s], s>>
            <4>1. g \in Given /\ g[1] = view[s]
                BY <3>1, <3>3 DEF ReplayInv, ViewInv
            <4> HIDE DEF g
            <4>2. g[1] <= bar[1]
                BY <2>2, <2>3, <3>1, <4>1, BeforeFacts
            <4> QED
                BY <4>1, <4>2
        <3> QED
            BY <3>2, <3>3
    <2>5. ASSUME NEW s \in keys, NEW t \in rows[s], ~Before(bar, <<t, s>>), <<t, s>> \notin added
          PROVE  t <= view[s]
        <3> DEFINE e == <<t, s>>
        <3>1. s \in Streams /\ t \in 1..End /\ e \in Bars /\ e[1] = t /\ e[2] = s
            BY <2>2, <2>5, BarFacts
        <3>2. /\ e \in Given \cup Current \/ t \in cursor[s].page
                 \/ (cursor[s].time < t /\ ~cursor[s].exhausted)
              /\ TurnInv(s)
            BY <2>5, <3>1 DEF ReplayInv, CompleteInv
        <3>3. ~Before(bar, e)
            BY <2>5
        <3> HIDE DEF e
        <3>4. e \in Given
            <4>1. e \in Current => e \in Given
                BY <2>3, <3>3
            <4>2. ASSUME NEW b \in Current, b[2] = s, b[1] < t PROVE Before(bar, e)
                <5>1. b \in Bars /\ b[1] \in 1..End
                    BY <2>2, <2>3, BarFacts
                <5>2. Before(b, e)
                    BY <3>1, <4>2, <5>1, BeforeFacts
                <5> QED
                    BY <2>2, <2>3, <3>1, <5>1, <5>2, BeforeFacts
            <4>3. ASSUME t \in cursor[s].page \/ (cursor[s].time < t /\ ~cursor[s].exhausted)
                  PROVE  FALSE
                <5>1. s <= primed
                    BY <2>3, <3>1, StreamFacts
                <5>2. PICK b \in Current : b[2] = s
                    BY <3>2, <4>3, <5>1 DEF TurnInv
                <5>3. b \in Bars /\ b[1] \in 1..End /\ cursor[s].time \in Int
                    BY <2>2, <2>3, <3>1, BarFacts DEF Cursors
                <5>4. b[1] <= cursor[s].time /\ \A u \in cursor[s].page : b[1] < u
                    BY <3>2, <5>2 DEF TurnInv
                <5>5. b[1] < t
                    BY <3>1, <4>3, <5>3, <5>4
                <5> QED
                    BY <3>3, <4>2, <5>2, <5>5
            <4> QED
                BY <3>2, <4>1, <4>3
        <3> QED
            BY <2>5, <3>1, <3>4 DEF ReplayInv, ViewInv
    <2> QED
        BY <2>1, <2>4, <2>5
<1> QED
    BY <1>1, ReplayAlways, PTL

=============================================================================
