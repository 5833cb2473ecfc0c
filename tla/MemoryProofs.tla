----------------------------- MODULE MemoryProofs -----------------------------
(***************************************************************************)
(* Theorems of Memory, for any number of compactions in flight and any     *)
(* thresholds of which a batch is a part.                                  *)
(*                                                                         *)
(* That turns are not forgotten needs that an id of a warm segment never   *)
(* means two segments (Ids), since segments are deleted by the ids read    *)
(* before an await. That batches do not tear needs that the hot layer is   *)
(* an interval, of which a batch in flight is the oldest part or which it  *)
(* has left already (Tail).                                                *)
(***************************************************************************)
EXTENDS Memory, FiniteSetTheorems, WellFoundedInduction, TLAPS

Held == warm \cup UNION {job[w].segments : w \in Worker}
Ids ==
  /\ \A s \in Held : s.id <= lastWarm
  /\ \A s, r \in Held : s.id = r.id => s = r

Tail(k) ==
  /\ k \in 0..lastTurn
  /\ hot = (k + 1)..lastTurn
  /\ k > 0 => lastTurn - k >= HotThreshold + 1 - HotBatch
  /\ \A p \in Batches :
       \/ p \subseteq 1..k
       \/ p = (k + 1)..(k + HotBatch) /\ k + HotThreshold + 1 <= lastTurn

Tailed == \E k \in Nat : Tail(k)

IInv == TypeOK /\ Ids /\ NoTornBatch /\ Tailed /\ NothingForgotten

-----------------------------------------------------------------------------
(* The oldest HotBatch turns of an interval that is longer than HotThreshold. *)
LEMMA OldestOfInterval ==
  ASSUME NEW k \in Nat, NEW n \in Nat, k <= n,
         Cardinality((k + 1)..n) > HotThreshold
  PROVE  /\ k + HotThreshold + 1 <= n
         /\ OldestTurns((k + 1)..n) = (k + 1)..(k + HotBatch)
<1> DEFINE h == (k + 1)..n
<1>1. k + HotThreshold + 1 <= n
  <2>1. Cardinality(h) = IF k + 1 > n THEN 0 ELSE n - (k + 1) + 1
    BY FS_Interval
  <2> QED BY <2>1, MemoryAssumption
<1>2. ASSUME NEW m \in h
      PROVE  Cardinality({i \in h : i < m}) = m - k - 1
  <2>1. {i \in h : i < m} = (k + 1)..(m - 1)
    OBVIOUS
  <2>2. Cardinality((k + 1)..(m - 1)) = IF k + 1 > m - 1 THEN 0 ELSE m - 1 - (k + 1) + 1
    BY FS_Interval
  <2>3. k + 1 <= m /\ m \in Int
    OBVIOUS
  <2>4. Cardinality((k + 1)..(m - 1)) = m - k - 1
    <3> HIDE DEF h
    <3> QED BY <2>2, <2>3
  <2> QED BY ONLY <2>1, <2>4
<1>3. \A m \in h : Cardinality({i \in h : i < m}) < HotBatch <=> m <= k + HotBatch
  BY <1>2, MemoryAssumption
<1>4. OldestTurns(h) = {m \in h : m <= k + HotBatch}
  BY <1>3 DEF OldestTurns
<1>5. {m \in h : m <= k + HotBatch} = (k + 1)..(k + HotBatch)
  BY <1>1, MemoryAssumption
<1> QED BY <1>1, <1>4, <1>5

\* What a set of segments or items covers are turns.
LEMMA CoveredType ==
  ASSUME NEW parts, \A p \in parts : p.turns \in SUBSET Turn
  PROVE  Covered(parts) \in SUBSET Turn
BY DEF Covered

LEMMA JobTypes ==
  /\ NoJob \in Job /\ NoJob.rounds = 0 /\ NoJob.turns = {} /\ NoJob.segments = {}
  /\ \A j \in Job : j.turns \in SUBSET Turn /\ j.segments \in SUBSET Segment
BY DEF NoJob, Job

(***************************************************************************)
(* How a job goes on: it holds an empty batch, the oldest segments, or the *)
(* oldest turns of a hot layer over its threshold; cold items only leave   *)
(* for the trash.                                                          *)
(***************************************************************************)
GoesOn(w, j, c) ==
  /\ j \in Job /\ j.rounds <= MaxRounds
  /\ job' = [job EXCEPT ![w] = j]
  /\ cold' \subseteq c
  /\ trash' = trash \cup Covered(c \ cold')

\* It awaits the summary of some of the segments wm, or nothing.
WarmJob(j, wm) == j.turns = {} /\ j.segments \subseteq wm

\* It awaits that, or the summary of the oldest of the turns h.
AnyJob(j, h, wm) ==
  /\ j.segments \subseteq wm
  /\ \/ j.turns = {}
     \/ j.turns = OldestTurns(h) /\ Cardinality(h) > HotThreshold

LEMMA WarmGoesOn ==
  ASSUME NEW w \in Worker, NEW kind \in {"compact", "dream"},
         NEW r \in Nat, NEW wm \in SUBSET Segment, NEW c \in SUBSET Item,
         TakeWarm(w, kind, r, wm, c)
  PROVE  \E j : GoesOn(w, j, c) /\ WarmJob(j, wm)
<1>1. CASE Cardinality(wm) > WarmThreshold /\ r < Limit(kind)
  <2> DEFINE j == [kind |-> kind, at |-> "warm", rounds |-> r + 1,
                   turns |-> {}, segments |-> OldestWarm(wm)]
  <2>1. /\ job' = [job EXCEPT ![w] = j]
        /\ cold' = c /\ trash' = trash
    BY <1>1 DEF TakeWarm, Suspends
  <2>2. OldestWarm(wm) \subseteq wm
    BY DEF OldestWarm
  <2>3. r + 1 <= MaxRounds
    BY <1>1, MemoryAssumption DEF Limit
  <2>4. j \in Job /\ j.rounds <= MaxRounds
    BY <2>2, <2>3 DEF Job
  <2>5. Covered(c \ cold') = {}
    BY <2>1 DEF Covered
  <2>6. GoesOn(w, j, c)
    BY <2>1, <2>4, <2>5 DEF GoesOn
  <2>7. WarmJob(j, wm)
    BY <2>2 DEF WarmJob
  <2> QED BY <2>6, <2>7
<1>2. CASE ~(Cardinality(wm) > WarmThreshold /\ r < Limit(kind))
  <2>1. Ends(w, kind, c)
    BY <1>2 DEF TakeWarm
  <2>2. cold' \subseteq c
    BY <2>1 DEF Ends, Consolidate, EvictOverflow, MergeDupes
  <2>3. GoesOn(w, NoJob, c)
    BY <2>1, <2>2, JobTypes, MemoryAssumption DEF Ends, GoesOn
  <2>4. WarmJob(NoJob, wm)
    BY JobTypes DEF WarmJob
  <2> QED BY <2>3, <2>4
<1> QED BY <1>1, <1>2

LEMMA HotGoesOn ==
  ASSUME NEW w \in Worker, NEW kind \in {"compact", "dream"},
         NEW r \in Nat, NEW h \in SUBSET Turn, NEW wm \in SUBSET Segment,
         cold \in SUBSET Item,
         TakeHot(w, kind, r, h, wm)
  PROVE  \E j : GoesOn(w, j, cold) /\ AnyJob(j, h, wm)
<1>1. CASE Cardinality(h) > HotThreshold /\ r < Limit(kind)
  <2> DEFINE j == [kind |-> kind, at |-> "hot", rounds |-> r + 1,
                   turns |-> OldestTurns(h), segments |-> {}]
  <2>1. /\ job' = [job EXCEPT ![w] = j]
        /\ cold' = cold /\ trash' = trash
    BY <1>1 DEF TakeHot, Suspends
  <2>2. OldestTurns(h) \subseteq h
    BY DEF OldestTurns
  <2>3. r + 1 <= MaxRounds
    BY <1>1, MemoryAssumption DEF Limit
  <2>4. j \in Job /\ j.rounds <= MaxRounds
    BY <2>2, <2>3 DEF Job
  <2>5. Covered(cold \ cold') = {}
    BY <2>1 DEF Covered
  <2>6. GoesOn(w, j, cold)
    BY <2>1, <2>4, <2>5 DEF GoesOn
  <2>7. AnyJob(j, h, wm)
    BY <1>1 DEF AnyJob
  <2> QED BY <2>6, <2>7
<1>2. CASE ~(Cardinality(h) > HotThreshold /\ r < Limit(kind))
  <2>1. TakeWarm(w, kind, 0, wm, cold)
    BY <1>2 DEF TakeHot
  <2>2. 0 \in Nat
    OBVIOUS
  <2>3. PICK j : GoesOn(w, j, cold) /\ WarmJob(j, wm)
    BY <2>1, <2>2, WarmGoesOn
  <2>4. AnyJob(j, h, wm)
    BY <2>3 DEF WarmJob, AnyJob
  <2> QED BY <2>3, <2>4
<1> QED BY <1>1, <1>2
-----------------------------------------------------------------------------
(***************************************************************************)
(* The hot layer stays an interval and the batches whole, whether a batch  *)
(* leaves it (for the first time or again) or a turn is added, if no job   *)
(* takes a batch but the oldest of what is then hot.                       *)
(***************************************************************************)
HotMoves(b) ==
  \/ lastTurn' = lastTurn /\ hot' = hot \ b
  \/ lastTurn' = lastTurn + 1 /\ hot' = hot \cup {lastTurn + 1}

FromOldest(p) ==
  \/ p = {}
  \/ p = OldestTurns(hot') /\ Cardinality(hot') > HotThreshold

Lies(p, k, n) ==
  \/ p \subseteq 1..k
  \/ p = (k + 1)..(k + HotBatch) /\ k + HotThreshold + 1 <= n

LEMMA TailStep ==
  ASSUME lastTurn \in Nat, Tailed, NoTornBatch,
         NEW b \in Batches \cup {{}}, HotMoves(b),
         \A p \in Batches' : p \in Batches \/ FromOldest(p)
  PROVE  Tailed' /\ NoTornBatch'
<1>1. PICK k \in Nat : Tail(k)
  BY DEF Tailed
<1>2. /\ k <= lastTurn /\ hot = (k + 1)..lastTurn
      /\ k > 0 => lastTurn - k >= HotThreshold + 1 - HotBatch
      /\ \A p \in Batches \cup {{}} : Lies(p, k, lastTurn)
  BY <1>1 DEF Tail, Lies
<1>3. /\ lastTurn' \in Nat
      /\ \E m \in Nat : /\ m <= lastTurn' /\ hot' = (m + 1)..lastTurn'
                        /\ m > 0 => lastTurn' - m >= HotThreshold + 1 - HotBatch
                        /\ \A p \in Batches \cup {{}} : Lies(p, m, lastTurn')
  <2>1. CASE lastTurn' = lastTurn + 1 /\ hot' = hot \cup {lastTurn + 1}
    <3>1. hot' = (k + 1)..lastTurn'
      BY <1>2, <2>1
    <3>2. \A p \in Batches \cup {{}} : Lies(p, k, lastTurn')
      BY <1>2, <2>1, MemoryAssumption DEF Lies
    <3> QED BY <1>2, <2>1, <3>1, <3>2, MemoryAssumption
  <2>2. CASE lastTurn' = lastTurn /\ hot' = hot \ b
    <3>1. CASE b \subseteq 1..k
      <4>1. hot' = (k + 1)..lastTurn'
        BY <1>2, <2>2, <3>1
      <4> QED BY <1>2, <2>2, <4>1
    <3>2. CASE b = (k + 1)..(k + HotBatch) /\ k + HotThreshold + 1 <= lastTurn
      <4> DEFINE m == k + HotBatch
      <4>1. m \in Nat /\ m <= lastTurn'
        BY <2>2, <3>2, MemoryAssumption
      <4>2. hot' = (m + 1)..lastTurn'
        BY <1>2, <2>2, <3>2, MemoryAssumption
      <4>3. lastTurn' - m >= HotThreshold + 1 - HotBatch
        BY <2>2, <3>2, MemoryAssumption
      <4>4. ASSUME NEW p \in Batches \cup {{}}
            PROVE  p \subseteq 1..m
        <5>1. Lies(p, k, lastTurn)
          BY <1>2
        <5> QED BY <5>1, MemoryAssumption DEF Lies
      <4>5. \A p \in Batches \cup {{}} : Lies(p, m, lastTurn')
        BY <4>4 DEF Lies
      <4> HIDE DEF m
      <4> QED BY <2>2, <4>1, <4>2, <4>3, <4>5
    <3> QED BY <1>2, <3>1, <3>2 DEF Lies
  <2> QED BY <2>1, <2>2 DEF HotMoves
<1>4. PICK m \in Nat :
        /\ m <= lastTurn' /\ hot' = (m + 1)..lastTurn'
        /\ m > 0 => lastTurn' - m >= HotThreshold + 1 - HotBatch
        /\ \A p \in Batches \cup {{}} : Lies(p, m, lastTurn')
  BY <1>3
<1>5. ASSUME NEW p \in Batches'
      PROVE  /\ Lies(p, m, lastTurn')
             /\ p \in Batches \/ p = {} \/ p = (m + 1)..(m + HotBatch)
  <2>1. CASE p \in Batches \cup {{}}
    BY <1>4, <2>1
  <2>2. CASE p = OldestTurns(hot') /\ Cardinality(hot') > HotThreshold
    BY <1>3, <1>4, <2>2, OldestOfInterval DEF Lies
  <2> QED BY <2>1, <2>2 DEF FromOldest
<1>6. Tail(m)'
  BY <1>3, <1>4, <1>5 DEF Tail, Lies
<1>7. ASSUME NEW p \in Batches', NEW q \in Batches'
      PROVE  p = q \/ p \cap q = {}
  <2>1. CASE p \in Batches /\ q \in Batches
    BY <2>1 DEF NoTornBatch
  <2>2. CASE p = {} \/ q = {}
    BY <2>2
  <2>3. CASE p = (m + 1)..(m + HotBatch) \/ q = (m + 1)..(m + HotBatch)
    <3>1. Lies(p, m, lastTurn') /\ Lies(q, m, lastTurn')
      BY <1>5
    <3> QED BY <2>3, <3>1, MemoryAssumption DEF Lies
  <2> QED BY <1>5, <2>1, <2>2, <2>3
<1> QED BY <1>6, <1>7 DEF Tailed, NoTornBatch

(***************************************************************************)
(* The shape of a step: a batch b leaves the hot layer or none does, the   *)
(* warm layer gains at most a segment for b, and a job keeps what it holds *)
(* or takes what is there.                                                 *)
(***************************************************************************)
Moves(b) ==
  /\ HotMoves(b)
  /\ \/ lastWarm' = lastWarm /\ warm' \subseteq warm
     \/ /\ lastWarm' = lastWarm + 1
        /\ warm' = warm \cup {[id |-> lastWarm + 1, turns |-> b]}
  /\ \A v \in Worker :
       \/ job'[v] = job[v]
       \/ FromOldest(job'[v].turns) /\ job'[v].segments \subseteq warm'

LEMMA StepKeepsBatches ==
  ASSUME IInv, NEW b \in Batches \cup {{}}, Moves(b)
  PROVE  Tailed' /\ NoTornBatch' /\ Ids'
<1>1. \A p \in Batches' : p \in Batches \/ FromOldest(p)
  <2>1. \A s \in warm' : s.turns \in Batches \cup {{}}
    BY DEF Moves, Batches
  <2>2. \A v \in Worker : job'[v].turns \in Batches \/ FromOldest(job'[v].turns)
    BY DEF Moves, Batches
  <2> QED BY <2>1, <2>2 DEF Batches, FromOldest
<1>2. Tailed' /\ NoTornBatch'
  BY <1>1, TailStep DEF IInv, TypeOK, Moves
<1>3. \A s \in Held' : s \in Held \/ s \in warm'
  BY DEF Held, Moves
<1>4. \A s \in warm' : s \in Held \/ (s.id = lastWarm' /\ lastWarm' = lastWarm + 1)
  BY DEF Held, Moves
<1>5. \A s \in Held' :
        s \in Held \/ (s.id = lastWarm' /\ lastWarm' = lastWarm + 1 /\ s \in warm')
  BY <1>3, <1>4
<1>6. Ids'
  <2>1. lastWarm \in Nat /\ lastWarm' \in {lastWarm, lastWarm + 1}
    BY DEF IInv, TypeOK, Moves
  <2>2. \A s \in Held : s.id \in Nat /\ s.id <= lastWarm
    BY JobTypes DEF IInv, Ids, TypeOK, Held, Segment, Turn
  <2>3. \A s \in Held' : s.id <= lastWarm'
    BY <1>5, <2>1, <2>2
  <2>4. ASSUME NEW s \in Held', NEW r \in Held', s.id = r.id
        PROVE  s = r
    <3>1. CASE s \in Held /\ r \in Held
      BY <2>4, <3>1 DEF IInv, Ids
    <3>2. CASE s \notin Held \/ r \notin Held
      <4>1. s \in warm' /\ r \in warm' /\ s \notin Held /\ r \notin Held
        BY <1>5, <2>1, <2>2, <2>4, <3>2
      <4> QED BY <4>1 DEF Moves, Held
    <3> QED BY <3>1, <3>2
  <2> QED BY <2>3, <2>4 DEF Ids
<1> QED BY <1>2, <1>6
-----------------------------------------------------------------------------
\* What a job does to its own record, to the cold items c and to the trash.
LEMMA GoTypes ==
  ASSUME IInv, NEW w \in Worker, NEW j, NEW c \in SUBSET Item,
         \A i \in c : i.at <= stamp',
         GoesOn(w, j, c), AnyJob(j, hot', warm')
  PROVE  /\ job' \in [Worker -> Job]
         /\ \A v \in Worker :
              /\ job'[v].rounds <= MaxRounds
              /\ \/ job'[v] = job[v]
                 \/ FromOldest(job'[v].turns) /\ job'[v].segments \subseteq warm'
         /\ cold' \in SUBSET Item
         /\ \A i \in cold' : i.at <= stamp'
         /\ trash' \in SUBSET Turn
         /\ trash \subseteq trash'
         /\ Covered(c) \subseteq Covered(cold') \cup trash'
<1>1. job \in [Worker -> Job] /\ trash \in SUBSET Turn
  BY DEF IInv, TypeOK
<1>2. \A v \in Worker : job'[v] = IF v = w THEN j ELSE job[v]
  BY <1>1 DEF GoesOn
<1>3. job' \in [Worker -> Job]
  BY <1>1 DEF GoesOn
<1>4. \A v \in Worker : job'[v].rounds <= MaxRounds
  BY <1>2 DEF IInv, TypeOK, GoesOn
<1>5. FromOldest(j.turns) /\ j.segments \subseteq warm'
  BY DEF AnyJob, FromOldest
<1>6. \A v \in Worker :
        \/ job'[v] = job[v]
        \/ FromOldest(job'[v].turns) /\ job'[v].segments \subseteq warm'
  BY <1>2, <1>5
<1>7. cold' \subseteq c /\ trash' = trash \cup Covered(c \ cold')
  BY DEF GoesOn
<1>8. Covered(c \ cold') \in SUBSET Turn
  BY <1>7, CoveredType DEF Item
<1>9. Covered(c) \subseteq Covered(cold') \cup Covered(c \ cold')
  BY DEF Covered
<1> QED BY <1>1, <1>3, <1>4, <1>6, <1>7, <1>8, <1>9

\* Turns are not forgotten when each layer hands on what leaves it.
LEMMA HandedOn ==
  ASSUME NothingForgotten,
         1..lastTurn' \subseteq 1..lastTurn \cup hot',
         hot \subseteq hot' \cup Covered(warm'),
         Covered(warm) \subseteq Covered(warm') \cup Covered(cold') \cup trash',
         Covered(cold) \subseteq Covered(cold') \cup trash',
         trash \subseteq trash'
  PROVE  NothingForgotten'
BY DEF NothingForgotten

LEMMA InitOK == Init => IInv
<1> SUFFICES ASSUME Init PROVE IInv
  OBVIOUS
<1> USE DEF Init
<1>1. TypeOK
  <2>1. job \in [Worker -> Job] /\ \A w \in Worker : job[w].rounds <= MaxRounds
    BY JobTypes, MemoryAssumption
  <2>2. hot \in SUBSET (1..lastTurn)
    OBVIOUS
  <2> QED BY <2>1, <2>2 DEF TypeOK
<1>2. Held = {}
  BY JobTypes DEF Held
<1>3. \A p \in Batches : p = {}
  BY JobTypes DEF Batches
<1>4. Tail(0)
  BY <1>3 DEF Tail
<1>5. NoTornBatch
  BY <1>3 DEF NoTornBatch
<1> QED BY <1>1, <1>2, <1>4, <1>5 DEF IInv, Ids, Tailed, NothingForgotten

\* A turn that is inserted while no job moves.
LEMMA InsertKeeps ==
  ASSUME IInv, InsertTurn, busy' \in BOOLEAN,
         UNCHANGED <<job, warm, lastWarm, cold, trash, stamp, writes, deaths>>
  PROVE  IInv'
<1>1. TypeOK'
  BY DEF IInv, TypeOK, InsertTurn
<1>2. Moves({})
  BY DEF InsertTurn, HotMoves, Moves
<1>3. NothingForgotten'
  <2>1. 1..lastTurn' \subseteq 1..lastTurn \cup hot' /\ hot \subseteq hot'
    BY DEF IInv, TypeOK, InsertTurn
  <2> QED BY <2>1, HandedOn DEF IInv
<1> QED BY <1>1, <1>2, <1>3, StepKeepsBatches DEF IInv

\* A step that only moves cold items, or gives up the jobs.
LEMMA ColdKeeps ==
  ASSUME IInv,
         UNCHANGED <<hot, lastTurn, warm, lastWarm>>,
         busy' \in BOOLEAN, writes' \in Nat, deaths' \in Nat,
         \A v \in Worker : job'[v] = job[v] \/ job'[v] = NoJob,
         job' \in [Worker -> Job],
         stamp' \in Nat, cold' \in SUBSET Item, \A i \in cold' : i.at <= stamp',
         trash' \in SUBSET Turn, trash \subseteq trash',
         Covered(cold) \subseteq Covered(cold') \cup trash'
  PROVE  IInv'
<1>1. TypeOK'
  BY JobTypes, MemoryAssumption DEF IInv, TypeOK
<1>2. Moves({})
  BY JobTypes DEF HotMoves, Moves, FromOldest
<1>3. NothingForgotten'
  BY HandedOn DEF IInv
<1> QED BY <1>1, <1>2, <1>3, StepKeepsBatches DEF IInv
-----------------------------------------------------------------------------
\* Items written in the place of items whose turns they cover.
LEMMA WriteKeeps ==
  ASSUME IInv, NEW items \in SUBSET Item, NEW replaced, Write(items, replaced),
         \A i \in items : i.at <= stamp',
         Covered(replaced) \subseteq Covered(items)
  PROVE  IInv'
<1>1. /\ stamp' \in Nat /\ writes' \in Nat
      /\ cold' \in SUBSET Item /\ \A i \in cold' : i.at <= stamp'
  BY DEF IInv, TypeOK, Write, Item, Turn
<1>2. Covered(cold) \subseteq Covered(cold')
  BY DEF Write, Covered
<1> QED BY <1>1, <1>2, ColdKeeps DEF IInv, TypeOK, Write

LEMMA NewFactKeeps ==
  ASSUME IInv, NEW s \in Source, NEW b \in Body, Write({NewFact(s, b)}, {})
  PROVE  IInv'
<1>1. NewFact(s, b) \in Item /\ NewFact(s, b).at = stamp'
  BY DEF IInv, TypeOK, Write, NewFact, Item, Turn
<1>2. stamp' \in Nat
  BY DEF IInv, TypeOK, Write
<1>3. Covered({}) = {}
  BY DEF Covered
<1> QED BY <1>1, <1>2, <1>3, WriteKeeps

LEMMA RewriteKeeps ==
  ASSUME IInv, NEW i \in cold, NEW k, Write({k}, {i}),
         k \in Item, k.at = stamp + 1, k.turns = i.turns
  PROVE  IInv'
<1>1. stamp' = stamp + 1 /\ stamp' \in Nat
  BY DEF IInv, TypeOK, Write
<1>2. Covered({i}) \subseteq Covered({k})
  BY DEF Covered
<1>3. {k} \in SUBSET Item /\ \A m \in {k} : m.at <= stamp'
  BY <1>1
<1> QED BY <1>2, <1>3, WriteKeeps

LEMMA RedatedType ==
  ASSUME IInv, NEW i \in cold, NEW b \in Body
  PROVE  /\ Redated(i) \in Item /\ Redated(i).at = stamp + 1
         /\ Redated(i).turns = i.turns
         /\ [Redated(i) EXCEPT !.body = b] \in Item
         /\ [Redated(i) EXCEPT !.body = b].at = stamp + 1
         /\ [Redated(i) EXCEPT !.body = b].turns = i.turns
<1>1. i \in Item /\ stamp + 1 \in Turn
  BY DEF IInv, TypeOK, Turn
<1>2. Redated(i) \in Item /\ Redated(i).at = stamp + 1 /\ Redated(i).turns = i.turns
  BY <1>1 DEF Redated, Item
<1> QED BY <1>2 DEF Item

LEMMA RemoveKeeps ==
  ASSUME IInv, NEW items \in SUBSET cold, Remove(items)
  PROVE  IInv'
<1>1. Covered(items) \in SUBSET Turn
  BY CoveredType DEF IInv, TypeOK, Item
<1>2. Covered(cold) \subseteq Covered(cold') \cup trash'
  BY DEF Remove, Covered
<1> QED BY <1>1, <1>2, ColdKeeps DEF IInv, TypeOK, Remove
-----------------------------------------------------------------------------
\* The steps of a job.
LEMMA NewItemType ==
  ASSUME IInv, NEW w \in Worker, NEW b \in Body
  PROVE  /\ NewItem(w, b) \in Item /\ NewItem(w, b).at = stamp + 1
         /\ NewItem(w, b).turns = Covered(job[w].segments)
<1>1. Covered(job[w].segments) \in SUBSET Turn
  BY JobTypes, CoveredType DEF IInv, TypeOK, Segment
<1> QED BY <1>1 DEF IInv, TypeOK, NewItem, Item, Turn, Source

LEMMA KindType ==
  ASSUME IInv, NEW w \in Worker
  PROVE  /\ job[w].kind \in {"compact", "dream"} /\ job[w].rounds \in Nat
         /\ job[w].turns \in Batches /\ job[w].segments \subseteq Held
         /\ NewSegment(w) \in Segment
BY JobTypes DEF IInv, TypeOK, Job, Batches, Held, NewSegment, Segment, Turn

LEMMA DreamKeeps ==
  ASSUME IInv, NEW w \in Worker, Dream(w)
  PROVE  IInv'
<1>1. PICK j : GoesOn(w, j, cold) /\ AnyJob(j, hot, warm)
  BY HotGoesOn DEF IInv, TypeOK, Dream, Turn
<1>2. AnyJob(j, hot', warm') /\ cold \in SUBSET Item /\ \A i \in cold : i.at <= stamp'
  BY <1>1 DEF Dream, IInv, TypeOK
<1>3. TypeOK'
  BY <1>1, <1>2, GoTypes DEF IInv, TypeOK, Dream
<1>4. Moves({})
  BY <1>1, <1>2, GoTypes DEF Dream, Moves, HotMoves
<1>5. NothingForgotten'
  BY <1>1, <1>2, GoTypes, HandedOn DEF IInv, Dream
<1> QED BY <1>3, <1>4, <1>5, StepKeepsBatches DEF IInv

LEMMA PetTurnKeeps ==
  ASSUME IInv, NEW w \in Worker, PetTurn(w)
  PROVE  IInv'
<1>1. hot' \in SUBSET (1..lastTurn') /\ lastTurn' \in Nat
  BY DEF IInv, TypeOK, PetTurn, InsertTurn
<1>2. PICK j : GoesOn(w, j, cold) /\ AnyJob(j, hot', warm)
  BY <1>1, HotGoesOn DEF IInv, TypeOK, PetTurn, Turn
<1>3. AnyJob(j, hot', warm') /\ cold \in SUBSET Item /\ \A i \in cold : i.at <= stamp'
  BY <1>2 DEF PetTurn, IInv, TypeOK
<1>4. TypeOK'
  BY <1>1, <1>2, <1>3, GoTypes DEF IInv, TypeOK, PetTurn
<1>5. Moves({})
  BY <1>2, <1>3, GoTypes DEF PetTurn, InsertTurn, Moves, HotMoves
<1>6. 1..lastTurn' \subseteq 1..lastTurn \cup hot' /\ hot \subseteq hot'
  BY DEF IInv, TypeOK, PetTurn, InsertTurn
<1>7. NothingForgotten'
  BY <1>2, <1>3, <1>6, GoTypes, HandedOn DEF IInv, PetTurn
<1> QED BY <1>4, <1>5, <1>7, StepKeepsBatches DEF IInv

LEMMA HotSummaryKeeps ==
  ASSUME IInv, NEW w \in Worker, HotSummary(w)
  PROVE  IInv'
<1>1. /\ warm' \in SUBSET Segment /\ lastWarm' \in Nat
      /\ \A s \in warm' : s.id <= lastWarm'
      /\ hot' \in SUBSET (1..lastTurn')
  <2>1. warm' = warm \cup {NewSegment(w)} /\ NewSegment(w).id = lastWarm'
    BY DEF HotSummary, NewSegment
  <2>2. lastWarm' = lastWarm + 1 /\ lastWarm \in Nat
    BY DEF HotSummary, IInv, TypeOK
  <2>3. \A s \in warm : s.id \in Nat /\ s.id <= lastWarm
    BY DEF IInv, TypeOK, Segment, Turn
  <2>4. \A s \in warm' : s.id <= lastWarm'
    BY <2>1, <2>2, <2>3
  <2>5. hot' \in SUBSET (1..lastTurn')
    BY DEF IInv, TypeOK, HotSummary
  <2> QED BY <2>1, <2>2, <2>4, <2>5, KindType DEF IInv, TypeOK
<1>2. PICK j : GoesOn(w, j, cold) /\ AnyJob(j, hot', warm')
  BY <1>1, KindType, HotGoesOn DEF IInv, TypeOK, HotSummary, Turn
<1>3. cold \in SUBSET Item /\ \A i \in cold : i.at <= stamp'
  BY DEF HotSummary, IInv, TypeOK
<1>4. TypeOK'
  BY <1>1, <1>2, <1>3, GoTypes DEF IInv, TypeOK, HotSummary
<1>5. Moves(job[w].turns)
  BY <1>2, <1>3, GoTypes DEF HotSummary, NewSegment, Moves, HotMoves
<1>6. hot \subseteq hot' \cup Covered(warm') /\ Covered(warm) \subseteq Covered(warm')
  BY DEF HotSummary, NewSegment, Covered
<1>7. NothingForgotten'
  BY <1>2, <1>3, <1>6, GoTypes, HandedOn DEF IInv, HotSummary
<1> QED BY <1>4, <1>5, <1>7, KindType, StepKeepsBatches DEF IInv

LEMMA WarmSummaryKeeps ==
  ASSUME IInv, NEW w \in Worker, NEW b \in Body, WarmSummary(w, b)
  PROVE  IInv'
<1> DEFINE c == cold \cup {NewItem(w, b)}
<1>1. /\ warm' \in SUBSET Segment /\ warm' \subseteq warm
      /\ \A s \in warm' : s.id <= lastWarm'
      /\ stamp' \in Nat /\ stamp' = stamp + 1
  BY DEF IInv, TypeOK, WarmSummary, DeleteWarm
<1>2. c \in SUBSET Item /\ \A i \in c : i.at <= stamp'
  BY <1>1, NewItemType DEF IInv, TypeOK, Item, Turn
<1>3. TakeWarm(w, job[w].kind, job[w].rounds, warm', c)
  BY DEF WarmSummary
<1>4. PICK j : GoesOn(w, j, c) /\ WarmJob(j, warm')
  <2> HIDE DEF c
  <2> QED BY <1>1, <1>2, <1>3, KindType, WarmGoesOn
<1>5. AnyJob(j, hot', warm')
  BY <1>4 DEF WarmJob, AnyJob
<1>6. /\ job' \in [Worker -> Job]
      /\ \A v \in Worker :
           /\ job'[v].rounds <= MaxRounds
           /\ \/ job'[v] = job[v]
              \/ FromOldest(job'[v].turns) /\ job'[v].segments \subseteq warm'
      /\ cold' \in SUBSET Item /\ \A i \in cold' : i.at <= stamp'
      /\ trash' \in SUBSET Turn /\ trash \subseteq trash'
      /\ Covered(c) \subseteq Covered(cold') \cup trash'
  <2> HIDE DEF c
  <2> QED BY <1>2, <1>4, <1>5, GoTypes
<1>7. TypeOK'
  BY <1>1, <1>6 DEF IInv, TypeOK, WarmSummary
<1>8. Moves({})
  BY <1>1, <1>6 DEF WarmSummary, Moves, HotMoves
<1>9. Covered(warm) \subseteq Covered(warm') \cup Covered(job[w].segments)
  <2>1. \A s \in warm, r \in job[w].segments : s.id = r.id => s = r
    BY KindType DEF IInv, Ids, Held
  <2>2. \A s \in warm : s \in warm' \/ s \in job[w].segments
    BY <2>1 DEF WarmSummary, DeleteWarm
  <2> QED BY <2>2 DEF Covered
<1>10. Covered(c) = Covered(cold) \cup Covered(job[w].segments)
  BY NewItemType DEF Covered
<1>11. NothingForgotten'
  <2> HIDE DEF c
  <2> QED BY <1>6, <1>9, <1>10, HandedOn DEF IInv, WarmSummary
<1> QED BY <1>7, <1>8, <1>11, StepKeepsBatches DEF IInv
-----------------------------------------------------------------------------
\* The deaths, which may leave a batch and what it became.
LEMMA DiesTypes ==
  ASSUME IInv, Dies
  PROVE  /\ busy' \in BOOLEAN /\ deaths' \in Nat
         /\ job' \in [Worker -> Job]
         /\ \A v \in Worker : job'[v] = NoJob /\ job'[v].rounds <= MaxRounds
<1>1. busy' \in BOOLEAN
  BY DEF Dies
<1>2. deaths' \in Nat
  BY DEF IInv, TypeOK, Dies
<1>3. job' \in [Worker -> Job] /\ \A v \in Worker : job'[v] = NoJob
  BY JobTypes DEF Dies
<1>4. NoJob.rounds <= MaxRounds
  BY JobTypes, MemoryAssumption
<1> QED BY <1>1, <1>2, <1>3, <1>4

LEMMA CrashKeeps ==
  ASSUME IInv, Crash
  PROVE  IInv'
<1>1. Dies
  BY DEF Crash
<1> QED BY <1>1, DiesTypes, ColdKeeps DEF IInv, TypeOK, Crash, layers

LEMMA CrashInHotKeeps ==
  ASSUME IInv, NEW w \in Worker, CrashInHot(w)
  PROVE  IInv'
<1>1. /\ busy' \in BOOLEAN /\ deaths' \in Nat
      /\ job' \in [Worker -> Job]
      /\ \A v \in Worker : job'[v] = NoJob /\ job'[v].rounds <= MaxRounds
  BY DiesTypes DEF CrashInHot
<1>2. /\ warm' \in SUBSET Segment /\ lastWarm' \in Nat
      /\ \A s \in warm' : s.id <= lastWarm'
  <2>1. warm' = warm \cup {NewSegment(w)} /\ NewSegment(w).id = lastWarm'
    BY DEF CrashInHot, NewSegment
  <2>2. lastWarm' = lastWarm + 1 /\ lastWarm \in Nat
    BY DEF CrashInHot, IInv, TypeOK
  <2>3. \A s \in warm : s.id \in Nat /\ s.id <= lastWarm
    BY DEF IInv, TypeOK, Segment, Turn
  <2> QED BY <2>1, <2>2, <2>3, KindType DEF IInv, TypeOK
<1>3. TypeOK'
  BY <1>1, <1>2 DEF IInv, TypeOK, CrashInHot
<1>4. Tailed' /\ NoTornBatch'
  <2>1. \A p \in Batches' : p \in Batches \/ FromOldest(p)
    BY <1>1, KindType, JobTypes DEF CrashInHot, NewSegment, Batches, FromOldest
  <2>2. HotMoves({})
    BY DEF HotMoves, CrashInHot
  <2> QED BY <2>1, <2>2, TailStep DEF IInv, TypeOK
<1>5. Ids'
  <2>1. Held' \subseteq Held \cup {NewSegment(w)}
    BY <1>1, JobTypes DEF Held, CrashInHot
  <2>2. NewSegment(w).id = lastWarm + 1 /\ lastWarm' = lastWarm + 1
    BY DEF CrashInHot, NewSegment
  <2>3. \A s \in Held : s.id \in Nat /\ s.id <= lastWarm
    BY JobTypes DEF IInv, Ids, TypeOK, Held, Segment, Turn
  <2>4. \A s, r \in Held : s.id = r.id => s = r
    BY DEF IInv, Ids
  <2>5. lastWarm \in Nat
    BY DEF IInv, TypeOK
  <2> QED BY <2>1, <2>2, <2>3, <2>4, <2>5 DEF Ids
<1>6. Covered(warm) \subseteq Covered(warm')
  BY DEF CrashInHot, Covered
<1>7. NothingForgotten'
  BY <1>6, HandedOn DEF IInv, CrashInHot
<1> QED BY <1>3, <1>4, <1>5, <1>7 DEF IInv

LEMMA CrashInWarmKeeps ==
  ASSUME IInv, NEW w \in Worker, NEW b \in Body, CrashInWarm(w, b)
  PROVE  IInv'
<1>1. /\ busy' \in BOOLEAN /\ deaths' \in Nat
      /\ job' \in [Worker -> Job] /\ \A v \in Worker : job'[v] = NoJob
  BY DiesTypes DEF CrashInWarm
<1>2. stamp' \in Nat /\ stamp' = stamp + 1
  BY DEF IInv, TypeOK, CrashInWarm
<1>3. cold' \in SUBSET Item /\ \A i \in cold' : i.at <= stamp'
  BY <1>2, NewItemType DEF IInv, TypeOK, CrashInWarm, Item, Turn
<1>4. Covered(cold) \subseteq Covered(cold')
  BY DEF CrashInWarm, Covered
<1> QED BY <1>1, <1>2, <1>3, <1>4, ColdKeeps DEF IInv, TypeOK, CrashInWarm
-----------------------------------------------------------------------------
LEMMA NextOK == IInv /\ [Next]_vars => IInv'
<1> SUFFICES ASSUME IInv, [Next]_vars PROVE IInv'
  OBVIOUS
<1>1. CASE UserTurn
  BY <1>1, InsertKeeps DEF UserTurn
<1>2. CASE TurnFails \/ UNCHANGED vars
  <2>1. busy' \in BOOLEAN /\ UNCHANGED <<job, layers, writes, deaths>>
    BY <1>2 DEF TurnFails, vars, IInv, TypeOK
  <2> QED BY <2>1, ColdKeeps DEF IInv, TypeOK, layers
<1>3. CASE Proactive
  BY <1>3, InsertKeeps DEF Proactive, IInv, TypeOK
<1>4. CASE ClearAll
  BY <1>4, RemoveKeeps DEF ClearAll
<1>5. CASE Crash
  BY <1>5, CrashKeeps
<1>6. ASSUME NEW w \in Worker, PetTurn(w) \/ Dream(w) \/ HotSummary(w) \/ CrashInHot(w)
      PROVE  IInv'
  BY <1>6, PetTurnKeeps, DreamKeeps, HotSummaryKeeps, CrashInHotKeeps
<1>7. ASSUME NEW w \in Worker, NEW b \in Body, WarmSummary(w, b) \/ CrashInWarm(w, b)
      PROVE  IInv'
  BY <1>7, WarmSummaryKeeps, CrashInWarmKeeps
<1>8. ASSUME NEW b \in Body, Remember(b) \/ Extract(b) \/ HandWrite(b)
      PROVE  IInv'
  <2>1. CASE \E i \in cold : Write({Redated(i)}, {i})
    BY <1>8, <2>1, RewriteKeeps, RedatedType
  <2>2. CASE \E s \in Source : Write({NewFact(s, b)}, {})
    BY <1>8, <2>2, NewFactKeeps
  <2> QED BY <1>8, <2>1, <2>2 DEF Remember, Extract, HandWrite, Source
<1>9. ASSUME NEW i \in cold, DeleteItem(i)
      PROVE  IInv'
  BY <1>9, RemoveKeeps DEF DeleteItem
<1>10. ASSUME NEW i \in cold, NEW b \in Body, Edit(i, b)
       PROVE  IInv'
  BY <1>10, RewriteKeeps, RedatedType DEF Edit
<1> QED BY <1>1, <1>2, <1>3, <1>4, <1>5, <1>6, <1>7, <1>8, <1>9, <1>10 DEF Next

\* The inductive invariant holds in every state.
THEOREM Invariant == Spec => []IInv
<1>1. Init => IInv
  BY InitOK
<1>2. IInv /\ [Next]_vars => IInv'
  BY NextOK
<1> QED BY <1>1, <1>2, PTL DEF Spec

\* The variables keep their types, ids and stamps stay below their counters,
\* and no job takes more batches of a layer than a dream may.
THEOREM TypeCorrect == Spec => []TypeOK
<1>1. IInv => TypeOK
  BY DEF IInv
<1> QED BY <1>1, Invariant, PTL

\* No turn is forgotten, however compactions overlap and wherever the process
\* dies.
THEOREM Remembered == Spec => []NothingForgotten
<1>1. IInv => NothingForgotten
  BY DEF IInv
<1> QED BY <1>1, Invariant, PTL

\* Two batches of turns are the same or have none in common.
THEOREM WholeBatches == Spec => []NoTornBatch
<1>1. IInv => NoTornBatch
  BY DEF IInv
<1> QED BY <1>1, Invariant, PTL

\* The latest turns are hot, and none is hot that is older than one that left.
THEOREM RecentHot == Spec => []RecentTurnsStay
<1>1. ASSUME IInv
      PROVE  RecentTurnsStay
  <2>1. PICK k \in Nat : Tail(k)
    BY <1>1 DEF IInv, Tailed
  <2>2. /\ lastTurn \in Nat /\ k <= lastTurn /\ hot = (k + 1)..lastTurn
        /\ k > 0 => lastTurn - k >= HotThreshold + 1 - HotBatch
    BY <1>1, <2>1 DEF IInv, TypeOK, Tail
  <2> QED BY <2>2, MemoryAssumption DEF RecentTurnsStay
<1> QED BY <1>1, Invariant, PTL
-----------------------------------------------------------------------------
(***************************************************************************)
(* What the settings keep and what a dream leaves.  Both count items and   *)
(* segments, which therefore must be finite; that a job which awaits       *)
(* nothing is no job tells which steps end a dream.                        *)
(***************************************************************************)
Counted ==
  /\ IsFiniteSet(cold) /\ IsFiniteSet(warm)
  /\ \A w \in Worker : job[w].at = "idle" => job[w] = NoJob

\* The least number principle.
LEMMA Least ==
  ASSUME NEW S \in SUBSET Nat, S # {}
  PROVE  \E m \in S : \A k \in S : m <= k
<1>1. PICK m \in S : \A k \in S : ~ (<<k, m>> \in OpToRel(<, Nat))
  BY NatLessThanWellFounded, WFMin, Zenon
<1>2. \A k \in S : ~(k < m)
  BY <1>1 DEF OpToRel
<1> QED BY <1>2

\* Eviction goes on until ColdMax items are left or only those of the settings:
\* the oldest that may stay has at least all the surplus before it.
LEMMA EvictBound ==
  ASSUME NEW c \in SUBSET Item, IsFiniteSet(c)
  PROVE  Cardinality(EvictOverflow(c)) <= ColdMax \/ Evictable(EvictOverflow(c)) = {}
<1> DEFINE n == Cardinality(c) - ColdMax
           older(i) == {j \in Evictable(c) : j.at < i.at}
           gone == {i \in Evictable(c) : Cardinality(older(i)) < n}
<1>1. EvictOverflow(c) = c \ gone /\ Evictable(c) \subseteq c
  BY DEF EvictOverflow, Evictable
<1>2. Cardinality(c) \in Nat /\ ColdMax \in Nat
  BY FS_CardinalityType, MemoryAssumption
<1>3. CASE Evictable(c) \subseteq gone
  BY <1>1, <1>3 DEF Evictable
<1>4. CASE \E i \in Evictable(c) : i \notin gone
  <2> DEFINE S == {i.at : i \in Evictable(c) \ gone}
  <2>1. S \in SUBSET Nat /\ S # {}
    BY <1>1, <1>4 DEF Item, Turn
  <2>2. PICK m \in S : \A k \in S : m <= k
    <3> HIDE DEF S
    <3> QED BY <2>1, Least
  <2>3. PICK i \in Evictable(c) \ gone : i.at = m
    BY <2>2
  <2>4. older(i) \subseteq gone
    <3> SUFFICES ASSUME NEW j \in Evictable(c), j.at < i.at, j \notin gone PROVE FALSE
      OBVIOUS
    <3>1. j.at \in S /\ i.at \in Nat /\ j.at \in Nat
      BY <1>1 DEF Item, Turn
    <3> HIDE DEF S, gone, older
    <3>2. m <= j.at
      BY <2>2, <3>1
    <3> QED BY <2>3, <3>1, <3>2
  <2>5. IsFiniteSet(gone) /\ Cardinality(gone) \in Nat /\ gone \subseteq c
    <3>1. gone \in SUBSET c
      BY <1>1
    <3> HIDE DEF gone
    <3> QED BY <3>1, FS_Subset, FS_CardinalityType
  <2>6. Cardinality(older(i)) <= Cardinality(gone) /\ Cardinality(older(i)) \in Nat
    <3>1. older(i) \in SUBSET gone
      BY <2>4
    <3> HIDE DEF gone, older
    <3> QED BY <2>5, <3>1, FS_Subset, FS_CardinalityType
  <2>7. ~(Cardinality(older(i)) < n)
    BY <2>3
  <2>8. Cardinality(c \ gone) = Cardinality(c) - Cardinality(gone)
    <3>1. c \cap gone = gone
      BY <2>5
    <3> HIDE DEF gone
    <3> QED BY <3>1, FS_Difference
  <2> HIDE DEF gone, older
  <2> QED BY <1>1, <1>2, <2>5, <2>6, <2>7, <2>8
<1> QED BY <1>3, <1>4

\* A consolidation only takes items away, and none of the settings.
LEMMA ConsolidateKeeps ==
  ASSUME NEW c
  PROVE  Consolidate(c) \subseteq c /\ \A i \in c : i.source = "settings" => i \in Consolidate(c)
BY DEF Consolidate, EvictOverflow, Evictable, MergeDupes

LEMMA ConsolidateBound ==
  ASSUME NEW c \in SUBSET Item, IsFiniteSet(c)
  PROVE  Cardinality(Consolidate(c)) <= ColdMax \/ Evictable(Consolidate(c)) = {}
<1>1. MergeDupes(c) \in SUBSET c
  BY DEF MergeDupes
<1>2. IsFiniteSet(MergeDupes(c)) /\ MergeDupes(c) \in SUBSET Item
  BY <1>1, FS_Subset
<1> QED BY <1>2, EvictBound DEF Consolidate

(***************************************************************************)
(* How a job w of this kind goes on or ends, with wm the warm layer, r the *)
(* batches it took of it, and c the cold items.                            *)
(***************************************************************************)
GoesOnOrEnds(w, kind, r, wm, c) ==
  /\ \A v \in Worker \ {w} : job'[v] = job[v]
  /\ \/ job'[w].at # "idle" /\ cold' = c
     \/ /\ job'[w] = NoJob
        /\ cold' = IF kind = "dream" THEN Consolidate(c) ELSE c
        /\ ~(Cardinality(wm) > WarmThreshold /\ r < Limit(kind))

LEMMA WarmEnds ==
  ASSUME job \in [Worker -> Job], NEW w \in Worker, NEW kind, NEW r, NEW wm, NEW c,
         TakeWarm(w, kind, r, wm, c)
  PROVE  GoesOnOrEnds(w, kind, r, wm, c)
BY DEF TakeWarm, Suspends, Ends, GoesOnOrEnds

LEMMA HotEnds ==
  ASSUME job \in [Worker -> Job], NEW w \in Worker, NEW kind, NEW r, NEW h, NEW wm,
         TakeHot(w, kind, r, h, wm)
  PROVE  GoesOnOrEnds(w, kind, 0, wm, cold)
<1>1. CASE TakeWarm(w, kind, 0, wm, cold)
  BY <1>1, WarmEnds
<1>2. CASE Suspends(w, kind, "hot", r + 1, OldestTurns(h), {}, cold)
  BY <1>2 DEF Suspends, GoesOnOrEnds
<1> QED BY <1>1, <1>2 DEF TakeHot

(***************************************************************************)
(* The steps, as far as the cold items and the jobs tell them apart: an    *)
(* item is dated again, the user takes items away, or those of the         *)
(* settings stay.                                                          *)
(***************************************************************************)
Redates == \E i \in cold : cold' = (cold \ {i}) \cup {Redated(i)}
KeepsSettings == \A i \in cold : i.source = "settings" => i \in cold'

\* A step of a job, from whose kind, layer and rounds it goes on or ends.
JobStep(w) ==
  \/ /\ job[w].at = "idle"
     /\ \E kind \in {"compact", "dream"} : GoesOnOrEnds(w, kind, 0, warm', cold)
  \/ job[w].at = "hot" /\ GoesOnOrEnds(w, job[w].kind, 0, warm', cold)
  \/ /\ job[w].at = "warm"
     /\ \E b \in Body :
          GoesOnOrEnds(w, job[w].kind, job[w].rounds, warm', cold \cup {NewItem(w, b)})

LEMMA StepCases ==
  ASSUME IInv, Next
  PROVE  /\ \/ \E w \in Worker : JobStep(w)
            \/ deaths' = deaths + 1 /\ \A w \in Worker : job'[w] = NoJob
            \/ job' = job
         /\ UserRemoves \/ Redates \/ KeepsSettings
         /\ \E x : cold' \subseteq cold \cup {x}
         /\ \E y : warm' \subseteq warm \cup {y}
<1>0. job \in [Worker -> Job]
  BY DEF IInv, TypeOK
<1>1. ASSUME NEW w \in Worker, NEW kind, NEW r, NEW c, c = cold \/ \E b \in Body : c = cold \cup {NewItem(w, b)},
             GoesOnOrEnds(w, kind, r, warm', c)
      PROVE  KeepsSettings /\ \E x : cold' \subseteq cold \cup {x}
  <2>1. cold' \subseteq c /\ \A i \in c : i.source = "settings" => i \in cold'
    BY <1>1, ConsolidateKeeps DEF GoesOnOrEnds
  <2>2. cold \subseteq c /\ \E x : c \subseteq cold \cup {x}
    BY <1>1
  <2> QED BY <2>1, <2>2 DEF KeepsSettings
<1>2. ASSUME NEW w \in Worker, PetTurn(w)
      PROVE  JobStep(w) /\ GoesOnOrEnds(w, "compact", 0, warm', cold) /\ warm' = warm
  <2>1. GoesOnOrEnds(w, "compact", 0, warm', cold)
    BY <1>0, <1>2, HotEnds DEF PetTurn
  <2> QED BY <1>2, <2>1 DEF PetTurn, JobStep
<1>3. ASSUME NEW w \in Worker, Dream(w)
      PROVE  JobStep(w) /\ GoesOnOrEnds(w, "dream", 0, warm', cold) /\ warm' = warm
  <2>1. GoesOnOrEnds(w, "dream", 0, warm', cold)
    BY <1>0, <1>3, HotEnds DEF Dream
  <2> QED BY <1>3, <2>1 DEF Dream, JobStep
<1>4. ASSUME NEW w \in Worker, HotSummary(w)
      PROVE  /\ JobStep(w) /\ GoesOnOrEnds(w, job[w].kind, 0, warm', cold)
             /\ warm' = warm \cup {NewSegment(w)}
  <2>1. GoesOnOrEnds(w, job[w].kind, 0, warm', cold)
    BY <1>0, <1>4, HotEnds DEF HotSummary
  <2> QED BY <1>4, <2>1 DEF HotSummary, JobStep
<1>5. ASSUME NEW w \in Worker, NEW b \in Body, WarmSummary(w, b)
      PROVE  /\ JobStep(w)
             /\ GoesOnOrEnds(w, job[w].kind, job[w].rounds, warm', cold \cup {NewItem(w, b)})
             /\ warm' \subseteq warm
  <2>1. GoesOnOrEnds(w, job[w].kind, job[w].rounds, warm', cold \cup {NewItem(w, b)})
    BY <1>0, <1>5, WarmEnds DEF WarmSummary
  <2> QED BY <1>5, <2>1 DEF WarmSummary, JobStep, DeleteWarm
<1>6. ASSUME NEW items, NEW replaced, Write(items, replaced)
      PROVE  job' = job /\ warm' = warm /\ cold' = (cold \ replaced) \cup items
  BY <1>6 DEF Write
<1>7. ASSUME NEW items, Remove(items)
      PROVE  job' = job /\ warm' = warm /\ cold' \subseteq cold
  BY <1>7 DEF Remove
<1>8. CASE UserTurn \/ TurnFails \/ Proactive
  BY <1>8 DEF UserTurn, TurnFails, Proactive, KeepsSettings, layers
<1>9. CASE ClearAll \/ \E i \in cold : DeleteItem(i)
  BY <1>7, <1>9 DEF ClearAll, DeleteItem, UserRemoves
<1>10. CASE Crash
  BY <1>10 DEF Crash, Dies, layers, KeepsSettings
<1>11. ASSUME NEW w \in Worker, CrashInHot(w)
       PROVE  /\ deaths' = deaths + 1 /\ \A v \in Worker : job'[v] = NoJob
              /\ cold' = cold /\ warm' = warm \cup {NewSegment(w)}
  BY <1>11 DEF CrashInHot, Dies
<1>12. ASSUME NEW w \in Worker, NEW b \in Body, CrashInWarm(w, b)
       PROVE  /\ deaths' = deaths + 1 /\ \A v \in Worker : job'[v] = NoJob
              /\ warm' = warm /\ cold' = cold \cup {NewItem(w, b)}
  BY <1>12 DEF CrashInWarm, Dies
<1>13. ASSUME NEW b \in Body, Remember(b) \/ Extract(b) \/ HandWrite(b)
       PROVE  /\ job' = job /\ warm' = warm
              /\ Redates \/ \E x : cold' = cold \cup {x}
  <2>1. CASE \E i \in cold : Write({Redated(i)}, {i})
    <3>1. PICK i \in cold : Write({Redated(i)}, {i})
      BY <2>1
    <3>2. job' = job /\ warm' = warm /\ cold' = (cold \ {i}) \cup {Redated(i)}
      BY <1>6, <3>1
    <3> QED BY <3>2 DEF Redates
  <2>2. CASE \E x : Write({x}, {})
    <3>1. PICK x : Write({x}, {})
      BY <2>2
    <3>2. job' = job /\ warm' = warm /\ cold' = cold \cup {x}
      BY <1>6, <3>1
    <3> QED BY <3>2
  <2> QED BY <1>13, <2>1, <2>2 DEF Remember, Extract, HandWrite
<1>14. ASSUME NEW i \in cold, NEW b \in Body, Edit(i, b)
       PROVE  job' = job /\ warm' = warm /\ UserRemoves /\ \E x : cold' \subseteq cold \cup {x}
  <2> DEFINE x == [Redated(i) EXCEPT !.body = b]
  <2>1. Write({x}, {i})
    BY <1>14 DEF Edit
  <2> HIDE DEF x
  <2>2. job' = job /\ warm' = warm /\ cold' = (cold \ {i}) \cup {x}
    BY <1>6, <2>1
  <2>3. UserRemoves
    BY <1>14 DEF UserRemoves
  <2> QED BY <2>2, <2>3
<1>15. CASE \E w \in Worker : PetTurn(w) \/ Dream(w) \/ HotSummary(w)
  BY <1>1, <1>2, <1>3, <1>4, <1>15
<1>16. CASE \E w \in Worker, b \in Body : WarmSummary(w, b)
  BY <1>1, <1>5, <1>16
<1>17. CASE \/ \E w \in Worker : CrashInHot(w)
            \/ \E w \in Worker, b \in Body : CrashInWarm(w, b)
  BY <1>11, <1>12, <1>17 DEF KeepsSettings
<1>18. CASE \E b \in Body : Remember(b) \/ Extract(b) \/ HandWrite(b)
  <2>1. job' = job /\ warm' \subseteq warm \cup {0}
    BY <1>13, <1>18
  <2>2. CASE Redates
    <3>1. PICK i \in cold : cold' = (cold \ {i}) \cup {Redated(i)}
      BY <2>2 DEF Redates
    <3>2. cold' \subseteq cold \cup {Redated(i)}
      BY <3>1
    <3> QED BY <2>1, <2>2, <3>2
  <2>3. CASE \E x : cold' = cold \cup {x}
    BY <2>1, <2>3 DEF KeepsSettings
  <2> QED BY <1>13, <1>18, <2>2, <2>3
<1>19. CASE \E i \in cold, b \in Body : Edit(i, b)
  BY <1>14, <1>19
<1> QED BY <1>8, <1>9, <1>10, <1>15, <1>16, <1>17, <1>18, <1>19 DEF Next

LEMMA CountedOK ==
  /\ Init => Counted
  /\ IInv /\ Counted /\ [Next]_vars => Counted'
<1>1. ASSUME Init
      PROVE  Counted
  BY <1>1, FS_EmptySet DEF Init, Counted
<1>2. ASSUME IInv, Counted, [Next]_vars
      PROVE  Counted'
  <2>1. CASE Next
    <3>1. PICK x : cold' \subseteq cold \cup {x}
      BY <1>2, <2>1, StepCases
    <3>2. PICK y : warm' \subseteq warm \cup {y}
      BY <1>2, <2>1, StepCases
    <3>3. IsFiniteSet(cold \cup {x}) /\ IsFiniteSet(warm \cup {y})
      BY <1>2, FS_AddElement DEF Counted
    <3>4. IsFiniteSet(cold') /\ IsFiniteSet(warm')
      BY <3>1, <3>2, <3>3, FS_Subset
    <3>5. \A w \in Worker : job'[w].at = "idle" => job'[w] = NoJob
      <4>1. ASSUME NEW w \in Worker, JobStep(w)
            PROVE  /\ \A v \in Worker \ {w} : job'[v] = job[v]
                   /\ job'[w].at # "idle" \/ job'[w] = NoJob
        BY <4>1 DEF JobStep, GoesOnOrEnds
      <4> QED BY <1>2, <2>1, <4>1, StepCases DEF Counted
    <3> QED BY <3>4, <3>5 DEF Counted
  <2>2. CASE UNCHANGED vars
    BY <1>2, <2>2 DEF vars, layers, Counted
  <2> QED BY <1>2, <2>1, <2>2
<1> QED BY <1>1, <1>2

\* Redating an item of the settings leaves as many of its body: the stamp is new.
LEMMA RedatesKeeps ==
  ASSUME IInv, Counted, Redates, NEW b \in Body
  PROVE  Cardinality(HandWritten(cold, b)) <= Cardinality(HandWritten(cold', b))
<1>1. PICK i \in cold : cold' = (cold \ {i}) \cup {Redated(i)}
  BY DEF Redates
<1> DEFINE H == HandWritten(cold, b)  r == Redated(i)
<1>2. r.at = stamp + 1 /\ r.source = i.source /\ r.body = i.body
  BY DEF IInv, TypeOK, Redated, Item
<1>3. r \notin cold
  BY <1>2 DEF IInv, TypeOK, Item, Turn
<1>4. IsFiniteSet(H) /\ Cardinality(H) \in Nat
  <2>1. H \subseteq cold
    BY DEF HandWritten
  <2> HIDE DEF H
  <2> QED BY <2>1, FS_Subset, FS_CardinalityType DEF Counted
<1>5. CASE i \in H
  <2>1. HandWritten(cold', b) = (H \ {i}) \cup {r} /\ r \notin H \ {i}
    BY <1>1, <1>2, <1>3, <1>5 DEF HandWritten
  <2> HIDE DEF H, r
  <2>2. IsFiniteSet(H \ {i}) /\ Cardinality(H \ {i}) = Cardinality(H) - 1
    BY <1>4, <1>5, FS_RemoveElement
  <2>3. Cardinality((H \ {i}) \cup {r}) = Cardinality(H \ {i}) + 1
    BY <2>1, <2>2, FS_AddElement
  <2> QED BY <1>4, <2>1, <2>2, <2>3 DEF H
<1>6. CASE i \notin H
  <2>1. HandWritten(cold', b) = H
    BY <1>1, <1>2, <1>6 DEF HandWritten
  <2> QED BY <1>4, <2>1
<1> QED BY <1>5, <1>6

\* Only the user takes away what the user wrote by hand.
THEOREM Survive == Spec => SettingsSurvive
<1>1. IInv /\ Counted /\ Counted' /\ [Next]_vars
        => [\/ UserRemoves
            \/ \A b \in Body : Cardinality(HandWritten(cold, b)) <= Cardinality(HandWritten(cold', b))]_vars
  <2> SUFFICES ASSUME IInv, Counted, Counted', Next, ~UserRemoves, NEW b \in Body
               PROVE  Cardinality(HandWritten(cold, b)) <= Cardinality(HandWritten(cold', b))
    OBVIOUS
  <2>1. CASE Redates
    BY <2>1, RedatesKeeps
  <2>2. CASE KeepsSettings
    <3> DEFINE H == HandWritten(cold, b)  G == HandWritten(cold', b)
    <3>1. H \subseteq G /\ G \subseteq cold'
      BY <2>2 DEF HandWritten, KeepsSettings
    <3>2. IsFiniteSet(cold')
      BY DEF Counted
    <3> HIDE DEF H, G
    <3>3. Cardinality(H) <= Cardinality(G)
      BY <3>1, <3>2, FS_Subset
    <3> QED BY <3>3 DEF H, G
  <2> QED BY <2>1, <2>2, StepCases
<1> QED BY <1>1, Invariant, CountedOK, PTL DEF Spec, SettingsSurvive

\* When a dream ends, the layers are within their bounds.
THEOREM DreamBounds == Spec => DreamLeavesBounds
<1>1. IInv /\ Counted /\ Counted' /\ [Next]_vars
        => [\A w \in Worker : DreamEnds(w) =>
              /\ Cardinality(cold') <= ColdMax \/ Evictable(cold') = {}
              /\ \/ Cardinality(warm') <= WarmThreshold
                 \/ job[w].at = "warm" /\ job[w].rounds = MaxRounds]_vars
  <2> SUFFICES ASSUME IInv, Counted, Counted', Next, NEW w \in Worker, DreamEnds(w)
               PROVE  /\ Cardinality(cold') <= ColdMax \/ Evictable(cold') = {}
                      /\ \/ Cardinality(warm') <= WarmThreshold
                         \/ job[w].at = "warm" /\ job[w].rounds = MaxRounds
    OBVIOUS
  <2>1. /\ job[w].kind = "dream" /\ job'[w] = NoJob /\ deaths' = deaths
        /\ job[w] # NoJob /\ job[w].at # "idle" /\ deaths \in Nat
        /\ job[w].rounds \in Nat /\ job[w].rounds <= MaxRounds
        /\ MaxRounds \in Nat \ {0} /\ WarmThreshold \in Nat
    BY JobTypes, MemoryAssumption DEF DreamEnds, NoJob, Counted, IInv, TypeOK, Job
  <2>2. JobStep(w)
    <3>1. ASSUME NEW v \in Worker, JobStep(v), v # w
          PROVE  FALSE
      BY <2>1, <3>1 DEF JobStep, GoesOnOrEnds
    <3> QED BY <2>1, <3>1, StepCases
  <2>3. PICK r, c : /\ r = 0 \/ (job[w].at = "warm" /\ r = job[w].rounds)
                    /\ c = cold \/ \E b \in Body : c = cold \cup {NewItem(w, b)}
                    /\ GoesOnOrEnds(w, "dream", r, warm', c)
    <3>1. CASE job[w].at = "hot" /\ GoesOnOrEnds(w, "dream", 0, warm', cold)
      BY <3>1
    <3>2. ASSUME NEW b \in Body, job[w].at = "warm",
                 GoesOnOrEnds(w, "dream", job[w].rounds, warm', cold \cup {NewItem(w, b)})
          PROVE  \E r, c : /\ r = 0 \/ (job[w].at = "warm" /\ r = job[w].rounds)
                           /\ c = cold \/ \E d \in Body : c = cold \cup {NewItem(w, d)}
                           /\ GoesOnOrEnds(w, "dream", r, warm', c)
      BY <3>2
    <3> QED BY <2>1, <2>2, <3>1, <3>2 DEF JobStep
  <2>4. cold' = Consolidate(c) /\ ~(Cardinality(warm') > WarmThreshold /\ r < MaxRounds)
    BY <2>1, <2>3 DEF GoesOnOrEnds, Limit, NoJob
  <2>5. IsFiniteSet(c)
    BY <2>3, FS_AddElement DEF Counted
  <2>6. c \in SUBSET Item
    BY <2>3, NewItemType DEF IInv, TypeOK
  <2>7. Cardinality(cold') <= ColdMax \/ Evictable(cold') = {}
    BY <2>4, <2>5, <2>6, ConsolidateBound
  <2>8. Cardinality(warm') \in Nat
    BY FS_CardinalityType DEF Counted
  <2> QED BY <2>1, <2>3, <2>4, <2>7, <2>8
<1> QED BY <1>1, Invariant, CountedOK, PTL DEF Spec, DreamLeavesBounds
=============================================================================
