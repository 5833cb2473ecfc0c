------------------------------- MODULE Memory -------------------------------
(***************************************************************************)
(* The three layers of memory (packages/harness/src/memory/): the hot      *)
(* turns and warm segments of sessions.db, and the cold items, one file    *)
(* each. Compactions move what was said down the layers: a turn of the     *)
(* companion loop starts one and does not await it, the scheduler starts   *)
(* the nightly dream. Each awaits a summary from the model between reading *)
(* a batch and deleting it, so several may hold the same batch.            *)
(*                                                                         *)
(* Texts are left out: a segment or an item is the set of the turns it was *)
(* summarised from, and a body stands for type, topic and wording, as far  *)
(* as merging duplicates compares them. AUTOINCREMENT ids are numbers that *)
(* grow; lastT is a stamp of its own for every write of an item.           *)
(***************************************************************************)
EXTENDS Integers, FiniteSets

CONSTANTS
  Worker,         \* bound: compactions and dreams in flight at a time
  Body,           \* bodies of cold items
  HotThreshold, HotBatch, WarmThreshold, WarmBatch, ColdMax,
  MaxRounds,      \* batches a dream takes per layer (50 in the code)
  MaxTurns,       \* bound: turns inserted in a behaviour
  MaxWrites,      \* bound: cold items the user and the model write
  MaxDeaths       \* bound: deaths of the process

ASSUME MemoryAssumption ==
  /\ HotThreshold \in Nat /\ HotBatch \in 1..HotThreshold
  /\ WarmThreshold \in Nat /\ WarmBatch \in 1..WarmThreshold
  /\ ColdMax \in Nat /\ MaxRounds \in Nat \ {0}
  /\ MaxTurns \in Nat /\ MaxWrites \in Nat /\ MaxDeaths \in Nat

Turn == Nat \ {0}
Source == {"chat", "settings", "system"}
Segment == [id : Turn, turns : SUBSET Turn]
Item == [at : Turn, source : Source, body : Body, turns : SUBSET Turn]

\* A run of compactIfNeeded or of the dream: which layer's summary it awaits,
\* how many batches of that layer it took, and the batch it read.
Job == [kind : {"compact", "dream"}, at : {"idle", "hot", "warm"},
        rounds : Nat, turns : SUBSET Turn, segments : SUBSET Segment]
NoJob == [kind |-> "compact", at |-> "idle", rounds |-> 0,
          turns |-> {}, segments |-> {}]

VARIABLES
  busy,       \* memory: the companion loop works on a turn
  job,        \* memory: the compactions in flight
  hot,        \* disk: the ids in turns
  lastTurn,   \* disk: the AUTOINCREMENT counter of turns
  warm,       \* disk: warm_segments
  lastWarm,   \* disk: the AUTOINCREMENT counter of warm_segments
  cold,       \* disk: memory/cold/*.md
  trash,      \* disk: the turns whose items lie in memory/cold/.trash
  stamp,      \* the clock lastT is taken from
  writes,     \* bound: see MaxWrites
  deaths      \* bound: see MaxDeaths

layers == <<hot, lastTurn, warm, lastWarm, cold, trash, stamp>>
vars == <<busy, job, layers, writes, deaths>>

TypeOK ==
  /\ busy \in BOOLEAN
  /\ job \in [Worker -> Job]
  /\ \A w \in Worker : job[w].rounds <= MaxRounds
  /\ lastTurn \in Nat /\ hot \in SUBSET (1..lastTurn)
  /\ lastWarm \in Nat /\ warm \in SUBSET Segment
  /\ \A s \in warm : s.id <= lastWarm
  /\ stamp \in Nat /\ cold \in SUBSET Item
  /\ \A i \in cold : i.at <= stamp
  /\ trash \in SUBSET Turn
  /\ writes \in Nat /\ deaths \in Nat

\* A first start: an empty database, and the items the user wrote by hand.
Init ==
  /\ busy = FALSE
  /\ job = [w \in Worker |-> NoJob]
  /\ hot = {} /\ lastTurn = 0
  /\ warm = {} /\ lastWarm = 0
  /\ cold = {} /\ stamp = 0
  /\ trash = {}
  /\ writes = 0 /\ deaths = 0
-----------------------------------------------------------------------------
OldestSurplus(h) ==
  {n \in h : Cardinality({m \in h : m < n}) < Cardinality(h) - HotThreshold}
OldestTurns(h) == {n \in h : Cardinality({m \in h : m < n}) < HotBatch}
OldestWarm(wm) ==
  {s \in wm : Cardinality({r \in wm : r.id < s.id}) < WarmBatch}

Covered(parts) == UNION {p.turns : p \in parts}

\* Of the items with one body the newest stays, and the ones of the settings.
MergeAllDupes(c) == {i \in c : \A j \in c : j.body = i.body => j.at <= i.at}
MergeDupes(c) ==
  {i \in c : i.source = "settings"
               \/ \A j \in c : j.body = i.body => j.at <= i.at}

\* The oldest items go until ColdMax are left; never those of the settings.
Evictable(c) == {i \in c : i.source # "settings"}
EvictOneLess(c) ==
  c \ {i \in Evictable(c) :
         Cardinality({j \in Evictable(c) : j.at < i.at}) + 1 < Cardinality(c) - ColdMax}
EvictOverflow(c) ==
  c \ {i \in Evictable(c) :
         Cardinality({j \in Evictable(c) : j.at < i.at}) < Cardinality(c) - ColdMax}

Consolidate(c) == EvictOverflow(MergeDupes(c))

LimitPlusOne(kind) == IF kind = "dream" THEN MaxRounds + 1 ELSE 1
Limit(kind) == IF kind = "dream" THEN MaxRounds ELSE 1

(***************************************************************************)
(* What job w does until its next await or its end, with h, wm and c the   *)
(* layers at that point and r the batches it took of the layer: another    *)
(* hot batch, else a warm one, else it ends, and a dream consolidates.     *)
(***************************************************************************)
Ends(w, kind, c) ==
  /\ job' = [job EXCEPT ![w] = NoJob]
  /\ cold' = IF kind = "dream" THEN Consolidate(c) ELSE c
  /\ trash' = trash \cup Covered(c \ cold')

Suspends(w, kind, layer, r, turns, segments, c) ==
  /\ job' = [job EXCEPT ![w] = [kind |-> kind, at |-> layer, rounds |-> r,
                                turns |-> turns, segments |-> segments]]
  /\ cold' = c
  /\ UNCHANGED trash

TakeWarm(w, kind, r, wm, c) ==
  IF Cardinality(wm) > WarmThreshold /\ r < Limit(kind)
  THEN Suspends(w, kind, "warm", r + 1, {}, OldestWarm(wm), c)
  ELSE Ends(w, kind, c)

TakeHot(w, kind, r, h, wm) ==
  IF Cardinality(h) > HotThreshold /\ r < Limit(kind)
  THEN Suspends(w, kind, "hot", r + 1, OldestTurns(h), {}, cold)
  ELSE TakeWarm(w, kind, 0, wm, cold)

\* The summary of a hot batch arrived: a segment for it, then its turns go.
NewSegment(w) == [id |-> lastWarm + 1, turns |-> job[w].turns]

HotSummaryRereading(w) ==
  /\ job[w].at = "hot"
  /\ warm' = warm \cup {NewSegment(w)}
  /\ lastWarm' = lastWarm + 1
  /\ hot' = hot \ OldestTurns(hot)
  /\ TakeHot(w, job[w].kind, job[w].rounds, hot', warm')
  /\ UNCHANGED <<busy, lastTurn, stamp, writes, deaths>>

HotSummary(w) ==
  /\ job[w].at = "hot"
  /\ warm' = warm \cup {NewSegment(w)}
  /\ lastWarm' = lastWarm + 1
  /\ hot' = hot \ job[w].turns
  /\ TakeHot(w, job[w].kind, job[w].rounds, hot', warm')
  /\ UNCHANGED <<busy, lastTurn, stamp, writes, deaths>>

\* The summary of a warm batch arrived: a cold item, then the segments go.
NewItem(w, b) == [at |-> stamp + 1, source |-> "system", body |-> b,
                  turns |-> Covered(job[w].segments)]

DeleteWarm(ids) == {s \in warm : s.id \notin ids}

WarmSummary(w, b) ==
  /\ job[w].at = "warm"
  /\ stamp' = stamp + 1
  /\ warm' = DeleteWarm({s.id : s \in job[w].segments})
  /\ TakeWarm(w, job[w].kind, job[w].rounds, warm', cold \cup {NewItem(w, b)})
  /\ UNCHANGED <<busy, hot, lastTurn, lastWarm, writes, deaths>>

Dream(w) ==
  /\ job[w].at = "idle"
  /\ TakeHot(w, "dream", 0, hot, warm)
  /\ UNCHANGED <<busy, hot, lastTurn, warm, lastWarm, stamp, writes, deaths>>
-----------------------------------------------------------------------------
(***************************************************************************)
(* The companion loop: a turn at a time. It ends with an answer, whose     *)
(* compaction it does not await, or with an error. The heartbeat inserts   *)
(* what the pet says of its own accord at any time.                        *)
(***************************************************************************)
InsertTurn ==
  /\ lastTurn < MaxTurns
  /\ lastTurn' = lastTurn + 1
  /\ hot' = hot \cup {lastTurn + 1}

UserTurn ==
  /\ ~busy /\ busy' = TRUE
  /\ InsertTurn
  /\ UNCHANGED <<job, warm, lastWarm, cold, trash, stamp, writes, deaths>>

PetTurn(w) ==
  /\ busy /\ busy' = FALSE
  /\ job[w].at = "idle"
  /\ InsertTurn
  /\ TakeHot(w, "compact", 0, hot', warm)
  /\ UNCHANGED <<warm, lastWarm, stamp, writes, deaths>>

TurnFails ==
  /\ busy /\ busy' = FALSE
  /\ UNCHANGED <<job, layers, writes, deaths>>

Proactive ==
  /\ InsertTurn
  /\ UNCHANGED <<busy, job, warm, lastWarm, cold, trash, stamp, writes, deaths>>
-----------------------------------------------------------------------------
(***************************************************************************)
(* What else writes cold items: the tool remember always adds one, the     *)
(* extraction at the end of a turn dates one again that says the same, and *)
(* the panel edits an item of the settings, deletes one or clears them.    *)
(***************************************************************************)
Write(items, replaced) ==
  /\ writes < MaxWrites /\ writes' = writes + 1
  /\ stamp' = stamp + 1
  /\ cold' = (cold \ replaced) \cup items
  /\ UNCHANGED <<busy, job, hot, lastTurn, warm, lastWarm, trash, deaths>>

NewFact(s, b) == [at |-> stamp + 1, source |-> s, body |-> b, turns |-> {}]
Redated(i) == [i EXCEPT !.at = stamp + 1]

Remember(b) == Write({NewFact("chat", b)}, {})

Extract(b) ==
  \/ /\ \A i \in cold : i.body # b
     /\ Write({NewFact("chat", b)}, {})
  \/ \E i \in cold : i.body = b /\ Write({Redated(i)}, {i})

HandWrite(b) == Write({NewFact("settings", b)}, {})

Edit(i, b) ==
  /\ i.source = "settings"
  /\ Write({[Redated(i) EXCEPT !.body = b]}, {i})

Remove(items) ==
  /\ items # {}
  /\ cold' = cold \ items
  /\ trash' = trash \cup Covered(items)
  /\ UNCHANGED <<busy, job, hot, lastTurn, warm, lastWarm, stamp, writes, deaths>>

DeleteItem(i) == Remove({i})
ClearAll == Remove(cold)
-----------------------------------------------------------------------------
(***************************************************************************)
(* The process dies between two steps, or between the insertion of what a  *)
(* batch became and the deletion of the batch, which no transaction joins. *)
(***************************************************************************)
Dies ==
  /\ deaths < MaxDeaths /\ deaths' = deaths + 1
  /\ busy' = FALSE
  /\ job' = [w \in Worker |-> NoJob]

Crash ==
  /\ Dies
  /\ UNCHANGED <<layers, writes>>

CrashInHot(w) ==
  /\ job[w].at = "hot"
  /\ warm' = warm \cup {NewSegment(w)}
  /\ lastWarm' = lastWarm + 1
  /\ Dies
  /\ UNCHANGED <<hot, lastTurn, cold, trash, stamp, writes>>

CrashInWarm(w, b) ==
  /\ job[w].at = "warm"
  /\ stamp' = stamp + 1
  /\ cold' = cold \cup {NewItem(w, b)}
  /\ Dies
  /\ UNCHANGED <<hot, lastTurn, warm, lastWarm, trash, writes>>

Next ==
  \/ UserTurn \/ TurnFails \/ Proactive \/ ClearAll \/ Crash
  \/ \E w \in Worker : PetTurn(w) \/ Dream(w) \/ HotSummary(w) \/ CrashInHot(w)
  \/ \E w \in Worker, b \in Body : WarmSummary(w, b) \/ CrashInWarm(w, b)
  \/ \E b \in Body : Remember(b) \/ Extract(b) \/ HandWrite(b)
  \/ \E i \in cold : DeleteItem(i) \/ \E b \in Body : Edit(i, b)

Spec == Init /\ [][Next]_vars
-----------------------------------------------------------------------------
(***************************************************************************)
(* Nothing is forgotten on the way down: whatever compactions overlap, and *)
(* wherever the process dies, each turn ever inserted is still hot, or is  *)
(* part of a warm segment, of a cold item or of an item in the trash.      *)
(***************************************************************************)
NothingForgotten ==
  1..lastTurn \subseteq hot \cup Covered(warm) \cup Covered(cold) \cup trash

(***************************************************************************)
(* The latest turns stay: a compaction that finds its batch deleted by     *)
(* another one deletes nothing in its stead, so the turns after the batch  *)
(* of a full hot layer, the context of the next answer, are always hot,    *)
(* and no turn is hot that is older than one that is not.                  *)
(***************************************************************************)
RecentTurnsStay ==
  \A n \in 1..lastTurn :
    \/ n \in hot
    \/ /\ lastTurn - n >= HotThreshold + 1 - HotBatch
       /\ \A m \in hot : n < m

(***************************************************************************)
(* Batches do not tear: two batches of turns, in flight or summarised in   *)
(* the warm layer, are the same or have none in common. So compactions     *)
(* that overlap repeat a segment as a whole, and never part of it.         *)
(***************************************************************************)
Batches == {s.turns : s \in warm} \cup {job[w].turns : w \in Worker}
NoTornBatch == \A p, q \in Batches : p = q \/ p \cap q = {}

(***************************************************************************)
(* What the user wrote by hand in the settings only the user takes away:   *)
(* no compaction, dream, extraction or crash ever reduces it.              *)
(***************************************************************************)
HandWritten(c, b) == {i \in c : i.source = "settings" /\ i.body = b}
UserRemoves == ClearAll \/ \E i \in cold : DeleteItem(i) \/ \E b \in Body : Edit(i, b)
SettingsSurvive ==
  [][\/ UserRemoves
     \/ \A b \in Body : Cardinality(HandWritten(cold, b)) <= Cardinality(HandWritten(cold', b))
  ]_vars

(***************************************************************************)
(* A dream leaves the layers within their bounds: when one ends, at most   *)
(* ColdMax items are left unless all are of the settings, and the warm     *)
(* layer is down to its threshold unless the dream used up its rounds.     *)
(***************************************************************************)
DreamEnds(w) == job[w].kind = "dream" /\ job'[w] = NoJob /\ deaths' = deaths
DreamLeavesBounds ==
  [][\A w \in Worker : DreamEnds(w) =>
       /\ Cardinality(cold') <= ColdMax \/ Evictable(cold') = {}
       /\ \/ Cardinality(warm') <= WarmThreshold
          \/ job[w].at = "warm" /\ job[w].rounds = MaxRounds
  ]_vars

(***************************************************************************)
(* "Single-process mutual exclusion comes for free in single-threaded JS", *)
(* says the comment above compactIfNeeded: then no turn would be in two    *)
(* summaries. This does not hold (MemoryOverlap.cfg): the code lets        *)
(* compactions overlap, and one is.                                        *)
(***************************************************************************)
SummarisedOnce ==
  \A s, r \in warm : s.id # r.id => s.turns \cap r.turns = {}
=============================================================================
