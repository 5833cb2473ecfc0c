--------------------------- MODULE SchedulerProofs ---------------------------
(***************************************************************************)
(* Proofs about the two halves of the scheduler.  Reminders: for every     *)
(* length of the intervals, every number of jobs, tasks, presses and       *)
(* deaths, and without a last minute.  At the end, Heartbeat, instanced as *)
(* H with its own constants and variables: for any frequencies, quiet      *)
(* hours and gaps that H!GapsFit allows (its ASSUME, which an instance     *)
(* does not bring along).                                                  *)
(***************************************************************************)
EXTENDS Reminders, Guards, TLAPS

-----------------------------------------------------------------------------
(* The queue.  What one tick produces is told apart by its keys.             *)

LEMMA OutputKeys ==
  ASSUME NEW q, NEW jobs,
         NEW i \in UNION {Output(j, q) : j \in jobs}, NEW k \in UNION {Output(j, q) : j \in jobs},
         Key(i) = Key(k)
  PROVE  i = k
<1>1. PICK a \in jobs : i \in Output(a, q)
  OBVIOUS
<1>2. PICK b \in jobs : k \in Output(b, q)
  OBVIOUS
<1>3. i.name = k.name /\ i.id = k.id
  BY DEF Key
<1> QED
  BY <1>1, <1>2, <1>3 DEF Output, Reminder, Note

(* At most one item for each dedupe key is in the queue. *)
LEMMA PushKeys ==
  ASSUME NEW q, NEW items,
         \A i, k \in q : Key(i) = Key(k) => i = k,
         \A i, k \in items : Key(i) = Key(k) => i = k
  PROVE  \A i, k \in Push(q, items) : Key(i) = Key(k) => i = k
  BY DEF Push

THEOREM KeysAreUnique == Spec => []OneQueuedPerKey
<1>1. Init => OneQueuedPerKey
  BY DEF Init, OneQueuedPerKey
<1>2. OneQueuedPerKey /\ [Next]_vars => OneQueuedPerKey'
  <2> SUFFICES ASSUME OneQueuedPerKey, [Next]_vars PROVE OneQueuedPerKey'
    OBVIOUS
  <2> DEFINE Distinct(q) == \A i, k \in q : Key(i) = Key(k) => i = k
  <2>1. Distinct(queue)
    BY DEF OneQueuedPerKey
  <2>2. SUFFICES Distinct(queue')
    BY DEF OneQueuedPerKey, Key
  <2>3. ASSUME NEW item PROVE Distinct({item})
    OBVIOUS
  <2>4. ASSUME NEW q \in SUBSET queue PROVE Distinct(q)
    BY <2>1
  <2>5. CASE \E ok \in BOOLEAN : SchedulerTick(ok)
    BY <2>1, <2>5, OutputKeys, PushKeys DEF SchedulerTick
  <2>6. ASSUME NEW kind \in PanelKinds, NEW ok \in BOOLEAN, SetReminder(kind, ok) PROVE Distinct(queue')
    BY <2>1, <2>3, <2>6, PushKeys DEF SetReminder
  <2>7. ASSUME NEW kind \in PanelKinds, NEW ok \in BOOLEAN, StopReminder(kind, ok) PROVE Distinct(queue')
    BY <2>1, <2>3, <2>7, PushKeys DEF StopReminder
  <2>8. CASE ConsumerTick
    BY <2>4, <2>8 DEF ConsumerTick, LeftByConsumer, Unexpired
  <2>9. CASE Drain
    BY <2>4, <2>9 DEF Drain, Unexpired
  <2>10. CASE TaskEnds
    BY <2>1, <2>3, <2>10, PushKeys DEF TaskEnds
  <2>11. CASE Forget
    BY <2>11 DEF Forget
  <2>12. CASE \E caught, ticked \in BOOLEAN : Start(caught, ticked)
    BY <2>1, <2>12, OutputKeys DEF Start
  <2>13. CASE UNCHANGED queue
    BY <2>1, <2>13
  <2> QED
    BY <2>5, <2>6, <2>7, <2>8, <2>9, <2>10, <2>11, <2>12, <2>13
       DEF Next, vars, ChatSend, ChatSendLong, Extracted, TurnEnds, ToolReminder, ToolWriteBreaks, Die,
           DieInTool,
           Minute, Fullscreen
<1> QED
  BY <1>1, <1>2, PTL DEF Spec

(* An item leaves the queue by being told, by being taken into a prompt, by  *)
(* going stale, or with the process.                                         *)
THEOREM OneWayOut == Spec => LeavesOneWay
<1> DEFINE Left(i) ==
      \/ i.expires <= now
      \/ status' = "down"
      \/ IsReminder(i) /\ turn = "idle" /\ turn' = "idle" /\ ~Muted
      \/ ~IsReminder(i) /\ i \in carried' /\ turn' = "streaming"
<1> DEFINE Timed ==
      /\ now \in Nat /\ \A i \in queue : i.expires \in Nat
      /\ status # "up" => queue = {}
<1>1. Spec => []Timed
  <2>1. Init => Timed
    BY ClockAssumption DEF Init
  <2>2. ASSUME NEW q, NEW j, NEW i \in Output(j, q), now \in Nat PROVE i.expires \in Nat
    BY <2>2, QueueAssumption DEF Output, Reminder, Note
  <2>3. Timed /\ [Next]_vars => Timed'
    <3> SUFFICES ASSUME Timed, [Next]_vars PROVE Timed'
      OBVIOUS
    <3>1. CASE \E ok \in BOOLEAN : SchedulerTick(ok)
      BY <2>2, <3>1 DEF SchedulerTick, Push
    <3>2. ASSUME NEW kind \in PanelKinds, NEW ok \in BOOLEAN, SetReminder(kind, ok) PROVE Timed'
      BY <3>2, QueueAssumption DEF SetReminder, Push, Reminder
    <3>3. ASSUME NEW kind \in PanelKinds, NEW ok \in BOOLEAN, StopReminder(kind, ok) PROVE Timed'
      BY <3>3, QueueAssumption DEF StopReminder, Push, Reminder
    <3>4. CASE ConsumerTick
      BY <3>4 DEF ConsumerTick, LeftByConsumer, Unexpired
    <3>5. CASE Drain /\ UNCHANGED <<now, status>>
      BY <3>5 DEF Drain, Unexpired
    <3>6. CASE TaskEnds
      BY <3>6, QueueAssumption DEF TaskEnds, Push
    <3>7. CASE Forget
      BY <3>7 DEF Forget
    <3>8. CASE \E caught, ticked \in BOOLEAN : Start(caught, ticked)
      BY <2>2, <3>8 DEF Start
    <3>9. CASE Minute
      BY <3>9 DEF Minute
    <3>10. CASE UNCHANGED <<now, status, queue>>
      BY <3>10
    <3> QED
      BY <3>1, <3>2, <3>3, <3>4, <3>5, <3>6, <3>7, <3>8, <3>9, <3>10
         DEF Next, vars, ChatSend, ChatSendLong, Extracted, TurnEnds, ToolReminder, ToolWriteBreaks, Die,
           DieInTool,
             Fullscreen
  <2> QED
    BY <2>1, <2>3, PTL DEF Spec
<1>2. Timed /\ [Next]_vars => [\A i \in queue \ queue' : Left(i)]_vars
  <2> SUFFICES ASSUME Timed, [Next]_vars, NEW i \in queue \ queue' PROVE Left(i)
    OBVIOUS
  <2>1. i \in Unexpired(queue) \/ i.expires <= now
    BY DEF Unexpired
  <2>2. CASE ConsumerTick
    BY <2>1, <2>2 DEF ConsumerTick, LeftByConsumer, turnVars
  <2>3. CASE Drain
    BY <2>1, <2>3 DEF Drain, Drained
  <2>4. CASE Forget
    BY <2>4 DEF Forget
  <2> QED
    BY <2>2, <2>3, <2>4
       DEF Next, vars, SchedulerTick, SetReminder, StopReminder, Push, ChatSend, ChatSendLong,
           Extracted, TurnEnds, ToolReminder, ToolWriteBreaks, TaskEnds, Die, DieInTool, Start,
           Minute, Fullscreen
<1> QED
  BY <1>1, <1>2, PTL DEF Spec, LeavesOneWay

-----------------------------------------------------------------------------
(* The jobs.  A watched job, in memory or on disk, is the only one of its    *)
(* kind and carries the time it last rang, unless a failed write left its    *)
(* kind behind.                                                              *)
AnyJob == [id : Nat, kind : Kinds, last : Nat, phase : Phases]
Clock(r, t) == t \in Nat /\ r \in [{"water", "dream"} -> Nat] /\ \A k \in DOMAIN r : r[k] <= t
Sound(jobs, r, t, behind) ==
  /\ jobs \subseteq AnyJob
  /\ \A j \in jobs : j.last <= t /\ (IsDream(j) => j.id = 0)
  /\ \A j \in jobs : Watched(j) /\ j.kind \notin behind => r[j.kind] <= j.last
  /\ \A j, k \in jobs : Watched(j) /\ Watched(k) /\ j.kind = k.kind => j = k

IInv ==
  /\ Clock(rang, now) /\ early = {} /\ made \in Nat
  /\ Sound(list, rang, now, lost) /\ Sound(disk, rang, now, lost \cup unwritten)
  /\ status = "up" => /\ \A j \in Durable(list) : j \in disk \/ j.kind \in unwritten
                      /\ \A j \in disk : Watched(j) => j \in list \/ j.kind \in unwritten
  /\ status # "up" => list = {} /\ unwritten = {} /\ turn = "idle"

(* A part of what is sound is sound, stays so as time passes, and when more   *)
(* kinds are behind.                                                          *)
LEMMA SoundPart ==
  ASSUME NEW jobs, NEW r, NEW t \in Nat, NEW behind, Sound(jobs, r, t, behind),
         NEW part \in SUBSET jobs, NEW u \in Nat, t <= u, NEW more, behind \subseteq more
  PROVE  Sound(part, r, u, more)
<1>1. \A j \in jobs : j.last \in Nat
  BY DEF Sound, AnyJob
<1> QED
  BY <1>1 DEF Sound

(* A watched job that is due, or a dream that is late, rings in good time.   *)
LEMMA InTime ==
  ASSUME NEW jobs, Clock(rang, now), Sound(jobs, rang, now, lost), NEW j \in jobs, Watched(j),
         j.kind \notin lost, Due(j) \/ Late(j)
  PROVE  ~(now - rang[j.kind] < Spacing(j.kind)) /\ j.last < now
<1>1. /\ j.last \in Nat /\ now \in Nat /\ rang[j.kind] \in Nat /\ rang[j.kind] <= j.last
      /\ j.last <= now /\ WaterMin \in Nat \ {0} /\ Catchup \in Nat
  BY IntervalAssumption, ClockAssumption DEF Clock, Sound, AnyJob, Watched
<1>2. CASE j.kind = "water"
  BY <1>1, <1>2 DEF Due, Late, IsDream, Spacing
<1>3. CASE j.kind = "dream"
  BY <1>1, <1>3 DEF Due, Late, IsDream, Spacing
<1> QED
  BY <1>2, <1>3 DEF Watched

(* What rings in good time leaves jobs sound if each of them either rang now *)
(* or is an old one of whose kind none rang.                                 *)
LEMMA RingSound ==
  ASSUME NEW jobs, Clock(rang, now), Sound(jobs, rang, now, lost), early = {},
         NEW rung, Rings(rung),
         \A k \in rung : Watched(k) /\ k.kind \notin lost => ~(now - rang[k.kind] < Spacing(k.kind))
  PROVE  /\ Clock(rang', now) /\ early' = {}
         /\ \A new, behind :
              /\ lost' \subseteq behind
              /\ new \subseteq AnyJob
              /\ \A j \in new : j.last <= now /\ (IsDream(j) => j.id = 0)
              /\ \A j, k \in new : Watched(j) /\ Watched(k) /\ j.kind = k.kind => j = k
              /\ \A j \in new : Watched(j) /\ j.kind \notin behind =>
                   \/ j.last = now
                   \/ j \in jobs /\ \A k \in rung : Watched(k) => k.kind # j.kind
              => Sound(new, rang', now, behind)
<1> DEFINE kinds == {j.kind : j \in {k \in rung : Watched(k)}}
<1>1. kinds \subseteq {"water", "dream"}
  BY DEF Watched
<1>2. /\ rang' = [k \in DOMAIN rang |-> IF k \in kinds THEN now ELSE rang[k]]
      /\ early' = early \cup {k \in kinds \ lost : now - rang[k] < Spacing(k)}
      /\ lost' = lost \ kinds
  BY DEF Rings
<1>3. early' = {}
  BY <1>2
<1>4. Clock(rang', now)
  BY <1>2 DEF Clock
<1>5. ASSUME NEW new, NEW behind,
             lost' \subseteq behind,
             new \subseteq AnyJob,
             \A j \in new : j.last <= now /\ (IsDream(j) => j.id = 0),
             \A j, k \in new : Watched(j) /\ Watched(k) /\ j.kind = k.kind => j = k,
             \A j \in new : Watched(j) /\ j.kind \notin behind =>
               \/ j.last = now
               \/ j \in jobs /\ \A k \in rung : Watched(k) => k.kind # j.kind
      PROVE  Sound(new, rang', now, behind)
  <2>1. ASSUME NEW j \in new, Watched(j), j.kind \notin behind PROVE rang'[j.kind] <= j.last
    <3>1. j.kind \in {"water", "dream"}
      BY <2>1 DEF Watched
    <3>2. CASE j.last = now
      BY <1>4, <3>1, <3>2 DEF Clock
    <3>3. CASE j \in jobs /\ \A k \in rung : Watched(k) => k.kind # j.kind
      <4>1. j.kind \notin kinds
        BY <3>3
      <4>2. rang'[j.kind] = rang[j.kind]
        BY <1>2, <3>1, <4>1 DEF Clock
      <4>3. j.kind \notin lost
        BY <1>2, <1>5, <2>1, <4>1
      <4> QED
        BY <2>1, <3>3, <4>2, <4>3 DEF Sound
    <3> QED
      BY <1>5, <2>1, <3>2, <3>3
  <2> QED
    BY <1>5, <2>1 DEF Sound
<1> HIDE DEF kinds
<1> QED
  BY <1>3, <1>4, <1>5

(* Firing changes the time and the phase of a job only. *)
LEMMA FiredJob ==
  ASSUME NEW j \in AnyJob, now \in Nat
  PROVE  /\ Fired(j) \in AnyJob
         /\ Fired(j).id = j.id /\ Fired(j).kind = j.kind /\ Fired(j).last = now
  BY DEF Fired, AnyJob, Kinds, Phases, PanelKinds

(* A tick rings what is due and leaves the jobs and the file sound and in    *)
(* step, also when the ringing began with dreams that were late: old is what *)
(* was there before, late what rang of it, jobs what the tick goes over,     *)
(* file what was written of that and behind what was not.                    *)
Ticks(old, jobs, file, late, ok, behind) ==
  /\ Clock(rang, now) /\ early = {} /\ Sound(old, rang, now, lost)
  /\ late \subseteq old /\ \A k \in late : Late(k)
  /\ jobs \subseteq AnyJob /\ file \subseteq AnyJob
  /\ \A j \in Durable(jobs) : j \in file \/ j.kind \in behind
  /\ \A j \in jobs \cup file : j.last <= now /\ (IsDream(j) => j.id = 0)
  /\ \A j, k \in jobs : Watched(j) /\ Watched(k) /\ j.kind = k.kind => j = k
  /\ \A j, k \in file : Watched(j) /\ Watched(k) /\ j.kind = k.kind => j = k
  /\ \A j \in file : Watched(j) => j \in jobs \/ j.kind \in behind
  /\ \A j \in jobs : Watched(j) =>
       \/ j.last = now
       \/ j \in old /\ \A k \in late : Watched(k) => k.kind # j.kind
  /\ Rings(late \cup {j \in jobs : Due(j)})
  /\ PersistTick(jobs, file, ok, behind)

LEMMA TickSound ==
  ASSUME NEW old, NEW jobs, NEW file, NEW late, NEW ok \in BOOLEAN, NEW behind,
         Ticks(old, jobs, file, late, ok, behind)
  PROVE  /\ Clock(rang', now) /\ early' = {}
         /\ Sound(AfterTick(jobs), rang', now, lost')
         /\ Sound(disk', rang', now, lost' \cup unwritten')
         /\ \A j \in Durable(AfterTick(jobs)) : j \in disk' \/ j.kind \in unwritten'
         /\ \A j \in disk' : Watched(j) => j \in AfterTick(jobs) \/ j.kind \in unwritten'
<1> USE DEF Ticks
<1> DEFINE due == {j \in jobs : Due(j)}
<1> DEFINE rung == late \cup due
<1> DEFINE new == AfterTick(jobs)
<1> DEFINE Quiet(j) == j \in old /\ \A k \in rung : Watched(k) => k.kind # j.kind
<1>n. now \in Nat
  BY DEF Clock
<1>1. ASSUME NEW k \in rung, Watched(k), k.kind \notin lost
      PROVE  ~(now - rang[k.kind] < Spacing(k.kind))
  <2>1. CASE k \in late
    BY <1>1, <2>1, InTime
  <2>2. CASE k \in due /\ k \in old
    BY <1>1, <2>2, InTime
  <2>3. CASE k \in due /\ k.last = now
    <3>1. ~Due(k)
      BY <1>n, <1>1, <2>3, IntervalAssumption DEF Due, Watched
    <3> QED
      BY <2>3, <3>1
  <2> QED
    BY <1>1, <2>1, <2>2, <2>3
<1>2. ASSUME NEW j \in jobs
      PROVE  /\ Fired(j) \in AnyJob /\ Fired(j).last = now
             /\ Fired(j).id = j.id /\ Fired(j).kind = j.kind
  BY <1>n, <1>2, FiredJob
<1>3. \A j \in new : \E k \in jobs : j.kind = k.kind /\ j.id = k.id /\ j = IF Due(k) THEN Fired(k) ELSE k
  BY <1>2 DEF AfterTick
<1>4. /\ new \subseteq AnyJob
      /\ \A j \in new : j.last <= now /\ (IsDream(j) => j.id = 0)
  BY <1>n, <1>2, <1>3 DEF IsDream
<1>5. \A j, k \in new : Watched(j) /\ Watched(k) /\ j.kind = k.kind => j = k
  BY <1>3 DEF Watched
<1>6. ASSUME NEW j \in jobs, Watched(j), ~Due(j)
      PROVE  j.last = now \/ Quiet(j)
  BY <1>6
<1>7. \A j \in new : Watched(j) => j.last = now \/ Quiet(j)
  BY <1>2, <1>3, <1>6 DEF Watched
<1>8. /\ Clock(rang', now) /\ early' = {} /\ Sound(new, rang', now, lost')
  BY <1>1, <1>4, <1>5, <1>7, RingSound
<1> DEFINE kinds == {j.kind : j \in {k \in Durable(jobs) : Due(k)}}
<1>9. CASE kinds # {} /\ ok
  <2>1. disk' = Durable(new) /\ unwritten' = {}
    BY <1>9 DEF PersistTick, Persist, Saved
  <2>2. Sound(Durable(new), rang', now, lost')
    BY <1>n, <1>8, SoundPart DEF Durable
  <2> QED
    BY <1>8, <2>1, <2>2 DEF Durable
<1>10. CASE kinds = {} \/ ~ok
  <2>1. disk' = file /\ behind \subseteq unwritten' /\ kinds \subseteq unwritten'
    BY <1>10 DEF PersistTick, Persist
  <2>2. ASSUME NEW j \in Durable(jobs), j.kind \notin kinds PROVE ~Due(j) /\ j \in new
    BY <2>2 DEF AfterTick, Durable
  <2>3. ASSUME NEW j \in Durable(new), j.kind \notin kinds PROVE j \in Durable(jobs)
    <3>1. PICK k \in jobs : j.kind = k.kind /\ j.id = k.id /\ j = IF Due(k) THEN Fired(k) ELSE k
      BY <1>3 DEF Durable
    <3>2. k \in Durable(jobs)
      BY <3>1 DEF Durable
    <3> QED
      BY <2>2, <2>3, <3>1, <3>2
  <2>4. ASSUME NEW j \in file, Watched(j), j.kind \notin unwritten' PROVE j \in Durable(jobs) /\ j.kind \notin kinds
    BY <2>1, <2>4 DEF Durable, Watched
  <2> HIDE DEF kinds, new
  <2>5. ASSUME NEW j \in file, Watched(j), j.kind \notin unwritten' PROVE j.last = now \/ Quiet(j)
    BY <1>6, <2>2, <2>4, <2>5 DEF Durable
  <2>6. Sound(file, rang', now, lost' \cup unwritten')
    BY <1>1, <2>5, RingSound
  <2>7. \A j \in Durable(new) : j \in file \/ j.kind \in unwritten'
    BY <2>1, <2>3
  <2>8. \A j \in file : Watched(j) => j \in new \/ j.kind \in unwritten'
    BY <2>2, <2>4
  <2> QED
    BY <1>8, <2>1, <2>6, <2>7, <2>8 DEF new
<1> QED
  BY <1>9, <1>10

(* The dream a start finds or adds. *)
LEMMA DreamFound ==
  ASSUME Clock(rang, now), Sound(disk, rang, now, lost)
  PROVE  LET loaded == WithDream(disk)
             late == {j \in disk : Late(j)}
         IN  /\ loaded \subseteq AnyJob
             /\ \A j \in loaded : j.last <= now /\ (IsDream(j) => j.id = 0)
             /\ \A j, k \in loaded : Watched(j) /\ Watched(k) /\ j.kind = k.kind => j = k
             /\ \A j \in loaded : Watched(j) =>
                  \/ j.last = now
                  \/ j \in disk /\ \A k \in late : Watched(k) => k.kind # j.kind
             /\ \E j \in loaded : IsDream(j) /\ now - j.last <= Catchup
             /\ \A j \in loaded : j \in disk \/ IsDream(j)
             /\ \A j \in disk : j \in loaded \/ IsDream(j)
<1> DEFINE loaded == WithDream(disk)
<1>n. /\ now \in Nat /\ Catchup \in Nat
      /\ \A j \in disk : j \in AnyJob /\ j.last \in Nat /\ (IsDream(j) => Watched(j))
  BY ClockAssumption DEF Clock, Sound, AnyJob, IsDream, Watched
<1>1. CASE \E j \in disk : IsDream(j)
  <2>1. PICK d \in disk : IsDream(d)
    BY <1>1
  <2>2. \A j \in disk : IsDream(j) => j = d
    BY <1>n, <2>1 DEF Sound, IsDream
  <2> DEFINE e == IF Late(d) THEN [d EXCEPT !.last = now] ELSE d
  <2>3. /\ e \in AnyJob /\ e.id = d.id /\ e.kind = d.kind /\ e.last <= now /\ now - e.last <= Catchup
        /\ e = d \/ e.last = now
    BY <1>n, <2>1 DEF AnyJob, Late, Sound
  <2>4. loaded = (disk \ {d}) \cup {e}
    BY <1>1, <2>1, <2>2 DEF WithDream, Late
  <2>5. {j \in disk : Late(j)} \subseteq {d}
    BY <2>2 DEF Late
  <2>6. \A j \in disk \ {d} : Watched(j) => j.kind # d.kind
    BY <1>n, <2>1 DEF Sound
  <2>7. e = d \/ e.last = now
    BY <2>3
  <2>8. e = d => ~Late(d)
    BY <1>n, <2>1 DEF Late, AnyJob
  <2> HIDE DEF e
  <2> QED
    BY <1>n, <2>1, <2>2, <2>3, <2>4, <2>5, <2>6, <2>7, <2>8 DEF Sound, Watched, IsDream
<1>2. CASE ~ \E j \in disk : IsDream(j)
  <2>1. loaded = disk \cup {NewJob("dream")}
    BY <1>2 DEF WithDream
  <2>2. NewJob("dream") \in AnyJob /\ NewJob("dream").last = now /\ NewJob("dream").id = 0
        /\ NewJob("dream").kind = "dream"
    BY <1>n DEF NewJob, AnyJob, Kinds, Phases
  <2>3. {j \in disk : Late(j)} = {}
    BY <1>2 DEF Late
  <2> QED
    BY <1>n, <1>2, <2>1, <2>2, <2>3, ClockAssumption DEF Sound, Watched, IsDream
<1> QED
  BY <1>1, <1>2

LEMMA InitJobs == Init => IInv
<1> SUFFICES ASSUME Init PROVE IInv
  OBVIOUS
<1>1. list \subseteq AnyJob /\ \A j \in list : j.last = Epoch /\ j.kind = "dream" /\ j.id = 0
  BY ClockAssumption DEF Init, AnyJob, Kinds, Phases
<1>2. Clock(rang, now)
  BY ClockAssumption DEF Init, Clock
<1>3. \A j, k \in list : j = k
  BY DEF Init
<1>4. \A j \in list : rang[j.kind] = 0 /\ 0 <= j.last /\ j.last <= now
  BY <1>1, ClockAssumption DEF Init
<1>5. Sound(list, rang, now, {})
  BY <1>1, <1>3, <1>4 DEF Sound
<1> QED
  BY <1>2, <1>5 DEF Init, IInv, Durable

LEMMA TickKeeps ==
  ASSUME IInv, NEW ok \in BOOLEAN, SchedulerTick(ok)
  PROVE  IInv'
<1>1. list \subseteq AnyJob /\ disk \subseteq AnyJob /\ now \in Nat
  BY DEF IInv, Sound, Clock
<1>2. Rings({} \cup {j \in list : Due(j)}) /\ PersistTick(list, disk, ok, unwritten)
  BY DEF SchedulerTick
<1>3. /\ Clock(rang, now) /\ early = {} /\ Sound(list, rang, now, lost)
      /\ \A j \in Durable(list) : j \in disk \/ j.kind \in unwritten
      /\ \A j \in disk : Watched(j) => j \in list \/ j.kind \in unwritten
  BY DEF IInv, SchedulerTick
<1>4. /\ \A j \in list \cup disk : j.last <= now /\ (IsDream(j) => j.id = 0)
      /\ \A j, k \in list : Watched(j) /\ Watched(k) /\ j.kind = k.kind => j = k
      /\ \A j, k \in disk : Watched(j) /\ Watched(k) /\ j.kind = k.kind => j = k
  BY DEF IInv, Sound
<1>5. /\ Clock(rang', now) /\ early' = {}
      /\ Sound(AfterTick(list), rang', now, lost')
      /\ Sound(disk', rang', now, lost' \cup unwritten')
      /\ \A j \in Durable(AfterTick(list)) : j \in disk' \/ j.kind \in unwritten'
      /\ \A j \in disk' : Watched(j) => j \in AfterTick(list) \/ j.kind \in unwritten'
  <2> DEFINE late == {}
  <2>1. late \subseteq list /\ (\A k \in late : Late(k)) /\ Rings(late \cup {j \in list : Due(j)})
    BY <1>2
  <2>2. \A j \in list : Watched(j) =>
          \/ j.last = now
          \/ j \in list /\ \A k \in late : Watched(k) => k.kind # j.kind
    OBVIOUS
  <2> HIDE DEF late
  <2>3. Ticks(list, list, disk, late, ok, unwritten)
    BY <1>1, <1>2, <1>3, <1>4, <2>1, <2>2 DEF Ticks
  <2> QED
    BY <2>3, TickSound, Zenon
<1> QED
  BY <1>5 DEF SchedulerTick, IInv, counters, turnVars, Durable

LEMMA PressKeeps ==
  ASSUME IInv, NEW kind \in PanelKinds, NEW ok \in BOOLEAN,
         SetReminder(kind, ok) \/ StopReminder(kind, ok)
  PROVE  IInv'
<1>1. /\ now \in Nat /\ now' = now /\ early' = {} /\ made' = made /\ status' = status /\ status = "up"
      /\ list' = Others(kind) \/ list' = Others(kind) \cup {NewJob(kind)}
      /\ Persist(Durable(list'), disk, ok, {kind} \ {"pomodoro"}, unwritten)
      /\ lost' = lost \ {kind}
  BY DEF IInv, Clock, SetReminder, StopReminder
<1>2. /\ NewJob(kind) \in AnyJob /\ NewJob(kind).last = now /\ NewJob(kind).kind = kind
      /\ ~IsDream(NewJob(kind)) /\ \A j \in Others(kind) : j \in list /\ j.kind # kind
  BY <1>1 DEF NewJob, AnyJob, Kinds, Phases, PanelKinds, Others, IsDream
<1>3. /\ Clock(rang', now)
      /\ \A k \in {"water", "dream"} : rang'[k] = rang[k] \/ (k = kind /\ list' # Others(kind))
  <2>1. CASE StopReminder(kind, ok)
    <3>1. rang' = rang
      BY <2>1 DEF StopReminder
    <3>2. Clock(rang, now)
      BY DEF IInv
    <3> QED
      BY <3>1, <3>2
  <2>2. CASE SetReminder(kind, ok)
    <3>1. rang' = [k \in DOMAIN rang |-> IF k = kind THEN now ELSE rang[k]]
      BY <2>2 DEF SetReminder
    <3>2. list' # Others(kind)
      BY <1>2, <2>2 DEF SetReminder
    <3>3. rang \in [{"water", "dream"} -> Nat] /\ \A k \in {"water", "dream"} : rang[k] <= now
      BY DEF IInv, Clock
    <3>4. rang' \in [{"water", "dream"} -> Nat] /\ \A k \in {"water", "dream"} : rang'[k] <= now
      BY <1>1, <3>1, <3>3
    <3>5. \A k \in {"water", "dream"} : rang'[k] = rang[k] \/ k = kind
      BY <3>1, <3>3
    <3> QED
      BY <1>1, <3>2, <3>4, <3>5 DEF Clock
  <2> QED
    BY <2>1, <2>2
<1>4. Sound(list', rang', now, lost')
  <2>1. list' \subseteq AnyJob /\ \A j \in list' : j.last <= now /\ (IsDream(j) => j.id = 0)
    BY <1>1, <1>2 DEF IInv, Sound
  <2>2. \A j, k \in list' : Watched(j) /\ Watched(k) /\ j.kind = k.kind => j = k
    BY <1>1, <1>2 DEF IInv, Sound
  <2>3. ASSUME NEW j \in list', Watched(j), j.kind \notin lost' PROVE rang'[j.kind] <= j.last
    <3>1. j.kind \in {"water", "dream"}
      BY <2>3 DEF Watched
    <3>2. CASE j \in Others(kind)
      BY <1>1, <1>2, <1>3, <2>3, <3>1, <3>2 DEF IInv, Sound
    <3>3. CASE j = NewJob(kind)
      BY <1>2, <1>3, <3>1, <3>3 DEF Clock
    <3> QED
      BY <1>1, <3>2, <3>3
  <2> QED
    BY <2>1, <2>2, <2>3 DEF Sound
<1>5. CASE ok
  <2>1. disk' = Durable(list') /\ unwritten' = {}
    BY <1>1, <1>5 DEF Persist
  <2>2. Sound(Durable(list'), rang', now, lost')
    BY <1>1, <1>4, SoundPart DEF Durable
  <2> QED
    BY <1>1, <1>3, <1>4, <2>1, <2>2 DEF IInv, Durable
<1>6. CASE ~ok
  <2>1. disk' = disk /\ unwritten' = unwritten \cup ({kind} \ {"pomodoro"})
    BY <1>1, <1>6 DEF Persist
  <2>2. ASSUME NEW j \in disk, Watched(j), j.kind \notin lost' \cup unwritten'
        PROVE  rang'[j.kind] <= j.last
    <3>1. j.kind \in {"water", "dream"} /\ j.kind # kind /\ j.kind \notin lost \cup unwritten
      BY <1>1, <2>1, <2>2 DEF Watched
    <3>2. rang[j.kind] <= j.last /\ rang'[j.kind] = rang[j.kind]
      BY <1>3, <2>2, <3>1 DEF IInv, Sound
    <3> QED
      BY <3>2
  <2>3. Sound(disk', rang', now, lost' \cup unwritten')
    BY <2>1, <2>2 DEF IInv, Sound
  <2>4. \A j \in Durable(list') : j \in disk' \/ j.kind \in unwritten'
    <3>1. NewJob(kind) \in Durable(list') => kind # "pomodoro"
      BY DEF NewJob, Durable
    <3> QED
      BY <1>1, <1>2, <2>1, <3>1 DEF IInv, Durable
  <2>5. \A j \in disk' : Watched(j) => j \in list' \/ j.kind \in unwritten'
    BY <1>1, <2>1 DEF IInv, Others, Watched
  <2> QED
    BY <1>1, <1>3, <1>4, <2>3, <2>4, <2>5 DEF IInv
<1> QED
  BY <1>5, <1>6

LEMMA ToolKeeps ==
  ASSUME IInv, NEW kind \in ToolKinds, NEW noted \in BOOLEAN, ToolReminder(kind, noted)
  PROVE  IInv'
<1> DEFINE job == ToolJob(kind, noted)
<1>1. job \in AnyJob /\ job.id # 0 /\ job.last = 0 /\ ~IsDream(job) /\ ~Watched(job)
  BY ToolAssumption DEF ToolJob, AnyJob, Kinds, Phases, PanelKinds, IsDream, Watched, IInv
<1>2. disk' = disk \cup {job} /\ made' = made + 1
      /\ UNCHANGED <<now, status, list, rang, early, unwritten, lost, turn>>
  BY DEF ToolReminder, turnVars
<1>3. now \in Nat
  BY DEF IInv, Clock
<1> HIDE DEF job
<1>4. Sound(disk', rang, now, lost \cup unwritten)
  BY <1>1, <1>2, <1>3 DEF IInv, Sound
<1> QED
  BY <1>1, <1>2, <1>4 DEF IInv

LEMMA ToolBreakKeeps == IInv /\ ToolWriteBreaks => IInv'
<1> SUFFICES ASSUME IInv, ToolWriteBreaks PROVE IInv'
  OBVIOUS
<1>1. /\ disk' = {} /\ unwritten' = {j.kind : j \in Durable(list)} /\ made' = made + 1 /\ status = "up"
      /\ UNCHANGED <<now, status, list, rang, early, lost>>
  BY DEF ToolWriteBreaks, IInv
<1>2. Sound({}, rang, now, lost \cup unwritten')
  BY DEF Sound
<1>3. \A j \in Durable(list) : j.kind \in unwritten'
  BY <1>1
<1> QED
  BY <1>1, <1>2, <1>3 DEF IInv

LEMMA ForgetKeeps ==
  ASSUME IInv, Forget, disk' = disk \/ disk' = {}, made' \in Nat
  PROVE  IInv'
<1>1. lost' = {j.kind : j \in {k \in disk' : Watched(k) /\ k.kind \in lost \cup unwritten}}
      /\ unwritten' = {}
  BY DEF Forget
<1>2. ASSUME NEW j \in disk', Watched(j), j.kind \notin lost'
      PROVE  rang[j.kind] <= j.last
  BY <1>1, <1>2 DEF IInv, Sound
<1>3. Sound(disk', rang, now, lost') /\ Sound({}, rang, now, lost')
  BY <1>2 DEF IInv, Sound
<1>4. lost' \cup {} = lost'
  OBVIOUS
<1> QED
  BY <1>1, <1>3, <1>4 DEF Forget, IInv

LEMMA StartKeeps ==
  ASSUME IInv, NEW caught \in BOOLEAN, NEW ticked \in BOOLEAN, Start(caught, ticked)
  PROVE  IInv'
<1> DEFINE loaded == WithDream(disk)
<1> DEFINE saved == IF loaded = disk \/ ~caught THEN disk ELSE Durable(loaded)
<1> DEFINE behind == IF loaded = disk \/ caught THEN {} ELSE {"dream"}
<1> DEFINE late == {j \in disk : Late(j)}
<1>1. /\ Clock(rang, now) /\ Sound(disk, rang, now, lost) /\ early = {} /\ now \in Nat
      /\ UNCHANGED <<now, made, turn>> /\ status # "up" /\ list = {} /\ unwritten = {} /\ turn = "idle"
  <2>1. lost \cup {} = lost
    OBVIOUS
  <2> QED
    BY <2>1 DEF IInv, Clock, Start, counters, turnVars
<1>2. /\ loaded \subseteq AnyJob
      /\ \A j \in loaded : j.last <= now /\ (IsDream(j) => j.id = 0)
      /\ \A j, k \in loaded : Watched(j) /\ Watched(k) /\ j.kind = k.kind => j = k
      /\ \A j \in loaded : Watched(j) =>
           \/ j.last = now
           \/ j \in disk /\ \A k \in late : Watched(k) => k.kind # j.kind
      /\ \A j \in loaded : j \in disk \/ IsDream(j)
      /\ \A j \in disk : j \in loaded \/ IsDream(j)
  BY <1>1, DreamFound
<1>3. /\ saved = disk \/ saved \subseteq loaded
      /\ \A j \in Durable(loaded) : j \in saved \/ j.kind \in behind
      /\ \A j \in saved : j \in loaded \/ j.kind \in behind
  BY <1>2 DEF Durable, IsDream
<1>4. /\ saved \subseteq AnyJob
      /\ \A j \in saved : j.last <= now /\ (IsDream(j) => j.id = 0)
      /\ \A j, k \in saved : Watched(j) /\ Watched(k) /\ j.kind = k.kind => j = k
  <2> HIDE DEF loaded, saved
  <2>1. CASE saved = disk
    BY <1>1, <2>1 DEF Sound
  <2>2. CASE saved \subseteq loaded
    BY <1>2, <2>2
  <2> QED
    BY <1>3, <2>1, <2>2
<1>5. CASE \E j \in loaded : Broken(j)
  <2>1. status' = "failed" /\ disk' = saved /\ UNCHANGED <<list, rang, early, unwritten, lost>>
    BY <1>5 DEF Start
  <2> HIDE DEF loaded, saved, late
  <2>2. ASSUME NEW j \in saved, Watched(j), j.kind \notin lost PROVE rang[j.kind] <= j.last
    BY <1>1, <1>2, <1>3, <2>2 DEF Clock, Sound, Watched
  <2>3. Sound(saved, rang, now, lost)
    BY <1>4, <2>2 DEF Sound
  <2>4. lost \cup {} = lost
    OBVIOUS
  <2> QED
    BY <1>1, <2>1, <2>3, <2>4 DEF IInv
<1>6. CASE ~ \E j \in loaded : Broken(j)
  <2>1. /\ status' = "up" /\ list' = AfterTick(loaded) /\ PersistTick(loaded, saved, ticked, behind)
        /\ Rings(late \cup {j \in loaded : Due(j)})
    BY <1>6 DEF Start
  <2>2. late \subseteq disk /\ \A k \in late : Late(k)
    OBVIOUS
  <2> HIDE DEF loaded, saved, late, behind
  <2>t. Ticks(disk, loaded, saved, late, ticked, behind)
    BY <1>1, <1>2, <1>3, <1>4, <2>1, <2>2 DEF Ticks
  <2>3. /\ Clock(rang', now) /\ early' = {}
        /\ Sound(AfterTick(loaded), rang', now, lost')
        /\ Sound(disk', rang', now, lost' \cup unwritten')
        /\ \A j \in Durable(AfterTick(loaded)) : j \in disk' \/ j.kind \in unwritten'
        /\ \A j \in disk' : Watched(j) => j \in AfterTick(loaded) \/ j.kind \in unwritten'
    BY <2>t, TickSound, Zenon
  <2> QED
    BY <1>1, <2>1, <2>3 DEF IInv, Durable
<1> QED
  BY <1>5, <1>6

LEMMA MinuteKeeps == IInv /\ Minute => IInv'
<1> SUFFICES ASSUME IInv, Minute PROVE IInv'
  OBVIOUS
<1>1. now \in Nat /\ now' = now + 1 /\ UNCHANGED <<status, list, disk, rang, early, unwritten, lost, made, turn>>
  BY DEF IInv, Clock, Minute, jobVars, counters, turnVars
<1>2. now' \in Nat /\ now <= now'
  BY <1>1
<1>3. Clock(rang, now')
  BY <1>1, <1>2 DEF IInv, Clock
<1>4. Sound(list, rang, now', lost) /\ Sound(disk, rang, now', lost \cup unwritten)
  BY <1>1, <1>2, SoundPart DEF IInv
<1> QED
  BY <1>1, <1>3, <1>4 DEF IInv

LEMMA Invariance == Spec => []IInv
<1>1. IInv /\ [Next]_vars => IInv'
  <2> SUFFICES ASSUME IInv, [Next]_vars PROVE IInv'
    OBVIOUS
  <2>1. ASSUME NEW ok \in BOOLEAN, SchedulerTick(ok) PROVE IInv'
    BY <2>1, TickKeeps
  <2>2. ASSUME NEW ok \in BOOLEAN, NEW kind \in PanelKinds, SetReminder(kind, ok) \/ StopReminder(kind, ok)
        PROVE  IInv'
    BY <2>2, PressKeeps
  <2>3. ASSUME NEW kind \in ToolKinds, NEW noted \in BOOLEAN, ToolReminder(kind, noted) PROVE IInv'
    BY <2>3, ToolKeeps
  <2>4. CASE ToolWriteBreaks
    BY <2>4, ToolBreakKeeps
  <2>5. CASE Die \/ DieInTool
    <3>1. /\ Forget /\ (disk' = disk \/ disk' = {})
          /\ made' = made \/ made' = made + 1
      BY <2>5 DEF Die, DieInTool
    <3>2. made' \in Nat
      BY <3>1 DEF IInv
    <3> QED
      BY <3>1, <3>2, ForgetKeeps
  <2>6. ASSUME NEW caught \in BOOLEAN, NEW ticked \in BOOLEAN, Start(caught, ticked) PROVE IInv'
    BY <2>6, StartKeeps
  <2>7. CASE Minute
    BY <2>7, MinuteKeeps
  <2>8. CASE /\ UNCHANGED <<now, status, jobVars, made>>
             /\ status = "up" \/ turn # "idle" \/ UNCHANGED turn
    BY <2>8 DEF IInv, jobVars, Clock, Sound
  <2> QED
    BY <2>1, <2>2, <2>3, <2>4, <2>5, <2>6, <2>7, <2>8
       DEF Next, vars, counters, ConsumerTick, ChatSend, ChatSendLong, Extracted, TurnEnds, TaskEnds,
           Fullscreen, turnVars
<1> QED
  BY <1>1, InitJobs, PTL DEF Spec

(* What a death leaves in scheduled.json is every durable job, up to date,   *)
(* but for those of which the last write failed.                             *)
THEOREM JobsSurvive == Spec => []DurableOnDisk
<1>1. IInv => DurableOnDisk
  BY DEF IInv, DurableOnDisk
<1> QED
  BY <1>1, Invariance, PTL

(* The water reminder keeps its interval and the dream is not begun twice in *)
(* a minute, over deaths, starts and catching up; a job whose last write      *)
(* failed before the process ended may ring once too soon.                   *)
THEOREM RingingInTime == Spec => []RingsApart
<1>1. IInv => RingsApart
  BY DEF IInv, RingsApart
<1> QED
  BY <1>1, Invariance, PTL

(* After a start the dream is not overdue.                                   *)
THEOREM DreamIsCaughtUp == Spec => DreamCaughtUp
<1> DEFINE Caught == \E j \in list' : IsDream(j) /\ now - j.last <= Catchup
<1>1. IInv /\ [Next]_vars => [status # "up" /\ status' = "up" => Caught]_vars
  <2> SUFFICES ASSUME IInv, [Next]_vars, status # "up", status' = "up" PROVE Caught
    OBVIOUS
  <2>1. \E caught, ticked \in BOOLEAN : Start(caught, ticked)
    BY DEF Next, vars, SchedulerTick, SetReminder, StopReminder, ConsumerTick, ChatSend,
       ChatSendLong, Extracted, TurnEnds, ToolReminder, ToolWriteBreaks, TaskEnds, Die, DieInTool, Forget, Minute,
       Fullscreen
  <2>2. list' = AfterTick(WithDream(disk))
    BY <2>1 DEF Start
  <2>s. Sound(disk, rang, now, lost)
    <3>1. unwritten = {} /\ lost \cup {} = lost
      BY DEF IInv
    <3> QED
      BY <3>1 DEF IInv
  <2>3. PICK j \in WithDream(disk) : IsDream(j) /\ now - j.last <= Catchup
    BY <2>s, DreamFound DEF IInv
  <2>4. j \in AnyJob /\ now \in Nat /\ Catchup \in Nat
    BY <2>s, DreamFound, ClockAssumption DEF IInv, Clock
  <2>5. IsDream(Fired(j)) /\ now - Fired(j).last <= Catchup
    BY <2>3, <2>4, FiredJob DEF IsDream
  <2> QED
    BY <2>2, <2>3, <2>5 DEF AfterTick
<1> QED
  BY <1>1, Invariance, PTL DEF Spec, DreamCaughtUp

(* As long as the model never asks the tool for a pomodoro, every start      *)
(* succeeds; with one, it need not (StartNeverFails has a run that shows it). *)
THEOREM StartsWithoutToolPomodoro ==
  ASSUME "pomodoro" \notin ToolKinds
  PROVE  Spec => []StartNeverFails
<1> DEFINE Whole == /\ StartNeverFails
                    /\ \A j \in list \cup disk : j.kind = "pomodoro" => j.phase \in {"focus", "rest"}
<1>1. Init => Whole
  BY DEF Init, StartNeverFails
<1>2. IInv /\ Whole /\ [Next]_vars => Whole'
  <2> SUFFICES ASSUME IInv, Whole, [Next]_vars PROVE Whole'
    OBVIOUS
  <2> DEFINE Good(j) == j.kind = "pomodoro" => j.phase \in {"focus", "rest"}
  <2>n. now \in Nat /\ list \subseteq AnyJob /\ disk \subseteq AnyJob
    BY DEF IInv, Clock, Sound
  <2>f. ASSUME NEW j \in AnyJob, Good(j) PROVE Good(Fired(j))
    BY <2>f DEF Fired, AnyJob
  <2>t. ASSUME NEW jobs, jobs \subseteq AnyJob, \A j \in jobs : Good(j)
        PROVE  \A j \in AfterTick(jobs) : Good(j)
    BY <2>t, <2>f DEF AfterTick
  <2>1. CASE \E ok \in BOOLEAN : SchedulerTick(ok)
    BY <2>1, <2>n, <2>t DEF SchedulerTick, PersistTick, Persist, Saved, Durable, StartNeverFails
  <2>2. ASSUME NEW kind \in PanelKinds, NEW ok \in BOOLEAN,
               SetReminder(kind, ok) \/ StopReminder(kind, ok)
        PROVE  Whole'
    BY <2>2 DEF SetReminder, StopReminder, Persist, Others, NewJob, Durable, StartNeverFails
  <2>3. ASSUME NEW kind \in ToolKinds, NEW noted \in BOOLEAN, ToolReminder(kind, noted) PROVE Whole'
    BY <2>3 DEF ToolReminder, ToolJob, StartNeverFails
  <2>4. CASE Die \/ DieInTool \/ ToolWriteBreaks
    BY <2>4 DEF Die, DieInTool, ToolWriteBreaks, Forget, StartNeverFails
  <2>5. CASE \E caught, ticked \in BOOLEAN : Start(caught, ticked)
    <3>1. WithDream(disk) \subseteq AnyJob
      <4>1. status # "up"
        BY <2>5 DEF Start
      <4>2. unwritten = {} /\ lost \cup {} = lost
        BY <4>1 DEF IInv
      <4> QED
        BY <4>2, DreamFound DEF IInv
    <3>2. \A j \in WithDream(disk) : Good(j)
      BY <2>n DEF WithDream, Late, IsDream, NewJob, AnyJob
    <3>3. ~ \E j \in WithDream(disk) : Broken(j)
      BY <3>2 DEF Broken
    <3>4. status' = "up" /\ list' = AfterTick(WithDream(disk))
          /\ disk' \subseteq list' \cup WithDream(disk) \cup disk
      BY <2>5, <3>3 DEF Start, PersistTick, Persist, Saved, Durable
    <3> QED
      BY <2>t, <3>1, <3>2, <3>4 DEF StartNeverFails
  <2>6. CASE UNCHANGED <<status, list, disk>>
    BY <2>6 DEF StartNeverFails
  <2> QED
    BY <2>1, <2>2, <2>3, <2>4, <2>5, <2>6
       DEF Next, vars, jobVars, ConsumerTick, ChatSend, ChatSendLong, Extracted, TurnEnds, TaskEnds,
           Minute, Fullscreen
<1> QED
  BY <1>1, <1>2, Invariance, PTL DEF Spec
-----------------------------------------------------------------------------
(* The other half of the scheduler: the heartbeat, which shares neither      *)
(* state nor clock with the reminders.                                       *)
CONSTANTS DecisionRetry, LongAgo, MaxNow
VARIABLES lastDecisionAt, inFlight, state, file

H == INSTANCE Heartbeat

\* What is remembered of the last bubble, in memory and on disk, is when it
\* went out; only between a bubble and its save, or after a save that failed or
\* was cut off, may it be something else.
Remembered ==
  /\ saving => forgotten /\ state.lastProactiveAt = bubbleAt
  /\ ~forgotten => state.lastProactiveAt = bubbleAt /\ file.lastProactiveAt = bubbleAt

HeartbeatInv == H!TypeOK /\ Remembered

LEMMA HeartbeatTypeInit ==
  ASSUME H!GapsFit, H!Init
  PROVE  H!TypeOK
<1>1. clock \in H!Time
  BY DEF H!GapsFit, H!Init, H!Time
<1>2. {lastDecisionAt, bubbleAt} \subseteq H!MaybeTime
  BY DEF H!Init, H!MaybeTime
<1> QED BY <1>1, <1>2 DEF H!Init, H!TypeOK

\* Every step keeps the types: a decision is one of the two steps or none, and
\* what is remembered is a time or nothing.
LEMMA HeartbeatTypeNext ==
  ASSUME H!GapsFit, H!TypeOK, [H!Next]_(H!vars)
  PROVE  H!TypeOK'
<1> USE DEF H!TypeOK
<1>1. ASSUME NEW idle \in 0..MaxNow, NEW muting \in BOOLEAN, H!OnIdle(idle, muting)
      PROVE H!TypeOK'
  <2>1. CASE H!MayDecide(idle, muting)
    <3>1. inFlight' \in H!Decision /\ lastDecisionAt' \in H!MaybeTime
      BY <1>1, <2>1 DEF H!OnIdle, H!Decision, H!MaybeTime
    <3> QED BY <1>1, <3>1 DEF H!OnIdle, H!heard
  <2>2. CASE ~H!MayDecide(idle, muting)
    BY <1>1, <2>2 DEF H!OnIdle, H!heard
  <2> QED BY <2>1, <2>2
<1>2. CASE H!DecidesNot
  BY <1>2 DEF H!DecidesNot, H!Ended, H!heard
<1>3. CASE H!Decides
  <2>1. inFlight \in H!Decision
    BY <1>3 DEF H!Decides, H!NoDecision
  <2>2. inFlight' \in H!Decision
    BY <1>3, <2>1 DEF H!Decides, H!Decision
  <2> QED BY <1>3, <2>2 DEF H!Decides, H!heard
<1>4. CASE H!KeepsSilent
  BY <1>4 DEF H!KeepsSilent, H!Ended, H!heard
<1>5. CASE H!Speak
  <2>1. clock \in H!MaybeTime /\ state' \in {H!Spoken(t) : t \in H!Time}
    BY <1>5 DEF H!Speak, H!MaybeTime
  <2> QED BY <1>5, <2>1 DEF H!Speak
<1>6. CASE H!Save
  BY <1>6 DEF H!Save, H!Saved, H!Ended
<1>7. ASSUME NEW c \in H!Config, H!SetConfig(c) PROVE H!TypeOK'
  BY <1>7 DEF H!SetConfig, H!heard
<1>8. CASE H!Tick
  <2>1. clock' \in H!Time
    BY <1>8 DEF H!GapsFit, H!Tick, H!Time
  <2> QED BY <1>8, <2>1 DEF H!Tick, H!heard
<1>9. CASE H!Restart
  <2>1. file' \in {H!Silent} \cup {H!Spoken(t) : t \in H!Time}
    BY <1>9 DEF H!Restart
  <2> QED BY <1>9, <2>1 DEF H!Restart, H!heard, H!MaybeTime
<1>10. CASE UNCHANGED H!vars
  BY <1>10 DEF H!vars
<1> QED BY <1>1, <1>2, <1>3, <1>4, <1>5, <1>6, <1>7, <1>8, <1>9, <1>10 DEF H!Next, H!Answer

LEMMA RememberedInit == H!Init => Remembered
BY DEF H!Init, Remembered, H!Silent

\* A bubble is noted in memory as it goes out, and the save copies memory to the
\* disk; a start copies the disk to memory, and when it interrupts a save the
\* bubble counts as forgotten already.
LEMMA RememberedNext == HeartbeatInv /\ [H!Next]_(H!vars) => Remembered'
<1> SUFFICES ASSUME HeartbeatInv, [H!Next]_(H!vars) PROVE Remembered'
  OBVIOUS
<1> USE DEF HeartbeatInv, Remembered
<1>1. ASSUME NEW idle \in 0..MaxNow, NEW muting \in BOOLEAN, H!OnIdle(idle, muting)
      PROVE Remembered'
  BY <1>1 DEF H!OnIdle, H!heard
<1>2. CASE H!DecidesNot
  BY <1>2 DEF H!DecidesNot, H!heard
<1>3. CASE H!Decides
  BY <1>3 DEF H!Decides, H!heard
<1>4. CASE H!KeepsSilent
  BY <1>4 DEF H!KeepsSilent, H!heard
<1>5. CASE H!Speak
  BY <1>5 DEF H!Speak, H!Spoken
<1>6. CASE H!Save
  <2>1. ~saving' /\ state' = state /\ bubbleAt' = bubbleAt /\ state.lastProactiveAt = bubbleAt
    BY <1>6 DEF H!Save
  <2>2. CASE file' = H!Saved
    BY <2>1, <2>2 DEF H!Saved
  <2>3. CASE UNCHANGED <<file, forgotten>>
    BY <1>6, <2>1, <2>3 DEF H!Save
  <2> QED BY <1>6, <2>2, <2>3 DEF H!Save
<1>7. ASSUME NEW c \in H!Config, H!SetConfig(c) PROVE Remembered'
  BY <1>7 DEF H!SetConfig, H!heard
<1>8. CASE H!Tick
  BY <1>8 DEF H!Tick, H!heard
<1>9. CASE H!Restart
  BY <1>9 DEF H!Restart, H!heard, H!TypeOK
<1>10. CASE UNCHANGED H!vars
  BY <1>10 DEF H!vars
<1> QED BY <1>1, <1>2, <1>3, <1>4, <1>5, <1>6, <1>7, <1>8, <1>9, <1>10 DEF H!Next, H!Answer

\* The types, and what is remembered of the last bubble, in every behaviour.
THEOREM HeartbeatInvariant == H!GapsFit => (H!Spec => []HeartbeatInv)
<1> SUFFICES ASSUME H!GapsFit PROVE H!Spec => []HeartbeatInv
  OBVIOUS
<1>1. H!Init => HeartbeatInv
  BY HeartbeatTypeInit, RememberedInit DEF HeartbeatInv
<1>2. HeartbeatInv /\ [H!Next]_(H!vars) => HeartbeatInv'
  BY HeartbeatTypeNext, RememberedNext DEF HeartbeatInv
<1> QED BY <1>1, <1>2, PTL DEF H!Spec

\* Only Speak sends a bubble, and it asks the gate of the configuration, the
\* screen and the clock of that moment.
LEMMA OnlySpeakSpeaks == [H!Next]_(H!vars) /\ Speaks => H!Speak
BY DEF H!Next, H!Answer, Speaks, H!OnIdle, H!DecidesNot, H!Decides, H!KeepsSilent, H!Save, H!SetConfig, H!Tick,
       H!Restart, H!heard, H!vars

\* Whatever changed while a decision was awaited, and over deaths and starts, a
\* bubble goes out only where it is welcome: no mute, no quiet hours, and far
\* enough from the one before.
THEOREM Welcome == H!GapsFit => (H!Spec => BubbleIsWelcome)
<1> SUFFICES ASSUME H!GapsFit PROVE H!Spec => BubbleIsWelcome
  OBVIOUS
<1> DEFINE Welcomed ==
      /\ cfg.frequency # "off"
      /\ ~(cfg.fullscreenMute /\ latestFullscreen)
      /\ ~QuietNow(cfg.quietHours)
      /\ ~forgotten => clock - bubbleAt >= MinGap[cfg.frequency]
<1>1. HeartbeatInv /\ [H!Next]_(H!vars) => (Speaks => Welcomed)
  <2> SUFFICES ASSUME HeartbeatInv, [H!Next]_(H!vars), Speaks PROVE Welcomed
    OBVIOUS
  <2>1. /\ cfg.frequency # "off"
        /\ ~(cfg.fullscreenMute /\ latestFullscreen)
        /\ ~QuietNow(cfg.quietHours)
        /\ clock - state.lastProactiveAt >= MinGap[cfg.frequency]
    BY OnlySpeakSpeaks DEF H!Speak, H!SecondGate, H!P02Gate, QuietNow, H!QuietNow
  <2>2. ~forgotten => state.lastProactiveAt = bubbleAt
    BY DEF HeartbeatInv, Remembered
  <2> QED BY <2>1, <2>2
<1>2. HeartbeatInv /\ [H!Next]_(H!vars) => [Speaks => Welcomed]_saving
  BY <1>1
<1> QED BY HeartbeatInvariant, <1>2, PTL DEF H!Spec, BubbleIsWelcome
=============================================================================
