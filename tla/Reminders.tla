------------------------------ MODULE Reminders ------------------------------
(***************************************************************************)
(* The producers and consumers around the injection queue: the scheduler    *)
(* and its scheduled.json, the panel and the model's schedule_reminder tool *)
(* that set reminders, task results, the consumer that tells reminders when *)
(* the pet is free to speak, and the companion turn that takes the rest     *)
(* into its prompt.  Time is counted in minutes.                            *)
(***************************************************************************)
EXTENDS Naturals, FiniteSets, FiniteSetsExt

CONSTANTS
  FocusMin, RestMin, WaterMin,  \* config.reminders
  Day,                          \* minutes of a day
  QuietFrom, QuietTo,           \* config.proactive.quietHours
  DreamAt, NoteAt,              \* when the crons of the dream and of notes match
  Catchup,                      \* DREAM_CATCHUP_HOURS
  ReminderHeld,                 \* REMINDER_EXPIRES_MS
  ResultHeld, NoteHeld,         \* how long results and notes are kept
  MaxPerTurn,                   \* INJECTION_MAX_PER_TURN
  ToolKinds,                    \* what the model asks schedule_reminder for
  Epoch,                        \* the minute the runs begin at
  Horizon,                      \* bound: the last minute
  MaxPresses,                   \* bound: presses on the panel's cards
  MaxTasks,                     \* bound: tasks that end
  MaxJobs,                      \* bound: calls of schedule_reminder
  MaxDeaths                     \* bound: ends of the process

ASSUME IntervalAssumption == {FocusMin, RestMin, WaterMin} \subseteq Nat \ {0}
ASSUME ClockAssumption ==
  /\ {Day, QuietFrom, QuietTo, DreamAt, NoteAt, Catchup, Epoch, Horizon} \subseteq Nat
  /\ Day > 0 /\ Epoch > WaterMin /\ Epoch > Catchup
ASSUME QueueAssumption == {ReminderHeld, ResultHeld, NoteHeld, MaxPerTurn} \subseteq Nat
ASSUME BoundAssumption == {MaxPresses, MaxTasks, MaxJobs, MaxDeaths} \subseteq Nat
ASSUME ToolAssumption == ToolKinds \subseteq {"pomodoro", "water", "custom"}

VARIABLES
  now, fullscreen,
  status,     \* of the harness: "up", "down", or "failed" when its start threw
  list,       \* CronScheduler.list
  disk,       \* scheduled.json; a file that cannot be parsed reads as empty
  queue,      \* InjectionQueue.items
  turn,       \* of the companion loop, between two of its awaits
  carried,    \* the items the turn has taken into its prompt
  rang,       \* history: when the panel's water job and the dream last rang
  early,      \* history: those of them that rang too soon
  unwritten,  \* history: the kinds whose last change a failed write left out
  lost,       \* history: those of them that a start then read as they were before
  made, presses, tasks, deaths   \* how often the bounded things happened

jobVars == <<list, disk, rang, early, unwritten, lost>>
turnVars == <<turn, carried>>
counters == <<made, presses, tasks, deaths>>
vars == <<now, fullscreen, status, jobVars, queue, turnVars, counters>>

-----------------------------------------------------------------------------
(* Jobs.  The panel's jobs and the dream have id 0, those of the tool a      *)
(* number.  phase is the pomodoro's; the tool writes no such payload, and a  *)
(* note in its place or nothing at all.                                      *)
PanelKinds == {"pomodoro", "water"}
Kinds == PanelKinds \cup {"dream", "custom"}
Phases == {"focus", "rest", "note", "missing"}
Job == [id : 0 .. MaxJobs, kind : Kinds, last : Nat, phase : Phases]

NewJob(kind) == [id |-> 0, kind |-> kind, last |-> now, phase |-> "focus"]
Durable(jobs) == {j \in jobs : ~(j.kind = "pomodoro" /\ j.id = 0)}

(* A pomodoro without a payload makes due() throw; one with a note has an    *)
(* interval that is not a number, so it is never due.                        *)
Broken(j) == j.kind = "pomodoro" /\ j.phase = "missing"
Matches(j) == now % Day = IF j.kind = "dream" THEN DreamAt ELSE NoteAt
Due(j) ==
  \/ j.kind = "pomodoro" /\ \/ j.phase = "focus" /\ now - j.last >= FocusMin
                            \/ j.phase = "rest" /\ now - j.last >= RestMin
  \/ j.kind = "water" /\ now - j.last >= WaterMin
  \/ j.kind \in {"dream", "custom"} /\ Matches(j) /\ j.last < now

Fired(j) ==
  [j EXCEPT !.last = now,
            !.phase = IF j.kind # "pomodoro" THEN @ ELSE IF @ = "focus" THEN "rest" ELSE "focus"]

-----------------------------------------------------------------------------
(* The queue: a set of items with their place in line, which items that one  *)
(* tick pushes share.  A key is the dedupeKey.                               *)
ReminderNames == {"focus_start", "focus_end", "rest_end", "abort", "water"}
Names == ReminderNames \cup {"note", "result"}
Item == [name : Names, id : Nat, minute : Nat, expires : Nat, place : Nat]

Key(i) == <<i.name, i.id, i.minute>>
IsReminder(i) == i.name \in ReminderNames
Priority(i) == IF i.name = "result" THEN 1 ELSE 2
LastPlace(q) == IF q = {} THEN 0 ELSE Max({i.place : i \in q}) + 1

Reminder(name, q) ==
  [name |-> name, id |-> 0, minute |-> 0, expires |-> now + ReminderHeld, place |-> LastPlace(q)]

(* Mutant of Push: without a look at the dedupe keys. *)
PushAlways(q, items) == q \cup items
Push(q, items) == q \cup {i \in items : \A j \in q : Key(j) # Key(i)}

(* Mutant of Unexpired: no item goes stale. *)
UnexpiredForever(q) == q
Unexpired(q) == {i \in q : i.expires > now}

(* Items of one tick are notes, of jobs that stand in the order of their ids. *)
Before(i, j) ==
  \/ Priority(i) < Priority(j)
  \/ Priority(i) = Priority(j) /\ \/ i.place < j.place
                                  \/ i.place = j.place /\ i.id < j.id

(* Mutant of Drained: one too many. *)
DrainedOneMore(q) ==
  LET eligible == {i \in q : ~IsReminder(i)}
  IN  {i \in eligible : Cardinality({j \in eligible : Before(j, i)}) <= MaxPerTurn}

(* The first few of the items that are not reminders. *)
Drained(q) ==
  LET eligible == {i \in q : ~IsReminder(i)}
  IN  {i \in eligible : Cardinality({j \in eligible : Before(j, i)}) < MaxPerTurn}

-----------------------------------------------------------------------------
(* What a job that is due puts into the queue; the dream puts nothing.       *)
Note(j, q) ==
  [name |-> "note", id |-> j.id, minute |-> now, expires |-> now + NoteHeld, place |-> LastPlace(q)]
Output(j, q) ==
  IF j.kind = "custom" THEN {Note(j, q)}
  ELSE {Reminder(name, q) : name \in {n \in ReminderNames :
          \/ j.kind = "water" /\ n = "water"
          \/ j.kind = "pomodoro" /\ j.phase = "focus" /\ n = "focus_end"
          \/ j.kind = "pomodoro" /\ j.phase = "rest" /\ n = "rest_end"}}

Watched(j) == j.id = 0 /\ j.kind \in {"water", "dream"}
Spacing(kind) == IF kind = "water" THEN WaterMin ELSE 1
Rings(jobs) ==
  LET kinds == {j.kind : j \in {k \in jobs : Watched(k)}}
  IN  /\ rang' = [k \in DOMAIN rang |-> IF k \in kinds THEN now ELSE rang[k]]
      /\ early' = early \cup {k \in kinds \ lost : now - rang[k] < Spacing(k)}
      /\ lost' = lost \ kinds

AfterTick(jobs) == {IF Due(j) THEN Fired(j) ELSE j : j \in jobs}

(* Mutants of Saved: ticks are not written; written before the jobs rang. *)
SavedNever(jobs, file) == file
SavedBefore(jobs, file) == Durable(jobs)

(* The file that a tick over jobs is to leave. *)
Saved(jobs, file) == Durable(AfterTick(jobs))

(* persist() logs a write that fails and goes on: the file stays as it was.   *)
(* kinds are those whose change it then leaves out, behind those it left out  *)
(* before.                                                                    *)
Persist(new, file, ok, kinds, behind) ==
  /\ disk' = IF ok THEN new ELSE file
  /\ unwritten' = IF ok THEN {} ELSE behind \cup kinds

(* A tick writes when a durable job rang. *)
PersistTick(jobs, file, ok, behind) ==
  LET kinds == {j.kind : j \in {k \in Durable(jobs) : Due(k)}}
  IN  IF kinds # {} THEN Persist(Saved(jobs, file), file, ok, kinds, behind)
      ELSE disk' = file /\ unwritten' = behind

SchedulerTick(ok) ==
  /\ status = "up"
  /\ \E j \in list : Due(j)
  /\ LET due == {j \in list : Due(j)}
     IN  /\ queue' = Push(queue, UNION {Output(j, queue) : j \in due})
         /\ Rings(due)
  /\ list' = AfterTick(list)
  /\ PersistTick(list, disk, ok, unwritten)
  /\ UNCHANGED <<now, fullscreen, status, turnVars, counters>>

(* REMINDER_SET and REMINDER_STOP, from the cards of the panel.  Its pomodoro *)
(* is not kept in the file, so a write that fails leaves out nothing of it.  *)
Others(kind) == {j \in list : j.kind # kind}
Counted == presses < MaxPresses /\ presses' = presses + 1

SetReminder(kind, ok) ==
  /\ status = "up" /\ Counted
  /\ list' = Others(kind) \cup {NewJob(kind)}
  /\ Persist(Durable(list'), disk, ok, {kind} \ {"pomodoro"}, unwritten)
  /\ lost' = lost \ {kind}
  /\ queue' = IF kind = "pomodoro" THEN Push(queue, {Reminder("focus_start", queue)}) ELSE queue
  /\ rang' = [k \in DOMAIN rang |-> IF k = kind THEN now ELSE rang[k]]
  /\ UNCHANGED <<now, fullscreen, status, early, turnVars, made, tasks, deaths>>

StopReminder(kind, ok) ==
  /\ status = "up" /\ Counted
  /\ list' = Others(kind)
  /\ Persist(Durable(list'), disk, ok, {kind} \ {"pomodoro"}, unwritten)
  /\ lost' = lost \ {kind}
  /\ queue' = IF kind = "pomodoro" /\ Others(kind) # list
              THEN Push(queue, {Reminder("abort", queue)}) ELSE queue
  /\ UNCHANGED <<now, fullscreen, status, rang, early, turnVars, made, tasks, deaths>>

-----------------------------------------------------------------------------
(* The consumer's tick, skipped while the loop is busy.  When muted it puts  *)
(* back what it took, and what went stale is gone.                           *)
InQuietHours ==
  LET minute == now % Day
  IN  /\ QuietFrom # QuietTo
      /\ IF QuietFrom < QuietTo
         THEN minute >= QuietFrom /\ minute < QuietTo
         ELSE minute >= QuietFrom \/ minute < QuietTo
Muted == fullscreen \/ InQuietHours

(* Mutant of LeftByConsumer: what was taken while muted is not put back. *)
LeftByConsumerDropping(q) == {i \in Unexpired(q) : ~IsReminder(i)}
LeftByConsumer(q) == {i \in Unexpired(q) : IsReminder(i) => Muted}

ConsumerTick ==
  /\ status = "up" /\ turn = "idle"
  /\ queue' = LeftByConsumer(queue)
  /\ UNCHANGED <<now, fullscreen, status, jobVars, turnVars, counters>>

(* A turn.  Up to the drain it awaits nothing that takes time, except the    *)
(* extraction before a compaction of the prompt; a turn that the hooks       *)
(* reject, or that finds another under way, changes nothing.                 *)
Drain ==
  /\ carried' = Drained(Unexpired(queue))
  /\ queue' = Unexpired(queue) \ carried'
  /\ turn' = "streaming"

ChatSend ==
  /\ status = "up" /\ turn = "idle"
  /\ Drain
  /\ UNCHANGED <<now, fullscreen, status, jobVars, counters>>

ChatSendLong ==
  /\ status = "up" /\ turn = "idle"
  /\ turn' = "extracting"
  /\ UNCHANGED <<now, fullscreen, status, jobVars, queue, carried, counters>>

Extracted ==
  /\ turn = "extracting"
  /\ Drain
  /\ UNCHANGED <<now, fullscreen, status, jobVars, counters>>

(* The reply is complete or the stream failed: either way nothing returns    *)
(* to the queue.                                                             *)
TurnEnds ==
  /\ turn = "streaming"
  /\ turn' = "idle" /\ carried' = {}
  /\ UNCHANGED <<now, fullscreen, status, jobVars, queue, counters>>

(* The tool schedule_reminder, called in a turn: it adds to the file and the *)
(* scheduler does not hear of it.  A note or none is the model's choice, and  *)
(* matters for a pomodoro only.                                              *)
ToolJob(kind, noted) ==
  [id |-> made + 1, kind |-> kind, last |-> 0, phase |-> IF noted THEN "note" ELSE "missing"]

ToolReminder(kind, noted) ==
  /\ turn = "streaming" /\ made < MaxJobs
  /\ made' = made + 1
  /\ disk' = disk \cup {ToolJob(kind, noted)}
  /\ UNCHANGED <<now, fullscreen, status, list, rang, early, unwritten, lost, queue, turnVars, presses,
                 tasks, deaths>>

(* The tool writes over the file itself, so a write that fails half-way      *)
(* leaves what cannot be parsed: no job in memory is in the file any more.   *)
ToolWriteBreaks ==
  /\ turn = "streaming" /\ made < MaxJobs /\ ToolKinds # {}
  /\ made' = made + 1
  /\ disk' = {} /\ unwritten' = {j.kind : j \in Durable(list)}
  /\ UNCHANGED <<now, fullscreen, status, list, rang, early, lost, queue, turnVars, presses, tasks, deaths>>

(* A task settles and its result is queued. *)
TaskEnds ==
  /\ status = "up" /\ tasks < MaxTasks
  /\ tasks' = tasks + 1
  /\ queue' = Push(queue, {[name |-> "result", id |-> tasks', minute |-> 0,
                            expires |-> now + ResultHeld, place |-> LastPlace(queue)]})
  /\ UNCHANGED <<now, fullscreen, status, jobVars, turnVars, made, presses, deaths>>

-----------------------------------------------------------------------------
(* The process.  It forgets list, queue and turn.  The tool's write is not   *)
(* atomic: a death in it leaves a file that cannot be parsed.                *)
Forget ==
  /\ deaths < MaxDeaths /\ deaths' = deaths + 1
  /\ status' = "down" /\ list' = {} /\ queue' = {} /\ turn' = "idle" /\ carried' = {}
  /\ unwritten' = {}
  /\ lost' = {j.kind : j \in {k \in disk' : Watched(k) /\ k.kind \in lost \cup unwritten}}
  /\ UNCHANGED <<now, fullscreen, rang, early, presses, tasks>>

Die == status = "up" /\ UNCHANGED <<disk, made>> /\ Forget

DieInTool ==
  /\ turn = "streaming" /\ made < MaxJobs /\ ToolKinds # {}
  /\ disk' = {} /\ made' = made + 1
  /\ Forget

(* A start reads the file, adds the dream or catches up on it, and ticks; a  *)
(* broken job ends it there, and with the process what rang before that job, *)
(* which does not count as having rung.  caught and ticked: the writes of the *)
(* one and of the other succeed.                                             *)
IsDream(j) == j.kind = "dream"
Late(j) == IsDream(j) /\ now - j.last > Catchup
(* Mutant of WithDream: a dream that was caught up keeps its old time. *)
WithDreamUnstamped(jobs) ==
  IF \E j \in jobs : IsDream(j) THEN jobs ELSE jobs \cup {NewJob("dream")}
WithDream(jobs) ==
  IF \E j \in jobs : IsDream(j)
  THEN {IF Late(j) THEN [j EXCEPT !.last = now] ELSE j : j \in jobs}
  ELSE jobs \cup {NewJob("dream")}

Start(caught, ticked) ==
  /\ status # "up"
  /\ LET loaded == WithDream(disk)
         saved == IF loaded = disk \/ ~caught THEN disk ELSE Durable(loaded)
         behind == IF loaded = disk \/ caught THEN {} ELSE {"dream"}
         due == {j \in loaded : Due(j)}
     IN  IF \E j \in loaded : Broken(j)
         THEN /\ status' = "failed"
              /\ disk' = saved
              /\ UNCHANGED <<list, queue, rang, early, unwritten, lost>>
         ELSE /\ status' = "up"
              /\ list' = AfterTick(loaded)
              /\ PersistTick(loaded, saved, ticked, behind)
              /\ queue' = UNION {Output(j, {}) : j \in due}
              /\ Rings({j \in disk : Late(j)} \cup due)
  /\ UNCHANGED <<now, fullscreen, turnVars, counters>>

(* Time passes whether or not the harness runs, and the computer may sleep   *)
(* through a tick.                                                           *)
Minute ==
  /\ now < Horizon
  /\ now' = now + 1
  /\ UNCHANGED <<fullscreen, status, jobVars, queue, turnVars, counters>>

Fullscreen ==
  /\ fullscreen' = ~fullscreen
  /\ UNCHANGED <<now, status, jobVars, queue, turnVars, counters>>

-----------------------------------------------------------------------------
(* The first start of an installation: no file, so the dream is added.       *)
Init ==
  /\ now = Epoch /\ fullscreen = FALSE /\ status = "up"
  /\ list = {[id |-> 0, kind |-> "dream", last |-> Epoch, phase |-> "focus"]}
  /\ disk = list
  /\ queue = {} /\ turn = "idle" /\ carried = {}
  /\ rang = [k \in {"water", "dream"} |-> 0] /\ early = {} /\ unwritten = {} /\ lost = {}
  /\ made = 0 /\ presses = 0 /\ tasks = 0 /\ deaths = 0

Next ==
  \/ \E ok \in BOOLEAN :
       SchedulerTick(ok) \/ \E kind \in PanelKinds : SetReminder(kind, ok) \/ StopReminder(kind, ok)
  \/ ConsumerTick
  \/ ChatSend \/ ChatSendLong \/ Extracted \/ TurnEnds
  \/ \E kind \in ToolKinds : \E noted \in (IF kind = "pomodoro" THEN BOOLEAN ELSE {TRUE}) :
       ToolReminder(kind, noted)
  \/ ToolWriteBreaks
  \/ TaskEnds
  \/ Die \/ DieInTool
  \/ \E caught, ticked \in BOOLEAN : Start(caught, ticked)
  \/ Minute \/ Fullscreen

Spec == Init /\ [][Next]_vars

(* Timers fire, the await of a turn returns, whichever it is at, and time    *)
(* passes.                                                                   *)
FairSpec ==
  /\ Spec
  /\ WF_vars(ConsumerTick) /\ WF_vars(Extracted \/ TurnEnds) /\ WF_vars(Minute)

-----------------------------------------------------------------------------
(* Every variable has its type, and a turn carries no more than it may. *)
TypeOK ==
  /\ now \in Nat /\ fullscreen \in BOOLEAN
  /\ status \in {"up", "down", "failed"} /\ turn \in {"idle", "extracting", "streaming"}
  /\ list \subseteq Job /\ disk \subseteq Job
  /\ queue \subseteq Item /\ carried \subseteq Item /\ Cardinality(carried) <= MaxPerTurn
  /\ rang \in [{"water", "dream"} -> Nat] /\ early \subseteq {"water", "dream"}
  /\ unwritten \subseteq Kinds /\ lost \subseteq {"water", "dream"}
  /\ made \in 0 .. MaxJobs /\ presses \in 0 .. MaxPresses
  /\ tasks \in 0 .. MaxTasks /\ deaths \in 0 .. MaxDeaths

(* "A reminder that is held back does not pile up" (cron.ts:135): however    *)
(* often jobs ring, cards are pressed and muted items are put back, no two   *)
(* items in the queue have the same dedupe key.                              *)
OneQueuedPerKey == \A i, j \in queue : Key(i) = Key(j) => i = j

(* Whenever the process may die, what its durable jobs are and when they     *)
(* last rang is in scheduled.json; of the kinds whose last write failed, a   *)
(* later write that succeeds makes good what that one left out.              *)
DurableOnDisk == status = "up" => \A j \in Durable(list) : j \in disk \/ j.kind \in unwritten

(* The panel's water reminder never rings sooner than its interval after it  *)
(* last rang or was set, and the dream is not begun twice in a minute, over  *)
(* any deaths, starts and catching up in between.  Only a job whose last     *)
(* write failed, and of which no other was written before the process ended, *)
(* may ring once too soon.                                                   *)
RingsApart == early = {}

(* An item leaves the queue unexpired in one of three ways only: a reminder  *)
(* is told while the pet is free to speak, anything else is taken into the   *)
(* prompt of a turn, or the process ends.  None gets both, none gets lost.   *)
LeavesOneWay ==
  [][\A i \in queue \ queue' :
       \/ i.expires <= now
       \/ status' = "down"
       \/ IsReminder(i) /\ turn = "idle" /\ turn' = "idle" /\ ~Muted
       \/ ~IsReminder(i) /\ i \in carried' /\ turn' = "streaming"]_vars

(* After a start no more than DREAM_CATCHUP_HOURS have passed since the time  *)
(* the dream's job carries, however long the harness was away.               *)
DreamCaughtUp ==
  [][status # "up" /\ status' = "up"
       => \E j \in list' : IsDream(j) /\ now - j.last <= Catchup]_vars

(* Whatever the user does, whether muted or in conversation, no reminder      *)
(* stays in the queue beyond its time: it is told or dropped, and no crowd of *)
(* them keeps it there.                                                       *)
SomeWait == \E i \in queue : IsReminder(i) /\ i.expires <= Horizon
ReminderLeaves == SomeWait ~> ~SomeWait

(* Whatever is in scheduled.json, the harness starts: jobs_store.ts:14 says  *)
(* a damaged file counts as empty and the default jobs are rebuilt. This     *)
(* does not hold (RemindersStart.cfg): a pomodoro of the tool may lack what  *)
(* the start reads.                                                          *)
StartNeverFails == status # "failed"
=============================================================================
