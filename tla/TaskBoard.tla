----------------------------- MODULE TaskBoard -----------------------------
(***************************************************************************)
(* The task board of the harness (packages/harness/src/tasks/board.ts).    *)
(*                                                                         *)
(* Every task has a record on disk (its status) and, while this process    *)
(* lives, a place in memory: in the FIFO of its agent type, or in the one  *)
(* slot of that type, where its executor runs behind an AbortController.   *)
(*                                                                         *)
(* A task is named by its place in the dispatch order (makeTaskId stamps   *)
(* the time), so a FIFO is the set of the ids that wait: push adds the     *)
(* largest id, shift takes the smallest, filter removes one.               *)
(*                                                                         *)
(* The public methods are open here: any caller may call them in any       *)
(* order. TaskPipeline calls them the way main.ts and subagent.ts do.      *)
(***************************************************************************)
EXTENDS Integers

CONSTANT MaxTasks   \* bound: tasks dispatched in a behaviour

ASSUME MaxTasksAssumption == MaxTasks \in Nat \ {0}

Task == 1..MaxTasks
NoTask == 0

AgentType == {"worker", "explore"}

Terminal == {"completed", "failed", "rejected", "cancelled", "timeout"}

Status == {"absent", "queued", "running", "awaiting_approval", "applying"}
            \cup Terminal

\* How an executor's promise settles: it returns a result (ok or not), it
\* throws TaskAwaitingApproval, or it throws anything else.
Outcome == {"ok", "not_ok", "awaiting", "throws"}

VARIABLES
  status,     \* disk: the record of a task, "absent" before its dispatch
  agent,      \* disk: the agent type in the record
  waiting,    \* memory: per agent type, the ids in the FIFO
  running,    \* memory: per agent type, the id in the slot or NoTask
  aborters,   \* memory: the ids with a live AbortController, that is, a run in flight
  aborted,    \* memory: those whose signal was aborted
  lost        \* history: queued or running when the process died

vars == <<status, agent, waiting, running, aborters, aborted, lost>>

TypeOK ==
  /\ status \in [Task -> Status]
  /\ agent \in [Task -> AgentType \cup {"none"}]
  /\ waiting \in [AgentType -> SUBSET Task]
  /\ running \in [AgentType -> Task \cup {NoTask}]
  /\ aborters \in SUBSET Task
  /\ aborted \in SUBSET aborters
  /\ lost \in SUBSET Task

Init ==
  /\ status = [t \in Task |-> "absent"]
  /\ agent = [t \in Task |-> "none"]
  /\ waiting = [a \in AgentType |-> {}]
  /\ running = [a \in AgentType |-> NoTask]
  /\ aborters = {}
  /\ aborted = {}
  /\ lost = {}
-----------------------------------------------------------------------------
(***************************************************************************)
(* pump(a), called with the slot of a free: st are the records, w the FIFO *)
(* and live the runs at that point of the caller. Ids whose record is no   *)
(* longer queued are shifted out and skipped; the first queued one takes   *)
(* the slot and run() marks it running before its first await.             *)
(***************************************************************************)
ShiftNewest(u, ready) == \A v \in ready : u >= v
Shift(u, ready) == \A v \in ready : u <= v

PumpNothing(a, st, w, live) ==
  /\ status' = st
  /\ waiting' = [waiting EXCEPT ![a] = w]
  /\ running' = [running EXCEPT ![a] = NoTask]
  /\ aborters' = live

Pump(a, st, w, live) ==
  LET ready == {u \in w : st[u] = "queued"} IN
  \/ /\ ready = {}
     /\ PumpNothing(a, st, {}, live)
  \/ \E u \in ready :
       /\ Shift(u, ready)
       /\ status' = [st EXCEPT ![u] = "running"]
       /\ waiting' = [waiting EXCEPT ![a] = {v \in w : v > u}]
       /\ running' = [running EXCEPT ![a] = u]
       /\ aborters' = live \cup {u}

\* dispatch(), past its validation: the record is written, the id pushed and
\* the queue pumped, which does nothing while the slot is taken.
DispatchIgnoringSlot(t, a) ==
  /\ status[t] = "absent"
  /\ \A u \in Task : u < t => status[u] # "absent"
  /\ agent' = [agent EXCEPT ![t] = a]
  /\ Pump(a, [status EXCEPT ![t] = "queued"], waiting[a] \cup {t}, aborters)
  /\ UNCHANGED <<aborted, lost>>

Dispatch(t, a) ==
  /\ status[t] = "absent"
  /\ \A u \in Task : u < t => status[u] # "absent"
  /\ agent' = [agent EXCEPT ![t] = a]
  /\ \/ /\ running[a] # NoTask
        /\ status' = [status EXCEPT ![t] = "queued"]
        /\ waiting' = [waiting EXCEPT ![a] = @ \cup {t}]
        /\ UNCHANGED <<running, aborters>>
     \/ /\ running[a] = NoTask
        /\ Pump(a, [status EXCEPT ![t] = "queued"], waiting[a] \cup {t}, aborters)
  /\ UNCHANGED <<aborted, lost>>

\* cancel(): a no-op on a terminal task. The slot stays taken until the
\* executor itself returns.
Cancel(t) ==
  /\ status[t] \notin Terminal \cup {"absent"}
  /\ waiting' = [waiting EXCEPT ![agent[t]] = @ \ {t}]
  /\ aborted' = aborted \cup ({t} \cap aborters)
  /\ status' = [status EXCEPT ![t] = "cancelled"]
  /\ UNCHANGED <<agent, running, aborters, lost>>

VerdictRaw(t, how) == how

\* What run() makes of an outcome when the record it reads again is not terminal.
Verdict(t, how) ==
  CASE how = "ok"       -> "completed"
    [] how = "not_ok"   -> "failed"
    [] how = "awaiting" -> "awaiting_approval"
    [] how = "throws"   -> IF t \in aborted THEN "cancelled" ELSE "failed"

\* The records after the executor of t settled: a terminal record is left alone.
SettledOverwriting(t, how) == [status EXCEPT ![t] = Verdict(t, how)]
Settled(t, how) ==
  IF status[t] \in Terminal THEN status ELSE [status EXCEPT ![t] = Verdict(t, how)]

\* The rest of run() and its finally, microtasks of one turn: the record is
\* finished, the slot freed, the controller dropped and the queue pumped.
SettleWithoutPump(t, how) ==
  /\ t \in aborters
  /\ PumpNothing(agent[t], Settled(t, how), waiting[agent[t]], aborters \ {t})
  /\ aborted' = aborted \ {t}
  /\ UNCHANGED <<agent, lost>>

Settle(t, how) ==
  /\ t \in aborters
  /\ Pump(agent[t], Settled(t, how), waiting[agent[t]], aborters \ {t})
  /\ aborted' = aborted \ {t}
  /\ UNCHANGED <<agent, lost>>

butStatus == <<agent, waiting, running, aborters, aborted, lost>>

MarkApplyingAnyTime(t) ==
  /\ status[t] # "absent"
  /\ status' = [status EXCEPT ![t] = "applying"]
  /\ UNCHANGED butStatus

MarkApplying(t) ==
  /\ status[t] = "awaiting_approval"
  /\ status' = [status EXCEPT ![t] = "applying"]
  /\ UNCHANGED butStatus

\* completeAfterApproval(): any record is finished, whatever its status.
CompleteAfterApproval(t, ok) ==
  /\ status[t] # "absent"
  /\ status' = [status EXCEPT ![t] = IF ok THEN "completed" ELSE "failed"]
  /\ UNCHANGED butStatus

\* rejectApproval(): any record is finished, whatever its status.
RejectApproval(t) ==
  /\ status[t] # "absent"
  /\ status' = [status EXCEPT ![t] = "rejected"]
  /\ UNCHANGED butStatus

\* The process dies and a new one constructs a TaskBoard: the records stay,
\* nothing reads them back into the queue or the slot.
Restart ==
  /\ waiting' = [a \in AgentType |-> {}]
  /\ running' = [a \in AgentType |-> NoTask]
  /\ aborters' = {}
  /\ aborted' = {}
  /\ lost' = lost \cup {t \in Task : status[t] \in {"queued", "running"}}
  /\ UNCHANGED <<status, agent>>

Next ==
  \/ \E t \in Task, a \in AgentType : Dispatch(t, a)
  \/ \E t \in Task : Cancel(t)
  \/ \E t \in Task, how \in Outcome : Settle(t, how)
  \/ \E t \in Task : MarkApplying(t)
  \/ \E t \in Task, ok \in BOOLEAN : CompleteAfterApproval(t, ok)
  \/ \E t \in Task : RejectApproval(t)
  \/ Restart

Spec == Init /\ [][Next]_vars

\* A run that is in flight settles: the executor's awaits return.
FairSpec == Spec /\ \A t \in Task : WF_vars(\E how \in Outcome : Settle(t, how))
-----------------------------------------------------------------------------
(***************************************************************************)
(* Properties                                                              *)
(***************************************************************************)

\* At most one executor of each agent type is in flight, and it is the one in
\* the slot: board.ts keeps the slot of a cancelled task until its executor
\* returns, so no second worker ever runs beside it.
OneExecutorPerType ==
  /\ \A t \in aborters : running[agent[t]] = t
  /\ \A a \in AgentType : running[a] # NoTask => running[a] \in aborters /\ agent[running[a]] = a

\* No dispatched task is forgotten while the process lives: a queued record is
\* in the FIFO of its type, a running one has its executor, and a FIFO is
\* empty whenever its slot is free. (Tasks of a process that died are lost.)
NothingStranded ==
  /\ \A t \in Task \ lost :
       /\ status[t] = "queued" => t \in waiting[agent[t]]
       /\ status[t] = "running" => t \in aborters
  /\ \A a \in AgentType : running[a] = NoTask => waiting[a] = {}

\* Tasks of one type start in the order of their dispatch: no task dispatched
\* before the one in the slot is still queued.
NoOvertaking ==
  \A a \in AgentType, t \in Task \ lost :
    running[a] # NoTask /\ t < running[a] /\ agent[t] = a => status[t] # "queued"

\* What an executor returns after its task was cancelled or otherwise finished
\* is dropped: only an approval call may change a terminal record.
LateOutcomeIgnored ==
  [][\A t \in Task :
       status[t] \in Terminal /\ status'[t] # status[t] => t \notin aborters \ aborters']_vars

\* A queued task leaves the queue: it is started, cancelled or otherwise
\* finished, unless the process dies first.
QueuedTaskLeavesQueue ==
  \A t \in Task : status[t] = "queued" ~> status[t] # "queued" \/ t \in lost
=============================================================================
