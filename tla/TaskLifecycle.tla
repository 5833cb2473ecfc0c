--------------------------- MODULE TaskLifecycle ---------------------------
(***************************************************************************)
(* What the board promises of a task: the statuses a record goes through   *)
(* (the type TaskStatus of packages/shared/src/task.ts), one running task  *)
(* of each type at a time, statuses that are final, and that no task stays *)
(* queued, running or applying for ever.                                   *)
(***************************************************************************)
CONSTANTS Task, AgentType

VARIABLES
  status,   \* of each task, "absent" before its dispatch
  agent     \* type of each task, "none" before its dispatch

vars == <<status, agent>>

Final == {"completed", "failed", "rejected", "cancelled"}

\* From each status, those one step may lead to. Dispatching to a free slot
\* queues and starts a task at once.
Successors ==
  [absent            |-> {"queued", "running"},
   queued            |-> {"running", "cancelled"},
   running           |-> {"awaiting_approval", "completed", "failed", "cancelled"},
   awaiting_approval |-> {"applying", "rejected", "cancelled"},
   applying          |-> {"completed", "failed"}]

OneRunningPerType ==
  \A t, u \in Task :
    status[t] = "running" /\ status[u] = "running" /\ agent[t] = agent[u] => t = u

Init ==
  /\ status = [t \in Task |-> "absent"]
  /\ agent = [t \in Task |-> "none"]

\* One task may finish and another of its type start in the same step.
Next ==
  /\ \A t \in Task :
       \/ status'[t] = status[t] /\ agent'[t] = agent[t]
       \/ /\ status[t] \notin Final
          /\ status'[t] \in Successors[status[t]]
          /\ agent'[t] = IF status[t] = "absent" THEN agent'[t] ELSE agent[t]
          /\ agent'[t] \in AgentType
  /\ OneRunningPerType'

Settles ==
  \A t \in Task :
    /\ status[t] \in {"queued", "running"} ~> status[t] \in Final \cup {"awaiting_approval"}
    /\ status[t] = "applying" ~> status[t] \in Final

Spec == Init /\ [][Next]_vars /\ Settles
=============================================================================
