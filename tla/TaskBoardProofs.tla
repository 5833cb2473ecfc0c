--------------------------- MODULE TaskBoardProofs ---------------------------
(***************************************************************************)
(* Theorems of TaskBoard, for any number of tasks.                         *)
(*                                                                         *)
(* The invariants are not inductive by themselves: that a queued task is   *)
(* in its FIFO survives pump() only because the FIFO holds tasks of its    *)
(* own type that do not run, and the order of starts only because every    *)
(* waiting id is larger than the one in the slot, which dispatch() keeps   *)
(* because ids are given in order. Placed, Ordered and Known say that.     *)
(***************************************************************************)
EXTENDS TaskBoard, TLAPS

\* What waits is of the FIFO's type, was dispatched and does not run.
Placed ==
  \A a \in AgentType : \A t \in waiting[a] : agent[t] = a /\ t \notin aborters

\* What waits was dispatched after what runs in the slot.
Ordered ==
  \A a \in AgentType : \A t \in waiting[a] : running[a] # NoTask => t > running[a]

\* Only dispatched tasks have a type, and ids are given in order; a lost task
\* has no place in memory.
Known ==
  /\ \A t \in Task : agent[t] = "none" <=> status[t] = "absent"
  /\ \A t, u \in Task : u < t /\ status[t] # "absent" => status[u] # "absent"
  /\ \A t \in aborters : agent[t] # "none"
  /\ \A t \in lost : status[t] # "absent"

IInv == TypeOK /\ OneExecutorPerType /\ NothingStranded /\ Placed /\ Ordered /\ Known

\* An outcome leads to one of four statuses.
LEMMA VerdictType ==
  ASSUME NEW t \in Task, NEW how \in Outcome
  PROVE  Verdict(t, how) \in {"completed", "failed", "awaiting_approval", "cancelled"}
BY DEF Verdict, Outcome

\* Terminal statuses are neither of those of a task in memory.
LEMMA TerminalFacts ==
  /\ Terminal \subseteq Status
  /\ \A s \in Terminal : s \notin {"absent", "queued", "running", "awaiting_approval", "applying"}
BY DEF Terminal, Status

\* What holds of the memory and the records handed to pump(a): every task in
\* flight is in the slot of another type, and the rest is as in IInv.
PumpReady(a, st, w, live) ==
  /\ \A t \in live : agent'[t] \in AgentType \ {a} /\ running[agent'[t]] = t
  /\ \A b \in AgentType \ {a} :
       /\ running[b] # NoTask => running[b] \in live /\ agent'[running[b]] = b
       /\ running[b] = NoTask => waiting[b] = {}
       /\ \A t \in waiting[b] :
            agent'[t] = b /\ t \notin live /\ (running[b] # NoTask => t > running[b])
  /\ \A t \in w : agent'[t] = a /\ t \notin live
  /\ \A t \in Task \ lost : agent'[t] \in AgentType =>
       /\ st[t] = "queued" /\ agent'[t] = a => t \in w
       /\ st[t] = "queued" /\ agent'[t] # a => t \in waiting[agent'[t]]
       /\ st[t] = "running" => t \in live
  /\ \A t \in Task : agent'[t] = "none" <=> st[t] = "absent"
  /\ \A t, u \in Task : u < t /\ st[t] # "absent" => st[u] # "absent"
  /\ \A t \in lost : st[t] # "absent"

LEMMA PumpKeeps ==
  ASSUME TypeOK,
         NEW a \in AgentType, NEW st \in [Task -> Status],
         NEW w \in SUBSET Task, NEW live \in SUBSET Task,
         agent' \in [Task -> AgentType \cup {"none"}],
         lost' = lost,
         PumpReady(a, st, w, live),
         Pump(a, st, w, live)
  PROVE  /\ status' \in [Task -> Status]
         /\ waiting' \in [AgentType -> SUBSET Task]
         /\ running' \in [AgentType -> Task \cup {NoTask}]
         /\ aborters' \in SUBSET Task /\ live \subseteq aborters'
         /\ OneExecutorPerType' /\ NothingStranded' /\ Placed' /\ Ordered' /\ Known'
<1> DEFINE ready == {u \in w : st[u] = "queued"}
<1> USE MaxTasksAssumption DEF Task, NoTask, AgentType, TypeOK, PumpReady
<1>1. CASE ready = {} /\ PumpNothing(a, st, {}, live)
  <2>1. /\ status' = st
        /\ waiting' = [waiting EXCEPT ![a] = {}]
        /\ running' = [running EXCEPT ![a] = NoTask]
        /\ aborters' = live
    BY <1>1 DEF PumpNothing
  <2>2. OneExecutorPerType'
    BY <2>1 DEF OneExecutorPerType
  <2>3. NothingStranded'
    BY <2>1, <1>1 DEF NothingStranded
  <2>4. Placed' /\ Ordered' /\ Known'
    BY <2>1 DEF Placed, Ordered, Known
  <2> QED BY <2>1, <2>2, <2>3, <2>4
<1>2. CASE \E u \in ready :
             /\ Shift(u, ready)
             /\ status' = [st EXCEPT ![u] = "running"]
             /\ waiting' = [waiting EXCEPT ![a] = {v \in w : v > u}]
             /\ running' = [running EXCEPT ![a] = u]
             /\ aborters' = live \cup {u}
  <2>1. PICK u \in ready :
             /\ Shift(u, ready)
             /\ status' = [st EXCEPT ![u] = "running"]
             /\ waiting' = [waiting EXCEPT ![a] = {v \in w : v > u}]
             /\ running' = [running EXCEPT ![a] = u]
             /\ aborters' = live \cup {u}
    BY <1>2
  <2>2. u \in Task /\ u \in w /\ st[u] = "queued" /\ agent'[u] = a /\ u \notin live
    OBVIOUS
  <2>3. /\ status' \in [Task -> Status]
        /\ waiting' \in [AgentType -> SUBSET Task]
        /\ running' \in [AgentType -> Task \cup {NoTask}]
        /\ aborters' \in SUBSET Task /\ live \subseteq aborters'
    <3>1. status' \in [Task -> Status]
      BY <2>1, <2>2 DEF Status
    <3>2. {v \in w : v > u} \in SUBSET Task
      OBVIOUS
    <3>3. waiting' \in [AgentType -> SUBSET Task]
      BY <2>1, <3>2
    <3>4. /\ running' \in [AgentType -> Task \cup {NoTask}]
          /\ aborters' \in SUBSET Task /\ live \subseteq aborters'
      BY <2>1, <2>2
    <3> QED BY <3>1, <3>3, <3>4
  <2>4. OneExecutorPerType'
    BY <2>1, <2>2 DEF OneExecutorPerType
  <2>5. NothingStranded'
    BY <2>1, <2>2 DEF NothingStranded, Shift
  <2>6. Placed'
    BY <2>1, <2>2 DEF Placed
  <2>7. Ordered'
    BY <2>1, <2>2 DEF Ordered
  <2>8. Known'
    BY <2>1, <2>2 DEF Known
  <2> QED BY <2>3, <2>4, <2>5, <2>6, <2>7, <2>8
<1> QED BY <1>1, <1>2 DEF Pump

\* The invariant holds before the first dispatch.
LEMMA InitKeeps == Init => IInv
BY MaxTasksAssumption
DEF Init, IInv, TypeOK, OneExecutorPerType, NothingStranded, Placed, Ordered, Known,
    Task, NoTask, AgentType, Status, Terminal

LEMMA DispatchKeeps ==
  ASSUME IInv, NEW t \in Task, NEW a \in AgentType, Dispatch(t, a)
  PROVE  IInv'
<1> DEFINE st == [status EXCEPT ![t] = "queued"]
<1> USE MaxTasksAssumption DEF Task, NoTask, AgentType
<1>1. /\ st \in [Task -> Status] /\ agent' = [agent EXCEPT ![t] = a]
      /\ agent' \in [Task -> AgentType \cup {"none"}]
      /\ aborted' = aborted /\ lost' = lost
      /\ status[t] = "absent" /\ agent[t] = "none"
      /\ t \notin aborters /\ t \notin lost /\ \A b \in AgentType : t \notin waiting[b]
  BY DEF IInv, TypeOK, Dispatch, Known, Placed, Status
<1>2. CASE running[a] # NoTask
  <2>1. /\ status' = st
        /\ waiting' = [waiting EXCEPT ![a] = @ \cup {t}]
        /\ running' = running /\ aborters' = aborters
    BY <1>2 DEF Dispatch
  <2>2. TypeOK'
    BY <1>1, <2>1 DEF IInv, TypeOK
  <2>3. OneExecutorPerType'
    BY <1>1, <2>1 DEF IInv, TypeOK, OneExecutorPerType
  <2>4. NothingStranded'
    BY <1>1, <1>2, <2>1 DEF IInv, TypeOK, NothingStranded, Known
  <2>5. Placed'
    BY <1>1, <2>1 DEF IInv, TypeOK, Placed
  <2>6. t > running[a]
    BY <1>1, <1>2 DEF IInv, TypeOK, OneExecutorPerType, Known
  <2>7. Ordered'
    BY <1>1, <2>1, <2>6 DEF IInv, TypeOK, Ordered
  <2>8. \A u \in Task : u < t => status[u] # "absent"
    BY DEF Dispatch
  <2>9. Known'
    BY <1>1, <2>1, <2>8 DEF IInv, TypeOK, Known
  <2> QED BY <2>2, <2>3, <2>4, <2>5, <2>7, <2>9 DEF IInv
<1>3. CASE running[a] = NoTask
  <2>1. Pump(a, st, waiting[a] \cup {t}, aborters)
    BY <1>3 DEF Dispatch
  <2>2. waiting[a] = {}
    BY <1>3 DEF IInv, NothingStranded
  <2>3. /\ \A u \in aborters : agent'[u] \in AgentType \ {a} /\ running[agent'[u]] = u
        /\ \A b \in AgentType \ {a} :
             /\ running[b] # NoTask => running[b] \in aborters /\ agent'[running[b]] = b
             /\ running[b] = NoTask => waiting[b] = {}
             /\ \A u \in waiting[b] :
                  agent'[u] = b /\ u \notin aborters /\ (running[b] # NoTask => u > running[b])
    BY <1>1, <1>3 DEF IInv, TypeOK, OneExecutorPerType, NothingStranded, Placed, Ordered, Known
  <2>4. \A u \in waiting[a] \cup {t} : agent'[u] = a /\ u \notin aborters
    BY <1>1, <2>2 DEF IInv, TypeOK
  <2>5. \A u \in Task \ lost : agent'[u] \in AgentType =>
          /\ st[u] = "queued" /\ agent'[u] = a => u \in waiting[a] \cup {t}
          /\ st[u] = "queued" /\ agent'[u] # a => u \in waiting[agent'[u]]
          /\ st[u] = "running" => u \in aborters
    BY <1>1 DEF IInv, TypeOK, NothingStranded
  <2>6. \A u \in Task : u < t => status[u] # "absent"
    BY DEF Dispatch
  <2>7. /\ \A u \in Task : agent'[u] = "none" <=> st[u] = "absent"
        /\ \A u, v \in Task : v < u /\ st[u] # "absent" => st[v] # "absent"
        /\ \A u \in lost : st[u] # "absent"
    BY <1>1, <2>6 DEF IInv, TypeOK, Known
  <2>8. /\ status' \in [Task -> Status]
        /\ waiting' \in [AgentType -> SUBSET Task]
        /\ running' \in [AgentType -> Task \cup {NoTask}]
        /\ aborters' \in SUBSET Task /\ aborters \subseteq aborters'
        /\ OneExecutorPerType' /\ NothingStranded' /\ Placed' /\ Ordered' /\ Known'
    <3>1. TypeOK /\ waiting[a] \cup {t} \in SUBSET Task /\ aborters \in SUBSET Task
      BY DEF IInv, TypeOK
    <3>2. PumpReady(a, st, waiting[a] \cup {t}, aborters)
      BY <2>3, <2>4, <2>5, <2>7 DEF PumpReady
    <3> HIDE DEF st
    <3> QED BY <1>1, <2>1, <3>1, <3>2, PumpKeeps
  <2>9. TypeOK'
    BY <1>1, <2>8 DEF IInv, TypeOK
  <2> QED BY <2>8, <2>9 DEF IInv
<1> QED BY <1>2, <1>3

\* Settled(t, how) keeps every other record, and leaves that of t neither
\* queued nor running.
LEMMA SettledFacts ==
  ASSUME TypeOK, NEW t \in Task, NEW how \in Outcome, status[t] # "absent"
  PROVE  /\ Settled(t, how) \in [Task -> Status]
         /\ \A u \in Task : u # t => Settled(t, how)[u] = status[u]
         /\ Settled(t, how)[t] \notin {"absent", "queued", "running"}
         /\ status[t] \in Terminal => Settled(t, how)[t] = status[t]
<1>1. CASE status[t] \in Terminal
  BY <1>1, TerminalFacts DEF Settled, TypeOK
<1>2. CASE status[t] \notin Terminal
  <2>1. Settled(t, how) = [status EXCEPT ![t] = Verdict(t, how)]
    BY <1>2 DEF Settled
  <2>2. Verdict(t, how) \in Status /\ Verdict(t, how) \notin {"absent", "queued", "running"}
    BY VerdictType DEF Status, Terminal
  <2> QED BY <1>2, <2>1, <2>2 DEF TypeOK
<1> QED BY <1>1, <1>2

LEMMA SettleKeeps ==
  ASSUME IInv, NEW t \in Task, NEW how \in Outcome, Settle(t, how)
  PROVE  IInv'
<1> DEFINE st == Settled(t, how)
           a == agent[t]
           live == aborters \ {t}
<1> USE MaxTasksAssumption DEF Task, NoTask, AgentType
<1>1. /\ t \in aborters /\ Pump(a, st, waiting[a], live)
      /\ aborted' = aborted \ {t} /\ agent' = agent /\ lost' = lost
  BY DEF Settle
<1>2. a \in AgentType /\ running[a] = t /\ status[t] # "absent"
  BY <1>1 DEF IInv, TypeOK, OneExecutorPerType, Known
<1>3. /\ st \in [Task -> Status]
      /\ \A u \in Task : u # t => st[u] = status[u]
      /\ st[t] \notin {"absent", "queued", "running"}
  BY <1>2, SettledFacts DEF IInv
<1> HIDE DEF st
<1>4. TypeOK /\ waiting[a] \in SUBSET Task /\ live \in SUBSET Task
  BY <1>2 DEF IInv, TypeOK
<1>5. PumpReady(a, st, waiting[a], live)
  <2>1. /\ \A u \in live : agent[u] \in AgentType \ {a} /\ running[agent[u]] = u
        /\ \A b \in AgentType \ {a} :
             /\ running[b] # NoTask => running[b] \in live /\ agent[running[b]] = b
             /\ running[b] = NoTask => waiting[b] = {}
             /\ \A u \in waiting[b] :
                  agent[u] = b /\ u \notin live /\ (running[b] # NoTask => u > running[b])
    BY <1>2 DEF IInv, TypeOK, OneExecutorPerType, NothingStranded, Placed, Ordered, Known
  <2>2. \A u \in waiting[a] : agent[u] = a /\ u \notin live
    BY <1>2 DEF IInv, Placed
  <2>3. \A u \in Task \ lost : agent[u] \in AgentType =>
          /\ st[u] = "queued" /\ agent[u] = a => u \in waiting[a]
          /\ st[u] = "queued" /\ agent[u] # a => u \in waiting[agent[u]]
          /\ st[u] = "running" => u \in live
    BY <1>3 DEF IInv, TypeOK, NothingStranded
  <2>4. /\ \A u \in Task : agent[u] = "none" <=> st[u] = "absent"
        /\ \A u, v \in Task : v < u /\ st[u] # "absent" => st[v] # "absent"
        /\ \A u \in lost : st[u] # "absent"
    BY <1>2, <1>3 DEF IInv, TypeOK, Known
  <2> HIDE DEF live
  <2> QED BY <1>1, <2>1, <2>2, <2>3, <2>4 DEF PumpReady
<1>6. agent' \in [Task -> AgentType \cup {"none"}]
  BY <1>1 DEF IInv, TypeOK
<1>7. /\ status' \in [Task -> Status]
      /\ waiting' \in [AgentType -> SUBSET Task]
      /\ running' \in [AgentType -> Task \cup {NoTask}]
      /\ aborters' \in SUBSET Task /\ live \subseteq aborters'
      /\ OneExecutorPerType' /\ NothingStranded' /\ Placed' /\ Ordered' /\ Known'
  <2> HIDE DEF live, a
  <2> QED BY <1>1, <1>2, <1>3, <1>4, <1>5, <1>6, PumpKeeps
<1>8. TypeOK'
  BY <1>1, <1>6, <1>7 DEF IInv, TypeOK
<1> QED BY <1>7, <1>8 DEF IInv

LEMMA CancelKeeps ==
  ASSUME IInv, NEW t \in Task, Cancel(t)
  PROVE  IInv'
<1> USE MaxTasksAssumption DEF Task, NoTask, AgentType
<1>1. /\ status[t] # "absent" /\ agent[t] \in AgentType
      /\ waiting' = [waiting EXCEPT ![agent[t]] = @ \ {t}]
      /\ aborted' = aborted \cup ({t} \cap aborters)
      /\ status' = [status EXCEPT ![t] = "cancelled"]
      /\ UNCHANGED <<agent, running, aborters, lost>>
  BY DEF Cancel, IInv, TypeOK, Known
<1>2. TypeOK'
  BY <1>1 DEF IInv, TypeOK, Status, Terminal
<1>3. OneExecutorPerType'
  BY <1>1 DEF IInv, OneExecutorPerType
<1>4. NothingStranded'
  BY <1>1 DEF IInv, TypeOK, NothingStranded
<1>5. Placed' /\ Ordered' /\ Known'
  BY <1>1 DEF IInv, TypeOK, Placed, Ordered, Known
<1> QED BY <1>2, <1>3, <1>4, <1>5 DEF IInv

\* The approval methods finish or advance a record and touch nothing else.
LEMMA ApprovalKeeps ==
  ASSUME IInv, NEW t \in Task, NEW s \in Status \ {"absent", "queued", "running"},
         status[t] # "absent", status' = [status EXCEPT ![t] = s], UNCHANGED butStatus
  PROVE  IInv'
<1> USE DEF butStatus
<1>1. TypeOK'
  BY DEF IInv, TypeOK
<1>2. OneExecutorPerType' /\ NothingStranded'
  BY DEF IInv, TypeOK, OneExecutorPerType, NothingStranded
<1>3. Placed' /\ Ordered' /\ Known'
  BY DEF IInv, TypeOK, Placed, Ordered, Known
<1> QED BY <1>1, <1>2, <1>3 DEF IInv

LEMMA RestartKeeps ==
  ASSUME IInv, Restart
  PROVE  IInv'
<1> USE MaxTasksAssumption DEF Task, NoTask, AgentType, Restart
<1>1. TypeOK'
  BY DEF IInv, TypeOK
<1>2. OneExecutorPerType' /\ NothingStranded'
  BY DEF IInv, TypeOK, OneExecutorPerType, NothingStranded
<1>3. Placed' /\ Ordered' /\ Known'
  BY DEF IInv, TypeOK, Placed, Ordered, Known
<1> QED BY <1>1, <1>2, <1>3 DEF IInv
-----------------------------------------------------------------------------
LEMMA NextKeeps == IInv /\ [Next]_vars => IInv'
<1> SUFFICES ASSUME IInv, [Next]_vars PROVE IInv'
  OBVIOUS
<1>1. CASE \E t \in Task, a \in AgentType : Dispatch(t, a)
  BY <1>1, DispatchKeeps
<1>2. CASE \E t \in Task : Cancel(t)
  BY <1>2, CancelKeeps
<1>3. CASE \E t \in Task, how \in Outcome : Settle(t, how)
  BY <1>3, SettleKeeps
<1>4. CASE \E t \in Task : MarkApplying(t)
  <2>1. "applying" \in Status \ {"absent", "queued", "running"}
    BY DEF Status
  <2> QED BY <1>4, <2>1, ApprovalKeeps DEF MarkApplying
<1>5. CASE \E t \in Task, ok \in BOOLEAN : CompleteAfterApproval(t, ok)
  <2>1. {"completed", "failed"} \subseteq Status \ {"absent", "queued", "running"}
    BY DEF Status, Terminal
  <2> QED BY <1>5, <2>1, ApprovalKeeps DEF CompleteAfterApproval
<1>6. CASE \E t \in Task : RejectApproval(t)
  <2>1. "rejected" \in Status \ {"absent", "queued", "running"}
    BY DEF Status, Terminal
  <2> QED BY <1>6, <2>1, ApprovalKeeps DEF RejectApproval
<1>7. CASE Restart
  BY <1>7, RestartKeeps
<1>8. CASE UNCHANGED vars
  BY <1>8 DEF vars, IInv, TypeOK, OneExecutorPerType, NothingStranded, Placed, Ordered, Known
<1> QED BY <1>1, <1>2, <1>3, <1>4, <1>5, <1>6, <1>7, <1>8 DEF Next

\* The strengthened invariant holds of every behaviour of the board.
THEOREM Invariant == Spec => []IInv
<1>1. Init => IInv
  BY InitKeeps
<1>2. IInv /\ [Next]_vars => IInv'
  BY NextKeeps
<1> QED BY <1>1, <1>2, PTL DEF Spec

\* The types of the board's state.
THEOREM TypeCorrect == Spec => []TypeOK
<1>1. IInv => TypeOK
  BY DEF IInv
<1> QED BY <1>1, Invariant, PTL

\* However many tasks are dispatched, cancelled and finished, each agent type
\* has at most one executor in flight, that of its slot.
THEOREM OneExecutor == Spec => []OneExecutorPerType
<1>1. IInv => OneExecutorPerType
  BY DEF IInv
<1> QED BY <1>1, Invariant, PTL

\* No task is forgotten in memory: pump() is called wherever a slot frees.
THEOREM Stranded == Spec => []NothingStranded
<1>1. IInv => NothingStranded
  BY DEF IInv
<1> QED BY <1>1, Invariant, PTL

\* Each type's tasks start in the order of their dispatch.
THEOREM Fifo == Spec => []NoOvertaking
<1>1. IInv => NoOvertaking
  BY MaxTasksAssumption
  DEF IInv, TypeOK, NoOvertaking, NothingStranded, Ordered, Task, NoTask
<1> QED BY <1>1, Invariant, PTL
-----------------------------------------------------------------------------
\* The runs in flight before pump() stay in flight, and a record that is not
\* queued is left alone.
LEMMA PumpFrame ==
  ASSUME NEW a, NEW st \in [Task -> Status], NEW w, NEW live, Pump(a, st, w, live)
  PROVE  /\ live \subseteq aborters'
         /\ \A t \in Task : st[t] # "queued" => status'[t] = st[t]
BY DEF Pump, PumpNothing

\* What an executor returns for a terminal record never changes it: only a
\* caller of the approval methods does.
THEOREM LateOutcomes == Spec => LateOutcomeIgnored
<1> DEFINE A == \A t \in Task :
                  status[t] \in Terminal /\ status'[t] # status[t] => t \notin aborters \ aborters'
<1>1. IInv /\ [Next]_vars => A
  <2> SUFFICES ASSUME IInv, [Next]_vars,
                      NEW t \in Task, status[t] \in Terminal, status'[t] # status[t],
                      t \in aborters, t \notin aborters'
               PROVE  FALSE
    OBVIOUS
  <2>1. CASE \E u \in Task, a \in AgentType : Dispatch(u, a)
    <3>1. PICK u \in Task, a \in AgentType : Dispatch(u, a)
      BY <2>1
    <3>2. [status EXCEPT ![u] = "queued"] \in [Task -> Status]
      BY DEF IInv, TypeOK, Status
    <3> QED BY <3>1, <3>2, PumpFrame DEF Dispatch
  <2>2. CASE \E u \in Task, how \in Outcome : Settle(u, how)
    <3>1. PICK u \in Task, how \in Outcome : Settle(u, how)
      BY <2>2
    <3>2. u \in aborters /\ status[u] # "absent"
      BY <3>1 DEF Settle, IInv, Known
    <3>3. /\ Settled(u, how) \in [Task -> Status]
          /\ \A v \in Task : v # u => Settled(u, how)[v] = status[v]
          /\ status[u] \in Terminal => Settled(u, how)[u] = status[u]
      BY <3>2, SettledFacts DEF IInv
    <3>4. Settled(u, how)[t] = status[t]
      BY <3>3
    <3>5. \A v \in Task : Settled(u, how)[v] # "queued" => status'[v] = Settled(u, how)[v]
      BY <3>1, <3>3, PumpFrame DEF Settle
    <3> QED BY <3>4, <3>5, TerminalFacts
  <2>3. CASE \/ \E u \in Task : Cancel(u) \/ MarkApplying(u) \/ RejectApproval(u)
             \/ \E u \in Task, ok \in BOOLEAN : CompleteAfterApproval(u, ok)
    BY <2>3 DEF Cancel, MarkApplying, RejectApproval, CompleteAfterApproval, butStatus
  <2>4. CASE Restart \/ UNCHANGED vars
    BY <2>4 DEF Restart, vars
  <2> QED BY <2>1, <2>2, <2>3, <2>4 DEF Next
<1>2. [][IInv /\ [Next]_vars => A]_vars
  BY <1>1, PTL
<1> QED BY <1>1, Invariant, PTL DEF Spec, LateOutcomeIgnored
=============================================================================
