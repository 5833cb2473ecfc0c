------------------------- MODULE TaskPipelineProofs -------------------------
(***************************************************************************)
(* Theorems of TaskPipeline, for any tasks, calls, files and budgets.      *)
(*                                                                         *)
(* That board and store agree (TaskAndPlanAgree) is not inductive: it says *)
(* what holds between handlers, and follows from where a handler is while  *)
(* one of the two files is written and the other is not.  IInv says so, in *)
(* three parts and what joins them:                                        *)
(*                                                                         *)
(*   StoreInv    a call under way and the journals name operations that    *)
(*               the plans have;                                           *)
(*   BoardInv    an executor in flight has the slot of its type, its task  *)
(*               is running or cancelled, and a running task without an    *)
(*               executor was lost in a crash;                             *)
(*   HandlerInv  what each handler has found and written already, and that *)
(*               the store is in a call only under the handler it serves;  *)
(*   Linked(t)   for each status of t, what its plan, its undo history and *)
(*               what it has staged may be.                                *)
(*                                                                         *)
(* tlapm does not let a module cite theorems of a module it reaches by     *)
(* INSTANCE, so what the proof needs of board and store is proved again    *)
(* here.  UsesBoard and UsesStore close the gap in the other direction: a  *)
(* behaviour of the pipeline is one of TaskBoard and one of Staging.       *)
(***************************************************************************)
EXTENDS TaskPipeline, TLAPS

InApply == call # Store!NoCall /\ call.name = "apply"
Undoing == call # Store!NoCall /\ call.name = "undo"
EntriesOf(p, E) == \A k \in 1..Len(E) : E[k].op \in 1..Len(ops[p])

StoreInv ==
  /\ Store!TypeOK
  /\ \A p \in Task :
       /\ EntriesOf(p, journal[p])
       /\ planStatus[p] = "none" => journal[p] = << >>
  /\ InApply => /\ call.todo \subseteq 1..Len(ops[call.plan])
                /\ EntriesOf(call.plan, call.entries)
  /\ Undoing => call.left \in 0..Len(journal[call.plan])

BoardInv ==
  /\ Board!TypeOK
  /\ \A t \in aborters :
       /\ agent[t] # "none" /\ running[agent[t]] = t
       /\ status[t] \in {"running", "cancelled"}
  /\ \A a \in Board!AgentType : \A t \in waiting[a] : agent[t] = a
  /\ \A t \in Task : status[t] = "absent" <=> agent[t] = "none"
  /\ \A t \in Task : status[t] = "running" => t \in aborters \cup lost
  /\ Crashes \/ lost = {}

ExecInv ==
  /\ exec \in [Task -> [round : 0..MaxRounds, calls : 0..MaxToolCalls, todo : 0..RoundTools]]
  /\ \A t \in Task : exec[t].round > 0 <=> t \in aborters

\* Record, plan and undo journal of one task.
Linked(t) ==
  /\ status[t] \in {"absent", "queued"} => planStatus[t] = "none" /\ pending[t] = << >>
  /\ status[t] \in {"absent", "queued", "running"} => t \notin planId
  /\ status[t] \in {"absent", "queued", "running", "awaiting_approval"} => trail[t] = << >>
  /\ status[t] = "awaiting_approval" => t \in planId /\ planStatus[t] \in {"draft", "rejected"}
  /\ status[t] = "completed" /\ t \in planId => trail[t] # << >>
  /\ t \in planId => planStatus[t] # "none"
  /\ t \notin planId => planStatus[t] \in {"none", "draft"}
  /\ planStatus[t] \in {"none", "draft"} => trail[t] = << >>
  /\ trail[t] = << >> => journal[t] = << >>
  /\ planStatus[t] # "none" => pending[t] = << >>
  /\ t \in aborters => t \notin planId
  /\ t \in aborters /\ planStatus[t] # "none" => handler = [name |-> "planning", task |-> t]
  /\ t \in ended <=> status[t] \in Board!Terminal

HandlerInv ==
  /\ handler \in {NoHandler} \cup
       [name : {"planning", "rejecting", "approving", "applying", "failing"}, task : Task]
  /\ handler.name \in {"planning", "rejecting", "approving", "failing"} => Store!Idle
  /\ handler.name = "planning" =>
       handler.task \in aborters /\ planStatus[handler.task] = "draft"
  /\ handler.name \in {"rejecting", "approving", "applying", "failing"} => handler.task \in planId
  /\ handler.name = "rejecting" =>
       /\ planStatus[handler.task] = "rejected"
       /\ LateDecisions \/ status[handler.task] = "awaiting_approval"
  /\ handler.name \in {"approving", "applying"} => status[handler.task] = "applying"
  /\ handler.name = "approving" => trail[handler.task] = << >>
  /\ handler.name = "applying" => InApply /\ trail[handler.task] # << >>
  /\ handler.name = "failing" => LateDecisions \/ status[handler.task] = "applying"
  /\ InApply => handler = [name |-> "applying", task |-> call.plan]
  /\ Undoing => handler = NoHandler /\ call.plan \in planId /\ trail[call.plan] # << >>

Staged ==
  \A t \in Task :
    /\ Len(pending[t]) <= MaxToolCalls
    /\ t \in aborters => Len(pending[t]) <= exec[t].calls

IInv ==
  /\ StoreInv /\ BoardInv /\ ExecInv /\ HandlerInv /\ Staged /\ ScopeHolds
  /\ planId \subseteq Task /\ ended \subseteq Task
  /\ \A t \in Task : Linked(t)

LEMMA MenuType == Menu \subseteq Store!Op
<1> SUFFICES ASSUME NEW c \in Calls, c.tool \in Gate!Stages,
                    {Gate!StagedOp(c).src, Gate!StagedOp(c).dst} \subseteq Path
             PROVE  Gate!StagedOp(c) \in Store!Op
  BY DEF Menu
<1>1. Gate!StagedOp(c).src \in Path /\ Gate!StagedOp(c).dst \in Path
  OBVIOUS
<1>2. c.tool = "fs_write" => c.body \in Content
  BY CallsAssumption
<1>3. CASE c.tool = "fs_write"
  BY <1>1, <1>2, <1>3 DEF Gate!StagedOp, Store!Op
<1>4. CASE c.tool \in {"fs_move", "fs_rename"}
  BY <1>1, <1>4 DEF Gate!StagedOp, Store!Op
<1>5. CASE c.tool = "fs_trash"
  BY <1>1, <1>5 DEF Gate!StagedOp, Store!Op
<1> QED BY <1>3, <1>4, <1>5 DEF Gate!Stages

\* Without a backslash in it, the path that the hook judges is the one that the
\* handler names.
LEMMA HookJudgesTheFile ==
  ASSUME NEW raw, Gate!Walk(raw) \in Path, ~Gate!HasBackslash(Gate!Walk(raw))
  PROVE  Gate!NormalizePath(raw) = Gate!ResolveTaskPath(raw)
<1> DEFINE path == Gate!Walk(raw)
<1>1. path \in Seq(Gate!Name) /\ \A i \in DOMAIN path : path[i] \in Gate!Name /\ ~path[i].joined
  BY PathAssumption DEF Gate!HasBackslash
<1>2. \A i \in DOMAIN path : [path[i] EXCEPT !.joined = FALSE] = path[i]
  BY <1>1 DEF Gate!Name
<1>3. path = [i \in DOMAIN path |-> path[i]]
  BY <1>1
<1> HIDE DEF path
<1>4. Gate!Slashed(path) = path
  BY <1>2, <1>3 DEF Gate!Slashed
<1> QED BY <1>4 DEF path, Gate!NormalizePath, Gate!ResolveTaskPath

\* What the gate lets through stages files within the scope.
InScopeOrSpelt(path) == Gate!InScope(path) \/ Gate!HasBackslash(path)

LEMMA GateHolds ==
  ASSUME NEW c \in Calls, c.tool \in Gate!Stages, ~Gate!Blocked(c)
  PROVE  /\ Gate!StagedOp(c) \in Menu
         /\ InScopeOrSpelt(Gate!StagedOp(c).src) /\ InScopeOrSpelt(Gate!StagedOp(c).dst)
<1>0. /\ c.paths \in Seq(Gate!RawPaths) /\ c.paths # << >>
      /\ \A i \in 1..Len(c.paths) : Gate!InScope(Gate!NormalizePath(c.paths[i]))
  BY CallsAssumption DEF Gate!Blocked, Gate!ScopeViolated, Gate!Range
<1>1. {Gate!StagedOp(c).src, Gate!StagedOp(c).dst} \subseteq Path
  BY <1>0, CallsAssumption DEF Range
<1>2. /\ Gate!StagedOp(c).src = Gate!ResolveTaskPath(c.paths[1])
      /\ Gate!StagedOp(c).dst = Gate!ResolveTaskPath(c.paths[Len(c.paths)])
  BY DEF Gate!StagedOp
<1>3. \A i \in 1..Len(c.paths) :
        Gate!ResolveTaskPath(c.paths[i]) \in Path => InScopeOrSpelt(Gate!ResolveTaskPath(c.paths[i]))
  BY <1>0, HookJudgesTheFile DEF InScopeOrSpelt, Gate!ResolveTaskPath
<1>4. InScopeOrSpelt(Gate!StagedOp(c).src) /\ InScopeOrSpelt(Gate!StagedOp(c).dst)
  <2>1. 1 \in 1..Len(c.paths) /\ Len(c.paths) \in 1..Len(c.paths)
    BY <1>0
  <2> QED BY <1>0, <1>1, <1>2, <1>3, <2>1
<1>5. Gate!StagedOp(c) \in Menu
  BY <1>1 DEF Menu
<1> QED BY <1>4, <1>5
-----------------------------------------------------------------------------
(***************************************************************************)
(* The store                                                               *)
(***************************************************************************)
USE DEF Store!File, Store!Files

LEMMA OpFields ==
  ASSUME NEW op \in Store!Op
  PROVE  /\ op.kind \in {"write", "move", "trash"} /\ op.src \in Path /\ op.dst \in Path
         /\ op.kind = "write" => op.body \in Content
BY DEF Store!Op

LEMMA EffectType ==
  ASSUME NEW op \in Store!Op, NEW f \in Store!Files, NEW k \in Store!File
  PROVE  Store!Effect(op, f) \in Store!Files /\ Store!Keeps(op, f, k) \in Store!File
BY OpFields DEF Store!Effect, Store!Keeps

LEMMA ReversalType ==
  ASSUME NEW op \in Store!Op, NEW e \in Store!Entry, NEW f \in Store!Files, NEW k \in Store!File
  PROVE  Store!Reversal(op, e, f, k) \in Store!Files
BY OpFields DEF Store!Reversal, Store!Entry

ApplyCall == [name : {"apply"}, plan : Task, step : {"ops", "outcome", "journal", "return"},
              todo : SUBSET Store!OpIndex, entries : Seq(Store!Entry), failed : BOOLEAN]
UndoCall == [name : {"undo"}, plan : Task, left : Nat, failed : BOOLEAN, fresh : BOOLEAN]

\* The call under way is of one of two kinds.
LEMMA CallKinds ==
  ASSUME Store!TypeOK
  PROVE  /\ InApply => call \in ApplyCall /\ ~Undoing
         /\ Undoing => call \in UndoCall /\ ~InApply
         /\ ~InApply /\ ~Undoing => Store!Idle
BY DEF Store!TypeOK, Store!Call, Store!NoCall, InApply, Undoing, ApplyCall, UndoCall, Store!Idle

\* A call of either kind is one.
LEMMA KindsOfCalls ==
  /\ \A c \in ApplyCall : c \in Store!Call /\ c # Store!NoCall /\ c.name = "apply"
  /\ \A c \in UndoCall : c \in Store!Call /\ c # Store!NoCall /\ c.name = "undo"
BY DEF ApplyCall, UndoCall, Store!Call, Store!NoCall

\* Steps that leave the disk's operations and journals and the call alone, or
\* end the call.
LEMMA StoreFrame ==
  ASSUME StoreInv, Store!TypeOK', ops' = ops, journal' = journal,
         call' = call \/ call' = Store!NoCall,
         \A p \in Task : planStatus'[p] = "none" => planStatus[p] = "none"
  PROVE  StoreInv'
<1>1. CASE call' = call
  BY <1>1 DEF StoreInv, InApply, Undoing, EntriesOf
<1>2. CASE call' = Store!NoCall
  BY <1>2 DEF StoreInv, InApply, Undoing, EntriesOf
<1> QED BY <1>1, <1>2

LEMMA StoreUnchanged ==
  ASSUME StoreInv, UNCHANGED storeVars
  PROVE  StoreInv'
<1>1. Store!TypeOK'
  BY DEF StoreInv, Store!TypeOK, storeVars
<1> QED BY <1>1, StoreFrame DEF storeVars

LEMMA StageKeeps ==
  ASSUME StoreInv, NEW p \in Task, NEW op \in Menu, Store!Stage(p, op)
  PROVE  StoreInv'
<1>1. Store!TypeOK'
  BY DEF StoreInv, Store!TypeOK, Store!Stage, Store!disk
<1> QED BY <1>1, StoreFrame DEF Store!Stage, Store!disk

LEMMA CreatePlanKeeps ==
  ASSUME StoreInv, NEW p \in Task, Store!CreatePlan(p)
  PROVE  StoreInv'
<1> USE DEF Store!CreatePlan, Store!disk
<1>1. Store!TypeOK'
  <2>1. Len(pending[p]) <= MaxOps
    BY BoardAndStoreAssumption DEF StoreInv, Store!TypeOK, Store!TooMany
  <2> QED BY <2>1 DEF StoreInv, Store!TypeOK, Store!PlanStatus
<1>2. journal' = journal /\ journal[p] = << >> /\ call' = Store!NoCall
  BY DEF StoreInv, Store!Idle
<1>3. \A q \in Task \ {p} : ops'[q] = ops[q] /\ planStatus'[q] = planStatus[q]
  BY DEF StoreInv, Store!TypeOK
<1>4. \A q \in Task :
        /\ EntriesOf(q, journal[q])'
        /\ planStatus'[q] = "none" => journal'[q] = << >>
  BY <1>2, <1>3 DEF StoreInv, EntriesOf
<1>5. ~InApply' /\ ~Undoing'
  BY <1>2 DEF InApply, Undoing
<1> QED BY <1>1, <1>4, <1>5 DEF StoreInv

LEMMA RejectKeeps ==
  ASSUME StoreInv, NEW p \in Task, Store!Reject(p)
  PROVE  StoreInv'
<1>1. Store!TypeOK'
  BY DEF StoreInv, Store!TypeOK, Store!Reject, Store!disk, Store!PlanStatus
<1>2. \A q \in Task : planStatus'[q] = "none" => planStatus[q] = "none"
  BY DEF StoreInv, Store!TypeOK, Store!Reject
<1> QED BY <1>1, <1>2, StoreFrame DEF Store!Reject, Store!disk

LEMMA BeginApplyKeeps ==
  ASSUME StoreInv, NEW p \in Task, NEW excluded, Store!BeginApply(p, excluded)
  PROVE  StoreInv' /\ InApply' /\ ~Undoing' /\ call'.plan = p
<1> USE DEF Store!BeginApply
<1> DEFINE todo == (1..Len(ops[p])) \ excluded
<1>1. /\ call' = [name |-> "apply", plan |-> p, step |-> "ops",
                 todo |-> todo, entries |-> << >>, failed |-> FALSE]
      /\ files' = files /\ ops' = ops /\ journal' = journal /\ kept' = kept /\ pending' = pending
      /\ fresh' = {} /\ trail' = [trail EXCEPT ![p] = <<files>>] /\ planStatus[p] # "none"
      /\ broken' = [broken EXCEPT ![p] = {}]
  BY DEF StoreInv, Store!TypeOK, Store!Appliable
<1>2. todo \subseteq 1..Len(ops[p]) /\ todo \in SUBSET Store!OpIndex
  BY BoardAndStoreAssumption DEF StoreInv, Store!TypeOK, Store!OpIndex
<1> HIDE DEF todo
<1>3. call' \in ApplyCall
  BY <1>1, <1>2 DEF ApplyCall
<1>4. trail' \in [Task -> Seq(Store!Files)] /\ broken' \in [Task -> SUBSET Store!OpIndex]
  BY <1>1 DEF StoreInv, Store!TypeOK
<1>5. planStatus' \in [Task -> Store!PlanStatus] /\ \A q \in Task : planStatus'[q] = "none" => planStatus[q] = "none"
  BY DEF StoreInv, Store!TypeOK, Store!PlanStatus
<1> HIDE DEF Store!BeginApply
<1>6. Store!TypeOK'
  BY <1>1, <1>3, <1>4, <1>5, KindsOfCalls DEF StoreInv, Store!TypeOK
<1>7. InApply' /\ ~Undoing' /\ call'.plan = p
  BY <1>1, <1>3, KindsOfCalls DEF InApply, Undoing
<1>8. EntriesOf(call.plan, call.entries)'
  BY <1>1 DEF EntriesOf
<1>9. call'.todo \subseteq 1..Len(ops'[call'.plan])
  BY <1>1, <1>2
<1>10. \A q \in Task :
         /\ EntriesOf(q, journal[q])'
         /\ planStatus'[q] = "none" => journal'[q] = << >>
  BY <1>1, <1>5 DEF StoreInv, EntriesOf
<1> QED BY <1>6, <1>7, <1>8, <1>9, <1>10 DEF StoreInv

\* One operation more, at the end of the entries and of the trail.
LEMMA ApplyOpKeeps ==
  ASSUME StoreInv, NEW i \in Store!OpIndex, Store!ApplyOp(i)
  PROVE  /\ StoreInv' /\ InApply' /\ ~Undoing' /\ call'.plan = call.plan
         /\ InApply /\ call.plan \in Task
         /\ \A q \in Task \ {call.plan} : trail'[q] = trail[q]
         /\ Len(trail'[call.plan]) = Len(trail[call.plan]) + 1
         /\ UNCHANGED <<pending, ops, planStatus, journal>>
<1>1. /\ InApply /\ call.step = "ops" /\ i \in call.todo
      /\ UNCHANGED <<pending, ops, planStatus, journal, broken, fresh>>
  BY DEF Store!ApplyOp, Store!Applying, Store!First, InApply
<1>2. call \in ApplyCall
  BY <1>1, CallKinds DEF StoreInv
<1>3. PICK p \in Task : p = call.plan
  BY <1>2 DEF ApplyCall
<1>4. PICK E \in Seq(Store!Entry) : E = call.entries
  BY <1>2 DEF ApplyCall
<1>5. call.todo \subseteq 1..Len(ops[p]) /\ EntriesOf(p, E)
  BY <1>1, <1>3, <1>4 DEF StoreInv
<1>6. PICK op \in Store!Op : op = ops[p][i]
  <2>1. ops[p] \in Seq(Menu) /\ i \in 1..Len(ops[p])
    BY <1>1, <1>5 DEF StoreInv, Store!TypeOK
  <2> QED BY <2>1, MenuType
<1>7. files \in Store!Files /\ kept[p][i] \in Store!File
  BY DEF StoreInv, Store!TypeOK
<1>8. PICK e \in Store!Entry : e = [op |-> i, existed |-> files[op.dst] # Absent]
  <2>1. PICK found \in BOOLEAN : found = (files[op.dst] # Absent)
    OBVIOUS
  <2>2. [op |-> i, existed |-> found] \in Store!Entry
    BY DEF Store!Entry
  <2> QED BY <2>1, <2>2
<1>9. /\ files' = Store!Effect(op, files)
      /\ kept' = [kept EXCEPT ![p][i] = Store!Keeps(op, files, kept[p][i])]
      /\ trail' = [trail EXCEPT ![p] = Append(@, files')]
      /\ call' = [call EXCEPT !.todo = call.todo \ {i}, !.entries = Append(E, e)]
  BY <1>3, <1>4, <1>6, <1>8 DEF Store!ApplyOp
<1>10. files' \in Store!Files /\ Store!Keeps(op, files, kept[p][i]) \in Store!File
  BY <1>7, <1>9, EffectType
<1>11. PICK F \in Seq(Store!Entry) : F = Append(E, e) /\ EntriesOf(p, F)
  <2>1. Append(E, e) \in Seq(Store!Entry)
    BY <1>4, <1>8
  <2>2. e.op = i /\ i \in 1..Len(ops[p])
    BY <1>1, <1>5, <1>8
  <2>3. EntriesOf(p, Append(E, e))
    BY <1>4, <1>5, <1>8, <2>2 DEF EntriesOf
  <2> QED BY <2>1, <2>3
<1>12. call' \in ApplyCall /\ call'.plan = p /\ call'.entries = F /\ call'.todo = call.todo \ {i}
  BY <1>2, <1>3, <1>9, <1>11 DEF ApplyCall
<1>13. InApply' /\ ~Undoing'
  BY <1>12, KindsOfCalls DEF InApply, Undoing
<1>14. kept' \in [Task -> [Store!OpIndex -> Store!File]]
  BY <1>9, <1>10 DEF StoreInv, Store!TypeOK
<1>15. /\ trail' \in [Task -> Seq(Store!Files)]
       /\ Len(trail'[p]) = Len(trail[p]) + 1
       /\ \A q \in Task \ {p} : trail'[q] = trail[q]
  BY <1>9, <1>10 DEF StoreInv, Store!TypeOK
<1>16. Store!TypeOK'
  BY <1>1, <1>10, <1>12, <1>14, <1>15, KindsOfCalls DEF StoreInv, Store!TypeOK
<1>17. EntriesOf(p, F)' /\ call'.todo \subseteq 1..Len(ops'[p])
  BY <1>1, <1>5, <1>11, <1>12 DEF EntriesOf
<1>18. \A q \in Task : EntriesOf(q, journal[q])' /\ (planStatus'[q] = "none" => journal'[q] = << >>)
  BY <1>1 DEF StoreInv, EntriesOf
<1>19. EntriesOf(call.plan, call.entries)'
  BY <1>12, <1>17 DEF EntriesOf
<1>20. StoreInv'
  BY <1>12, <1>13, <1>16, <1>17, <1>18, <1>19 DEF StoreInv
<1> QED BY <1>1, <1>3, <1>12, <1>13, <1>15, <1>20

\* The steps of apply() that leave the files alone.
LEMMA ApplyStepKeeps ==
  ASSUME StoreInv,
         \/ Store!ApplyOpThrows
         \/ Store!ApplyLoopEnds
         \/ Store!WriteOutcome
  PROVE  /\ StoreInv' /\ InApply' /\ ~Undoing' /\ call'.plan = call.plan
         /\ InApply /\ call.plan \in Task
         /\ UNCHANGED <<pending, ops, trail, journal>>
         /\ \A q \in Task \ {call.plan} : planStatus'[q] = planStatus[q]
         /\ planStatus'[call.plan] \in {planStatus[call.plan], "applied", "apply_failed"}
<1>1. InApply /\ UNCHANGED <<files, pending, ops, journal, kept, trail, broken, fresh>>
  BY DEF Store!ApplyOpThrows, Store!ApplyLoopEnds, Store!WriteOutcome, Store!Applying, InApply, Store!disk
<1>2. call \in ApplyCall /\ call.plan \in Task
  BY <1>1, CallKinds DEF StoreInv, ApplyCall
<1>3. /\ call' \in ApplyCall /\ call'.plan = call.plan /\ call'.entries = call.entries
      /\ call'.todo \subseteq call.todo
  BY <1>2 DEF Store!ApplyOpThrows, Store!ApplyLoopEnds, Store!WriteOutcome, ApplyCall
<1>4. /\ planStatus' \in [Task -> Store!PlanStatus]
      /\ \A q \in Task \ {call.plan} : planStatus'[q] = planStatus[q]
      /\ planStatus'[call.plan] \in {planStatus[call.plan], "applied", "apply_failed"}
  BY <1>1, <1>2 DEF StoreInv, Store!TypeOK, Store!ApplyOpThrows, Store!ApplyLoopEnds, Store!WriteOutcome, Store!PlanStatus
<1>5. Store!TypeOK'
  BY <1>1, <1>3, <1>4, KindsOfCalls DEF StoreInv, Store!TypeOK
<1>6. InApply' /\ ~Undoing'
  BY <1>3, KindsOfCalls DEF InApply, Undoing
<1>7. EntriesOf(call.plan, call.entries)' /\ call'.todo \subseteq 1..Len(ops'[call'.plan])
  BY <1>1, <1>3 DEF StoreInv, EntriesOf
<1>8. \A q \in Task : EntriesOf(q, journal[q])' /\ (planStatus'[q] = "none" => journal'[q] = << >>)
  BY <1>1, <1>2, <1>4 DEF StoreInv, EntriesOf
<1>9. StoreInv'
  BY <1>5, <1>6, <1>7, <1>8 DEF StoreInv
<1> QED BY <1>1, <1>2, <1>3, <1>4, <1>6, <1>9

\* A copy that fails half-way ends the loop, with anything in its target.
LEMMA BreaksKeeps ==
  ASSUME StoreInv, NEW i \in Store!OpIndex, Store!BackupBreaks(i) \/ Store!WriteBreaks(i)
  PROVE  /\ StoreInv' /\ InApply' /\ ~Undoing' /\ call'.plan = call.plan
         /\ InApply /\ call.plan \in Task
         /\ UNCHANGED <<pending, ops, planStatus, trail, journal>>
<1>1. /\ InApply /\ i \in call.todo
      /\ call' = [call EXCEPT !.todo = {}, !.failed = TRUE]
      /\ UNCHANGED <<pending, ops, planStatus, trail, journal, fresh>>
  BY DEF Store!BackupBreaks, Store!WriteBreaks, Store!Applying, Store!First, InApply
<1>2. call \in ApplyCall
  BY <1>1, CallKinds DEF StoreInv
<1>3. PICK p \in Task : p = call.plan
  BY <1>2 DEF ApplyCall
<1>4. PICK op \in Store!Op : op = ops[p][i]
  <2>1. ops[p] \in Seq(Menu) /\ i \in 1..Len(ops[p])
    BY <1>1, <1>3 DEF StoreInv, Store!TypeOK
  <2> QED BY <2>1, MenuType
<1>5. /\ files \in Store!Files /\ kept \in [Task -> [Store!OpIndex -> Store!File]]
      /\ broken \in [Task -> SUBSET Store!OpIndex]
  BY DEF StoreInv, Store!TypeOK
<1>6. /\ files' \in Store!Files /\ kept' \in [Task -> [Store!OpIndex -> Store!File]]
      /\ broken' \in [Task -> SUBSET Store!OpIndex]
  <2>1. CASE Store!BackupBreaks(i)
    BY <1>3, <1>5, <2>1 DEF Store!BackupBreaks
  <2>2. CASE Store!WriteBreaks(i)
    <3>1. PICK rest \in Store!File :
            /\ files' = [files EXCEPT ![op.dst] = rest]
            /\ kept' = [kept EXCEPT ![p][i] = Store!Keeps(op, files, kept[p][i])]
            /\ broken' = [broken EXCEPT ![p] = {i}]
      BY <1>3, <1>4, <2>2 DEF Store!WriteBreaks
    <3>2. Store!Keeps(op, files, kept[p][i]) \in Store!File
      BY <1>5, EffectType
    <3>3. files' \in Store!Files
      BY <1>5, <3>1 DEF Store!Files
    <3> QED BY <1>5, <3>1, <3>2, <3>3
  <2> QED BY <2>1, <2>2
<1>7. /\ call' \in ApplyCall /\ call'.plan = p /\ call'.entries = call.entries /\ call'.todo = {}
  BY <1>1, <1>2, <1>3 DEF ApplyCall
<1>8. Store!TypeOK'
  BY <1>1, <1>6, <1>7, KindsOfCalls DEF StoreInv, Store!TypeOK
<1>9. InApply' /\ ~Undoing'
  BY <1>7, KindsOfCalls DEF InApply, Undoing
<1>10. EntriesOf(call.plan, call.entries)'
  BY <1>1, <1>3, <1>7 DEF StoreInv, EntriesOf
<1>11. \A q \in Task : EntriesOf(q, journal[q])' /\ (planStatus'[q] = "none" => journal'[q] = << >>)
  BY <1>1 DEF StoreInv, EntriesOf
<1>12. StoreInv'
  BY <1>7, <1>8, <1>9, <1>10, <1>11 DEF StoreInv
<1> QED BY <1>1, <1>3, <1>7, <1>9, <1>12

LEMMA WriteJournalKeeps ==
  ASSUME StoreInv, planStatus[call.plan] # "none", Store!WriteJournal
  PROVE  /\ StoreInv' /\ InApply' /\ ~Undoing' /\ call'.plan = call.plan
         /\ InApply /\ call.plan \in Task
         /\ UNCHANGED <<pending, ops, trail, planStatus>>
         /\ \A q \in Task \ {call.plan} : journal'[q] = journal[q]
<1>1. InApply /\ UNCHANGED <<files, pending, ops, kept, trail, broken, planStatus>>
  BY DEF Store!WriteJournal, Store!Applying, InApply
<1>2. call \in ApplyCall /\ call.plan \in Task
  BY <1>1, CallKinds DEF StoreInv, ApplyCall
<1>3. /\ call' \in ApplyCall /\ call'.plan = call.plan /\ call'.entries = call.entries
      /\ call'.todo = call.todo
  BY <1>2 DEF Store!WriteJournal, ApplyCall
<1>4. \/ journal' = journal /\ fresh' = fresh
      \/ journal' = [journal EXCEPT ![call.plan] = call.entries] /\ fresh' = {call.plan}
  BY DEF Store!WriteJournal
<1>5. /\ journal' \in [Task -> Seq(Store!Entry)] /\ fresh' \subseteq Task
      /\ \A q \in Task \ {call.plan} : journal'[q] = journal[q]
      /\ journal'[call.plan] \in {journal[call.plan], call.entries}
  BY <1>2, <1>4 DEF StoreInv, Store!TypeOK, ApplyCall
<1>6. Store!TypeOK'
  BY <1>1, <1>3, <1>5, KindsOfCalls DEF StoreInv, Store!TypeOK
<1>7. InApply' /\ ~Undoing'
  BY <1>3, KindsOfCalls DEF InApply, Undoing
<1>8. EntriesOf(call.plan, call.entries)' /\ call'.todo \subseteq 1..Len(ops'[call'.plan])
  BY <1>1, <1>3 DEF StoreInv, EntriesOf
<1>9. \A q \in Task : EntriesOf(q, journal[q])' /\ (planStatus'[q] = "none" => journal'[q] = << >>)
  <2>1. EntriesOf(call.plan, call.entries)
    BY <1>1 DEF StoreInv
  <2> QED BY <2>1, <1>1, <1>2, <1>5 DEF StoreInv, EntriesOf
<1>10. StoreInv'
  BY <1>6, <1>7, <1>8, <1>9 DEF StoreInv
<1> QED BY <1>1, <1>2, <1>3, <1>5, <1>7, <1>10

LEMMA ReturnApplyKeeps ==
  ASSUME StoreInv, Store!ReturnApply
  PROVE  StoreInv' /\ Store!Idle'
<1>1. Store!TypeOK'
  BY DEF StoreInv, Store!TypeOK, Store!ReturnApply, Store!disk, Store!Call
<1> QED BY <1>1, StoreFrame DEF Store!ReturnApply, Store!disk, Store!Idle

LEMMA BeginUndoKeeps ==
  ASSUME StoreInv, NEW p \in Task, Store!BeginUndo(p)
  PROVE  StoreInv' /\ Undoing' /\ ~InApply' /\ call'.plan = p
<1>1. /\ journal[p] # << >> /\ fresh' = {}
      /\ call' = [name |-> "undo", plan |-> p, left |-> Len(journal[p]),
                  failed |-> FALSE, fresh |-> p \in fresh]
      /\ UNCHANGED <<files, pending, ops, planStatus, kept, journal, trail, broken>>
  BY DEF Store!BeginUndo
<1>2. PICK b \in BOOLEAN : b = (p \in fresh)
  <2>1. CASE p \in fresh
    <3>1. TRUE = (p \in fresh)
      BY <2>1
    <3> QED BY <3>1, Zenon
  <2>2. CASE p \notin fresh
    <3>1. FALSE = (p \in fresh)
      BY <2>2
    <3> QED BY <3>1, Zenon
  <2> QED BY <2>1, <2>2
<1>3. Len(journal[p]) \in Nat
  BY DEF StoreInv, Store!TypeOK
<1>4. call' \in UndoCall /\ call'.plan = p /\ call'.left = Len(journal[p])
  BY <1>1, <1>2, <1>3 DEF UndoCall
<1>5. Undoing' /\ ~InApply'
  BY <1>4, KindsOfCalls DEF Undoing, InApply
<1>6. Store!TypeOK'
  BY <1>1, <1>4, KindsOfCalls DEF StoreInv, Store!TypeOK
<1>7. StoreInv'
  BY <1>1, <1>3, <1>4, <1>5, <1>6 DEF StoreInv, EntriesOf
<1> QED BY <1>4, <1>5, <1>7

\* An entry taken back, or found to be impossible to take back.
LEMMA UndoEntryKeeps ==
  ASSUME StoreInv, Store!UndoEntry
  PROVE  /\ StoreInv' /\ Undoing /\ Undoing' /\ ~InApply' /\ call'.plan = call.plan
         /\ UNCHANGED <<pending, ops, planStatus, journal, trail>>
<1>1. /\ Undoing /\ call.left > 0
      /\ UNCHANGED <<pending, ops, planStatus, journal, trail, broken, fresh>>
  BY DEF Store!UndoEntry, Store!Undoing, Undoing
<1>2. call \in UndoCall
  BY <1>1, CallKinds DEF StoreInv
<1>3. PICK p \in Task, n \in Nat : p = call.plan /\ n = call.left
  BY <1>2 DEF UndoCall
<1>4. PICK J \in Seq(Store!Entry) : J = journal[p] /\ EntriesOf(p, J) /\ n \in 1..Len(J)
  BY <1>1, <1>3 DEF StoreInv, Store!TypeOK
<1>5. PICK e \in Store!Entry : e = J[n] /\ e.op \in 1..Len(ops[p])
  BY <1>4 DEF EntriesOf
<1>6. PICK op \in Store!Op : op = ops[p][e.op]
  <2>1. ops[p] \in Seq(Menu)
    BY DEF StoreInv, Store!TypeOK
  <2> QED BY <2>1, <1>5, MenuType
<1>7. PICK k \in Store!File : k = kept[p][e.op]
  BY <1>5 DEF StoreInv, Store!TypeOK, Store!Entry
<1> DEFINE TakenBack ==
             /\ files' = Store!Reversal(op, e, files, k)
             /\ kept' = IF op.kind = "trash" THEN [kept EXCEPT ![p][e.op] = Absent] ELSE kept
             /\ call' = [call EXCEPT !.left = n - 1]
           Fails == /\ call' = [call EXCEPT !.left = n - 1, !.failed = TRUE]
                    /\ UNCHANGED <<files, kept>>
<1>8. TakenBack \/ Fails
  BY <1>3, <1>4, <1>5, <1>6, <1>7 DEF Store!UndoEntry, Store!NextEntry
<1>9. call' \in UndoCall /\ call'.plan = p /\ call'.left = n - 1
  <2>1. n - 1 \in Nat
    BY <1>1, <1>3
  <2>2. CASE TakenBack
    BY <1>2, <1>3, <2>1, <2>2 DEF UndoCall
  <2>3. CASE Fails
    BY <1>2, <1>3, <2>1, <2>3 DEF UndoCall
  <2> QED BY <1>8, <2>2, <2>3
<1>10. files' \in Store!Files
  <2>1. files \in Store!Files
    BY DEF StoreInv, Store!TypeOK
  <2>2. Store!Reversal(op, e, files, k) \in Store!Files
    BY <2>1, ReversalType
  <2> QED BY <1>8, <2>1, <2>2
<1>11. kept' \in [Task -> [Store!OpIndex -> Store!File]]
  <2>1. kept \in [Task -> [Store!OpIndex -> Store!File]] /\ Absent \in Store!File /\ e.op \in Store!OpIndex
    BY DEF StoreInv, Store!TypeOK, Store!Entry
  <2>2. [kept EXCEPT ![p][e.op] = Absent] \in [Task -> [Store!OpIndex -> Store!File]]
    BY <2>1
  <2>3. kept' = kept \/ kept' = [kept EXCEPT ![p][e.op] = Absent]
    BY <1>8
  <2> QED BY <2>1, <2>2, <2>3
<1>12. Store!TypeOK'
  BY <1>1, <1>9, <1>10, <1>11, KindsOfCalls DEF StoreInv, Store!TypeOK
<1>13. Undoing' /\ ~InApply'
  BY <1>9, KindsOfCalls DEF Undoing, InApply
<1>14. call'.left \in 0..Len(journal'[call'.plan])
  BY <1>1, <1>3, <1>4, <1>9
<1>15. StoreInv'
  BY <1>1, <1>12, <1>13, <1>14 DEF StoreInv, EntriesOf
<1> QED BY <1>1, <1>3, <1>9, <1>13, <1>15

\* An entry that the file system refuses to take back.
LEMMA UndoEntryThrowsKeeps ==
  ASSUME StoreInv, Store!UndoEntryThrows
  PROVE  /\ StoreInv' /\ Undoing /\ Undoing' /\ ~InApply' /\ call'.plan = call.plan
         /\ UNCHANGED <<pending, ops, planStatus, journal, trail>>
<1>1. /\ Undoing /\ call.left > 0
      /\ call' = [call EXCEPT !.left = call.left - 1, !.failed = TRUE, !.fresh = FALSE]
      /\ UNCHANGED <<pending, ops, planStatus, kept, journal, trail, broken, fresh>>
  BY DEF Store!UndoEntryThrows, Store!Undoing, Undoing
<1>2. call \in UndoCall
  BY <1>1, CallKinds DEF StoreInv
<1>3. PICK p \in Task, n \in Nat : p = call.plan /\ n = call.left
  BY <1>2 DEF UndoCall
<1>4. n \in 1..Len(journal[p]) /\ Len(journal[p]) \in Nat
  BY <1>1, <1>3 DEF StoreInv, Store!TypeOK
<1>5. call' \in UndoCall /\ call'.plan = p /\ call'.left = n - 1
  <2>1. n - 1 \in Nat
    BY <1>1, <1>3
  <2> QED BY <1>1, <1>2, <1>3, <2>1 DEF UndoCall
<1>6. files' \in Store!Files
  <2>1. files \in Store!Files
    BY DEF StoreInv, Store!TypeOK
  <2>2. files' = files \/ \E rest \in Store!File : \E x : files' = [files EXCEPT ![x] = rest]
    BY DEF Store!UndoEntryThrows
  <2> QED BY <2>1, <2>2 DEF Store!Files
<1>7. Store!TypeOK'
  BY <1>1, <1>5, <1>6, KindsOfCalls DEF StoreInv, Store!TypeOK
<1>8. Undoing' /\ ~InApply'
  BY <1>5, KindsOfCalls DEF Undoing, InApply
<1>9. call'.left \in 0..Len(journal'[call'.plan])
  BY <1>1, <1>4, <1>5
<1>10. StoreInv'
  BY <1>1, <1>7, <1>8, <1>9 DEF StoreInv, EntriesOf
<1> QED BY <1>1, <1>3, <1>5, <1>8, <1>10

LEMMA ReturnUndoKeeps ==
  ASSUME StoreInv, Store!ReturnUndo
  PROVE  /\ StoreInv' /\ Undoing /\ Store!Idle' /\ call.plan \in Task
         /\ UNCHANGED <<pending, ops, journal, trail>>
         /\ \A q \in Task \ {call.plan} : planStatus'[q] = planStatus[q]
         /\ planStatus'[call.plan] \in {planStatus[call.plan], "undone"}
<1>1. /\ Undoing /\ call' = Store!NoCall /\ UNCHANGED <<files, kept, pending, ops, journal, trail, broken, fresh>>
  BY DEF Store!ReturnUndo, Store!Undoing, Undoing, Store!disk
<1>2. call.plan \in Task
  BY <1>1, CallKinds DEF StoreInv, UndoCall
<1>3. /\ planStatus' \in [Task -> Store!PlanStatus]
      /\ \A q \in Task \ {call.plan} : planStatus'[q] = planStatus[q]
      /\ planStatus'[call.plan] \in {planStatus[call.plan], "undone"}
  BY <1>2 DEF StoreInv, Store!TypeOK, Store!ReturnUndo, Store!PlanStatus
<1>4. Store!TypeOK'
  BY <1>1, <1>3 DEF StoreInv, Store!TypeOK, Store!Call
<1>5. StoreInv'
  BY <1>1, <1>2, <1>3, <1>4, StoreFrame
<1> QED BY <1>1, <1>2, <1>3, <1>5 DEF Store!Idle

LEMMA UserEditKeeps ==
  ASSUME StoreInv, NEW x \in Path, NEW c \in Content \cup {Absent}, Store!UserEdit(x, c)
  PROVE  StoreInv'
<1>1. Store!TypeOK'
  BY DEF StoreInv, Store!TypeOK, Store!UserEdit
<1> QED BY <1>1, StoreFrame DEF Store!UserEdit

LEMMA StoreRestartKeeps ==
  ASSUME StoreInv, Store!Restart
  PROVE  StoreInv' /\ Store!Idle'
<1>1. Store!TypeOK'
  BY DEF StoreInv, Store!TypeOK, Store!Restart, Store!disk, Store!Call
<1> QED BY <1>1, StoreFrame DEF Store!Restart, Store!disk, Store!Idle
-----------------------------------------------------------------------------
(***************************************************************************)
(* The board                                                               *)
(***************************************************************************)

\* What a step of another task may do to the record and the run of t: nothing,
\* or t is taken from its queue and started.
Kept(t) == status'[t] = status[t] /\ (t \in aborters' <=> t \in aborters)
Starts(t) ==
  /\ status[t] = "queued" /\ status'[t] = "running"
  /\ t \notin aborters /\ t \in aborters'

LEMMA Statuses ==
  /\ Board!Terminal = {"completed", "failed", "rejected", "cancelled", "timeout"}
  /\ Board!Status = {"absent", "queued", "running", "awaiting_approval", "applying"} \cup Board!Terminal
  /\ Board!AgentType = {"worker", "explore"}
  /\ Board!Task = Task /\ Board!NoTask \notin Task
BY BoardAndStoreAssumption
DEF Board!Terminal, Board!Status, Board!AgentType, Board!Task, Board!NoTask, Task

\* pump(a), with the runs of live in the slots of other types.
LEMMA PumpKeeps ==
  ASSUME Board!TypeOK, NEW a \in Board!AgentType,
         NEW st \in [Task -> Board!Status], NEW w \in SUBSET Task, NEW live \in SUBSET Task,
         agent' \in [Task -> Board!AgentType \cup {"none"}], lost' = lost,
         aborted' \subseteq live, Crashes \/ lost = {},
         \A t \in live : /\ agent'[t] \in Board!AgentType \ {a} /\ running[agent'[t]] = t
                         /\ st[t] \in {"running", "cancelled"},
         \A b \in Board!AgentType \ {a} : \A t \in waiting[b] : agent'[t] = b,
         \A t \in w : agent'[t] = a,
         \A t \in Task : st[t] = "running" => t \in live \cup lost,
         \A t \in Task : st[t] = "absent" <=> agent'[t] = "none",
         Board!Pump(a, st, w, live)
  PROVE  /\ BoardInv'
         /\ \A t \in Task :
              \/ status'[t] = st[t] /\ (t \in aborters' <=> t \in live)
              \/ st[t] = "queued" /\ status'[t] = "running" /\ t \in aborters' /\ t \notin live
<1> USE Statuses
<1>1. CASE Board!PumpNothing(a, st, {}, live)
  <2>1. /\ status' = st
        /\ waiting' = [waiting EXCEPT ![a] = {}]
        /\ running' = [running EXCEPT ![a] = Board!NoTask]
        /\ aborters' = live
    BY <1>1 DEF Board!PumpNothing
  <2>2. Board!TypeOK'
    BY <2>1 DEF Board!TypeOK
  <2>3. \A t \in aborters' :
          /\ agent'[t] # "none" /\ running'[agent'[t]] = t
          /\ status'[t] \in {"running", "cancelled"}
    BY <2>1 DEF Board!TypeOK
  <2>4. \A b \in Board!AgentType : \A t \in waiting'[b] : agent'[t] = b
    BY <2>1 DEF Board!TypeOK
  <2> QED BY <2>1, <2>2, <2>3, <2>4 DEF BoardInv
<1>2. CASE \E u \in w :
             /\ st[u] = "queued"
             /\ status' = [st EXCEPT ![u] = "running"]
             /\ waiting' = [waiting EXCEPT ![a] = {v \in w : v > u}]
             /\ running' = [running EXCEPT ![a] = u]
             /\ aborters' = live \cup {u}
  <2>1. PICK u \in w :
             /\ st[u] = "queued"
             /\ status' = [st EXCEPT ![u] = "running"]
             /\ waiting' = [waiting EXCEPT ![a] = {v \in w : v > u}]
             /\ running' = [running EXCEPT ![a] = u]
             /\ aborters' = live \cup {u}
    BY <1>2
  <2>2. u \in Task /\ agent'[u] = a /\ u \notin live
    OBVIOUS
  <2>3. /\ status' \in [Task -> Board!Status]
        /\ waiting' \in [Board!AgentType -> SUBSET Task]
        /\ running' \in [Board!AgentType -> Task \cup {Board!NoTask}]
        /\ aborters' \in SUBSET Task
    <3>1. {v \in w : v > u} \in SUBSET Task
      OBVIOUS
    <3> QED BY <2>1, <2>2, <3>1 DEF Board!TypeOK
  <2>4. Board!TypeOK'
    BY <2>1, <2>3 DEF Board!TypeOK
  <2>5. \A t \in aborters' :
          /\ agent'[t] # "none" /\ running'[agent'[t]] = t
          /\ status'[t] \in {"running", "cancelled"}
    BY <2>1, <2>2 DEF Board!TypeOK
  <2>6. \A b \in Board!AgentType : \A t \in waiting'[b] : agent'[t] = b
    BY <2>1 DEF Board!TypeOK
  <2>7. \A t \in Task : status'[t] = "absent" <=> agent'[t] = "none"
    BY <2>1
  <2> QED BY <2>1, <2>2, <2>4, <2>5, <2>6, <2>7 DEF BoardInv
<1> QED BY <1>1, <1>2 DEF Board!Pump

LEMMA DispatchKeeps ==
  ASSUME BoardInv, NEW t \in Task, NEW a \in Board!AgentType, Board!Dispatch(t, a)
  PROVE  /\ BoardInv' /\ status[t] = "absent" /\ t \notin aborters /\ aborted' = aborted
         /\ \/ status'[t] = "queued" /\ t \notin aborters'
            \/ status'[t] = "running" /\ t \in aborters'
         /\ \A u \in Task \ {t} : Kept(u) \/ Starts(u)
<1> USE Statuses
<1> DEFINE st == [status EXCEPT ![t] = "queued"]
<1>1. /\ st \in [Task -> Board!Status] /\ agent' = [agent EXCEPT ![t] = a]
      /\ agent' \in [Task -> Board!AgentType \cup {"none"}]
      /\ aborted' = aborted /\ lost' = lost /\ aborted \subseteq aborters /\ aborters \subseteq Task
      /\ status[t] = "absent" /\ t \notin aborters
  BY DEF BoardInv, Board!TypeOK, Board!Dispatch
<1>2. CASE running[a] # Board!NoTask
  <2>1. /\ status' = st
        /\ waiting' = [waiting EXCEPT ![a] = @ \cup {t}]
        /\ running' = running /\ aborters' = aborters
    BY <1>2 DEF Board!Dispatch
  <2>2. Board!TypeOK'
    BY <1>1, <2>1 DEF BoardInv, Board!TypeOK
  <2>3. \A u \in Task \ {t} : Kept(u)
    BY <2>1 DEF BoardInv, Board!TypeOK, Kept
  <2>4. BoardInv'
    BY <1>1, <2>1, <2>2 DEF BoardInv, Board!TypeOK
  <2>5. status'[t] = "queued"
    BY <2>1 DEF BoardInv, Board!TypeOK
  <2> QED BY <1>1, <2>1, <2>3, <2>4, <2>5
<1>3. CASE running[a] = Board!NoTask
  <2>1. Board!Pump(a, st, waiting[a] \cup {t}, aborters)
    BY <1>3 DEF Board!Dispatch
  <2>2. \A u \in aborters : /\ agent'[u] \in Board!AgentType \ {a} /\ running[agent'[u]] = u
                            /\ st[u] \in {"running", "cancelled"}
    BY <1>1, <1>3 DEF BoardInv, Board!TypeOK
  <2>3. \A b \in Board!AgentType : \A u \in waiting[b] : u # t /\ agent'[u] = b
    BY <1>1 DEF BoardInv, Board!TypeOK
  <2> QED
    <3>1. waiting[a] \cup {t} \in SUBSET Task /\ Board!TypeOK
      BY DEF BoardInv, Board!TypeOK
    <3>2. \A u \in Task : st[u] = "running" => u \in aborters \cup lost
      BY <1>1 DEF BoardInv, Board!TypeOK
    <3>3. \A u \in Task : st[u] = "absent" <=> agent'[u] = "none"
      BY <1>1 DEF BoardInv, Board!TypeOK
    <3>4. \A u \in waiting[a] \cup {t} : agent'[u] = a
      BY <1>1, <2>3 DEF BoardInv, Board!TypeOK
    <3>5. Crashes \/ lost = {}
      BY DEF BoardInv
    <3> HIDE DEF st
    <3>6. /\ BoardInv'
          /\ \A u \in Task :
               \/ status'[u] = st[u] /\ (u \in aborters' <=> u \in aborters)
               \/ st[u] = "queued" /\ status'[u] = "running" /\ u \in aborters' /\ u \notin aborters
      BY <1>1, <2>1, <2>2, <2>3, <3>1, <3>2, <3>3, <3>4, <3>5, PumpKeeps
    <3>7. st[t] = "queued" /\ \A u \in Task \ {t} : st[u] = status[u]
      BY DEF st, BoardInv, Board!TypeOK
    <3> QED BY <1>1, <3>6, <3>7 DEF Kept, Starts
<1> QED BY <1>2, <1>3

\* A cancelled task stays so, a running one gets the verdict.
LEMMA SettleKeeps ==
  ASSUME BoardInv, NEW t \in Task, NEW how \in Board!Outcome, Board!Settle(t, how)
  PROVE  /\ BoardInv' /\ t \in aborters /\ t \notin aborters' /\ aborted' = aborted \ {t}
         /\ \/ status[t] = "cancelled" /\ status'[t] = "cancelled"
            \/ status[t] = "running" /\ status'[t] = Board!Verdict(t, how)
         /\ \A u \in Task \ {t} : Kept(u) \/ Starts(u)
<1> USE Statuses
<1> DEFINE st == Board!Settled(t, how)
           a == agent[t]
           live == aborters \ {t}
<1>1. /\ t \in aborters /\ Board!Pump(a, st, waiting[a], live)
      /\ aborted' = aborted \ {t} /\ agent' = agent /\ lost' = lost
  BY DEF Board!Settle
<1>2. /\ a \in Board!AgentType /\ running[a] = t /\ status[t] \in {"running", "cancelled"}
      /\ Board!TypeOK /\ status \in [Task -> Board!Status]
      /\ agent' \in [Task -> Board!AgentType \cup {"none"}]
      /\ waiting[a] \in SUBSET Task /\ live \in SUBSET Task /\ aborted' \subseteq live
      /\ Crashes \/ lost = {}
  BY <1>1 DEF BoardInv, Board!TypeOK
<1>3. /\ Board!Verdict(t, how) \in Board!Status
      /\ Board!Verdict(t, how) \notin {"absent", "queued", "running"}
  BY DEF Board!Verdict, Board!Outcome
<1>4. /\ st \in [Task -> Board!Status]
      /\ \A u \in Task \ {t} : st[u] = status[u]
      /\ \/ status[t] = "cancelled" /\ st[t] = "cancelled"
         \/ status[t] = "running" /\ st[t] = Board!Verdict(t, how)
  <2>1. CASE status[t] = "cancelled"
    BY <1>2, <2>1 DEF Board!Settled
  <2>2. CASE status[t] = "running"
    <3>1. st = [status EXCEPT ![t] = Board!Verdict(t, how)]
      BY <2>2 DEF Board!Settled
    <3> QED BY <1>2, <1>3, <2>2, <3>1
  <2> QED BY <1>2, <2>1, <2>2
<1> HIDE DEF st
<1>5. \A u \in live : /\ agent'[u] \in Board!AgentType \ {a} /\ running[agent'[u]] = u
                      /\ st[u] \in {"running", "cancelled"}
  BY <1>1, <1>2, <1>4 DEF BoardInv, Board!TypeOK
<1>6. \A b \in Board!AgentType : \A u \in waiting[b] : agent'[u] = b
  BY <1>1 DEF BoardInv
<1>7. \A u \in Task : st[u] = "running" => u \in live \cup lost
  BY <1>3, <1>4 DEF BoardInv
<1>8. \A u \in Task : st[u] = "absent" <=> agent'[u] = "none"
  BY <1>1, <1>2, <1>3, <1>4 DEF BoardInv
<1>9. /\ BoardInv'
      /\ \A u \in Task :
           \/ status'[u] = st[u] /\ (u \in aborters' <=> u \in live)
           \/ st[u] = "queued" /\ status'[u] = "running" /\ u \in aborters' /\ u \notin live
  <2> HIDE DEF a, live
  <2> QED BY <1>1, <1>2, <1>4, <1>5, <1>6, <1>7, <1>8, PumpKeeps
<1>10. status'[t] = st[t] /\ t \notin aborters'
  BY <1>3, <1>4, <1>9
<1> QED BY <1>1, <1>4, <1>9, <1>10 DEF Kept, Starts

LEMMA CancelKeeps ==
  ASSUME BoardInv, NEW t \in Task, Board!Cancel(t)
  PROVE  /\ BoardInv' /\ aborters' = aborters /\ aborted \subseteq aborted'
         /\ status[t] \notin Board!Terminal \cup {"absent"} /\ status'[t] = "cancelled"
         /\ \A u \in Task \ {t} : Kept(u)
<1> USE Statuses
<1>1. /\ agent[t] \in Board!AgentType
      /\ waiting' = [waiting EXCEPT ![agent[t]] = @ \ {t}]
      /\ aborted' = aborted \cup ({t} \cap aborters)
      /\ status' = [status EXCEPT ![t] = "cancelled"]
      /\ UNCHANGED <<agent, running, aborters, lost>>
      /\ status[t] \notin Board!Terminal \cup {"absent"}
  BY DEF Board!Cancel, BoardInv, Board!TypeOK
<1>2. Board!TypeOK'
  BY <1>1 DEF BoardInv, Board!TypeOK
<1>3. BoardInv'
  BY <1>1, <1>2 DEF BoardInv, Board!TypeOK
<1> QED BY <1>1, <1>3 DEF BoardInv, Board!TypeOK, Kept

\* The approval methods, called for a task that has no run in flight.
LEMMA ApprovalKeeps ==
  ASSUME BoardInv, NEW t \in Task, t \notin aborters, status[t] # "absent",
         NEW s \in Board!Status \ {"absent", "queued", "running"},
         status' = [status EXCEPT ![t] = s], UNCHANGED Board!butStatus
  PROVE  BoardInv' /\ status'[t] = s /\ UNCHANGED <<aborters, aborted>> /\ \A u \in Task \ {t} : Kept(u)
<1> USE Statuses DEF Board!butStatus
<1>1. Board!TypeOK'
  BY DEF BoardInv, Board!TypeOK
<1>2. BoardInv'
  BY <1>1 DEF BoardInv, Board!TypeOK
<1> QED BY <1>2 DEF BoardInv, Board!TypeOK, Kept

LEMMA BoardUnchanged ==
  ASSUME BoardInv, UNCHANGED boardVars
  PROVE  BoardInv' /\ UNCHANGED <<aborters, aborted>> /\ \A t \in Task : Kept(t)
BY DEF boardVars, BoardInv, Board!TypeOK, Kept

LEMMA BoardRestartKeeps ==
  ASSUME BoardInv, Crashes, Board!Restart
  PROVE  BoardInv' /\ status' = status /\ aborters' = {} /\ aborted' = {}
<1> USE Statuses DEF Board!Restart
<1>1. Board!TypeOK'
  BY DEF BoardInv, Board!TypeOK
<1> QED BY <1>1 DEF BoardInv, Board!TypeOK
-----------------------------------------------------------------------------
(***************************************************************************)
(* Frames                                                                  *)
(***************************************************************************)
Noting == ended' = ended \cup {t \in Task : status'[t] \in Board!Terminal}

ExecType == [Task -> [round : 0..MaxRounds, calls : 0..MaxToolCalls, todo : 0..RoundTools]]

LEMMA ExecFollows ==
  ASSUME NEW e \in ExecType, \A t \in Task : t \in aborters => e[t].round > 0,
         ExecutorsFollow(e)
  PROVE  /\ ExecInv'
         /\ \A t \in Task : t \in aborters /\ t \in aborters' => exec'[t] = e[t]
<1> USE RoundsAssumption DEF ExecType, ExecutorsFollow, NoExec, FirstRound
<1>1. \A t \in Task :
        /\ exec'[t] = IF t \notin aborters' THEN NoExec
                      ELSE IF t \notin aborters THEN FirstRound ELSE e[t]
        /\ exec'[t] \in [round : 0..MaxRounds, calls : 0..MaxToolCalls, todo : 0..RoundTools]
        /\ exec'[t].round > 0 <=> t \in aborters'
  OBVIOUS
<1>2. exec' \in ExecType
  BY <1>1
<1> QED BY <1>1, <1>2 DEF ExecInv

\* A step that leaves exec and the runs in flight alone.
LEMMA ExecUnchanged ==
  ASSUME ExecInv, exec' = exec, aborters' = aborters
  PROVE  ExecInv'
BY DEF ExecInv

\* Between handlers, no obligation of one.
LEMMA NoHandlerKeeps ==
  ASSUME handler' = NoHandler, Store!Idle'
  PROVE  HandlerInv'
BY DEF HandlerInv, NoHandler, Store!Idle, InApply, Undoing

LEMMA ScopeUnchanged ==
  ASSUME ScopeHolds, pending' = pending, ops' = ops
  PROVE  ScopeHolds'
BY DEF ScopeHolds, StagedOps

\* What the board may do to a task whose plan is left alone.
LEMMA LinkedByBoard ==
  ASSUME NEW t \in Task, Linked(t), Noting,
         t \in planId' <=> t \in planId,
         planStatus'[t] = planStatus[t], trail'[t] = trail[t],
         journal'[t] = journal[t], pending'[t] = pending[t],
         handler = [name |-> "planning", task |-> t] => handler' = handler \/ t \notin aborters',
         \/ Kept(t) \/ Starts(t)
         \/ status[t] = "absent" /\ status'[t] = "queued" /\ t \notin aborters'
         \/ status[t] = "absent" /\ status'[t] = "running" /\ t \in aborters'
         \/ /\ status[t] \notin Board!Terminal /\ status'[t] = "cancelled"
            /\ t \in aborters' => t \in aborters
         \/ t \in aborters /\ t \notin aborters' /\ status'[t] \in {"completed", "failed", "cancelled"}
  PROVE  Linked(t)'
<1> USE Statuses
<1>1. Kept(t) => Linked(t)'
  BY DEF Kept, Linked, Noting
<1>2. Starts(t) => Linked(t)'
  BY DEF Starts, Linked, Noting
<1>3. status[t] = "absent" /\ status'[t] = "queued" /\ t \notin aborters' => Linked(t)'
  BY DEF Linked, Noting
<1>4. status[t] = "absent" /\ status'[t] = "running" /\ t \in aborters' => Linked(t)'
  BY DEF Linked, Noting
<1>5. /\ status[t] \notin Board!Terminal /\ status'[t] = "cancelled"
      /\ t \in aborters' => t \in aborters
      => Linked(t)'
  BY DEF Linked, Noting
<1>6. t \in aborters /\ t \notin aborters' /\ status'[t] \in {"completed", "failed", "cancelled"}
      => Linked(t)'
  BY DEF Linked, Noting
<1> QED BY <1>1, <1>2, <1>3, <1>4, <1>5, <1>6

\* A step of the board alone, between handlers.
LEMMA BoardStepKeeps ==
  ASSUME IInv, Free, Noting, UNCHANGED <<storeVars, planId, handler>>,
         BoardInv', ExecInv',
         \A t \in Task : t \in aborters /\ t \in aborters' => exec'[t].calls >= exec[t].calls,
         \A t \in Task :
           \/ Kept(t) \/ Starts(t)
           \/ status[t] = "absent" /\ status'[t] = "queued" /\ t \notin aborters'
           \/ status[t] = "absent" /\ status'[t] = "running" /\ t \in aborters'
           \/ /\ status[t] \notin Board!Terminal /\ status'[t] = "cancelled"
              /\ t \in aborters' => t \in aborters
           \/ t \in aborters /\ t \notin aborters' /\ status'[t] \in {"completed", "failed", "cancelled"}
  PROVE  IInv'
<1> USE DEF storeVars
<1>1. StoreInv'
  BY StoreUnchanged DEF IInv
<1>2. HandlerInv'
  BY NoHandlerKeeps DEF Free, Store!Idle
<1>3. ScopeHolds'
  BY ScopeUnchanged DEF IInv
<1>4. \A t \in Task : Linked(t)'
  BY LinkedByBoard DEF IInv, Free
<1>5. Staged'
  <2> SUFFICES ASSUME NEW t \in Task
               PROVE  Len(pending[t]) <= MaxToolCalls /\ (t \in aborters' => Len(pending[t]) <= exec'[t].calls)
    BY DEF Staged
  <2>1. Len(pending[t]) <= MaxToolCalls /\ Len(pending[t]) \in Nat
    BY DEF IInv, Staged, StoreInv, Store!TypeOK
  <2>2. CASE t \in aborters /\ t \in aborters'
    <3>1. exec'[t].calls >= exec[t].calls /\ exec'[t].calls \in Nat /\ exec[t].calls \in Nat
      BY <2>2, RoundsAssumption DEF IInv, ExecInv
    <3> QED BY <2>1, <2>2, <3>1 DEF IInv, Staged
  <2>3. CASE t \notin aborters /\ t \in aborters'
    <3>1. status[t] \in {"absent", "queued"}
      BY <2>3 DEF Kept, Starts
    <3>2. Len(pending[t]) = 0
      BY <3>1 DEF IInv, Linked
    <3>3. exec'[t].calls \in Nat
      BY RoundsAssumption DEF ExecInv
    <3> QED BY <2>1, <3>2, <3>3
  <2> QED BY <2>1, <2>2, <2>3
<1>6. planId' \subseteq Task /\ ended' \subseteq Task
  BY DEF IInv, Noting
<1> QED BY <1>1, <1>2, <1>3, <1>4, <1>5, <1>6 DEF IInv

\* The numbers of an executor.
LEMMA ExecFacts ==
  ASSUME IInv
  PROVE  exec \in ExecType /\ \A t \in Task : t \in aborters => exec[t].round > 0 /\ exec[t].calls \in Nat
BY RoundsAssumption DEF IInv, ExecInv, ExecType
-----------------------------------------------------------------------------
(***************************************************************************)
(* The sub-agent                                                           *)
(***************************************************************************)
LEMMA DispatchStep ==
  ASSUME IInv, NEW t \in Task, NEW a \in Board!AgentType, Dispatch(t, a), Noting
  PROVE  IInv'
<1>1. /\ BoardInv' /\ status[t] = "absent"
      /\ \/ status'[t] = "queued" /\ t \notin aborters'
         \/ status'[t] = "running" /\ t \in aborters'
      /\ \A u \in Task \ {t} : Kept(u) \/ Starts(u)
  BY DispatchKeeps DEF IInv, Dispatch
<1>2. ExecInv' /\ \A u \in Task : u \in aborters /\ u \in aborters' => exec'[u] = exec[u]
  BY ExecFollows, ExecFacts DEF Dispatch
<1>3. \A u \in Task : u \in aborters /\ u \in aborters' => exec'[u].calls >= exec[u].calls
  BY <1>2, ExecFacts
<1> QED BY <1>1, <1>2, <1>3, BoardStepKeeps DEF Dispatch

LEMMA CancelStep ==
  ASSUME IInv, NEW t \in Task, Cancel(t), Noting
  PROVE  IInv'
<1>1. /\ BoardInv' /\ aborters' = aborters
      /\ status[t] \notin Board!Terminal /\ status'[t] = "cancelled"
      /\ \A u \in Task \ {t} : Kept(u)
  BY CancelKeeps DEF IInv, Cancel
<1>2. ExecInv'
  BY <1>1, ExecUnchanged DEF IInv, Cancel
<1>3. \A u \in Task : u \in aborters /\ u \in aborters' => exec'[u].calls >= exec[u].calls
  BY ExecFacts DEF Cancel
<1> QED BY <1>1, <1>2, <1>3, BoardStepKeeps DEF Cancel

\* A run that settles without a plan.
LEMMA SettlesStep ==
  ASSUME IInv, NEW t \in Task, NEW how \in {"ok", "not_ok", "throws"},
         Free, Board!Settle(t, how), ExecutorsFollow(exec),
         UNCHANGED <<storeVars, planId, handler>>, Noting
  PROVE  IInv'
<1>1. how \in Board!Outcome /\ Board!Verdict(t, how) \in {"completed", "failed", "cancelled"}
  BY DEF Board!Outcome, Board!Verdict
<1>2. /\ BoardInv' /\ t \in aborters /\ t \notin aborters'
      /\ \/ status[t] = "cancelled" /\ status'[t] = "cancelled"
         \/ status[t] = "running" /\ status'[t] = Board!Verdict(t, how)
      /\ \A u \in Task \ {t} : Kept(u) \/ Starts(u)
  BY <1>1, SettleKeeps DEF IInv
<1>3. ExecInv' /\ \A u \in Task : u \in aborters /\ u \in aborters' => exec'[u] = exec[u]
  BY ExecFollows, ExecFacts
<1>4. \A u \in Task : u \in aborters /\ u \in aborters' => exec'[u].calls >= exec[u].calls
  BY <1>3, ExecFacts
<1> QED BY <1>1, <1>2, <1>3, <1>4, BoardStepKeeps

LEMMA ReplyStep ==
  ASSUME IInv, NEW t \in Task, NEW n \in 1..RoundTools, ReplyWithTools(t, n), Noting
  PROVE  IInv'
<1>1. BoardInv' /\ aborters' = aborters /\ \A u \in Task : Kept(u)
  BY BoardUnchanged DEF IInv, ReplyWithTools
<1>2. n \in 0..RoundTools
  BY RoundsAssumption
<1>3. /\ exec' \in ExecType
      /\ \A u \in Task : exec'[u].calls = exec[u].calls /\ exec'[u].round = exec[u].round
  BY <1>2, ExecFacts DEF ReplyWithTools, ExecType
<1>4. ExecInv'
  BY <1>1, <1>3 DEF IInv, ExecInv, ExecType
<1>5. \A u \in Task : u \in aborters /\ u \in aborters' => exec'[u].calls >= exec[u].calls
  BY <1>3, ExecFacts
<1> QED BY <1>1, <1>4, <1>5, BoardStepKeeps DEF ReplyWithTools, InRound

\* The plan is made: what was pending is in it.
LEMMA PlanStep ==
  ASSUME IInv, NEW t \in Task, FinalResultWithPlan(t), Noting
  PROVE  IInv'
<1>1. /\ Store!CreatePlan(t) /\ handler' = [name |-> "planning", task |-> t]
      /\ UNCHANGED <<boardVars, planId, exec>>
      /\ handler = NoHandler /\ Store!Idle /\ t \in aborters
  BY DEF FinalResultWithPlan, Hand, InRound, Free
<1>2. /\ planStatus[t] = "none" /\ planStatus'[t] = "draft"
      /\ pending'[t] = << >> /\ ops'[t] = pending[t]
      /\ UNCHANGED <<trail, journal, call>>
      /\ \A u \in Task \ {t} : planStatus'[u] = planStatus[u] /\ pending'[u] = pending[u] /\ ops'[u] = ops[u]
  BY <1>1 DEF IInv, StoreInv, Store!TypeOK, Store!CreatePlan, Store!disk
<1>3. StoreInv'
  BY <1>1, CreatePlanKeeps DEF IInv
<1>4. BoardInv' /\ UNCHANGED <<aborters, aborted>> /\ \A u \in Task : Kept(u)
  BY <1>1, BoardUnchanged DEF IInv
<1>5. ExecInv'
  BY <1>1, <1>4, ExecUnchanged DEF IInv
<1>6. HandlerInv'
  BY <1>1, <1>2, <1>4 DEF HandlerInv, NoHandler, Store!Idle, InApply, Undoing
<1>7. Staged'
  BY <1>1, <1>2, <1>4, RoundsAssumption, ExecFacts DEF IInv, Staged
<1>8. ScopeHolds'
  <2>1. Range(pending'[t]) = {}
    BY <1>2 DEF Range
  <2> QED BY <1>2, <2>1 DEF IInv, ScopeHolds, StagedOps
<1>9. Linked(t)'
  BY <1>1, <1>2, <1>4, Statuses DEF IInv, Linked, BoardInv, Kept, Noting
<1>10. \A u \in Task \ {t} : Linked(u)'
  BY <1>1, <1>2, <1>4, LinkedByBoard DEF IInv, NoHandler
<1> QED BY <1>1, <1>3, <1>4, <1>5, <1>6, <1>7, <1>8, <1>9, <1>10 DEF IInv, Noting

\* run() catches TaskAwaitingApproval: the record is not touched when the task
\* was cancelled meanwhile, and then it names no plan.
LEMMA AwaitStep ==
  ASSUME IInv, AwaitApproval, Noting
  PROVE  IInv'
<1>1. PICK t \in Task : handler = [name |-> "planning", task |-> t]
  BY DEF IInv, HandlerInv, AwaitApproval, Handling, NoHandler
<1>2. /\ Board!Settle(t, "awaiting") /\ ExecutorsFollow(exec)
      /\ handler' = NoHandler /\ UNCHANGED storeVars /\ Store!Idle
      /\ planId' = IF status[t] \in Board!Terminal THEN planId ELSE planId \cup {t}
  BY <1>1 DEF AwaitApproval, Handling
<1>3. "awaiting" \in Board!Outcome /\ Board!Verdict(t, "awaiting") = "awaiting_approval"
  BY DEF Board!Outcome, Board!Verdict
<1>4. /\ BoardInv' /\ t \in aborters /\ t \notin aborters'
      /\ \/ status[t] = "cancelled" /\ status'[t] = "cancelled"
         \/ status[t] = "running" /\ status'[t] = "awaiting_approval"
      /\ \A u \in Task \ {t} : Kept(u) \/ Starts(u)
  BY <1>2, <1>3, SettleKeeps DEF IInv
<1>5. ExecInv' /\ \A u \in Task : u \in aborters /\ u \in aborters' => exec'[u] = exec[u]
  BY <1>2, ExecFollows, ExecFacts
<1>6. StoreInv'
  BY <1>2, StoreUnchanged DEF IInv
<1>7. HandlerInv'
  BY <1>2, NoHandlerKeeps DEF storeVars, Store!Idle
<1>8. ScopeHolds'
  BY <1>2, ScopeUnchanged DEF IInv, storeVars
<1>9. planStatus[t] = "draft"
  BY <1>1 DEF IInv, HandlerInv
<1>10. Linked(t)'
  <2>1. CASE status[t] = "cancelled" /\ status'[t] = "cancelled"
    <3>1. planId' = planId
      BY <1>2, <2>1, Statuses
    <3> QED BY <1>2, <1>4, <1>9, <2>1, <3>1, Statuses DEF IInv, Linked, Noting, storeVars
  <2>2. CASE status[t] = "running" /\ status'[t] = "awaiting_approval"
    <3>1. planId' = planId \cup {t}
      BY <1>2, <2>2, Statuses
    <3> QED BY <1>2, <1>4, <1>9, <2>2, <3>1, Statuses DEF IInv, Linked, Noting, storeVars
  <2> QED BY <1>4, <2>1, <2>2
<1>11. \A u \in Task \ {t} : Linked(u)'
  BY <1>1, <1>2, <1>4, LinkedByBoard DEF IInv, storeVars
<1>12. Staged'
  <2> SUFFICES ASSUME NEW u \in Task
               PROVE  Len(pending'[u]) <= MaxToolCalls /\ (u \in aborters' => Len(pending'[u]) <= exec'[u].calls)
    BY DEF Staged
  <2>1. pending' = pending /\ Len(pending[u]) <= MaxToolCalls /\ Len(pending[u]) \in Nat
    BY <1>2 DEF IInv, Staged, StoreInv, Store!TypeOK, storeVars
  <2>2. CASE u \in aborters' /\ u \in aborters
    BY <1>5, <2>1, <2>2 DEF IInv, Staged
  <2>3. CASE u \in aborters' /\ u \notin aborters
    <3>1. status[u] = "queued"
      BY <1>4, <2>3 DEF Kept, Starts
    <3>2. Len(pending[u]) = 0
      BY <3>1 DEF IInv, Linked
    <3>3. exec'[u].calls \in Nat
      BY <1>5, RoundsAssumption DEF ExecInv
    <3> QED BY <2>1, <3>2, <3>3
  <2> QED BY <2>1, <2>2, <2>3
<1>13. planId' \subseteq Task /\ ended' \subseteq Task
  BY <1>2 DEF IInv, Noting
<1> QED BY <1>4, <1>5, <1>6, <1>7, <1>8, <1>10, <1>11, <1>12, <1>13 DEF IInv

\* A tool stages at most one operation, in scope, or leaves the store alone, or
\* changes the user's files.
LEMMA ExecToolKeeps ==
  ASSUME IInv, NEW t \in Task, NEW c \in Calls, Free, ExecTool(t, c)
  PROVE  /\ StoreInv' /\ ScopeHolds' /\ Store!Idle'
         /\ UNCHANGED <<ops, planStatus, journal, trail>>
         /\ \A u \in Task \ {t} : pending'[u] = pending[u]
         /\ Len(pending'[t]) \in Nat /\ Len(pending'[t]) <= Len(pending[t]) + 1
<1>0. StoreInv /\ ScopeHolds /\ pending[t] \in Seq(Menu) /\ Store!Idle
  BY DEF IInv, StoreInv, Store!TypeOK, Free
<1>1. CASE UNCHANGED storeVars
  <2>1. StoreInv' /\ ScopeHolds'
    BY <1>0, <1>1, StoreUnchanged, ScopeUnchanged DEF storeVars
  <2> QED BY <1>0, <1>1, <2>1 DEF storeVars, Store!Idle
<1>2. CASE /\ c.tool \in Gate!Stages /\ ~Gate!Blocked(c)
           /\ Store!Stage(t, Gate!StagedOp(c))
  <2>1. /\ Gate!StagedOp(c) \in Menu
        /\ InScopeOrSpelt(Gate!StagedOp(c).src) /\ InScopeOrSpelt(Gate!StagedOp(c).dst)
    BY <1>2, GateHolds
  <2>2. PICK op \in Menu : /\ op = Gate!StagedOp(c) /\ InScopeOrSpelt(op.src) /\ InScopeOrSpelt(op.dst)
                           /\ Store!Stage(t, op)
    BY <1>2, <2>1
  <2>3. StoreInv'
    BY <1>0, <2>2, StageKeeps
  <2>4. /\ pending'[t] = Append(pending[t], op)
        /\ \A u \in Task \ {t} : pending'[u] = pending[u]
        /\ UNCHANGED <<ops, planStatus, call, journal, trail>>
    BY <1>0, <2>2 DEF Store!Stage, Store!disk, StoreInv, Store!TypeOK
  <2>5. Range(pending'[t]) \subseteq Range(pending[t]) \cup {op}
    BY <1>0, <2>4 DEF Range
  <2>6. ScopeHolds'
    <3> SUFFICES ASSUME NEW u \in Task, NEW o \in StagedOps(u)', NEW path \in {o.src, o.dst}
                 PROVE  InScopeOrSpelt(path)
      BY DEF ScopeHolds, InScopeOrSpelt
    <3>1. o \in StagedOps(u) \/ o = op
      BY <2>4, <2>5 DEF StagedOps
    <3> QED BY <3>1, <1>0, <2>2 DEF ScopeHolds, InScopeOrSpelt
  <2>7. Len(pending'[t]) = Len(pending[t]) + 1 /\ Len(pending[t]) \in Nat
    BY <1>0, <2>4
  <2> QED BY <1>0, <2>3, <2>4, <2>6, <2>7 DEF Store!Idle
<1>3. CASE \E p \in Path, body \in Content \cup {Absent} : Store!UserEdit(p, body)
  <2>1. StoreInv'
    BY <1>0, <1>3, UserEditKeeps
  <2>2. UNCHANGED <<pending, ops, planStatus, journal, trail, call>>
    BY <1>3 DEF Store!UserEdit
  <2> QED BY <1>0, <2>1, <2>2, ScopeUnchanged DEF Store!Idle
<1> QED BY <1>1, <1>2, <1>3 DEF ExecTool

LEMMA ToolStep ==
  ASSUME IInv, NEW t \in Task, Tool(t), Noting
  PROVE  IInv'
<1> DEFINE e == [exec EXCEPT ![t].calls = @ + 1, ![t].todo = @ - 1]
<1>1. /\ Free /\ handler = NoHandler /\ Store!Idle /\ t \in aborters /\ exec[t].todo > 0
      /\ exec[t].calls < MaxToolCalls /\ UNCHANGED <<planId, handler>>
  BY RoundsAssumption, ExecFacts DEF Tool, InTools, OverBudget, Free, ExecType
<1>2. PICK c \in Calls : ExecTool(t, c)
  BY DEF Tool
<1>3. /\ StoreInv' /\ ScopeHolds' /\ Store!Idle'
      /\ UNCHANGED <<ops, planStatus, journal, trail>>
      /\ \A u \in Task \ {t} : pending'[u] = pending[u]
      /\ Len(pending'[t]) \in Nat /\ Len(pending'[t]) <= Len(pending[t]) + 1
  BY <1>1, <1>2, ExecToolKeeps
<1>4. /\ e \in ExecType /\ e[t].calls = exec[t].calls + 1 /\ e[t].round = exec[t].round
      /\ \A u \in Task \ {t} : e[u] = exec[u]
  <2>1. exec \in ExecType
    BY ExecFacts
  <2>2. /\ exec[t] \in [round : 0..MaxRounds, calls : 0..MaxToolCalls, todo : 0..RoundTools]
        /\ exec[t].calls + 1 \in 0..MaxToolCalls /\ exec[t].todo - 1 \in 0..RoundTools
    BY <1>1, <2>1, RoundsAssumption DEF ExecType
  <2>3. /\ e[t] = [exec[t] EXCEPT !.calls = exec[t].calls + 1, !.todo = exec[t].todo - 1]
        /\ \A u \in Task \ {t} : e[u] = exec[u]
    BY <2>1 DEF ExecType
  <2>4. e[t] \in [round : 0..MaxRounds, calls : 0..MaxToolCalls, todo : 0..RoundTools]
    BY <2>2, <2>3
  <2>5. e \in ExecType
    <3>1. e = [u \in Task |-> e[u]]
      BY <2>1 DEF ExecType
    <3> HIDE DEF e
    <3> QED BY <2>1, <2>3, <2>4, <3>1 DEF ExecType
  <2> QED BY <2>2, <2>3, <2>5
<1>5. \/ /\ exec' = e /\ UNCHANGED boardVars
      \/ /\ ~LoopThrows(t) /\ exec' = [e EXCEPT ![t].round = @ + 1] /\ UNCHANGED boardVars
      \/ /\ Board!Settle(t, "throws") /\ ExecutorsFollow(e)
  BY DEF Tool
<1> HIDE DEF e
<1>6. /\ BoardInv' /\ ExecInv' /\ status[t] \in {"running", "cancelled"}
      /\ \A u \in Task \ {t} : Kept(u) \/ Starts(u)
      /\ Kept(t) \/ (t \notin aborters' /\ status'[t] \in {"cancelled", "failed"}
                     /\ (status[t] = "cancelled" => status'[t] = "cancelled"))
      /\ \A u \in Task : u \in aborters /\ u \in aborters' => exec'[u].calls = e[u].calls
  <2>1. CASE exec' = e /\ UNCHANGED boardVars
    <3>1. BoardInv' /\ UNCHANGED <<aborters, aborted>> /\ \A u \in Task : Kept(u)
      BY <2>1, BoardUnchanged DEF IInv
    <3>2. ExecInv'
      BY <1>4, <2>1, <3>1 DEF IInv, ExecInv, ExecType
    <3> QED BY <1>1, <2>1, <3>1, <3>2 DEF IInv, BoardInv
  <2>2. CASE ~LoopThrows(t) /\ exec' = [e EXCEPT ![t].round = @ + 1] /\ UNCHANGED boardVars
    <3>1. BoardInv' /\ UNCHANGED <<aborters, aborted>> /\ \A u \in Task : Kept(u)
      BY <2>2, BoardUnchanged DEF IInv
    <3>2. e[t].round + 1 \in 0..MaxRounds /\ e[t].round > 0
      <4>1. exec[t].round \in 0..MaxRounds /\ exec[t].round > 0 /\ exec[t].round # MaxRounds
        BY <1>1, <2>2, ExecFacts DEF LoopThrows, ExecType
      <4> QED BY <1>4, <4>1, RoundsAssumption
    <3>3. /\ exec' \in ExecType /\ exec'[t].round = e[t].round + 1
          /\ \A u \in Task : exec'[u].calls = e[u].calls
          /\ \A u \in Task \ {t} : exec'[u] = e[u]
      BY <1>4, <2>2, <3>2 DEF ExecType
    <3>4. ExecInv'
      BY <1>1, <1>4, <3>1, <3>2, <3>3 DEF IInv, ExecInv, ExecType
    <3> QED BY <1>1, <3>1, <3>3, <3>4 DEF IInv, BoardInv
  <2>3. CASE Board!Settle(t, "throws") /\ ExecutorsFollow(e)
    <3>1. "throws" \in Board!Outcome /\ Board!Verdict(t, "throws") \in {"cancelled", "failed"}
      BY DEF Board!Outcome, Board!Verdict
    <3>2. /\ BoardInv' /\ t \notin aborters'
          /\ \/ status[t] = "cancelled" /\ status'[t] = "cancelled"
             \/ status[t] = "running" /\ status'[t] = Board!Verdict(t, "throws")
          /\ \A u \in Task \ {t} : Kept(u) \/ Starts(u)
      BY <2>3, <3>1, SettleKeeps DEF IInv
    <3>3. \A u \in Task : u \in aborters => e[u].round > 0
      BY <1>4, ExecFacts
    <3>4. ExecInv' /\ \A u \in Task : u \in aborters /\ u \in aborters' => exec'[u] = e[u]
      BY <1>4, <2>3, <3>3, ExecFollows
    <3> QED BY <3>1, <3>2, <3>4
  <2> QED BY <1>5, <2>1, <2>2, <2>3
<1>7. planStatus[t] = "none" /\ t \notin planId /\ Linked(t)
  BY <1>1 DEF IInv, Linked, NoHandler
<1>8. Linked(t)'
  BY <1>1, <1>3, <1>6, <1>7, Statuses DEF Linked, Kept, Noting
<1>9. \A u \in Task \ {t} : Linked(u)'
  BY <1>1, <1>3, <1>6, LinkedByBoard DEF IInv, NoHandler
<1>10. HandlerInv'
  BY <1>1, <1>3, NoHandlerKeeps
<1>11. Staged'
  <2> SUFFICES ASSUME NEW u \in Task
               PROVE  Len(pending'[u]) <= MaxToolCalls /\ (u \in aborters' => Len(pending'[u]) <= exec'[u].calls)
    BY DEF Staged
  <2>1. Len(pending[u]) <= MaxToolCalls /\ Len(pending[u]) \in Nat
    BY DEF IInv, Staged, StoreInv, Store!TypeOK
  <2>2. CASE u = t
    <3>1. Len(pending[t]) <= exec[t].calls /\ exec[t].calls \in Nat
      BY <1>1, ExecFacts DEF IInv, Staged
    <3> QED BY <1>1, <1>3, <1>4, <1>6, <2>1, <2>2, <3>1, RoundsAssumption
  <2>3. CASE u # t /\ u \in aborters' /\ u \in aborters
    <3>1. exec'[u].calls = exec[u].calls /\ pending'[u] = pending[u]
      BY <1>3, <1>4, <1>6, <2>3
    <3> QED BY <2>1, <2>3, <3>1 DEF IInv, Staged
  <2>4. CASE u # t /\ u \in aborters' /\ u \notin aborters
    <3>1. status[u] = "queued" /\ pending'[u] = pending[u]
      BY <1>3, <1>6, <2>4 DEF Kept, Starts
    <3>2. Len(pending[u]) = 0
      BY <3>1 DEF IInv, Linked
    <3>3. exec'[u].calls \in Nat
      BY <1>6, RoundsAssumption DEF ExecInv
    <3> QED BY <2>1, <3>1, <3>2, <3>3
  <2>5. CASE u # t /\ u \notin aborters'
    BY <1>3, <2>1, <2>5
  <2> QED BY <2>2, <2>3, <2>4, <2>5
<1>12. planId' \subseteq Task /\ ended' \subseteq Task
  BY <1>1 DEF IInv, Noting
<1> QED BY <1>3, <1>6, <1>8, <1>9, <1>10, <1>11, <1>12 DEF IInv
-----------------------------------------------------------------------------
(***************************************************************************)
(* The IPC handlers                                                        *)
(***************************************************************************)

\* A step that stages nothing and lets every run go on.
LEMMA StagedUnchanged ==
  ASSUME Staged, pending' = pending, exec' = exec, aborters' = aborters
  PROVE  Staged'
BY DEF Staged

\* The task of a plan that its record names has no run in flight.
LEMMA PlannedFacts ==
  ASSUME IInv, NEW t \in Task, t \in planId
  PROVE  /\ Linked(t) /\ planStatus[t] # "none" /\ pending[t] = << >> /\ t \notin aborters
         /\ status[t] \notin {"absent", "queued", "running"}
BY DEF IInv, Linked

LEMMA RejectStep ==
  ASSUME IInv, NEW t \in Task, Reject(t), Noting
  PROVE  IInv'
<1>1. /\ Store!Reject(t) /\ handler = NoHandler /\ handler' = [name |-> "rejecting", task |-> t]
      /\ t \in planId /\ (LateDecisions \/ status[t] = "awaiting_approval")
      /\ UNCHANGED <<boardVars, planId, exec>> /\ Store!Idle
  BY DEF Reject, Hand, Due, Free
<1>2. /\ planStatus'[t] = "rejected" /\ UNCHANGED <<pending, ops, call, trail, journal>>
      /\ \A u \in Task \ {t} : planStatus'[u] = planStatus[u]
  BY <1>1 DEF IInv, StoreInv, Store!TypeOK, Store!Reject, Store!disk
<1>3. StoreInv'
  BY <1>1, RejectKeeps DEF IInv
<1>4. BoardInv' /\ UNCHANGED <<aborters, aborted>> /\ \A u \in Task : Kept(u)
  BY <1>1, BoardUnchanged DEF IInv
<1>5. HandlerInv'
  BY <1>1, <1>2, <1>4 DEF HandlerInv, NoHandler, Store!Idle, InApply, Undoing, Kept
<1>6. Linked(t)'
  BY <1>1, <1>2, <1>4, PlannedFacts, Statuses DEF Linked, Kept, Noting
<1>7. \A u \in Task \ {t} : Linked(u)'
  BY <1>1, <1>2, <1>4, LinkedByBoard DEF IInv, NoHandler
<1>8. ExecInv' /\ Staged' /\ ScopeHolds'
  BY <1>1, <1>2, <1>4, ExecUnchanged, StagedUnchanged, ScopeUnchanged DEF IInv
<1> QED BY <1>1, <1>3, <1>4, <1>5, <1>6, <1>7, <1>8 DEF IInv, Noting

\* The last write of a handler: the record of its task is finished.
LEMMA FinishKeeps ==
  ASSUME IInv, NEW t \in Task, NEW s \in {"completed", "failed", "rejected"},
         t \in planId, s = "completed" => trail[t] # << >>,
         status' = [status EXCEPT ![t] = s], UNCHANGED Board!butStatus,
         handler.name # "planning", handler' = NoHandler, Store!Idle', StoreInv',
         UNCHANGED <<pending, ops, planStatus, trail, journal, planId, exec>>, Noting
  PROVE  IInv'
<1>1. /\ Linked(t) /\ planStatus[t] # "none" /\ pending[t] = << >> /\ t \notin aborters
      /\ status[t] # "absent"
  BY PlannedFacts
<1>2. BoardInv' /\ status'[t] = s /\ UNCHANGED <<aborters, aborted>> /\ \A u \in Task \ {t} : Kept(u)
  BY <1>1, ApprovalKeeps, Statuses DEF IInv
<1>3. Linked(t)'
  BY <1>1, <1>2, Statuses DEF Linked, Noting
<1>4. \A u \in Task \ {t} : Linked(u)'
  BY <1>2, LinkedByBoard DEF IInv
<1>5. ExecInv' /\ Staged' /\ ScopeHolds' /\ HandlerInv'
  BY <1>2, ExecUnchanged, StagedUnchanged, ScopeUnchanged, NoHandlerKeeps DEF IInv
<1> QED BY <1>2, <1>3, <1>4, <1>5 DEF IInv, Noting

LEMMA RejectTaskStep ==
  ASSUME IInv, RejectTask, Noting
  PROVE  IInv'
<1>1. /\ handler.name = "rejecting" /\ handler.task \in Task /\ handler.task \in planId
      /\ Store!Idle
  BY DEF IInv, HandlerInv, RejectTask, Handling, NoHandler
<1>2. /\ status' = [status EXCEPT ![handler.task] = "rejected"]
      /\ UNCHANGED <<Board!butStatus, storeVars, planId, exec>> /\ handler' = NoHandler
  BY DEF RejectTask, Board!RejectApproval
<1>3. StoreInv'
  BY <1>2, StoreUnchanged DEF IInv
<1> QED BY <1>1, <1>2, <1>3, FinishKeeps DEF storeVars, Store!Idle

LEMMA FailTaskStep ==
  ASSUME IInv, FailTask, Noting
  PROVE  IInv'
<1>1. /\ handler.name = "failing" /\ handler.task \in Task /\ handler.task \in planId
      /\ Store!Idle
  BY DEF IInv, HandlerInv, FailTask, Handling, NoHandler
<1>2. /\ status' = [status EXCEPT ![handler.task] = "failed"]
      /\ UNCHANGED <<Board!butStatus, storeVars, planId, exec>> /\ handler' = NoHandler
  BY DEF FailTask, Board!CompleteAfterApproval
<1>3. StoreInv'
  BY <1>2, StoreUnchanged DEF IInv
<1> QED BY <1>1, <1>2, <1>3, FinishKeeps DEF storeVars, Store!Idle

\* An apply() under way has its handler.
LEMMA ApplyingFacts ==
  ASSUME IInv, InApply
  PROVE  /\ handler = [name |-> "applying", task |-> call.plan] /\ call.plan \in Task
         /\ call.plan \in planId /\ status[call.plan] = "applying"
         /\ trail[call.plan] # << >> /\ planStatus[call.plan] \notin {"none", "draft"}
         /\ call.plan \notin aborters
<1>1. call.plan \in Task
  BY CallKinds DEF IInv, StoreInv, ApplyCall
<1>2. /\ handler = [name |-> "applying", task |-> call.plan]
      /\ call.plan \in planId /\ status[call.plan] = "applying" /\ trail[call.plan] # << >>
  BY DEF IInv, HandlerInv
<1> QED BY <1>1, <1>2 DEF IInv, Linked

LEMMA ApplyReturnsStep ==
  ASSUME IInv, ApplyReturns, Noting
  PROVE  IInv'
<1>1. InApply /\ Store!ReturnApply
  BY DEF ApplyReturns, Store!ReturnApply, Store!Applying, InApply
<1>2. /\ handler.name = "applying" /\ call.plan \in Task /\ call.plan \in planId
      /\ trail[call.plan] # << >>
  BY <1>1, ApplyingFacts
<1>3. PICK s \in {"completed", "failed"} : status' = [status EXCEPT ![call.plan] = s]
  BY DEF ApplyReturns, Board!CompleteAfterApproval
<1>4. /\ UNCHANGED <<Board!butStatus, planId, exec, pending, ops, planStatus, trail, journal>>
      /\ handler' = NoHandler
  BY DEF ApplyReturns, Board!CompleteAfterApproval, Store!ReturnApply, Store!disk
<1>5. StoreInv' /\ Store!Idle'
  BY <1>1, ReturnApplyKeeps DEF IInv
<1> QED BY <1>2, <1>3, <1>4, <1>5, FinishKeeps

LEMMA ApproveStep ==
  ASSUME IInv, NEW t \in Task, Approve(t), Noting
  PROVE  IInv'
<1>1. /\ handler = NoHandler /\ t \in planId /\ (LateDecisions \/ status[t] = "awaiting_approval")
      /\ UNCHANGED <<storeVars, planId, exec>> /\ Store!Idle
  BY DEF Approve, Due, Free
<1>2. StoreInv' /\ Store!Idle' /\ UNCHANGED <<pending, ops, planStatus, trail, journal>>
  BY <1>1, StoreUnchanged DEF IInv, storeVars, Store!Idle
<1>3. Linked(t) /\ t \notin aborters /\ status[t] # "absent" /\ planStatus[t] # "none"
  BY <1>1, PlannedFacts
<1>4. CASE Board!MarkApplying(t) /\ Hand("approving", t)
  <2>1. /\ status[t] = "awaiting_approval" /\ status' = [status EXCEPT ![t] = "applying"]
        /\ UNCHANGED Board!butStatus /\ handler' = [name |-> "approving", task |-> t]
    BY <1>4 DEF Board!MarkApplying, Hand
  <2>2. /\ BoardInv' /\ status'[t] = "applying" /\ UNCHANGED <<aborters, aborted>>
        /\ \A u \in Task \ {t} : Kept(u)
    BY <1>3, <2>1, ApprovalKeeps, Statuses DEF IInv
  <2>3. Linked(t)'
    BY <1>1, <1>2, <1>3, <2>1, <2>2, Statuses DEF Linked, Noting
  <2>4. \A u \in Task \ {t} : Linked(u)'
    BY <1>1, <1>2, <2>2, LinkedByBoard DEF IInv, NoHandler
  <2>5. HandlerInv'
    BY <1>1, <1>2, <1>3, <2>1, <2>2 DEF HandlerInv, Linked, Store!Idle, InApply, Undoing
  <2>6. ExecInv' /\ Staged' /\ ScopeHolds'
    BY <1>1, <1>2, <2>2, ExecUnchanged, StagedUnchanged, ScopeUnchanged DEF IInv
  <2> QED BY <1>1, <1>2, <2>2, <2>3, <2>4, <2>5, <2>6 DEF IInv, Noting
<1>5. CASE status[t] # "awaiting_approval" /\ Hand("failing", t) /\ UNCHANGED boardVars
  <2>1. BoardInv' /\ UNCHANGED <<aborters, aborted>> /\ \A u \in Task : Kept(u)
    BY <1>5, BoardUnchanged DEF IInv
  <2>2. \A u \in Task : Linked(u)'
    BY <1>1, <1>2, <2>1, LinkedByBoard DEF IInv, NoHandler
  <2>3. HandlerInv'
    BY <1>1, <1>2, <1>5 DEF HandlerInv, Hand, Store!Idle, InApply, Undoing
  <2>4. ExecInv' /\ Staged' /\ ScopeHolds'
    BY <1>1, <1>2, <2>1, ExecUnchanged, StagedUnchanged, ScopeUnchanged DEF IInv
  <2> QED BY <1>1, <1>2, <2>1, <2>2, <2>3, <2>4 DEF IInv, Noting
<1> QED BY <1>4, <1>5 DEF Approve

LEMMA ApplyBegins ==
  ASSUME IInv, NEW excluded, Apply(excluded), Noting
  PROVE  IInv'
<1>1. PICK t \in Task : handler = [name |-> "approving", task |-> t]
  BY DEF IInv, HandlerInv, Apply, Handling, NoHandler
<1>2. /\ Store!BeginApply(t, excluded) /\ handler' = [name |-> "applying", task |-> t]
      /\ UNCHANGED <<boardVars, planId, exec>>
  BY <1>1 DEF Apply, Hand
<1>3. t \in planId /\ status[t] = "applying"
  BY <1>1 DEF IInv, HandlerInv
<1>4. StoreInv' /\ InApply' /\ ~Undoing' /\ call'.plan = t
  BY <1>2, BeginApplyKeeps DEF IInv
<1>5. /\ UNCHANGED <<pending, ops, journal>> /\ planStatus'[t] \in {"approved", "partial"}
      /\ trail'[t] # << >>
      /\ \A u \in Task \ {t} : planStatus'[u] = planStatus[u] /\ trail'[u] = trail[u]
  BY <1>2 DEF IInv, StoreInv, Store!TypeOK, Store!BeginApply
<1>6. BoardInv' /\ UNCHANGED <<aborters, aborted>> /\ \A u \in Task : Kept(u)
  BY <1>2, BoardUnchanged DEF IInv
<1>7. Linked(t)'
  BY <1>2, <1>3, <1>5, <1>6, PlannedFacts, Statuses DEF Linked, Kept, Noting
<1>8. \A u \in Task \ {t} : Linked(u)'
  BY <1>1, <1>2, <1>5, <1>6, LinkedByBoard DEF IInv
<1>9. HandlerInv'
  BY <1>2, <1>3, <1>4, <1>5, <1>6 DEF HandlerInv, Kept
<1>10. ExecInv' /\ Staged' /\ ScopeHolds'
  BY <1>2, <1>5, <1>6, ExecUnchanged, StagedUnchanged, ScopeUnchanged DEF IInv
<1> QED BY <1>2, <1>4, <1>6, <1>7, <1>8, <1>9, <1>10 DEF IInv, Noting

LEMMA ApplyThrowsStep ==
  ASSUME IInv, ApplyThrows, Noting
  PROVE  IInv'
<1>1. PICK t \in Task : handler = [name |-> "approving", task |-> t]
  BY DEF IInv, HandlerInv, ApplyThrows, Handling, NoHandler
<1>2. /\ handler' = [name |-> "failing", task |-> t] /\ Store!Idle
      /\ UNCHANGED <<boardVars, storeVars, planId, exec>>
  BY <1>1 DEF ApplyThrows, Hand, Handling
<1>3. t \in planId /\ status[t] = "applying"
  BY <1>1 DEF IInv, HandlerInv
<1>4. StoreInv' /\ Store!Idle' /\ UNCHANGED <<pending, ops, planStatus, trail, journal>>
  BY <1>2, StoreUnchanged DEF IInv, storeVars, Store!Idle
<1>5. BoardInv' /\ UNCHANGED <<aborters, aborted>> /\ \A u \in Task : Kept(u)
  BY <1>2, BoardUnchanged DEF IInv
<1>6. \A u \in Task : Linked(u)'
  BY <1>1, <1>2, <1>4, <1>5, LinkedByBoard DEF IInv
<1>7. HandlerInv'
  BY <1>2, <1>3, <1>4, <1>5 DEF HandlerInv, Kept, Store!Idle, InApply, Undoing
<1>8. ExecInv' /\ Staged' /\ ScopeHolds'
  BY <1>2, <1>4, <1>5, ExecUnchanged, StagedUnchanged, ScopeUnchanged DEF IInv
<1> QED BY <1>2, <1>4, <1>5, <1>6, <1>7, <1>8 DEF IInv, Noting

\* What a step of apply() changes is of the plan being applied.
LEMMA ApplyFacts ==
  ASSUME IInv, ApplyStep
  PROVE  /\ InApply /\ StoreInv' /\ InApply' /\ ~Undoing' /\ call'.plan = call.plan
         /\ UNCHANGED <<pending, ops>>
         /\ \A u \in Task \ {call.plan} :
              planStatus'[u] = planStatus[u] /\ trail'[u] = trail[u] /\ journal'[u] = journal[u]
         /\ planStatus'[call.plan] \in {planStatus[call.plan], "applied", "apply_failed"}
         /\ \/ trail'[call.plan] = trail[call.plan]
            \/ Len(trail'[call.plan]) = Len(trail[call.plan]) + 1
<1>1. CASE \E i \in Store!OpIndex : Store!ApplyOp(i)
  BY <1>1, ApplyOpKeeps DEF IInv
<1>2. CASE Store!ApplyOpThrows \/ Store!ApplyLoopEnds \/ Store!WriteOutcome
  BY <1>2, ApplyStepKeeps DEF IInv
<1>3. CASE Store!WriteJournal
  <2>1. InApply
    BY <1>3 DEF Store!WriteJournal, Store!Applying, InApply
  <2> QED BY <1>3, <2>1, ApplyingFacts, WriteJournalKeeps DEF IInv
<1>4. CASE \E i \in Store!OpIndex : Store!BackupBreaks(i) \/ Store!WriteBreaks(i)
  BY <1>4, BreaksKeeps DEF IInv
<1> QED BY <1>1, <1>2, <1>3, <1>4 DEF ApplyStep

LEMMA ApplyStepStep ==
  ASSUME IInv, ApplyStep, Noting
  PROVE  IInv'
<1>1. UNCHANGED <<boardVars, planId, exec, handler>>
  BY DEF ApplyStep
<1>2. /\ InApply /\ StoreInv' /\ InApply' /\ ~Undoing' /\ call'.plan = call.plan
      /\ UNCHANGED <<pending, ops>>
  BY ApplyFacts
<1>3. PICK t \in Task : t = call.plan
  BY <1>2, ApplyingFacts
<1>4. /\ handler = [name |-> "applying", task |-> t] /\ t \in planId /\ status[t] = "applying"
      /\ trail[t] # << >> /\ planStatus[t] \notin {"none", "draft"} /\ t \notin aborters
  BY <1>2, <1>3, ApplyingFacts
<1>5. /\ planStatus'[t] \in {planStatus[t], "applied", "apply_failed"}
      /\ \A u \in Task \ {t} :
           planStatus'[u] = planStatus[u] /\ trail'[u] = trail[u] /\ journal'[u] = journal[u]
      /\ trail'[t] # << >>
  <2>1. Len(trail[t]) \in Nat
    BY DEF IInv, StoreInv, Store!TypeOK
  <2> QED BY <1>3, <1>4, <2>1, ApplyFacts
<1>6. BoardInv' /\ UNCHANGED <<aborters, aborted>> /\ \A u \in Task : Kept(u)
  BY <1>1, BoardUnchanged DEF IInv
<1>7. Linked(t)'
  BY <1>1, <1>2, <1>4, <1>5, <1>6, PlannedFacts, Statuses DEF Linked, Kept, Noting
<1>8. \A u \in Task \ {t} : Linked(u)'
  BY <1>1, <1>2, <1>5, <1>6, LinkedByBoard DEF IInv
<1>9. HandlerInv'
  BY <1>1, <1>2, <1>3, <1>4, <1>5, <1>6 DEF HandlerInv, Kept
<1>10. ExecInv' /\ Staged' /\ ScopeHolds'
  BY <1>1, <1>2, <1>6, ExecUnchanged, StagedUnchanged, ScopeUnchanged DEF IInv
<1> QED BY <1>1, <1>2, <1>6, <1>7, <1>8, <1>9, <1>10 DEF IInv, Noting

LEMMA UndoBegins ==
  ASSUME IInv, NEW t \in Task, Undo(t), Noting
  PROVE  IInv'
<1>1. /\ handler = NoHandler /\ t \in planId /\ Store!BeginUndo(t) /\ journal[t] # << >>
      /\ UNCHANGED <<boardVars, planId, exec, handler>>
  BY DEF Undo, Free, Store!BeginUndo
<1>2. StoreInv' /\ Undoing' /\ ~InApply' /\ call'.plan = t
  BY <1>1, BeginUndoKeeps DEF IInv
<1>3. UNCHANGED <<pending, ops, planStatus, trail, journal>>
  BY <1>1 DEF Store!BeginUndo
<1>4. BoardInv' /\ UNCHANGED <<aborters, aborted>> /\ \A u \in Task : Kept(u)
  BY <1>1, BoardUnchanged DEF IInv
<1>5. trail[t] # << >>
  BY <1>1 DEF IInv, Linked
<1>6. HandlerInv'
  BY <1>1, <1>2, <1>3, <1>5 DEF HandlerInv, NoHandler
<1>7. \A u \in Task : Linked(u)'
  BY <1>1, <1>3, <1>4, LinkedByBoard DEF IInv
<1>8. ExecInv' /\ Staged' /\ ScopeHolds'
  BY <1>1, <1>3, <1>4, ExecUnchanged, StagedUnchanged, ScopeUnchanged DEF IInv
<1> QED BY <1>1, <1>2, <1>4, <1>6, <1>7, <1>8 DEF IInv, Noting

\* An undo ends with the plan undone or as it was.
LEMMA UndoFacts ==
  ASSUME IInv, UndoStep
  PROVE  /\ Undoing /\ StoreInv' /\ ~InApply' /\ call.plan \in Task
         /\ Undoing' => call'.plan = call.plan
         /\ UNCHANGED <<pending, ops, trail, journal>>
         /\ \A u \in Task \ {call.plan} : planStatus'[u] = planStatus[u]
         /\ planStatus'[call.plan] \in {planStatus[call.plan], "undone"}
<1>1. CASE Store!UndoEntry \/ Store!UndoEntryThrows
  <2>1. /\ StoreInv' /\ Undoing /\ ~InApply' /\ call'.plan = call.plan
        /\ UNCHANGED <<pending, ops, planStatus, journal, trail>>
    BY <1>1, UndoEntryKeeps, UndoEntryThrowsKeeps DEF IInv
  <2>2. call.plan \in Task
    BY <2>1, CallKinds DEF IInv, StoreInv, UndoCall
  <2> QED BY <2>1, <2>2
<1>2. CASE Store!ReturnUndo
  <2>1. ~InApply' /\ ~Undoing'
    BY <1>2, ReturnUndoKeeps DEF IInv, Store!Idle, InApply, Undoing
  <2> QED BY <1>2, <2>1, ReturnUndoKeeps DEF IInv
<1> QED BY <1>1, <1>2 DEF UndoStep

LEMMA UndoStepStep ==
  ASSUME IInv, UndoStep, Noting
  PROVE  IInv'
<1>1. UNCHANGED <<boardVars, planId, exec, handler>>
  BY DEF UndoStep
<1>2. PICK t \in Task : t = call.plan
  BY UndoFacts
<1>3. /\ Undoing /\ StoreInv' /\ ~InApply' /\ (Undoing' => call'.plan = t)
      /\ UNCHANGED <<pending, ops, trail, journal>>
      /\ \A u \in Task \ {t} : planStatus'[u] = planStatus[u]
      /\ planStatus'[t] \in {planStatus[t], "undone"}
  BY <1>2, UndoFacts
<1>4. handler = NoHandler /\ t \in planId /\ trail[t] # << >>
  BY <1>2, <1>3 DEF IInv, HandlerInv
<1>5. BoardInv' /\ UNCHANGED <<aborters, aborted>> /\ \A u \in Task : Kept(u)
  BY <1>1, BoardUnchanged DEF IInv
<1>6. HandlerInv'
  BY <1>1, <1>3, <1>4 DEF HandlerInv, NoHandler
<1>7. Linked(t)'
  BY <1>1, <1>3, <1>4, <1>5, PlannedFacts, Statuses DEF Linked, Kept, Noting
<1>8. \A u \in Task \ {t} : Linked(u)'
  BY <1>1, <1>3, <1>5, LinkedByBoard DEF IInv
<1>9. ExecInv' /\ Staged' /\ ScopeHolds'
  BY <1>1, <1>3, <1>5, ExecUnchanged, StagedUnchanged, ScopeUnchanged DEF IInv
<1> QED BY <1>1, <1>3, <1>5, <1>6, <1>7, <1>8, <1>9 DEF IInv, Noting

LEMMA UserEditStep ==
  ASSUME IInv, NEW p \in Path, NEW c \in Content \cup {Absent}, UserEdit(p, c), Noting
  PROVE  IInv'
<1>1. /\ Free /\ UNCHANGED <<boardVars, planId, exec, handler>>
      /\ UNCHANGED <<pending, ops, planStatus, trail, journal, call>>
  BY DEF UserEdit, Store!UserEdit
<1>2. StoreInv'
  BY UserEditKeeps DEF IInv, UserEdit
<1>3. BoardInv' /\ UNCHANGED <<aborters, aborted>> /\ \A u \in Task : Kept(u)
  BY <1>1, BoardUnchanged DEF IInv
<1>4. HandlerInv'
  BY <1>1, NoHandlerKeeps DEF Free, Store!Idle
<1>5. \A u \in Task : Linked(u)'
  BY <1>1, <1>3, LinkedByBoard DEF IInv
<1>6. ExecInv' /\ Staged' /\ ScopeHolds'
  BY <1>1, <1>3, ExecUnchanged, StagedUnchanged, ScopeUnchanged DEF IInv
<1> QED BY <1>1, <1>2, <1>3, <1>4, <1>5, <1>6 DEF IInv, Noting

\* A death loses what was in memory: no run, no handler, nothing pending.
LEMMA RestartStep ==
  ASSUME IInv, Restart, Noting
  PROVE  IInv'
<1>1. /\ Board!Restart /\ Store!Restart /\ ExecutorsFollow(exec) /\ Crashes
      /\ handler' = NoHandler /\ planId' = planId
  BY DEF Restart, Store!Restart
<1>2. StoreInv' /\ Store!Idle'
  BY <1>1, StoreRestartKeeps DEF IInv
<1>3. /\ UNCHANGED <<ops, planStatus, trail, journal>>
      /\ \A u \in Task : pending'[u] = << >>
  BY <1>1 DEF Store!Restart, Store!disk
<1>4. BoardInv' /\ status' = status /\ aborters' = {}
  BY <1>1, BoardRestartKeeps DEF IInv
<1>5. ExecInv'
  BY <1>1, ExecFollows, ExecFacts
<1>6. HandlerInv'
  BY <1>1, <1>2, NoHandlerKeeps
<1>7. Staged'
  BY <1>3, <1>4, RoundsAssumption DEF Staged
<1>8. ScopeHolds'
  <2>1. \A u \in Task : Range(pending'[u]) = {}
    BY <1>3 DEF Range
  <2> QED BY <1>3, <2>1 DEF IInv, ScopeHolds, StagedOps
<1>9. \A u \in Task : Linked(u)'
  BY <1>1, <1>3, <1>4, Statuses DEF IInv, Linked, Noting
<1> QED BY <1>1, <1>2, <1>4, <1>5, <1>6, <1>7, <1>8, <1>9 DEF IInv, Noting
-----------------------------------------------------------------------------
(***************************************************************************)
(* The invariant                                                           *)
(***************************************************************************)
LEMMA InitKeeps == Init => IInv
<1> SUFFICES ASSUME Init PROVE IInv
  OBVIOUS
<1>1. /\ status = [t \in Task |-> "absent"] /\ agent = [t \in Task |-> "none"]
      /\ waiting = [a \in Board!AgentType |-> {}] /\ running = [a \in Board!AgentType |-> Board!NoTask]
      /\ aborters = {} /\ aborted = {} /\ lost = {}
  BY Statuses DEF Init, Board!Init
<1>2. /\ files \in Store!Files
      /\ pending = [t \in Task |-> << >>] /\ ops = [t \in Task |-> << >>]
      /\ planStatus = [t \in Task |-> "none"]
      /\ kept = [t \in Task |-> [i \in Store!OpIndex |-> Absent]]
      /\ journal = [t \in Task |-> << >>] /\ call = Store!NoCall
      /\ trail = [t \in Task |-> << >>] /\ broken = [t \in Task |-> {}] /\ fresh = {}
  BY DEF Init, Store!Init
<1>3. planId = {} /\ exec = [t \in Task |-> NoExec] /\ handler = NoHandler /\ ended = {}
  BY DEF Init
<1>4. BoardInv
  BY <1>1, Statuses DEF BoardInv, Board!TypeOK
<1>5. StoreInv
  <2>1. Store!TypeOK
    BY <1>2, BoardAndStoreAssumption
    DEF Store!TypeOK, Store!PlanStatus, Store!File, Store!Call
  <2> QED BY <1>2, <2>1 DEF StoreInv, EntriesOf, InApply, Undoing
<1>6. ExecInv
  BY <1>1, <1>3, RoundsAssumption DEF ExecInv, NoExec
<1>7. HandlerInv
  BY <1>2, <1>3 DEF HandlerInv, NoHandler, InApply, Undoing
<1>8. Staged
  BY <1>1, <1>2, RoundsAssumption DEF Staged
<1>9. ScopeHolds
  BY <1>2 DEF ScopeHolds, StagedOps, Range
<1>10. \A t \in Task : Linked(t)
  BY <1>1, <1>2, <1>3, Statuses DEF Linked
<1> QED BY <1>3, <1>4, <1>5, <1>6, <1>7, <1>8, <1>9, <1>10 DEF IInv

LEMMA NextKeeps == IInv /\ [Next]_vars => IInv'
<1> SUFFICES ASSUME IInv, [Next]_vars PROVE IInv'
  OBVIOUS
<1>1. CASE UNCHANGED vars
  <2>1. /\ UNCHANGED <<boardVars, storeVars, planId, exec, handler, ended>>
    BY <1>1 DEF vars
  <2>2. BoardInv' /\ UNCHANGED <<aborters, aborted>> /\ \A t \in Task : Kept(t)
    BY <2>1, BoardUnchanged DEF IInv
  <2>3. StoreInv'
    BY <2>1, StoreUnchanged DEF IInv
  <2>4. ExecInv' /\ Staged' /\ ScopeHolds'
    BY <2>1, <2>2, ExecUnchanged, StagedUnchanged, ScopeUnchanged DEF IInv, storeVars
  <2>5. HandlerInv'
    BY <2>1 DEF IInv, HandlerInv, boardVars, storeVars, Store!Idle, InApply, Undoing
  <2>6. \A t \in Task : Linked(t)'
    BY <2>1 DEF IInv, Linked, boardVars, storeVars
  <2> QED BY <2>1, <2>2, <2>3, <2>4, <2>5, <2>6 DEF IInv
<1>2. ASSUME NEW t \in Task, Noted(SubagentStep(t)) PROVE IInv'
  <2>1. Noting /\ SubagentStep(t)
    BY <1>2 DEF Noted, Noting
  <2>2. CASE \E n \in 1..RoundTools : ReplyWithTools(t, n)
    BY <2>1, <2>2, ReplyStep
  <2>3. CASE ReplyFails(t)
    BY <2>1, <2>3, SettlesStep DEF ReplyFails, InRound
  <2>4. CASE \E how \in Board!Outcome : FinalResult(t, how)
    BY <2>1, <2>4, SettlesStep DEF FinalResult, InRound
  <2>5. CASE FinalResultWithPlan(t)
    BY <2>1, <2>5, PlanStep
  <2>6. CASE FinalResultTooBig(t)
    BY <2>1, <2>6, SettlesStep DEF FinalResultTooBig, InRound
  <2>7. CASE Tool(t)
    BY <2>1, <2>7, ToolStep
  <2>8. CASE ToolOverBudget(t)
    BY <2>1, <2>8, SettlesStep DEF ToolOverBudget, InTools
  <2> QED BY <2>1, <2>2, <2>3, <2>4, <2>5, <2>6, <2>7, <2>8 DEF SubagentStep
<1>3. CASE Noted(HandlerStep)
  <2>1. Noting /\ HandlerStep
    BY <1>3 DEF Noted, Noting
  <2> QED BY <2>1, AwaitStep, RejectTaskStep, ApplyBegins, ApplyThrowsStep, ApplyStepStep,
             ApplyReturnsStep, FailTaskStep, UndoStepStep DEF HandlerStep
<1>4. CASE Noted(UserStep)
  <2>1. Noting /\ UserStep
    BY <1>4 DEF Noted, Noting
  <2> QED BY <2>1, DispatchStep, CancelStep, RejectStep, ApproveStep, UndoBegins, UserEditStep
          DEF UserStep
<1>5. CASE Crashes /\ Noted(Restart)
  BY <1>5, RestartStep DEF Noted, Noting
<1> QED BY <1>1, <1>2, <1>3, <1>4, <1>5 DEF Next

\* In every reachable state of the pipeline, board, store, executors and
\* handlers fit together as IInv says.
THEOREM Invariant == Spec => []IInv
<1>1. Init => IInv
  BY InitKeeps
<1>2. IInv /\ [Next]_vars => IInv'
  BY NextKeeps
<1> QED BY <1>1, <1>2, PTL DEF Spec

\* Type correctness: board and store included, and an executor has a round
\* exactly while its run is in flight.
THEOREM TypeCorrect == Spec => []TypeOK
<1>1. IInv => TypeOK
  BY DEF IInv, TypeOK, BoardInv, StoreInv, ExecInv, HandlerInv
<1> QED BY <1>1, Invariant, PTL

\* Board and store agree between handlers, whatever was cancelled, decided late
\* or cut off by a death of the process (run() and createPlan(), and the
\* approval handlers of main.ts).
THEOREM Agree == Spec => []TaskAndPlanAgree
<1>1. IInv => TaskAndPlanAgree
  BY DEF IInv, Linked, TaskAndPlanAgree
<1> QED BY <1>1, Invariant, PTL

\* Nothing stays staged under a task that has a plan (createPlan() of store.ts).
THEOREM StagedInPlan == Spec => []NothingStagedBesidePlan
<1>1. IInv => NothingStagedBesidePlan
  BY DEF IInv, Linked, NothingStagedBesidePlan
<1> QED BY <1>1, Invariant, PTL

\* What is staged or planned lies within the authorised directories, whatever
\* the calls (the hooks of index.ts and the file tools resolve paths alike).
THEOREM Scope == Spec => []ScopeHolds
<1>1. IInv => ScopeHolds
  BY DEF IInv
<1> QED BY <1>1, Invariant, PTL
-----------------------------------------------------------------------------
(***************************************************************************)
(* Steps that may not be taken                                             *)
(***************************************************************************)

\* The history of a plan's apply() only begins with it, and grows in its steps.
LEMMA TrailKeeps ==
  ASSUME IInv, [Next]_vars, NEW t \in Task, trail'[t] # trail[t], Len(trail'[t]) <= 1
  PROVE  trail[t] = << >> /\ t \notin ended
<1>1. CASE UNCHANGED vars
  BY <1>1 DEF vars, storeVars
<1>2. ASSUME NEW u \in Task, SubagentStep(u) PROVE FALSE
  <2>1. CASE FinalResultWithPlan(u)
    BY <2>1 DEF FinalResultWithPlan, Store!CreatePlan, Store!disk
  <2>2. CASE Tool(u)
    BY <2>2, ExecToolKeeps DEF Tool, InTools
  <2>3. CASE UNCHANGED storeVars
    BY <2>3 DEF storeVars
  <2> QED BY <1>2, <2>1, <2>2, <2>3
    DEF SubagentStep, ReplyWithTools, ReplyFails, FinalResult, FinalResultTooBig, ToolOverBudget
<1>3. CASE HandlerStep
  <2>1. ASSUME NEW excluded \in SUBSET Store!OpIndex, Apply(excluded)
        PROVE  trail[t] = << >> /\ t \notin ended
    <3>1. /\ handler.name = "approving" /\ trail' = [trail EXCEPT ![handler.task] = <<files>>]
      BY <2>1 DEF Apply, Handling, Store!BeginApply
    <3>2. /\ handler.task \in Task /\ trail[handler.task] = << >> /\ status[handler.task] = "applying"
      BY <3>1 DEF IInv, HandlerInv, NoHandler
    <3>3. t = handler.task
      BY <3>1, <3>2 DEF IInv, StoreInv, Store!TypeOK
    <3> QED BY <3>2, <3>3, Statuses DEF IInv, Linked
  <2>2. ASSUME ApplyStep PROVE FALSE
    <3>1. /\ InApply
          /\ \A u \in Task \ {call.plan} : trail'[u] = trail[u]
          /\ \/ trail'[call.plan] = trail[call.plan]
             \/ Len(trail'[call.plan]) = Len(trail[call.plan]) + 1
      BY <2>2, ApplyFacts
    <3>2. call.plan \in Task /\ trail[call.plan] # << >> /\ trail[call.plan] \in Seq(Store!Files)
      BY <3>1, ApplyingFacts DEF IInv, StoreInv, Store!TypeOK
    <3>3. Len(trail[call.plan]) >= 1 /\ Len(trail[call.plan]) \in Nat
      BY <3>2
    <3> QED BY <3>1, <3>2, <3>3
  <2>3. CASE UndoStep
    BY <2>3, UndoFacts
  <2>4. CASE AwaitApproval \/ RejectTask \/ ApplyThrows \/ FailTask
    BY <2>4 DEF AwaitApproval, RejectTask, ApplyThrows, FailTask, storeVars
  <2>5. CASE ApplyReturns
    BY <2>5 DEF ApplyReturns, Store!ReturnApply, Store!disk
  <2> QED BY <1>3, <2>1, <2>2, <2>3, <2>4, <2>5 DEF HandlerStep
<1>4. CASE UserStep
  BY <1>4 DEF UserStep, Dispatch, Cancel, Reject, Approve, Undo, UserEdit, storeVars,
     Store!Reject, Store!disk, Store!BeginUndo, Store!UserEdit
<1>5. CASE Restart
  BY <1>5 DEF Restart, Store!Restart, Store!disk
<1> QED BY <1>1, <1>2, <1>3, <1>4, <1>5 DEF Next, Noted

\* A plan is applied at most once and never after its task has ended, whatever
\* decisions arrive late or twice: markApplying() of board.ts guards apply().
THEOREM Decisions == Spec => DecisionIsFinal
<1>1. IInv /\ [Next]_vars =>
        [\A t \in Task : trail'[t] # trail[t] /\ Len(trail'[t]) <= 1
                           => trail[t] = << >> /\ t \notin ended]_vars
  BY TrailKeeps
<1> QED BY <1>1, Invariant, PTL DEF Spec, DecisionIsFinal

\* Executors enter no round in a step that leaves them aborted.
LEMMA RoundKeeps ==
  ASSUME IInv, [Next]_vars, NEW t \in Task, t \in aborted, t \in aborted'
  PROVE  exec'[t].round = exec[t].round
<1>1. IInv' /\ t \in aborters /\ t \in aborters' /\ exec \in ExecType
  BY NextKeeps, ExecFacts DEF IInv, BoardInv, Board!TypeOK
<1>2. CASE exec' = exec
  BY <1>2
<1>3. CASE ExecutorsFollow(exec)
  BY <1>1, <1>3 DEF ExecutorsFollow
<1>4. ASSUME NEW u \in Task, NEW n \in 1..RoundTools, ReplyWithTools(u, n)
      PROVE  exec'[t].round = exec[t].round
  BY <1>1, <1>4 DEF ReplyWithTools, ExecType
<1>5. ASSUME NEW u \in Task, Tool(u)
      PROVE  exec'[t].round = exec[t].round
  <2> DEFINE e == [exec EXCEPT ![u].calls = @ + 1, ![u].todo = @ - 1]
  <2>1. e[t].round = exec[t].round
    BY <1>1 DEF ExecType
  <2>2. \/ exec' = e
        \/ ~LoopThrows(u) /\ exec' = [e EXCEPT ![u].round = @ + 1]
        \/ ExecutorsFollow(e)
    BY <1>5 DEF Tool
  <2>3. CASE ~LoopThrows(u) /\ exec' = [e EXCEPT ![u].round = @ + 1]
    <3>1. t # u
      BY <2>3 DEF LoopThrows
    <3>2. exec'[t] = e[t]
      BY <1>1, <2>3, <3>1 DEF ExecType
    <3> QED BY <2>1, <3>2
  <2>4. CASE ExecutorsFollow(e)
    <3> HIDE DEF e
    <3> QED BY <1>1, <2>1, <2>4 DEF ExecutorsFollow
  <2> QED BY <2>1, <2>2, <2>3, <2>4
<1>6. exec' = exec \/ ExecutorsFollow(exec)
      \/ (\E u \in Task, n \in 1..RoundTools : ReplyWithTools(u, n)) \/ (\E u \in Task : Tool(u))
  BY DEF Next, Noted, vars, SubagentStep, HandlerStep, UserStep, Restart, ReplyFails, FinalResult,
     FinalResultWithPlan, FinalResultTooBig, ToolOverBudget, AwaitApproval, RejectTask, Apply,
     ApplyThrows, ApplyStep, ApplyReturns, FailTask, UndoStep, Dispatch, Cancel, Reject, Approve,
     Undo, UserEdit
<1> QED BY <1>2, <1>3, <1>4, <1>5, <1>6

\* An aborted executor makes no further LLM call: throwIfAborted() of
\* subagent.ts after the tools of a round.
THEOREM Aborts == Spec => AbortStopsRounds
<1>1. IInv /\ [Next]_vars =>
        [\A t \in Task : t \in aborted /\ t \in aborted' => exec'[t].round = exec[t].round]_vars
  BY RoundKeeps
<1> QED BY <1>1, Invariant, PTL DEF Spec, AbortStopsRounds
-----------------------------------------------------------------------------
(***************************************************************************)
(* The specifications the pipeline is built from, and the one it implements *)
(***************************************************************************)

\* A step settles a run, does something else to the board, or leaves it alone.
LEMMA BoardStep ==
  ASSUME IInv, [Next]_vars
  PROVE  [Board!Next]_(Board!vars)
<1>0. /\ \A t \in Task, how \in Board!Outcome : Board!Settle(t, how) => Board!Next
      /\ {"awaiting", "throws"} \subseteq Board!Outcome
  BY Statuses DEF Board!Next, Board!Outcome
<1>1. UNCHANGED boardVars => [Board!Next]_(Board!vars)
  BY DEF boardVars, Board!vars
<1>2. CASE UNCHANGED vars
  BY <1>1, <1>2 DEF vars
<1>3. ASSUME NEW t \in Task, SubagentStep(t) PROVE [Board!Next]_(Board!vars)
  BY <1>0, <1>1, <1>3 DEF SubagentStep, ReplyWithTools, ReplyFails, FinalResult,
     FinalResultWithPlan, FinalResultTooBig, Tool, ToolOverBudget
<1>4. CASE HandlerStep
  <2>1. handler # NoHandler => handler.task \in Task
    BY DEF IInv, HandlerInv
  <2>2. CASE AwaitApproval
    BY <1>0, <2>1, <2>2 DEF AwaitApproval, Handling, NoHandler
  <2>3. CASE RejectTask
    BY <2>1, <2>3, Statuses DEF RejectTask, Handling, NoHandler, Board!Next
  <2>4. CASE FailTask
    <3>1. Board!CompleteAfterApproval(handler.task, FALSE)
      BY <2>4, Zenon DEF FailTask
    <3>2. handler.task \in Board!Task /\ FALSE \in BOOLEAN
      <4>1. handler.name = "failing"
        BY <2>4, Zenon DEF FailTask, Handling
      <4> QED BY <2>1, <4>1, Statuses DEF NoHandler
    <3>3. \E t \in Board!Task, ok \in BOOLEAN : Board!CompleteAfterApproval(t, ok)
      BY <3>1, <3>2, Zenon
    <3> QED BY <3>3 DEF Board!Next
  <2>5. CASE ApplyReturns
    <3>1. InApply /\ call.failed \in BOOLEAN
      BY <2>5, CallKinds DEF IInv, StoreInv, ApplyCall, ApplyReturns, Store!ReturnApply, Store!Applying, InApply
    <3>2. call.plan \in Task
      BY <3>1, ApplyingFacts
    <3> QED BY <2>5, <3>1, <3>2, Statuses DEF ApplyReturns, Board!Next
  <2>6. CASE UNCHANGED boardVars
    BY <1>1, <2>6
  <2> QED BY <1>4, <2>2, <2>3, <2>4, <2>5, <2>6
    DEF HandlerStep, Apply, ApplyThrows, ApplyStep, UndoStep
<1>5. CASE UserStep
  BY <1>1, <1>5, Statuses DEF UserStep, Dispatch, Cancel, Reject, Approve, Undo, UserEdit, Board!Next
<1>6. CASE Restart
  BY <1>6 DEF Restart, Board!Next
<1> QED BY <1>2, <1>3, <1>4, <1>5, <1>6 DEF Next, Noted

\* Whatever the sub-agents and the handlers do, the board sees behaviours of
\* TaskBoard: what TaskBoardProofs states of the board holds in the pipeline.
THEOREM UsesBoard == Spec => Board!Spec
<1>1. Init => Board!Init
  BY DEF Init
<1>2. IInv /\ [Next]_vars => [Board!Next]_(Board!vars)
  BY BoardStep
<1> QED BY <1>1, <1>2, Invariant, PTL DEF Spec, Board!Spec

\* A step stages an operation of a task that has no plan, within what Staging
\* enumerates, does something else to the store, or leaves it alone.
LEMMA StoreStep ==
  ASSUME IInv, [Next]_vars, MaxToolCalls <= MaxOps + 1
  PROVE  [Store!Next]_(Store!vars)
<1>1. UNCHANGED storeVars => [Store!Next]_(Store!vars)
  BY DEF storeVars, Store!vars
<1>2. CASE UNCHANGED vars
  BY <1>1, <1>2 DEF vars
<1>3. ASSUME NEW t \in Task, Tool(t) PROVE [Store!Next]_(Store!vars)
  <2>1. /\ t \in aborters /\ handler = NoHandler /\ exec[t].calls < MaxToolCalls
        /\ exec[t].calls \in Nat
    BY <1>3, ExecFacts, RoundsAssumption DEF Tool, InTools, OverBudget, Free
  <2>2. planStatus[t] = "none"
    BY <2>1 DEF IInv, Linked, NoHandler
  <2>3. pending[t] \in Seq(Menu) /\ Len(pending[t]) <= exec[t].calls
    BY <2>1 DEF IInv, StoreInv, Store!TypeOK, Staged
  <2>4. Len(pending[t]) <= MaxOps
    BY <2>1, <2>3, RoundsAssumption, BoardAndStoreAssumption
  <2>5. PICK c \in Calls : ExecTool(t, c)
    BY <1>3 DEF Tool
  <2>6. ASSUME c.tool \in Gate!Stages, ~Gate!Blocked(c), Store!Stage(t, Gate!StagedOp(c))
        PROVE  Store!Next
    <3>1. Gate!StagedOp(c) \in Menu
      BY <2>6, GateHolds
    <3> QED BY <2>2, <2>4, <2>6, <3>1 DEF Store!Next
  <2>7. (\E p \in Path, body \in Content \cup {Absent} : Store!UserEdit(p, body)) => Store!Next
    BY DEF Store!Next, Store!File
  <2> QED BY <1>1, <2>5, <2>6, <2>7 DEF ExecTool
<1>4. ASSUME NEW t \in Task, SubagentStep(t) PROVE [Store!Next]_(Store!vars)
  BY <1>1, <1>3, <1>4 DEF SubagentStep, ReplyWithTools, ReplyFails, FinalResult,
     FinalResultWithPlan, FinalResultTooBig, ToolOverBudget, Store!Next
<1>5. CASE HandlerStep
  <2>1. handler # NoHandler => handler.task \in Task
    BY DEF IInv, HandlerInv
  <2>2. ASSUME NEW excluded \in SUBSET Store!OpIndex, Apply(excluded) PROVE Store!Next
    BY <2>1, <2>2 DEF Apply, Handling, NoHandler, Store!Next
  <2>3. ApplyStep \/ UndoStep => Store!Next
    BY DEF ApplyStep, UndoStep, Store!Next
  <2>4. ApplyReturns => Store!Next
    BY DEF ApplyReturns, Store!Next
  <2>5. AwaitApproval \/ RejectTask \/ ApplyThrows \/ FailTask => UNCHANGED storeVars
    BY DEF AwaitApproval, RejectTask, ApplyThrows, FailTask
  <2> QED BY <1>1, <1>5, <2>2, <2>3, <2>4, <2>5 DEF HandlerStep
<1>6. CASE UserStep
  BY <1>1, <1>6 DEF UserStep, Dispatch, Cancel, Reject, Approve, Undo, UserEdit, Store!Next, Store!File
<1>7. CASE Restart
  BY <1>7 DEF Restart, Store!Next
<1> QED BY <1>2, <1>4, <1>5, <1>6, <1>7 DEF Next, Noted

\* With a tool budget that fits the size of a plan (taskBudget.maxToolCalls is
\* 40 and STAGING_MAX_OPS 500), the store sees behaviours of Staging, whose
\* bound on what is staged is then no restriction: what StagingProofs states
\* of the store holds in the pipeline.
THEOREM UsesStore == MaxToolCalls <= MaxOps + 1 => (Spec => Store!Spec)
<1> SUFFICES ASSUME MaxToolCalls <= MaxOps + 1 PROVE Spec => Store!Spec
  OBVIOUS
<1>1. Init => Store!Init
  BY DEF Init
<1>2. IInv /\ [Next]_vars => [Store!Next]_(Store!vars)
  BY StoreStep
<1> QED BY <1>1, <1>2, Invariant, PTL DEF Spec, Store!Spec
-----------------------------------------------------------------------------
(***************************************************************************)
(* The life of a task                                                      *)
(***************************************************************************)

\* Without a death of the process, a task is applying only while the handler
\* that carries out its plan is under way.
ApplyingInv ==
  \A t \in Task : status[t] = "applying" =>
    handler.name \in {"approving", "applying", "failing"} /\ handler.task = t

\* What a step does to t is a step of its life.
Lives(t) ==
  \/ status'[t] = status[t] /\ agent'[t] = agent[t]
  \/ /\ status[t] \notin Lifecycle!Final
     /\ status'[t] \in Lifecycle!Successors[status[t]]
     /\ agent'[t] = IF status[t] = "absent" THEN agent'[t] ELSE agent[t]
     /\ agent'[t] \in Board!AgentType

LEMMA LifeOf ==
  ASSUME NEW t \in Task, agent'[t] = agent[t], agent[t] \in Board!AgentType,
         \/ status[t] = "queued" /\ status'[t] \in {"running", "cancelled"}
         \/ /\ status[t] = "running"
            /\ status'[t] \in {"awaiting_approval", "completed", "failed", "cancelled"}
         \/ /\ status[t] = "awaiting_approval"
            /\ status'[t] \in {"applying", "rejected", "cancelled"}
         \/ status[t] = "applying" /\ status'[t] \in {"completed", "failed"}
  PROVE  Lives(t)
<1>1. /\ Lifecycle!Successors["queued"] = {"running", "cancelled"}
      /\ Lifecycle!Successors["running"] = {"awaiting_approval", "completed", "failed", "cancelled"}
      /\ Lifecycle!Successors["awaiting_approval"] = {"applying", "rejected", "cancelled"}
      /\ Lifecycle!Successors["applying"] = {"completed", "failed"}
  BY DEF Lifecycle!Successors
<1>2. status[t] \notin Lifecycle!Final /\ status[t] # "absent"
  BY DEF Lifecycle!Final
<1>3. status'[t] \in Lifecycle!Successors[status[t]]
  BY <1>1
<1> QED BY <1>2, <1>3 DEF Lives

LEMMA LifeBegins ==
  ASSUME NEW t \in Task, status[t] = "absent", status'[t] \in {"queued", "running"},
         agent'[t] \in Board!AgentType
  PROVE  Lives(t)
<1>1. Lifecycle!Successors["absent"] = {"queued", "running"}
  BY DEF Lifecycle!Successors
<1>2. status[t] \notin Lifecycle!Final
  BY DEF Lifecycle!Final
<1> QED BY <1>1, <1>2 DEF Lives

\* A recorded task has its agent type.
LEMMA Dispatched ==
  ASSUME IInv, NEW t \in Task, status[t] # "absent"
  PROVE  agent[t] \in Board!AgentType
BY Statuses DEF IInv, BoardInv, Board!TypeOK

LEMMA SettleLives ==
  ASSUME IInv, \A u \in Task : status[u] # "applying",
         NEW t \in Task, NEW how \in Board!Outcome, Board!Settle(t, how)
  PROVE  \A u \in Task : Lives(u) /\ status'[u] # "applying"
<1>1. /\ \/ status[t] = "cancelled" /\ status'[t] = "cancelled"
         \/ status[t] = "running" /\ status'[t] = Board!Verdict(t, how)
      /\ \A u \in Task \ {t} : Kept(u) \/ Starts(u)
  BY SettleKeeps DEF IInv
<1>2. agent' = agent
  BY DEF Board!Settle
<1>3. Board!Verdict(t, how) \in {"awaiting_approval", "completed", "failed", "cancelled"}
  BY DEF Board!Verdict, Board!Outcome
<1>4. Lives(t) /\ status'[t] # "applying"
  BY <1>1, <1>2, <1>3, LifeOf, Dispatched DEF Lives
<1>5. ASSUME NEW u \in Task \ {t} PROVE Lives(u) /\ status'[u] # "applying"
  BY <1>1, <1>2, LifeOf, Dispatched DEF Lives, Kept, Starts
<1> QED BY <1>4, <1>5

\* One record written by an approval handler.
LEMMA FinishLives ==
  ASSUME IInv, NEW t \in Task, NEW s,
         status' = [status EXCEPT ![t] = s], UNCHANGED Board!butStatus,
         \/ /\ status[t] = "awaiting_approval"
            /\ s \in {"applying", "rejected"}
         \/ status[t] = "applying" /\ s \in {"completed", "failed"}
  PROVE  /\ \A u \in Task : Lives(u)
         /\ status'[t] = s /\ \A u \in Task \ {t} : status'[u] = status[u]
<1>1. /\ status'[t] = s /\ \A u \in Task \ {t} : status'[u] = status[u]
      /\ agent' = agent
  BY Statuses DEF IInv, BoardInv, Board!TypeOK, Board!butStatus
<1>2. Lives(t)
  BY <1>1, LifeOf, Dispatched
<1> QED BY <1>1, <1>2 DEF Lives

LEMMA LifeStep ==
  ASSUME ~Crashes, ~LateDecisions, IInv, ApplyingInv, [Next]_vars
  PROVE  ApplyingInv' /\ \A t \in Task : Lives(t)
<1>1. Free => \A t \in Task : status[t] # "applying"
  BY DEF ApplyingInv, Free, NoHandler
<1>2. CASE UNCHANGED vars
  BY <1>2 DEF vars, boardVars, ApplyingInv, Lives
<1>3. ASSUME Free, UNCHANGED boardVars PROVE ApplyingInv' /\ \A t \in Task : Lives(t)
  BY <1>1, <1>3 DEF boardVars, ApplyingInv, Lives
<1>4. ASSUME NEW t \in Task, NEW how \in Board!Outcome, Free, Board!Settle(t, how)
      PROVE  ApplyingInv' /\ \A u \in Task : Lives(u)
  BY <1>1, <1>4, SettleLives DEF ApplyingInv
<1>5. ASSUME NEW t \in Task, SubagentStep(t) PROVE ApplyingInv' /\ \A u \in Task : Lives(u)
  <2>1. Free
    BY <1>5 DEF SubagentStep, ReplyWithTools, ReplyFails, FinalResult, FinalResultWithPlan,
       FinalResultTooBig, Tool, ToolOverBudget, InRound, InTools
  <2>2. \/ UNCHANGED boardVars
        \/ \E how \in Board!Outcome : Board!Settle(t, how)
    <3>1. "throws" \in Board!Outcome
      BY DEF Board!Outcome
    <3> QED BY <1>5, <3>1 DEF SubagentStep, ReplyWithTools, ReplyFails, FinalResult,
            FinalResultWithPlan, FinalResultTooBig, Tool, ToolOverBudget
  <2> QED BY <1>3, <1>4, <2>1, <2>2
<1>6. CASE HandlerStep
  <2> DEFINE t == handler.task
  <2>1. CASE AwaitApproval
    <3>1. /\ handler.name = "planning" /\ Board!Settle(t, "awaiting") /\ handler' = NoHandler
          /\ t \in Task /\ "awaiting" \in Board!Outcome
      BY <2>1 DEF AwaitApproval, Handling, IInv, HandlerInv, NoHandler, Board!Outcome
    <3>2. \A u \in Task : status[u] # "applying"
      BY <3>1 DEF ApplyingInv
    <3> QED BY <3>1, <3>2, SettleLives DEF ApplyingInv
  <2>2. CASE RejectTask
    <3>1. /\ handler.name = "rejecting" /\ t \in Task /\ status[t] = "awaiting_approval"
          /\ status' = [status EXCEPT ![t] = "rejected"] /\ UNCHANGED Board!butStatus
      BY <2>2 DEF RejectTask, Handling, IInv, HandlerInv, NoHandler, Board!RejectApproval
    <3>2. \A u \in Task : status[u] # "applying"
      BY <3>1 DEF ApplyingInv
    <3>3. /\ \A u \in Task : Lives(u)
          /\ status'[t] = "rejected" /\ \A u \in Task \ {t} : status'[u] = status[u]
      BY <3>1, FinishLives
    <3> HIDE DEF t
    <3> QED BY <3>2, <3>3 DEF ApplyingInv
  <2>3. CASE FailTask
    <3>1. /\ handler.name = "failing" /\ t \in Task /\ status[t] = "applying"
          /\ status' = [status EXCEPT ![t] = "failed"] /\ UNCHANGED Board!butStatus
      BY <2>3 DEF FailTask, Handling, IInv, HandlerInv, NoHandler, Board!CompleteAfterApproval
    <3>2. \A u \in Task \ {t} : status[u] # "applying"
      BY <3>1 DEF ApplyingInv
    <3>3. /\ \A u \in Task : Lives(u)
          /\ status'[t] = "failed" /\ \A u \in Task \ {t} : status'[u] = status[u]
      BY <3>1, FinishLives
    <3> HIDE DEF t
    <3> QED BY <3>2, <3>3 DEF ApplyingInv
  <2>4. CASE ApplyReturns
    <3>1. InApply
      BY <2>4 DEF ApplyReturns, Store!ReturnApply, Store!Applying, InApply
    <3>2. t = call.plan /\ t \in Task /\ status[t] = "applying"
      BY <3>1, ApplyingFacts
    <3>3. PICK s \in {"completed", "failed"} :
            status' = [status EXCEPT ![t] = s] /\ UNCHANGED Board!butStatus
      BY <2>4, <3>2 DEF ApplyReturns, Board!CompleteAfterApproval
    <3>4. \A u \in Task \ {t} : status[u] # "applying"
      BY <3>2 DEF ApplyingInv
    <3>5. /\ \A u \in Task : Lives(u)
          /\ status'[t] = s /\ \A u \in Task \ {t} : status'[u] = status[u]
      BY <3>2, <3>3, FinishLives
    <3> HIDE DEF t
    <3> QED BY <3>3, <3>4, <3>5 DEF ApplyingInv
  <2>5. ASSUME NEW excluded, Apply(excluded) PROVE ApplyingInv' /\ \A u \in Task : Lives(u)
    BY <2>5 DEF Apply, Hand, boardVars, ApplyingInv, Lives
  <2>6. CASE ApplyThrows
    BY <2>6 DEF ApplyThrows, Hand, boardVars, ApplyingInv, Lives
  <2>7. CASE ApplyStep \/ UndoStep
    BY <2>7 DEF ApplyStep, UndoStep, boardVars, ApplyingInv, Lives
  <2> QED BY <1>6, <2>1, <2>2, <2>3, <2>4, <2>5, <2>6, <2>7 DEF HandlerStep
<1>7. CASE UserStep
  <2>1. ASSUME NEW t \in Task, NEW a \in Board!AgentType, Dispatch(t, a)
        PROVE  ApplyingInv' /\ \A u \in Task : Lives(u)
    <3>1. /\ status[t] = "absent" /\ status'[t] \in {"queued", "running"}
          /\ \A u \in Task \ {t} : Kept(u) \/ Starts(u)
      BY <2>1, DispatchKeeps DEF Dispatch, IInv
    <3>2. agent'[t] = a /\ \A u \in Task \ {t} : agent'[u] = agent[u]
      BY <2>1, Statuses DEF Dispatch, Board!Dispatch, IInv, BoardInv, Board!TypeOK
    <3>3. Lives(t)
      BY <3>1, <3>2, LifeBegins
    <3>4. \A u \in Task \ {t} : Lives(u)
      BY <3>1, <3>2, LifeOf, Dispatched DEF Lives, Kept, Starts
    <3> QED BY <1>1, <2>1, <3>1, <3>3, <3>4 DEF Dispatch, ApplyingInv, Kept, Starts
  <2>2. ASSUME NEW t \in Task, Cancel(t) PROVE ApplyingInv' /\ \A u \in Task : Lives(u)
    <3>1. /\ status[t] \notin Board!Terminal \cup {"absent"} /\ status'[t] = "cancelled"
          /\ \A u \in Task \ {t} : Kept(u)
          /\ agent' = agent /\ Free
      BY <2>2, CancelKeeps DEF Cancel, Board!Cancel, IInv
    <3>2. status[t] \in {"queued", "running", "awaiting_approval"}
      BY <1>1, <3>1, Statuses DEF IInv, BoardInv, Board!TypeOK
    <3>3. Lives(t)
      BY <3>1, <3>2, LifeOf, Dispatched
    <3> QED BY <1>1, <3>1, <3>3 DEF ApplyingInv, Lives, Kept
  <2>3. ASSUME NEW t \in Task, Approve(t) PROVE ApplyingInv' /\ \A u \in Task : Lives(u)
    <3>1. /\ Free /\ status[t] = "awaiting_approval"
          /\ status' = [status EXCEPT ![t] = "applying"] /\ UNCHANGED Board!butStatus
          /\ handler' = [name |-> "approving", task |-> t]
      BY <2>3 DEF Approve, Due, Hand, Board!MarkApplying
    <3> QED BY <1>1, <3>1, FinishLives DEF ApplyingInv
  <2>4. ASSUME NEW t \in Task, Reject(t) \/ Undo(t) PROVE ApplyingInv' /\ \A u \in Task : Lives(u)
    BY <1>3, <2>4 DEF Reject, Undo
  <2>5. ASSUME NEW p \in Path, NEW c, UserEdit(p, c) PROVE ApplyingInv' /\ \A u \in Task : Lives(u)
    BY <1>3, <2>5 DEF UserEdit
  <2> QED BY <1>7, <2>1, <2>2, <2>3, <2>4, <2>5 DEF UserStep
<1> QED BY <1>2, <1>5, <1>6, <1>7 DEF Next, Noted

\* While the process lives and decisions arrive when they are due, every task
\* goes through the statuses that TaskStatus (packages/shared/src/task.ts)
\* promises, in that order, and one task of each agent type runs at a time.
THEOREM ImplementsLifecycle ==
  ASSUME ~Crashes, ~LateDecisions
  PROVE  Spec => Lifecycle!Init /\ [][Lifecycle!Next]_(Lifecycle!vars)
<1>1. Init => Lifecycle!Init /\ IInv /\ ApplyingInv
  BY InitKeeps, Statuses DEF Init, Board!Init, Lifecycle!Init, ApplyingInv
<1>2. IInv /\ ApplyingInv /\ [Next]_vars => IInv' /\ ApplyingInv' /\ [Lifecycle!Next]_(Lifecycle!vars)
  <2> SUFFICES ASSUME IInv, ApplyingInv, [Next]_vars
               PROVE  IInv' /\ ApplyingInv' /\ Lifecycle!Next
    OBVIOUS
  <2>1. IInv' /\ ApplyingInv' /\ \A t \in Task : Lives(t)
    BY NextKeeps, LifeStep
  <2>2. Lifecycle!OneRunningPerType'
    <3>1. \A t \in Task : status'[t] = "running" => agent'[t] # "none" /\ running'[agent'[t]] = t
      BY <2>1 DEF IInv, BoardInv
    <3> QED BY <3>1 DEF Lifecycle!OneRunningPerType
  <2> QED BY <2>1, <2>2 DEF Lifecycle!Next, Lives
<1> QED BY <1>1, <1>2, PTL DEF Spec
=============================================================================
