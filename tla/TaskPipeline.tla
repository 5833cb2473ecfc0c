---------------------------- MODULE TaskPipeline ----------------------------
(***************************************************************************)
(* How a task really runs: the sub-agent's rounds of LLM replies and tools *)
(* (packages/harness/src/tasks/subagent.ts) drive the board's runs and the *)
(* staging store, and the IPC handlers of packages/harness/src/main.ts     *)
(* carry the user's cancellations, decisions and undo requests to both.    *)
(*                                                                         *)
(* One thread runs everything: a handler runs to its end before another    *)
(* starts, so the steps below interleave only where the code awaits, and   *)
(* where the process may die between two writes.                           *)
(***************************************************************************)
EXTENDS Integers, Sequences, FiniteSets, Functions

CONSTANTS
  MaxTasks,                                          \* see TaskBoard
  Path, Content, Absent, MaxOps, UserEdits, Crashes,   \* see Staging
  Home, Dirs, Net,   \* see ToolGate
  Calls,          \* the tool calls that replies may hold
  MaxRounds,      \* MAX_ROUNDS of subagent.ts
  MaxToolCalls,   \* taskBudget.maxToolCalls of the configuration
  RoundTools,     \* bound: tool uses in one LLM reply
  LateDecisions   \* may a decision or an undo arrive when it is no longer due?

Task == 1..MaxTasks

ASSUME BoardAndStoreAssumption ==
  {MaxTasks, MaxOps} \subseteq Nat \ {0} /\ Absent \notin Content /\ {UserEdits, Crashes} \subseteq BOOLEAN
ASSUME RoundsAssumption == {MaxRounds, RoundTools} \subseteq Nat \ {0} /\ MaxToolCalls \in Nat
ASSUME DirsAssumption == Len(Dirs) > 0 /\ Net \in BOOLEAN
ASSUME LateDecisionsAssumption == LateDecisions \in BOOLEAN

VARIABLES
  status, agent, waiting, running, aborters, aborted, lost,          \* TaskBoard
  files, pending, ops, planStatus, kept, journal, call, trail, broken, fresh, \* Staging
  planId,    \* disk: the tasks whose record names its plan
  exec,      \* memory: where the executor of each running task is
  handler,   \* memory: what has written one file and is about to write another, and its task
  ended      \* history: the tasks that have had a terminal status

boardVars == <<status, agent, waiting, running, aborters, aborted, lost>>
storeVars == <<files, pending, ops, planStatus, kept, journal, call, trail, broken, fresh>>
vars == <<boardVars, storeVars, planId, exec, handler, ended>>

Board == INSTANCE TaskBoard
Gate == INSTANCE ToolGate WITH NoBody <- Absent

\* Calls are well formed: a call that stages names its files (the handlers throw
\* when one is left out), a write brings its body, and Path has the files of
\* every call whose paths the hook takes to be in scope.
ASSUME PathAssumption == Path \subseteq Seq(Gate!Name)
ASSUME CallsAssumption ==
  \A c \in Calls :
    /\ c.paths \in Seq(Gate!RawPaths)
    /\ c.tool \in Gate!Stages =>
         /\ c.paths # << >>
         /\ c.tool = "fs_write" => c.body \in Content
         /\ (\A raw \in Range(c.paths) : Gate!InScope(Gate!NormalizePath(raw))) =>
              {Gate!StagedOp(c).src, Gate!StagedOp(c).dst} \subseteq Path

\* What tools may stage: the operations of the calls that name files of Path.
Menu == {op \in {Gate!StagedOp(c) : c \in {d \in Calls : d.tool \in Gate!Stages}} :
           {op.src, op.dst} \subseteq Path}
Store == INSTANCE Staging WITH Plan <- Task

\* A round of the executor awaits chatOnce() while todo = 0, else the tools.
NoExec == [round |-> 0, calls |-> 0, todo |-> 0]
FirstRound == [round |-> 1, calls |-> 0, todo |-> 0]

NoHandler == [name |-> "none", task |-> 0]

TypeOK ==
  /\ Board!TypeOK /\ Store!TypeOK
  /\ planId \subseteq Task
  /\ exec \in [Task -> [round : 0..MaxRounds, calls : 0..MaxToolCalls, todo : 0..RoundTools]]
  /\ \A t \in Task : exec[t].round > 0 <=> t \in aborters
  /\ handler \in {NoHandler} \cup
       [name : {"planning", "rejecting", "approving", "applying", "failing"}, task : Task]
  /\ ended \subseteq Task

Init ==
  /\ Board!Init /\ Store!Init
  /\ planId = {}
  /\ exec = [t \in Task |-> NoExec]
  /\ handler = NoHandler
  /\ ended = {}

\* Nothing that must run to its end before another event is under way.
Free == handler = NoHandler /\ Store!Idle
Handling(name) == handler.name = name /\ Store!Idle
Hand(name, t) == handler' = [name |-> name, task |-> t]
-----------------------------------------------------------------------------
(***************************************************************************)
(* The sub-agent                                                           *)
(***************************************************************************)

\* Executors that run() has just called enter their first round at once;
\* those that settled are gone.
ExecutorsFollow(e) ==
  exec' = [t \in Task |-> IF t \notin aborters' THEN NoExec
                          ELSE IF t \notin aborters THEN FirstRound ELSE e[t]]

Dispatch(t, a) ==
  /\ Free
  /\ Board!Dispatch(t, a)
  /\ ExecutorsFollow(exec)
  /\ UNCHANGED <<storeVars, planId, handler>>

InRound(t) == Free /\ t \in aborters /\ exec[t].todo = 0
InTools(t) == Free /\ t \in aborters /\ exec[t].todo > 0

\* chatOnce() answers with n tool uses.
ReplyWithTools(t, n) ==
  /\ InRound(t)
  /\ exec' = [exec EXCEPT ![t].todo = n]
  /\ UNCHANGED <<boardVars, storeVars, planId, handler>>

\* chatOnce() rejects, or its usage exceeds the token budget.
ReplyFails(t) ==
  /\ InRound(t)
  /\ Board!Settle(t, "throws")
  /\ ExecutorsFollow(exec)
  /\ UNCHANGED <<storeVars, planId, handler>>

\* chatOnce() answers with the final result. With nothing staged, the result
\* settles the task, or its parsing throws.
FinalResult(t, how) ==
  /\ InRound(t)
  /\ pending[t] = << >>
  /\ how \in {"ok", "not_ok", "throws"}
  /\ Board!Settle(t, how)
  /\ ExecutorsFollow(exec)
  /\ UNCHANGED <<storeVars, planId, handler>>

\* With operations staged, the plan is what matters: parsed or not, the result
\* leads to createPlan() and TaskAwaitingApproval, which run() catches.
FinalResultWithPlan(t) ==
  /\ InRound(t)
  /\ Store!CreatePlan(t)
  /\ Hand("planning", t)
  /\ UNCHANGED <<boardVars, planId, exec>>

\* run() names the plan in the record, unless the record is terminal by now.
AwaitApproval ==
  /\ Handling("planning")
  /\ Board!Settle(handler.task, "awaiting")
  /\ planId' = IF status[handler.task] \in Board!Terminal THEN planId
               ELSE planId \cup {handler.task}
  /\ ExecutorsFollow(exec)
  /\ handler' = NoHandler
  /\ UNCHANGED storeVars

\* createPlan() throws: more operations are staged than a plan may have.
FinalResultTooBig(t) ==
  /\ InRound(t)
  /\ Store!TooMany(Len(pending[t]))
  /\ Board!Settle(t, "throws")
  /\ ExecutorsFollow(exec)
  /\ UNCHANGED <<storeVars, planId, handler>>

\* After the last tool of a round the loop goes on, unless it was the last
\* round or throwIfAborted() sees the signal.
LoopNeverAborts(t) == exec[t].round = MaxRounds
LoopThrows(t) == exec[t].round = MaxRounds \/ t \in aborted

OverBudget(t) == exec[t].calls >= MaxToolCalls

\* execTool(): a blocked call, an unknown tool and a handler that throws give
\* an error as the tool's result, a file tool stages an operation, a command
\* changes the files themselves, and all the others leave them alone.
ExecTool(t, c) ==
  \/ UNCHANGED storeVars
  \/ /\ c.tool \in Gate!Stages /\ ~Gate!Blocked(c)
     /\ Store!Stage(t, Gate!StagedOp(c))
  \/ /\ Gate!RunsCommand(c)
     /\ \E p \in Path, body \in Content \cup {Absent} : Store!UserEdit(p, body)

\* The next tool of the round. The signal is not looked at here.
Tool(t) ==
  /\ InTools(t)
  /\ ~OverBudget(t)
  /\ \E c \in Calls : ExecTool(t, c)
  /\ LET e == [exec EXCEPT ![t].calls = @ + 1, ![t].todo = @ - 1] IN
     \/ /\ e[t].todo > 0
        /\ exec' = e
        /\ UNCHANGED boardVars
     \/ /\ e[t].todo = 0 /\ ~LoopThrows(t)
        /\ exec' = [e EXCEPT ![t].round = @ + 1]
        /\ UNCHANGED boardVars
     \/ /\ e[t].todo = 0 /\ LoopThrows(t)
        /\ Board!Settle(t, "throws")
        /\ ExecutorsFollow(e)
  /\ UNCHANGED <<planId, handler>>

\* One tool call more than the budget: it is counted and not executed.
ToolOverBudget(t) ==
  /\ InTools(t)
  /\ OverBudget(t)
  /\ Board!Settle(t, "throws")
  /\ ExecutorsFollow(exec)
  /\ UNCHANGED <<storeVars, planId, handler>>
-----------------------------------------------------------------------------
(***************************************************************************)
(* The IPC handlers                                                        *)
(***************************************************************************)

\* TASK_CANCEL
Cancel(t) ==
  /\ Free
  /\ Board!Cancel(t)
  /\ UNCHANGED <<storeVars, planId, exec, handler>>

\* A decision names the plan that a record names: that is how the panel knows
\* it. It is due while the task awaits it.
Due(t) == t \in planId /\ (LateDecisions \/ status[t] = "awaiting_approval")

\* APPROVAL_DECISION reject: the plan is written, then the record.
Reject(t) ==
  /\ Free /\ Due(t)
  /\ Store!Reject(t)
  /\ Hand("rejecting", t)
  /\ UNCHANGED <<boardVars, planId, exec>>

RejectTask ==
  /\ Handling("rejecting")
  /\ Board!RejectApproval(handler.task)
  /\ handler' = NoHandler
  /\ UNCHANGED <<storeVars, planId, exec>>

\* APPROVAL_DECISION approve or partial: markApplying() first; when it throws,
\* the catch block finishes the task as failed.
Approve(t) ==
  /\ Free /\ Due(t)
  /\ \/ /\ Board!MarkApplying(t)
        /\ Hand("approving", t)
     \/ /\ status[t] # "awaiting_approval"
        /\ Hand("failing", t)
        /\ UNCHANGED boardVars
  /\ UNCHANGED <<storeVars, planId, exec>>

\* apply() begins, or throws because of the plan's status.
Apply(excluded) ==
  /\ Handling("approving")
  /\ Store!BeginApply(handler.task, excluded)
  /\ Hand("applying", handler.task)
  /\ UNCHANGED <<boardVars, planId, exec>>

ApplyThrows ==
  /\ Handling("approving")
  /\ ~Store!Appliable(handler.task)
  /\ Hand("failing", handler.task)
  /\ UNCHANGED <<boardVars, storeVars, planId, exec>>

ApplyStep ==
  /\ \/ \E i \in Store!OpIndex : Store!ApplyOp(i)
     \/ Store!ApplyOpThrows
     \/ \E i \in Store!OpIndex : Store!BackupBreaks(i) \/ Store!WriteBreaks(i)
     \/ Store!ApplyLoopEnds
     \/ Store!WriteOutcome
     \/ Store!WriteJournal
  /\ UNCHANGED <<boardVars, planId, exec, handler>>

ApplyReturns ==
  /\ Store!ReturnApply
  /\ Board!CompleteAfterApproval(call.plan, ~call.failed)
  /\ handler' = NoHandler
  /\ UNCHANGED <<planId, exec>>

FailTask ==
  /\ Handling("failing")
  /\ Board!CompleteAfterApproval(handler.task, FALSE)
  /\ handler' = NoHandler
  /\ UNCHANGED <<storeVars, planId, exec>>

\* UNDO_REQUEST: due once, when the decision on the plan has been carried out.
Undo(t) ==
  /\ Free
  /\ t \in planId
  /\ \/ LateDecisions
     \/ status[t] \in {"completed", "failed"} /\ planStatus[t] # "undone"
  /\ Store!BeginUndo(t)
  /\ UNCHANGED <<boardVars, planId, exec, handler>>

UndoStep ==
  /\ Store!UndoEntry \/ Store!UndoEntryThrows \/ Store!ReturnUndo
  /\ UNCHANGED <<boardVars, planId, exec, handler>>
-----------------------------------------------------------------------------
UserEdit(p, c) ==
  /\ Free
  /\ Store!UserEdit(p, c)
  /\ UNCHANGED <<boardVars, planId, exec, handler>>

\* The harness dies and is started again: memory is gone, the disk stays.
Restart ==
  /\ Board!Restart /\ Store!Restart
  /\ ExecutorsFollow(exec)
  /\ handler' = NoHandler
  /\ UNCHANGED planId

SubagentStep(t) ==
  \/ \E n \in 1..RoundTools : ReplyWithTools(t, n)
  \/ ReplyFails(t)
  \/ \E how \in Board!Outcome : FinalResult(t, how)
  \/ FinalResultWithPlan(t)
  \/ FinalResultTooBig(t)
  \/ Tool(t)
  \/ ToolOverBudget(t)

HandlerStep ==
  \/ AwaitApproval
  \/ RejectTask
  \/ \E excluded \in SUBSET Store!OpIndex : Apply(excluded)
  \/ ApplyThrows
  \/ ApplyStep
  \/ ApplyReturns
  \/ FailTask
  \/ UndoStep

UserStep ==
  \/ \E t \in Task, a \in Board!AgentType : Dispatch(t, a)
  \/ \E t \in Task : Cancel(t)
  \/ \E t \in Task : Reject(t)
  \/ \E t \in Task : Approve(t)
  \/ \E t \in Task : Undo(t)
  \/ \E p \in Path, c \in Content \cup {Absent} : UserEdit(p, c)

Step == (\E t \in Task : SubagentStep(t)) \/ HandlerStep \/ UserStep \/ Restart

\* A step, with the terminal statuses it leads to noted.
Noted(A) == A /\ ended' = ended \cup {t \in Task : status'[t] \in Board!Terminal}

Next ==
  \/ \E t \in Task : Noted(SubagentStep(t))
  \/ Noted(HandlerStep)
  \/ Noted(UserStep)
  \/ Crashes /\ Noted(Restart)

Spec == Init /\ [][Next]_vars

\* A handler that has started goes on, and every await of a sub-agent returns:
\* LLM replies and tools are assumed to answer. What waits is served in its turn,
\* so a user who asks for the same failing undo again and again keeps no sub-agent
\* from going on: its fairness is strong.
FairSpec ==
  /\ Spec
  /\ WF_vars(Noted(HandlerStep))
  /\ \A t \in Task : SF_vars(Noted(SubagentStep(t)))
-----------------------------------------------------------------------------
(***************************************************************************)
(* Properties                                                              *)
(***************************************************************************)

\* A decision is final: once the task of a plan has ended (cancelled, rejected,
\* failed or completed), or the plan has been applied, no later decision, late
\* or repeated, makes a file operation. The board's status guards the store.
DecisionIsFinal ==
  [][\A t \in Task :
       trail'[t] # trail[t] /\ Len(trail'[t]) <= 1 => trail[t] = << >> /\ t \notin ended]_vars

\* Board and store are two files that no transaction joins. Between handlers
\* they still agree, after crashes too: a task that awaits its approval names
\* a plan that is untouched, one that ran to its end without a plan staged
\* nothing that was applied, and a plan the board forgot (cancelled as it was
\* made, or the process died between the two writes) is never applied.
TaskAndPlanAgree ==
  \A t \in Task :
    /\ Free /\ status[t] = "awaiting_approval" =>
         t \in planId /\ planStatus[t] \in {"draft", "rejected"}
    /\ status[t] \in {"absent", "queued", "running"} => t \notin planId /\ trail[t] = << >>
    /\ t \notin planId => planStatus[t] \in {"none", "draft"}
    /\ Free /\ status[t] = "completed" /\ t \in planId => trail[t] # << >>

\* An aborted executor gets no further round: at the latest after the tools of
\* the reply it has, it throws, and no LLM call is made for it.
AbortStopsRounds ==
  [][\A t \in Task : t \in aborted /\ t \in aborted' => exec'[t].round = exec[t].round]_vars

\* A plan takes all that its sub-agent staged: nothing is left in memory under
\* a task that has a plan, whatever became of its run, and no tool that was
\* still to run stages something beside the plan the user decides on.
NothingStagedBesidePlan ==
  \A t \in Task : planStatus[t] # "none" => pending[t] = << >>

\* Whatever a sub-agent asks for, and however it writes its paths, what waits
\* in memory or in a plan names only files within the task's directories, as long
\* as no backslash is left in their paths: the hook judges every path of a call,
\* and the handler resolves it to the same file.
StagedOps(t) == Range(pending[t]) \cup Range(ops[t])

ScopeHolds ==
  \A t \in Task : \A op \in StagedOps(t) : \A path \in {op.src, op.dst} :
    Gate!InScope(path) \/ Gate!HasBackslash(path)

\* "Write a file within the scope", says the description of fs_write, without a
\* condition. This does not hold (TaskPipelineScope.cfg): the hook reads a
\* backslash as a slash, and the handler does not.
ScopeIsKept ==
  \A t \in Task : \A op \in StagedOps(t) : \A path \in {op.src, op.dst} : Gate!InScope(path)

\* The statuses a task goes through are those the board promises.
Lifecycle == INSTANCE TaskLifecycle WITH AgentType <- Board!AgentType
LifecycleSpec == Lifecycle!Spec
=============================================================================
