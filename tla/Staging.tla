------------------------------ MODULE Staging ------------------------------
(***************************************************************************)
(* Staging, approval plans and undo (packages/harness/src/staging/store.ts)*)
(*                                                                         *)
(* File tools only stage operations; createPlan() turns the staged         *)
(* operations of a task into a plan on disk; apply() carries the selected  *)
(* ones out on the user's files, one by one, and writes the undo journal;  *)
(* undo() plays the journal backwards. A task has one plan, so plans are   *)
(* named by their task and an operation by its place in the plan.          *)
(*                                                                         *)
(* The process is single-threaded: apply() and undo() run to their end     *)
(* before another call, but the process may die between any two of their   *)
(* file-system operations, and a copy may fail half-way: then it leaves    *)
(* its target with anything in it, or removed. call is the one synchronous *)
(* call under way.                                                         *)
(***************************************************************************)
EXTENDS Integers, Sequences, FiniteSets

CONSTANTS
  Plan,       \* the tasks that may own a plan
  Path,       \* files within the authorised directories
  Content,    \* what a file may hold
  Absent,     \* the content of a path that does not exist
  Menu,       \* the operations an agent may stage, a set of Op
  MaxOps,     \* STAGING_MAX_OPS
  UserEdits,  \* bound: may somebody else change the files between calls?
  Crashes     \* bound: may the process die and start again?

\* 'move' and 'rename' are the same code; 'mkdir' is never staged; an append
\* is staged as a write of the whole resulting body.
Op == [kind : {"write"}, src : Path, dst : Path, body : Content]
        \cup [kind : {"move", "trash"}, src : Path, dst : Path, body : {Absent}]

ASSUME ContentAssumption == Absent \notin Content
ASSUME MenuAssumption == Menu \subseteq Op
ASSUME MaxOpsAssumption == MaxOps \in Nat \ {0}
ASSUME EnvironmentAssumption == UserEdits \in BOOLEAN /\ Crashes \in BOOLEAN

File == Content \cup {Absent}
Files == [Path -> File]
OpIndex == 1..MaxOps

\* An entry of the undo journal: which operation, and whether a write found
\* an existing file (the entry's other fields are those of the operation).
Entry == [op : OpIndex, existed : BOOLEAN]

PlanStatus == {"none", "draft", "approved", "partial", "applied", "apply_failed",
               "rejected", "undone"}

NoCall == [name |-> "none"]
Call == {NoCall}
  \cup [name : {"apply"}, plan : Plan, step : {"ops", "outcome", "journal", "return"},
        todo : SUBSET OpIndex, entries : Seq(Entry), failed : BOOLEAN]
  \cup [name : {"undo"}, plan : Plan, left : Nat, failed : BOOLEAN, fresh : BOOLEAN]

VARIABLES
  files,      \* disk: the user's files
  pending,    \* memory: per task, the operations staged and not yet in a plan
  ops,        \* disk: per plan, its operations
  planStatus, \* disk: per plan, its status, "none" before createPlan()
  kept,       \* disk: undo/<plan>/<op>*: the copy made by a write or the trashed file
  journal,    \* disk: per plan, the entries of undo/<plan>.json, << >> if there is none
  call,       \* memory: the synchronous call under way
  trail,      \* history: the files before each step of the plan's last apply() and after it
  broken,     \* history: the operation whose copy failed half-way in the plan's last apply()
  fresh       \* history: the plan whose apply() made the last change to files, if any

vars == <<files, pending, ops, planStatus, kept, journal, call, trail, broken, fresh>>

TypeOK ==
  /\ files \in Files
  /\ pending \in [Plan -> Seq(Menu)]
  /\ ops \in [Plan -> Seq(Menu)]
  /\ \A p \in Plan : Len(ops[p]) <= MaxOps
  /\ planStatus \in [Plan -> PlanStatus]
  /\ kept \in [Plan -> [OpIndex -> File]]
  /\ journal \in [Plan -> Seq(Entry)]
  /\ call \in Call
  /\ trail \in [Plan -> Seq(Files)]
  /\ broken \in [Plan -> SUBSET OpIndex]
  /\ fresh \subseteq Plan

Init ==
  /\ files \in Files
  /\ pending = [p \in Plan |-> << >>]
  /\ ops = [p \in Plan |-> << >>]
  /\ planStatus = [p \in Plan |-> "none"]
  /\ kept = [p \in Plan |-> [i \in OpIndex |-> Absent]]
  /\ journal = [p \in Plan |-> << >>]
  /\ call = NoCall
  /\ trail = [p \in Plan |-> << >>]
  /\ broken = [p \in Plan |-> {}]
  /\ fresh = {}

Idle == call = NoCall
disk == <<files, kept, journal, trail, broken, fresh>>
-----------------------------------------------------------------------------
(***************************************************************************)
(* Staging and plans                                                       *)
(***************************************************************************)

\* stageWrite, stageMove, stageTrash: nothing touches the user's files.
Stage(p, op) ==
  /\ Idle
  /\ pending' = [pending EXCEPT ![p] = Append(@, op)]
  /\ UNCHANGED <<ops, planStatus, call, disk>>

\* createPlan(); with too many operations it throws and keeps them staged.
TooManyByTwo(n) == n > MaxOps + 1
TooMany(n) == n > MaxOps

CreatePlanKeepingStaged(p) ==
  /\ Idle
  /\ planStatus[p] = "none"
  /\ pending[p] # << >> /\ ~TooMany(Len(pending[p]))
  /\ ops' = [ops EXCEPT ![p] = pending[p]]
  /\ planStatus' = [planStatus EXCEPT ![p] = "draft"]
  /\ UNCHANGED <<pending, call, disk>>

CreatePlan(p) ==
  /\ Idle
  /\ planStatus[p] = "none"
  /\ pending[p] # << >> /\ ~TooMany(Len(pending[p]))
  /\ ops' = [ops EXCEPT ![p] = pending[p]]
  /\ planStatus' = [planStatus EXCEPT ![p] = "draft"]
  /\ pending' = [pending EXCEPT ![p] = << >>]
  /\ UNCHANGED <<call, disk>>

\* reject(): whatever the plan's status.
Reject(p) ==
  /\ Idle
  /\ planStatus[p] # "none"
  /\ planStatus' = [planStatus EXCEPT ![p] = "rejected"]
  /\ UNCHANGED <<pending, ops, call, disk>>
-----------------------------------------------------------------------------
(***************************************************************************)
(* apply()                                                                 *)
(***************************************************************************)
Appliable(p) == planStatus[p] \in {"draft", "approved", "partial"}

BeginApply(p, excluded) ==
  /\ Idle
  /\ Appliable(p)
  /\ planStatus' = [planStatus EXCEPT ![p] = IF excluded = {} THEN "approved" ELSE "partial"]
  /\ call' = [name |-> "apply", plan |-> p, step |-> "ops",
              todo |-> (1..Len(ops[p])) \ excluded, entries |-> << >>, failed |-> FALSE]
  /\ trail' = [trail EXCEPT ![p] = <<files>>]
  /\ broken' = [broken EXCEPT ![p] = {}]
  /\ fresh' = {}
  /\ UNCHANGED <<files, pending, ops, kept, journal>>

\* What applyOp() checks first, or the renameSync it calls requires.
Applies(op, f) ==
  CASE op.kind = "write" -> TRUE
    [] op.kind = "move"  -> f[op.dst] = Absent /\ f[op.src] # Absent
    [] op.kind = "trash" -> f[op.src] # Absent

\* The files after the operation.
Effect(op, f) ==
  CASE op.kind = "write" -> [f EXCEPT ![op.dst] = op.body]
    [] op.kind = "move"  -> [f EXCEPT ![op.dst] = f[op.src], ![op.src] = Absent]
    [] op.kind = "trash" -> [f EXCEPT ![op.src] = Absent]

\* What the operation leaves under undo/<plan>/, given what k is there.
KeepsNothingOfWrites(op, f, k) == IF op.kind = "trash" THEN f[op.src] ELSE k
Keeps(op, f, k) ==
  CASE op.kind = "write" -> IF f[op.dst] # Absent THEN f[op.dst] ELSE k
    [] op.kind = "move"  -> k
    [] op.kind = "trash" -> f[op.src]

Applying(step) == call # NoCall /\ call.name = "apply" /\ call.step = step
First(i, todo) == i \in todo /\ \A j \in todo : i <= j

ApplyOp(i) ==
  /\ Applying("ops") /\ First(i, call.todo)
  /\ LET p  == call.plan
         op == ops[p][i]
     IN /\ Applies(op, files)
        /\ files' = Effect(op, files)
        /\ kept' = [kept EXCEPT ![p][i] = Keeps(op, files, kept[p][i])]
        /\ trail' = [trail EXCEPT ![p] = Append(@, files')]
        /\ call' = [call EXCEPT
             !.todo = @ \ {i},
             !.entries = Append(@, [op |-> i, existed |-> files[op.dst] # Absent])]
  /\ UNCHANGED <<pending, ops, planStatus, journal, broken, fresh>>

\* An operation throws: its check fails, or the file system refuses it (any
\* operation may meet a full disk or a missing permission). The loop breaks.
ApplyOpThrows ==
  /\ Applying("ops") /\ call.todo # {}
  /\ call' = [call EXCEPT !.todo = {}, !.failed = TRUE]
  /\ UNCHANGED <<pending, ops, planStatus, disk>>

\* So it does when the copy of the old file fails half-way, which leaves the
\* files alone.
BackupBreaks(i) ==
  /\ Applying("ops") /\ First(i, call.todo)
  /\ LET p  == call.plan
         op == ops[p][i]
     IN /\ op.kind = "write" /\ files[op.dst] # Absent
        /\ \E rest \in File : kept' = [kept EXCEPT ![p][i] = rest]
  /\ call' = [call EXCEPT !.todo = {}, !.failed = TRUE]
  /\ UNCHANGED <<files, pending, ops, planStatus, journal, trail, broken, fresh>>

\* And when the copy over the old file does: it is damaged, and the operation
\* has no entry.
WriteBreaks(i) ==
  /\ Applying("ops") /\ First(i, call.todo)
  /\ LET p  == call.plan
         op == ops[p][i]
     IN /\ op.kind = "write"
        /\ \E rest \in File : files' = [files EXCEPT ![op.dst] = rest]
        /\ kept' = [kept EXCEPT ![p][i] = Keeps(op, files, kept[p][i])]
        /\ broken' = [broken EXCEPT ![p] = {i}]
  /\ call' = [call EXCEPT !.todo = {}, !.failed = TRUE]
  /\ UNCHANGED <<pending, ops, planStatus, journal, trail, fresh>>

ApplyLoopEnds ==
  /\ Applying("ops") /\ call.todo = {}
  /\ call' = [call EXCEPT !.step = "outcome"]
  /\ UNCHANGED <<pending, ops, planStatus, disk>>

WriteOutcome ==
  /\ Applying("outcome")
  /\ planStatus' = [planStatus EXCEPT ![call.plan] =
                      IF call.failed THEN "apply_failed" ELSE "applied"]
  /\ call' = [call EXCEPT !.step = "journal"]
  /\ UNCHANGED <<pending, ops, disk>>

\* The journal is written last, and only if some operation was applied.
WriteJournal ==
  /\ Applying("journal")
  /\ IF call.entries = << >>
       THEN UNCHANGED <<journal, fresh>>
       ELSE /\ journal' = [journal EXCEPT ![call.plan] = call.entries]
            /\ fresh' = {call.plan}
  /\ call' = [call EXCEPT !.step = "return"]
  /\ UNCHANGED <<files, pending, ops, planStatus, kept, trail, broken>>

ReturnApply ==
  /\ Applying("return")
  /\ call' = NoCall
  /\ UNCHANGED <<pending, ops, planStatus, disk>>
-----------------------------------------------------------------------------
(***************************************************************************)
(* undo()                                                                  *)
(***************************************************************************)

\* Whatever the plan's status: only the journal must be there.
BeginUndo(p) ==
  /\ Idle
  /\ planStatus[p] # "none"
  /\ journal[p] # << >>
  /\ call' = [name |-> "undo", plan |-> p, left |-> Len(journal[p]),
              failed |-> FALSE, fresh |-> p \in fresh]
  /\ fresh' = {}
  /\ UNCHANGED <<files, pending, ops, planStatus, kept, journal, trail, broken>>

\* undoEntry() finds what it must rename.
Undoes(op, f, k) ==
  CASE op.kind = "write" -> TRUE
    [] op.kind = "move"  -> f[op.dst] # Absent
    [] op.kind = "trash" -> k # Absent

\* The files after undoing e, an entry of operation op, with k kept for it.
Reversal(op, e, f, k) ==
  CASE op.kind = "write" -> [f EXCEPT ![op.dst] = IF e.existed THEN k ELSE Absent]
    [] op.kind = "move"  -> [f EXCEPT ![op.dst] = Absent, ![op.src] = f[op.dst]]
    [] op.kind = "trash" -> [f EXCEPT ![op.src] = k]

Undoing == call # NoCall /\ call.name = "undo"

\* The journal is played backwards: with left of its n entries to go, the
\* next one is the last of these.
OldestFirst(left, n) == n - left + 1
NextEntry(left, n) == left

\* One entry; a failure is noted and the loop goes on.
UndoEntry ==
  /\ Undoing /\ call.left > 0
  /\ LET p  == call.plan
         e  == journal[p][NextEntry(call.left, Len(journal[p]))]
         op == ops[p][e.op]
         k  == kept[p][e.op]
     IN \/ /\ Undoes(op, files, k)
           /\ files' = Reversal(op, e, files, k)
           /\ kept' = IF op.kind = "trash" THEN [kept EXCEPT ![p][e.op] = Absent] ELSE kept
           /\ call' = [call EXCEPT !.left = @ - 1]
        \/ /\ ~Undoes(op, files, k)
           /\ call' = [call EXCEPT !.left = @ - 1, !.failed = TRUE]
           /\ UNCHANGED <<files, kept>>
  /\ UNCHANGED <<pending, ops, planStatus, journal, trail, broken, fresh>>

\* The file system refuses to take an entry back: a copy may break half-way.
UndoEntryThrows ==
  /\ Undoing /\ call.left > 0
  /\ LET p  == call.plan
         e  == journal[p][NextEntry(call.left, Len(journal[p]))]
         op == ops[p][e.op]
     IN \/ UNCHANGED files
        \/ /\ op.kind = "write" /\ e.existed
           /\ \E rest \in File : files' = [files EXCEPT ![op.dst] = rest]
  /\ call' = [call EXCEPT !.left = @ - 1, !.failed = TRUE, !.fresh = FALSE]
  /\ UNCHANGED <<pending, ops, planStatus, kept, journal, trail, broken, fresh>>

ReturnUndo ==
  /\ Undoing /\ call.left = 0
  /\ planStatus' = IF call.failed THEN planStatus ELSE [planStatus EXCEPT ![call.plan] = "undone"]
  /\ call' = NoCall
  /\ UNCHANGED <<pending, ops, disk>>
-----------------------------------------------------------------------------
\* The user, another program or the shell tool of an agent changes a file.
UserEdit(x, c) ==
  /\ UserEdits
  /\ Idle
  /\ files[x] # c
  /\ files' = [files EXCEPT ![x] = c]
  /\ fresh' = {}
  /\ UNCHANGED <<pending, ops, planStatus, kept, journal, call, trail, broken>>

\* The process dies, at any point of a call, and starts again: pending was
\* memory, everything else is on disk.
Restart ==
  /\ Crashes
  /\ pending' = [p \in Plan |-> << >>]
  /\ call' = NoCall
  /\ UNCHANGED <<ops, planStatus, disk>>

Next ==
  \/ \E p \in Plan, op \in Menu : Len(pending[p]) <= MaxOps /\ planStatus[p] = "none" /\ Stage(p, op)
  \/ \E p \in Plan : CreatePlan(p)
  \/ \E p \in Plan : Reject(p)
  \/ \E p \in Plan, excluded \in SUBSET OpIndex : BeginApply(p, excluded)
  \/ \E i \in OpIndex : ApplyOp(i)
  \/ ApplyOpThrows
  \/ \E i \in OpIndex : BackupBreaks(i) \/ WriteBreaks(i)
  \/ ApplyLoopEnds
  \/ WriteOutcome
  \/ WriteJournal
  \/ ReturnApply
  \/ \E p \in Plan : BeginUndo(p)
  \/ UndoEntry
  \/ UndoEntryThrows
  \/ ReturnUndo
  \/ \E x \in Path, c \in File : UserEdit(x, c)
  \/ Restart

Spec == Init /\ [][Next]_vars
-----------------------------------------------------------------------------
(***************************************************************************)
(* Properties                                                              *)
(***************************************************************************)

\* Step k of the trail of p, made by entry k of E, can be taken back from what
\* undo/<p>/ keeps.
StepReversible(p, E, k) ==
  LET op == ops[p][E[k].op]
      k0 == kept[p][E[k].op]
  IN /\ Undoes(op, trail[p][k + 1], k0)
     /\ Reversal(op, E[k], trail[p][k + 1], k0) = trail[p][k]

\* The files f are those after n steps, and these n can be taken back.
ReversibleFrom(p, E, n, f) ==
  /\ Len(trail[p]) = Len(E) + 1
  /\ n \in 0..Len(E)
  /\ f = trail[p][n + 1]
  /\ \A k \in 1..n : StepReversible(p, E, k)

ReversibleTo(p, E, n) == ReversibleFrom(p, E, n, files)

\* The files with the damage of a copy that broke half-way put right, from what
\* its operation kept.
Mended(p) ==
  IF broken[p] = {} THEN files
  ELSE LET i  == CHOOSE j \in broken[p] : TRUE
           op == ops[p][i]
           f  == trail[p][Len(trail[p])]
       IN Reversal(op, [op |-> i, existed |-> f[op.dst] # Absent], files, kept[p][i])

\* At every point of apply(), the process dying there included, the disk holds
\* what it takes to go back to the files as they were: a write copies the old
\* file before it replaces it, also when it breaks half-way, and a trashed file
\* is moved and not removed.
ApplyIsReversible ==
  call # NoCall /\ call.name = "apply" =>
    ReversibleFrom(call.plan, call.entries, Len(call.entries), Mended(call.plan))

\* The plan applied last, undone before anything else changed the files, gives
\* back exactly the files as they were before its apply(): no entry of it finds
\* less than it needs, unless a copy of the apply() broke half-way or the file
\* system refuses the undo.
UndoRestoresOriginal ==
  /\ \A p \in fresh : broken[p] = {} =>
       journal[p] # << >> /\ ReversibleTo(p, journal[p], Len(journal[p]))
  /\ Undoing /\ call.fresh /\ broken[call.plan] = {} =>
       ~call.failed /\ ReversibleTo(call.plan, journal[call.plan], call.left)

\* "The undo button brings back the original content of before", says the
\* README. This does not hold (StagingTorn.cfg): the operation whose copy broke
\* half-way has no entry in the journal, so its file stays damaged.
UndoBringsBackAll ==
  Undoing /\ call.fresh /\ call.left = 0 => files = trail[call.plan][1]

\* No undo makes a file of before the apply() vanish from the disk: each is
\* among the files or under undo/<p>/.
OriginalsSurvive ==
  \A p \in Plan, x \in Path : trail[p] # << >> /\ trail[p][1][x] # Absent =>
    \/ \E y \in Path : files[y] = trail[p][1][x]
    \/ \E i \in OpIndex : kept[p][i] = trail[p][1][x]

\* Between calls, a plan some operation of which was applied has its journal:
\* the undo button can take it back. This does not hold once the process may
\* die during an apply (StagingCrash.cfg): the journal is written last.
AppliedPlanHasJournal ==
  Idle => \A p \in Plan : Len(trail[p]) > 1 => journal[p] # << >>
=============================================================================
