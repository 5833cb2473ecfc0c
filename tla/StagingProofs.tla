---------------------------- MODULE StagingProofs ----------------------------
(***************************************************************************)
(* Theorems of Staging, for any plans, paths, contents and operations.     *)
(*                                                                         *)
(* That an undo gives back the files as they were rests on two facts: each *)
(* operation, with what it keeps, can be taken back (EffectReversible),    *)
(* and no two entries of a journal are of the same operation, so taking    *)
(* one back uses up nothing another needs (DistinctOps). The latter holds  *)
(* of the journal because it holds of the loop of apply(), which never     *)
(* comes back to an operation it has done.                                 *)
(***************************************************************************)
EXTENDS Staging, TLAPS

DistinctOps(E) == \A k, l \in 1..Len(E) : k # l => E[k].op # E[l].op

\* The entries E are of operations of p.
EntriesOf(p, E) == \A k \in 1..Len(E) : E[k].op \in 1..Len(ops[p])

InApply == call # NoCall /\ call.name = "apply"

ApplyInv ==
  InApply =>
    /\ planStatus[call.plan] # "none"
    /\ call.todo \subseteq 1..Len(ops[call.plan])
    /\ EntriesOf(call.plan, call.entries) /\ DistinctOps(call.entries)
    /\ \A k \in 1..Len(call.entries) : call.entries[k].op \notin call.todo
    /\ ReversibleFrom(call.plan, call.entries, Len(call.entries), Mended(call.plan))
    /\ broken[call.plan] # {} => call.todo = {}
    /\ call.step # "return" => fresh = {}

JournalInv ==
  \A p \in Plan :
    /\ EntriesOf(p, journal[p])
    /\ planStatus[p] = "none" => journal[p] = << >> /\ p \notin fresh

FreshInv ==
  \A p \in fresh :
    /\ journal[p] # << >> /\ DistinctOps(journal[p])
    /\ broken[p] = {} => ReversibleTo(p, journal[p], Len(journal[p]))

UndoInv ==
  Undoing =>
    /\ planStatus[call.plan] # "none"
    /\ fresh = {} /\ call.left \in 0..Len(journal[call.plan])
    /\ call.fresh => DistinctOps(journal[call.plan])
    /\ call.fresh /\ broken[call.plan] = {} =>
         ~call.failed /\ ReversibleTo(call.plan, journal[call.plan], call.left)

IInv == TypeOK /\ ApplyInv /\ JournalInv /\ FreshInv /\ UndoInv

USE DEF File, Files
-----------------------------------------------------------------------------
(***************************************************************************)
(* Operations                                                              *)
(***************************************************************************)
LEMMA OpFields ==
  ASSUME NEW op \in Op
  PROVE  /\ op.kind \in {"write", "move", "trash"} /\ op.src \in Path /\ op.dst \in Path
         /\ op.kind = "write" => op.body \in Content
BY DEF Op

LEMMA EffectType ==
  ASSUME NEW op \in Op, NEW f \in Files, NEW k \in File
  PROVE  Effect(op, f) \in Files /\ Keeps(op, f, k) \in File
BY OpFields DEF Effect, Keeps

LEMMA ReversalType ==
  ASSUME NEW op \in Op, NEW e \in Entry, NEW f \in Files, NEW k \in File
  PROVE  Reversal(op, e, f, k) \in Files
BY OpFields DEF Reversal, Entry

\* What an operation does, its entry and what it keeps take back exactly.
LEMMA EffectReversible ==
  ASSUME NEW op \in Op, NEW f \in Files, NEW k \in File, NEW e \in Entry,
         e.existed = (f[op.dst] # Absent), Applies(op, f)
  PROVE  /\ Undoes(op, Effect(op, f), Keeps(op, f, k))
         /\ Reversal(op, e, Effect(op, f), Keeps(op, f, k)) = f
<1>1. CASE op.kind = "write"
  BY <1>1, OpFields, ContentAssumption DEF Undoes, Effect, Keeps, Reversal
<1>2. CASE op.kind = "move"
  BY <1>2, OpFields DEF Applies, Undoes, Effect, Keeps, Reversal
<1>3. CASE op.kind = "trash"
  BY <1>3, OpFields DEF Applies, Undoes, Effect, Keeps, Reversal
<1> QED BY <1>1, <1>2, <1>3, OpFields
-----------------------------------------------------------------------------
(***************************************************************************)
(* Frames                                                                  *)
(***************************************************************************)

\* The fields of the call under way.
LEMMA CallFields ==
  ASSUME TypeOK
  PROVE  /\ InApply => /\ call \in [name : {"apply"}, plan : Plan,
                                    step : {"ops", "outcome", "journal", "return"},
                                    todo : SUBSET OpIndex, entries : Seq(Entry), failed : BOOLEAN]
                       /\ ~Undoing
         /\ Undoing => /\ call \in [name : {"undo"}, plan : Plan, left : Nat,
                                    failed : BOOLEAN, fresh : BOOLEAN]
                       /\ ~InApply
BY DEF TypeOK, Call, NoCall, InApply, Undoing

\* Steps that leave the disk, the plans' operations and the call alone, and no
\* plan without a status that had one.
LEMMA StatusFrame ==
  ASSUME IInv, TypeOK', UNCHANGED <<disk, ops, call>>,
         \A p \in Plan : planStatus'[p] = "none" => planStatus[p] = "none"
  PROVE  IInv'
<1> USE DEF disk
<1>1. ApplyInv'
  <2>1. \A p \in Plan, E \in Seq(Entry), k \in Nat : StepReversible(p, E, k)' = StepReversible(p, E, k)
    BY DEF StepReversible
  <2>2. \A p \in Plan : Mended(p)' = Mended(p)
    BY DEF Mended
  <2>3. \A n, f : \A p \in Plan, E \in Seq(Entry) :
          ReversibleFrom(p, E, n, f) => ReversibleFrom(p, E, n, f)'
    BY DEF ReversibleFrom, StepReversible
  <2>4. SUFFICES ASSUME InApply' PROVE ApplyInv'
    BY DEF ApplyInv
  <2>5. InApply /\ call.plan \in Plan /\ call.entries \in Seq(Entry) /\ call' = call
    BY <2>4, CallFields DEF IInv, InApply
  <2>6. ReversibleFrom(call.plan, call.entries, Len(call.entries), Mended(call.plan))'
    BY <2>2, <2>3, <2>5 DEF IInv, ApplyInv
  <2>7. EntriesOf(call.plan, call.entries)' /\ DistinctOps(call.entries)'
    BY <2>5 DEF IInv, ApplyInv, EntriesOf, DistinctOps
  <2> QED BY <2>5, <2>6, <2>7 DEF IInv, ApplyInv
<1>2. JournalInv'
  BY DEF IInv, JournalInv, EntriesOf
<1>3. \A n : \A p \in Plan, E \in Seq(Entry) : ReversibleTo(p, E, n) => ReversibleTo(p, E, n)'
  BY DEF ReversibleTo, ReversibleFrom, StepReversible
<1>4. FreshInv'
  <2>1. journal' = journal /\ broken' = broken /\ fresh' = fresh
    OBVIOUS
  <2>2. \A p \in fresh :
          /\ journal[p] # << >> /\ DistinctOps(journal[p])
          /\ broken[p] = {} => ReversibleTo(p, journal[p], Len(journal[p]))'
    <3>1. \A p \in fresh : p \in Plan /\ journal[p] \in Seq(Entry)
      BY DEF IInv, TypeOK
    <3> QED BY <1>3, <2>1, <3>1 DEF IInv, FreshInv
  <2> QED BY <2>1, <2>2 DEF FreshInv, DistinctOps
<1>5. UndoInv'
  <2>1. SUFFICES ASSUME Undoing' PROVE UndoInv'
    BY DEF UndoInv
  <2>2. /\ Undoing /\ call.plan \in Plan /\ journal[call.plan] \in Seq(Entry)
        /\ journal' = journal /\ broken' = broken /\ call' = call /\ fresh' = fresh
    BY <2>1, CallFields DEF IInv, TypeOK, Undoing
  <2>3. /\ planStatus'[call.plan] # "none"
        /\ fresh = {} /\ call.left \in 0..Len(journal[call.plan])
        /\ call.fresh => DistinctOps(journal[call.plan])
        /\ call.fresh /\ broken[call.plan] = {} =>
             ~call.failed /\ ReversibleTo(call.plan, journal[call.plan], call.left)
    BY <2>2 DEF IInv, UndoInv
  <2>4. call.fresh /\ broken[call.plan] = {} =>
          ReversibleTo(call.plan, journal[call.plan], call.left)'
    BY <1>3, <2>2, <2>3
  <2> QED BY <2>2, <2>3, <2>4 DEF UndoInv, DistinctOps
<1> QED BY <1>1, <1>2, <1>4, <1>5 DEF IInv

\* Steps after which no call is under way and nothing is fresh.
LEMMA QuietFrame ==
  ASSUME IInv, TypeOK', call' = NoCall, fresh' = {},
         UNCHANGED <<ops, journal>>,
         \A p \in Plan : planStatus'[p] = "none" => planStatus[p] = "none"
  PROVE  IInv'
BY DEF IInv, ApplyInv, JournalInv, FreshInv, UndoInv, InApply, Undoing, EntriesOf

\* Steps after which no call is under way, the disk as it was.
LEMMA CallEnds ==
  ASSUME IInv, TypeOK', call' = NoCall, UNCHANGED <<ops, disk>>,
         \A p \in Plan : planStatus'[p] = "none" => planStatus[p] = "none"
  PROVE  IInv'
<1> USE DEF disk
<1>1. FreshInv'
  BY DEF IInv, FreshInv, DistinctOps, ReversibleTo, ReversibleFrom, StepReversible
<1>2. ApplyInv' /\ UndoInv'
  BY DEF ApplyInv, UndoInv, InApply, Undoing
<1>3. JournalInv'
  BY DEF IInv, JournalInv, EntriesOf
<1> QED BY <1>1, <1>2, <1>3 DEF IInv
-----------------------------------------------------------------------------
(***************************************************************************)
(* The actions                                                             *)
(***************************************************************************)
LEMMA InitKeeps == Init => IInv
<1> SUFFICES ASSUME Init PROVE IInv
  OBVIOUS
<1>1. TypeOK
  BY MaxOpsAssumption DEF Init, TypeOK, PlanStatus, Call, NoCall
<1>2. ApplyInv /\ FreshInv /\ UndoInv
  BY DEF Init, ApplyInv, FreshInv, UndoInv, InApply, Undoing
<1>3. JournalInv
  BY DEF Init, JournalInv, EntriesOf
<1> QED BY <1>1, <1>2, <1>3 DEF IInv

LEMMA StageKeeps ==
  ASSUME IInv, NEW p \in Plan, NEW op \in Menu, Stage(p, op)
  PROVE  IInv'
<1>1. TypeOK'
  BY DEF IInv, TypeOK, Stage, disk
<1> QED BY <1>1, StatusFrame DEF Stage

LEMMA CreatePlanKeeps ==
  ASSUME IInv, NEW p \in Plan, CreatePlan(p)
  PROVE  IInv'
<1> USE DEF CreatePlan, disk
<1>1. TypeOK'
  <2>1. Len(pending[p]) <= MaxOps
    BY MaxOpsAssumption DEF IInv, TypeOK, TooMany
  <2> QED BY <2>1 DEF IInv, TypeOK, PlanStatus
<1>2. p \notin fresh /\ journal[p] = << >>
  BY DEF IInv, JournalInv
<1>3. /\ UNCHANGED <<files, kept, journal, trail, broken, fresh>>
      /\ fresh \subseteq Plan
      /\ \A q \in Plan \ {p} : ops'[q] = ops[q] /\ planStatus'[q] = planStatus[q]
  BY DEF IInv, TypeOK
<1>4. JournalInv'
  <2> SUFFICES ASSUME NEW q \in Plan
               PROVE  /\ EntriesOf(q, journal[q])'
                      /\ planStatus'[q] = "none" => journal'[q] = << >> /\ q \notin fresh'
    BY DEF JournalInv
  <2>1. CASE q = p
    BY <2>1, <1>2, <1>3 DEF EntriesOf
  <2>2. CASE q # p
    BY <2>2, <1>3 DEF IInv, JournalInv, EntriesOf
  <2> QED BY <2>1, <2>2
<1>5. FreshInv'
  <2> SUFFICES ASSUME NEW q \in fresh'
               PROVE  /\ journal'[q] # << >> /\ DistinctOps(journal[q])'
                      /\ broken'[q] = {} => ReversibleTo(q, journal[q], Len(journal[q]))'
    BY DEF FreshInv
  <2>1. q \in fresh /\ q \in Plan /\ ops'[q] = ops[q]
    BY <1>2, <1>3
  <2> HIDE DEF CreatePlan
  <2> QED BY <2>1, <1>3 DEF IInv, FreshInv, DistinctOps, ReversibleTo, ReversibleFrom, StepReversible
<1>6. ApplyInv' /\ UndoInv'
  BY DEF ApplyInv, UndoInv, InApply, Undoing, Idle
<1> QED BY <1>1, <1>4, <1>5, <1>6 DEF IInv

LEMMA RejectKeeps ==
  ASSUME IInv, NEW p \in Plan, Reject(p)
  PROVE  IInv'
<1>1. TypeOK'
  BY DEF IInv, TypeOK, Reject, disk, PlanStatus
<1>2. \A q \in Plan : planStatus'[q] = "none" => planStatus[q] = "none"
  BY DEF IInv, TypeOK, Reject
<1> QED BY <1>1, <1>2, StatusFrame DEF Reject

LEMMA BeginApplyKeeps ==
  ASSUME IInv, NEW p \in Plan, NEW excluded \in SUBSET OpIndex, BeginApply(p, excluded)
  PROVE  IInv'
<1> USE DEF BeginApply
<1> DEFINE todo == (1..Len(ops[p])) \ excluded
<1>1. /\ call' = [name |-> "apply", plan |-> p, step |-> "ops",
                 todo |-> todo, entries |-> << >>, failed |-> FALSE]
      /\ files' = files /\ ops' = ops /\ journal' = journal /\ kept' = kept /\ pending' = pending
      /\ fresh' = {} /\ planStatus'[p] # "none"
      /\ trail' = [trail EXCEPT ![p] = <<files>>] /\ planStatus[p] # "none"
      /\ broken' = [broken EXCEPT ![p] = {}]
  BY DEF IInv, TypeOK, Appliable
<1>2. todo \subseteq 1..Len(ops[p]) /\ todo \in SUBSET OpIndex
  BY MaxOpsAssumption DEF IInv, TypeOK, OpIndex
<1> HIDE DEF todo
<1>3. TypeOK'
  <2>1. call' \in Call
    BY <1>1, <1>2 DEF Call
  <2>2. trail' \in [Plan -> Seq(Files)]
    BY <1>1 DEF IInv, TypeOK
  <2>3. planStatus' \in [Plan -> PlanStatus]
    BY DEF IInv, TypeOK, PlanStatus
  <2>4. broken' \in [Plan -> SUBSET OpIndex]
    BY <1>1 DEF IInv, TypeOK
  <2> QED BY <1>1, <2>1, <2>2, <2>3, <2>4 DEF IInv, TypeOK
<1>4. ApplyInv'
  <2>1. broken'[p] = {} /\ Mended(p)' = files
    BY <1>1 DEF IInv, TypeOK, Mended
  <2> QED BY <1>1, <1>2, <2>1 DEF IInv, TypeOK, ApplyInv, EntriesOf, DistinctOps, ReversibleFrom
<1>5. JournalInv'
  BY <1>1 DEF IInv, TypeOK, JournalInv, EntriesOf
<1>6. FreshInv' /\ UndoInv'
  BY <1>1 DEF FreshInv, UndoInv, Undoing
<1> QED BY <1>3, <1>4, <1>5, <1>6 DEF IInv

\* The record of an apply() under way, and the same with some fields changed.
LEMMA ApplyCall ==
  ASSUME TypeOK, InApply
  PROVE  /\ call.plan \in Plan /\ call.todo \subseteq OpIndex
         /\ call.entries \in Seq(Entry) /\ call.failed \in BOOLEAN
         /\ call.name = "apply" /\ call # NoCall /\ ~Undoing
         /\ \A todo \in SUBSET OpIndex, E \in Seq(Entry) :
              [call EXCEPT !.todo = todo, !.entries = E] \in Call
         /\ \A step \in {"ops", "outcome", "journal", "return"} :
              [call EXCEPT !.step = step] \in Call
         /\ \A todo \in SUBSET OpIndex, failed \in BOOLEAN :
              [call EXCEPT !.todo = todo, !.failed = failed] \in Call
<1> DEFINE Rec == [name : {"apply"}, plan : Plan,
                    step : {"ops", "outcome", "journal", "return"},
                    todo : SUBSET OpIndex, entries : Seq(Entry), failed : BOOLEAN]
<1>1. call \in Rec /\ ~Undoing /\ call.name = "apply" /\ call # NoCall
  BY CallFields DEF InApply
<1>2. Rec \subseteq Call
  BY DEF Call
<1>3. /\ call.plan \in Plan /\ call.todo \subseteq OpIndex
      /\ call.entries \in Seq(Entry) /\ call.failed \in BOOLEAN
  BY <1>1
<1>4. /\ \A todo \in SUBSET OpIndex, E \in Seq(Entry) :
            [call EXCEPT !.todo = todo, !.entries = E] \in Rec
      /\ \A step \in {"ops", "outcome", "journal", "return"} :
            [call EXCEPT !.step = step] \in Rec
      /\ \A todo \in SUBSET OpIndex, failed \in BOOLEAN :
            [call EXCEPT !.todo = todo, !.failed = failed] \in Rec
  BY <1>1
<1> HIDE DEF Rec
<1> QED BY <1>1, <1>2, <1>3, <1>4

\* One operation more, at the end of the entries and of the trail.
LEMMA ApplyOpKeeps ==
  ASSUME IInv, NEW i \in OpIndex, ApplyOp(i)
  PROVE  IInv'
<1>1. /\ InApply /\ call.step = "ops" /\ i \in call.todo
      /\ UNCHANGED <<pending, ops, planStatus, journal, broken, fresh>>
  BY DEF ApplyOp, Applying, First, InApply
<1>2. /\ call.plan \in Plan /\ call.todo \subseteq OpIndex /\ call.entries \in Seq(Entry)
      /\ call.failed \in BOOLEAN /\ ~Undoing
  BY <1>1, ApplyCall DEF IInv
<1>3. PICK p \in Plan : p = call.plan
  BY <1>2
<1>4. PICK E \in Seq(Entry) : E = call.entries
  BY <1>2
<1>5. /\ planStatus[p] # "none" /\ call.todo \subseteq 1..Len(ops[p])
      /\ EntriesOf(p, E) /\ DistinctOps(E) /\ fresh = {}
      /\ \A k \in 1..Len(E) : E[k].op \notin call.todo
      /\ ReversibleTo(p, E, Len(E)) /\ broken[p] = {}
  BY <1>1, <1>3, <1>4 DEF IInv, ApplyInv, Mended, ReversibleTo
<1>6. PICK op \in Op : op = ops[p][i]
  BY <1>1, <1>5, MenuAssumption DEF IInv, TypeOK
<1>7. files \in Files /\ kept[p][i] \in File
  BY DEF IInv, TypeOK
<1>8. PICK e \in Entry : e = [op |-> i, existed |-> files[op.dst] # Absent]
  <2>1. PICK found \in BOOLEAN : found = (files[op.dst] # Absent)
    OBVIOUS
  <2>2. [op |-> i, existed |-> found] \in Entry
    BY DEF Entry
  <2> QED BY <2>1, <2>2
<1>9. /\ Applies(op, files)
      /\ files' = Effect(op, files)
      /\ kept' = [kept EXCEPT ![p][i] = Keeps(op, files, kept[p][i])]
      /\ trail' = [trail EXCEPT ![p] = Append(@, files')]
      /\ call' = [call EXCEPT !.todo = call.todo \ {i}, !.entries = Append(E, e)]
  BY <1>3, <1>4, <1>6, <1>8 DEF ApplyOp
<1>10. files' \in Files /\ Keeps(op, files, kept[p][i]) \in File
  BY <1>7, <1>9, EffectType
<1>11. PICK n \in Nat : n = Len(E)
  BY <1>4
<1>12. PICK F \in Seq(Entry) : F = Append(E, e)
  <2>1. Append(E, e) \in Seq(Entry)
    BY <1>4, <1>8
  <2> QED BY <2>1
<1>13. Len(F) = n + 1 /\ F[n + 1] = e /\ \A k \in 1..n : F[k] = E[k]
  BY <1>4, <1>8, <1>11, <1>12
<1>14. /\ InApply' /\ ~Undoing' /\ call'.plan = p /\ call'.step = "ops"
       /\ call'.todo = call.todo \ {i} /\ call'.entries = F
  BY <1>1, <1>3, <1>9, <1>12, CallFields DEF IInv, InApply, Undoing, NoCall
<1>15. TypeOK'
  <2>1. call' \in Call
    BY <1>1, <1>2, <1>9, <1>12, ApplyCall DEF IInv
  <2>2. kept' \in [Plan -> [OpIndex -> File]]
    BY <1>9, <1>10 DEF IInv, TypeOK
  <2>3. trail' \in [Plan -> Seq(Files)]
    BY <1>9, <1>10 DEF IInv, TypeOK
  <2> QED BY <1>1, <1>10, <2>1, <2>2, <2>3 DEF IInv, TypeOK
<1>16. /\ Len(trail'[p]) = n + 2
       /\ trail'[p][n + 2] = files' /\ trail'[p][n + 1] = files
       /\ \A k \in 1..n + 1 : trail'[p][k] = trail[p][k]
  BY <1>5, <1>9, <1>10, <1>11 DEF IInv, TypeOK, ReversibleTo, ReversibleFrom
<1>17. /\ kept'[p][i] = Keeps(op, files, kept[p][i])
       /\ \A j \in OpIndex : j # i => kept'[p][j] = kept[p][j]
  BY <1>9 DEF IInv, TypeOK
<1>18. \A k \in 1..n : E[k].op \in OpIndex /\ E[k].op # i
  <2> SUFFICES ASSUME NEW k \in 1..n PROVE E[k].op \in OpIndex /\ E[k].op # i
    OBVIOUS
  <2>1. E[k] \in Entry /\ k \in 1..Len(E)
    BY <1>11
  <2> QED BY <2>1, <1>1, <1>5 DEF Entry
<1>19. ReversibleTo(p, F, n + 1)'
  <2>1. \A k \in 1..n : StepReversible(p, F, k)'
    <3> SUFFICES ASSUME NEW k \in 1..n PROVE StepReversible(p, F, k)'
      OBVIOUS
    <3>1. StepReversible(p, E, k)
      BY <1>5, <1>11 DEF ReversibleTo, ReversibleFrom
    <3>2. trail'[p][k + 1] = trail[p][k + 1] /\ trail'[p][k] = trail[p][k]
      BY <1>16
    <3> QED BY <3>1, <3>2, <1>1, <1>13, <1>17, <1>18 DEF StepReversible
  <2>2. StepReversible(p, F, n + 1)'
    <3>1. Undoes(op, files', kept'[p][i]) /\ Reversal(op, e, files', kept'[p][i]) = files
      BY <1>7, <1>8, <1>9, <1>17, EffectReversible
    <3> QED BY <3>1, <1>1, <1>6, <1>8, <1>13, <1>16 DEF StepReversible
  <2> QED BY <2>1, <2>2, <1>13, <1>16 DEF ReversibleTo, ReversibleFrom
<1>20. EntriesOf(p, F)' /\ DistinctOps(F) /\ \A k \in 1..Len(F) : F[k].op \notin call'.todo
  <2>1. \A k \in 1..n : F[k].op = E[k].op /\ F[k].op # i /\ F[k].op \notin call.todo
                         /\ F[k].op \in 1..Len(ops[p])
    BY <1>5, <1>11, <1>13, <1>18 DEF EntriesOf
  <2>2. F[n + 1].op = i /\ i \in 1..Len(ops[p])
    BY <1>1, <1>5, <1>8, <1>13
  <2>3. \A k \in 1..Len(F) : k \in 1..n \/ k = n + 1
    BY <1>13
  <2>4. EntriesOf(p, F)'
    BY <1>1, <2>1, <2>2, <2>3 DEF EntriesOf
  <2>5. DistinctOps(F)
    BY <1>5, <1>11, <2>1, <2>2, <2>3 DEF DistinctOps
  <2>6. \A k \in 1..Len(F) : F[k].op \notin call'.todo
    BY <1>14, <2>1, <2>2, <2>3
  <2> QED BY <2>4, <2>5, <2>6
<1>21. ApplyInv'
  <2>1. broken'[p] = {} /\ Mended(p)' = files'
    BY <1>1, <1>5 DEF Mended
  <2>2. ReversibleFrom(p, F, n + 1, files)'
    BY <1>19 DEF ReversibleTo
  <2> QED BY <1>1, <1>5, <1>13, <1>14, <1>20, <2>1, <2>2 DEF ApplyInv
<1>22. JournalInv'
  BY <1>1 DEF IInv, JournalInv, EntriesOf
<1>23. FreshInv' /\ UndoInv'
  BY <1>1, <1>5, <1>14 DEF FreshInv, UndoInv
<1> QED BY <1>15, <1>21, <1>22, <1>23 DEF IInv

\* The steps of apply() that leave the files and the entries alone.
LEMMA ApplyStepKeeps ==
  ASSUME IInv,
         \/ ApplyOpThrows
         \/ ApplyLoopEnds
         \/ WriteOutcome
  PROVE  IInv'
<1>1. /\ InApply /\ call.step # "return"
      /\ UNCHANGED <<files, pending, ops, journal, kept, trail, broken, fresh>>
  BY DEF ApplyOpThrows, ApplyLoopEnds, WriteOutcome, Applying, InApply, disk
<1>2. /\ call.plan \in Plan /\ call.todo \subseteq OpIndex /\ call.entries \in Seq(Entry)
      /\ call # NoCall /\ call.name = "apply" /\ ~Undoing
  BY <1>1, ApplyCall DEF IInv
<1>3. PICK p \in Plan : p = call.plan
  BY <1>2
<1>4. PICK E \in Seq(Entry) : E = call.entries
  BY <1>2
<1>5. /\ call' \in Call /\ InApply' /\ ~Undoing' /\ call'.plan = p /\ call'.entries = E
      /\ call'.todo \subseteq call.todo
  <2>1. CASE ApplyOpThrows
    BY <1>2, <1>3, <1>4, <1>1, <2>1, ApplyCall, CallFields
    DEF IInv, ApplyOpThrows, InApply, Undoing, NoCall
  <2>2. CASE ApplyLoopEnds
    BY <1>2, <1>3, <1>4, <1>1, <2>2, ApplyCall, CallFields
    DEF IInv, ApplyLoopEnds, InApply, Undoing, NoCall
  <2>3. CASE WriteOutcome
    BY <1>2, <1>3, <1>4, <1>1, <2>3, ApplyCall, CallFields
    DEF IInv, WriteOutcome, InApply, Undoing, NoCall
  <2> QED BY <2>1, <2>2, <2>3
<1>6. /\ planStatus' \in [Plan -> PlanStatus]
      /\ \A q \in Plan : planStatus'[q] = "none" => planStatus[q] = "none"
  BY <1>1 DEF IInv, TypeOK, ApplyOpThrows, ApplyLoopEnds, WriteOutcome, PlanStatus
<1>7. TypeOK'
  BY <1>1, <1>5, <1>6 DEF IInv, TypeOK
<1>8. /\ planStatus[p] # "none" /\ call.todo \subseteq 1..Len(ops[p])
      /\ EntriesOf(p, E) /\ DistinctOps(E) /\ fresh = {}
      /\ \A k \in 1..Len(E) : E[k].op \notin call.todo
      /\ ReversibleFrom(p, E, Len(E), Mended(p))
      /\ broken[p] # {} => call.todo = {}
  BY <1>1, <1>3, <1>4 DEF IInv, ApplyInv
<1>9. EntriesOf(p, E)' /\ ReversibleFrom(p, E, Len(E), Mended(p))'
  BY <1>1, <1>8 DEF EntriesOf, ReversibleFrom, StepReversible, Mended
<1>10. ApplyInv'
  BY <1>1, <1>5, <1>6, <1>8, <1>9 DEF ApplyInv
<1>11. JournalInv'
  BY <1>1, <1>6 DEF IInv, JournalInv, EntriesOf
<1>12. FreshInv' /\ UndoInv'
  BY <1>1, <1>5, <1>8 DEF FreshInv, UndoInv
<1> QED BY <1>7, <1>10, <1>11, <1>12 DEF IInv

\* A copy that breaks half-way ends the loop: what its operation kept puts its
\* damage right, and the entries are those of the operations before it.
LEMMA BackupBreaksKeeps ==
  ASSUME IInv, NEW i \in OpIndex, BackupBreaks(i)
  PROVE  IInv'
<1>1. /\ InApply /\ call.step = "ops" /\ i \in call.todo
      /\ call' = [call EXCEPT !.todo = {}, !.failed = TRUE]
      /\ UNCHANGED <<files, pending, ops, planStatus, journal, trail, broken, fresh>>
  BY DEF BackupBreaks, Applying, First, InApply
<1>2. PICK p \in Plan : p = call.plan
  BY <1>1, ApplyCall DEF IInv
<1>3. PICK E \in Seq(Entry) : E = call.entries
  BY <1>1, ApplyCall DEF IInv
<1>4. /\ planStatus[p] # "none" /\ EntriesOf(p, E) /\ DistinctOps(E) /\ fresh = {}
      /\ \A k \in 1..Len(E) : E[k].op \notin call.todo
      /\ ReversibleTo(p, E, Len(E)) /\ broken[p] = {}
  BY <1>1, <1>2, <1>3 DEF IInv, ApplyInv, Mended, ReversibleTo
<1>5. PICK rest \in File : kept' = [kept EXCEPT ![p][i] = rest]
  BY <1>2 DEF BackupBreaks
<1>6. /\ call' \in Call /\ InApply' /\ ~Undoing' /\ call'.plan = p /\ call'.entries = E
      /\ call'.todo = {}
  BY <1>1, <1>2, <1>3, ApplyCall, CallFields DEF IInv, InApply, Undoing, NoCall
<1>7. TypeOK'
  BY <1>1, <1>5, <1>6 DEF IInv, TypeOK
<1>8. \A k \in 1..Len(E) : E[k].op \in OpIndex /\ E[k].op # i
  <2> SUFFICES ASSUME NEW k \in 1..Len(E) PROVE E[k].op \in OpIndex /\ E[k].op # i
    OBVIOUS
  <2>1. E[k] \in Entry
    BY <1>3
  <2> QED BY <2>1, <1>1, <1>4 DEF Entry
<1>9. \A k \in 1..Len(E) : kept'[p][E[k].op] = kept[p][E[k].op]
  BY <1>5, <1>8 DEF IInv, TypeOK
<1>10. ReversibleTo(p, E, Len(E))' /\ EntriesOf(p, E)'
  BY <1>1, <1>4, <1>9 DEF ReversibleTo, ReversibleFrom, StepReversible, EntriesOf
<1>11. ApplyInv'
  BY <1>1, <1>4, <1>6, <1>10 DEF ApplyInv, Mended, ReversibleTo
<1>12. JournalInv'
  BY <1>1 DEF IInv, JournalInv, EntriesOf
<1>13. FreshInv' /\ UndoInv'
  BY <1>1, <1>4, <1>6 DEF FreshInv, UndoInv
<1> QED BY <1>7, <1>11, <1>12, <1>13 DEF IInv

LEMMA WriteBreaksKeeps ==
  ASSUME IInv, NEW i \in OpIndex, WriteBreaks(i)
  PROVE  IInv'
<1>1. /\ InApply /\ call.step = "ops" /\ i \in call.todo
      /\ call' = [call EXCEPT !.todo = {}, !.failed = TRUE]
      /\ UNCHANGED <<pending, ops, planStatus, journal, trail, fresh>>
  BY DEF WriteBreaks, Applying, First, InApply
<1>2. PICK p \in Plan : p = call.plan
  BY <1>1, ApplyCall DEF IInv
<1>3. PICK E \in Seq(Entry) : E = call.entries
  BY <1>1, ApplyCall DEF IInv
<1>4. /\ planStatus[p] # "none" /\ EntriesOf(p, E) /\ DistinctOps(E) /\ fresh = {}
      /\ \A k \in 1..Len(E) : E[k].op \notin call.todo
      /\ call.todo \subseteq 1..Len(ops[p])
      /\ ReversibleTo(p, E, Len(E)) /\ broken[p] = {}
  BY <1>1, <1>2, <1>3 DEF IInv, ApplyInv, Mended, ReversibleTo
<1>5. PICK op \in Op : op = ops[p][i]
  BY <1>1, <1>4, MenuAssumption DEF IInv, TypeOK
<1>6. PICK rest \in File :
        /\ op.kind = "write"
        /\ files' = [files EXCEPT ![op.dst] = rest]
        /\ kept' = [kept EXCEPT ![p][i] = Keeps(op, files, kept[p][i])]
        /\ broken' = [broken EXCEPT ![p] = {i}]
  BY <1>2, <1>5 DEF WriteBreaks
<1>7. /\ call' \in Call /\ InApply' /\ ~Undoing' /\ call'.plan = p /\ call'.entries = E
      /\ call'.todo = {}
  BY <1>1, <1>2, <1>3, ApplyCall, CallFields DEF IInv, InApply, Undoing, NoCall
<1>8. files \in Files /\ kept[p][i] \in File
  BY DEF IInv, TypeOK
<1>9. files' \in Files /\ Keeps(op, files, kept[p][i]) \in File
  BY <1>6, <1>8, EffectType, OpFields
<1>10. TypeOK'
  <2>1. kept' \in [Plan -> [OpIndex -> File]] /\ broken' \in [Plan -> SUBSET OpIndex]
    BY <1>6, <1>9 DEF IInv, TypeOK
  <2> QED BY <1>1, <1>7, <1>9, <2>1 DEF IInv, TypeOK
<1>11. \A k \in 1..Len(E) : E[k].op \in OpIndex /\ E[k].op # i
  <2> SUFFICES ASSUME NEW k \in 1..Len(E) PROVE E[k].op \in OpIndex /\ E[k].op # i
    OBVIOUS
  <2>1. E[k] \in Entry
    BY <1>3
  <2> QED BY <2>1, <1>1, <1>4 DEF Entry
<1>12. /\ \A k \in 1..Len(E) : kept'[p][E[k].op] = kept[p][E[k].op]
       /\ kept'[p][i] = Keeps(op, files, kept[p][i])
       /\ broken'[p] = {i}
  BY <1>6, <1>11 DEF IInv, TypeOK
<1>13. /\ \A k \in 1..Len(E) : StepReversible(p, E, k)'
       /\ trail'[p][Len(trail'[p])] = files
  BY <1>1, <1>4, <1>12 DEF ReversibleTo, ReversibleFrom, StepReversible
<1>14. Mended(p)' = files
  <2>1. PICK e \in Entry : e = [op |-> i, existed |-> files[op.dst] # Absent]
    <3>1. PICK found \in BOOLEAN : found = (files[op.dst] # Absent)
      OBVIOUS
    <3>2. [op |-> i, existed |-> found] \in Entry
      BY DEF Entry
    <3> QED BY <3>1, <3>2
  <2>2. e.existed = (files[op.dst] # Absent)
    BY <2>1
  <2>3. Reversal(op, e, files', kept'[p][i]) = files
    <3>1. CASE files[op.dst] # Absent
      <4>1. e.existed /\ kept'[p][i] = files[op.dst]
        BY <3>1, <2>2, <1>6, <1>12 DEF Keeps
      <4> QED BY <4>1, <1>6, <1>8, OpFields DEF Reversal
    <3>2. CASE files[op.dst] = Absent
      <4>1. ~e.existed
        BY <3>2, <2>2
      <4> QED BY <4>1, <3>2, <1>6, <1>8, OpFields DEF Reversal
    <3> QED BY <3>1, <3>2
  <2>4. broken'[p] # {} /\ (CHOOSE j \in broken'[p] : TRUE) = i
    BY <1>12
  <2>5. Mended(p)' = Reversal(op, e, files', kept'[p][i])
    BY <1>1, <1>5, <1>13, <2>1, <2>4 DEF Mended
  <2> QED BY <2>3, <2>5
<1>15. ReversibleFrom(p, E, Len(E), Mended(p))' /\ EntriesOf(p, E)'
  BY <1>1, <1>4, <1>13, <1>14 DEF ReversibleTo, ReversibleFrom, EntriesOf
<1>16. ApplyInv'
  BY <1>1, <1>4, <1>7, <1>15 DEF ApplyInv
<1>17. JournalInv'
  BY <1>1 DEF IInv, JournalInv, EntriesOf
<1>18. FreshInv' /\ UndoInv'
  BY <1>1, <1>4, <1>7 DEF FreshInv, UndoInv
<1> QED BY <1>10, <1>16, <1>17, <1>18 DEF IInv

\* The entries become the journal.
LEMMA WriteJournalKeeps ==
  ASSUME IInv, WriteJournal
  PROVE  IInv'
<1>1. /\ InApply /\ call.step = "journal" /\ call' = [call EXCEPT !.step = "return"]
      /\ UNCHANGED <<files, pending, ops, planStatus, kept, trail, broken>>
  BY DEF WriteJournal, Applying, InApply
<1>2. /\ call.plan \in Plan /\ call.todo \subseteq OpIndex /\ call.entries \in Seq(Entry)
      /\ call # NoCall /\ call.name = "apply" /\ ~Undoing
  BY <1>1, ApplyCall DEF IInv
<1>3. PICK p \in Plan : p = call.plan
  BY <1>2
<1>4. PICK E \in Seq(Entry) : E = call.entries
  BY <1>2
<1>5. /\ call' \in Call /\ InApply' /\ ~Undoing' /\ call'.plan = p /\ call'.entries = E
      /\ call'.todo = call.todo /\ call'.step = "return"
  BY <1>1, <1>2, <1>3, <1>4, ApplyCall, CallFields DEF IInv, InApply, Undoing, NoCall
<1>6. /\ planStatus[p] # "none" /\ call.todo \subseteq 1..Len(ops[p])
      /\ EntriesOf(p, E) /\ DistinctOps(E) /\ fresh = {}
      /\ \A k \in 1..Len(E) : E[k].op \notin call.todo
      /\ ReversibleFrom(p, E, Len(E), Mended(p))
      /\ broken[p] # {} => call.todo = {}
  BY <1>1, <1>3, <1>4 DEF IInv, ApplyInv
<1>7. \/ journal' = journal /\ fresh' = {}
      \/ E # << >> /\ journal' = [journal EXCEPT ![p] = E] /\ fresh' = {p}
  BY <1>3, <1>4, <1>6 DEF WriteJournal
<1>8. EntriesOf(p, E)' /\ ReversibleFrom(p, E, Len(E), Mended(p))'
  BY <1>1, <1>6 DEF EntriesOf, ReversibleFrom, StepReversible, Mended
<1>9. TypeOK'
  BY <1>1, <1>4, <1>5, <1>7 DEF IInv, TypeOK
<1>10. ApplyInv'
  BY <1>1, <1>5, <1>6, <1>8 DEF ApplyInv
<1>11. JournalInv'
  BY <1>1, <1>6, <1>7 DEF IInv, TypeOK, JournalInv, EntriesOf
<1>12. FreshInv'
  <2>1. CASE fresh' = {}
    BY <2>1 DEF FreshInv
  <2>2. CASE E # << >> /\ journal' = [journal EXCEPT ![p] = E] /\ fresh' = {p}
    <3>1. journal'[p] = E
      BY <2>2 DEF IInv, TypeOK
    <3>2. /\ broken'[p] = {} => ReversibleTo(p, journal[p], Len(journal[p]))'
          /\ DistinctOps(journal[p])'
      BY <3>1, <1>6, <1>8 DEF ReversibleTo, ReversibleFrom, StepReversible, Mended, DistinctOps
    <3> QED BY <2>2, <3>1, <3>2 DEF FreshInv
  <2> QED BY <1>7, <2>1, <2>2
<1>13. UndoInv'
  BY <1>5 DEF UndoInv
<1> QED BY <1>9, <1>10, <1>11, <1>12, <1>13 DEF IInv

LEMMA ReturnApplyKeeps ==
  ASSUME IInv, ReturnApply
  PROVE  IInv'
<1>1. TypeOK'
  BY DEF IInv, TypeOK, ReturnApply, disk, Call
<1> QED BY <1>1, CallEnds DEF ReturnApply

LEMMA BeginUndoKeeps ==
  ASSUME IInv, NEW p \in Plan, BeginUndo(p)
  PROVE  IInv'
<1>1. /\ planStatus[p] # "none" /\ journal[p] # << >> /\ fresh' = {}
      /\ call' = [name |-> "undo", plan |-> p, left |-> Len(journal[p]),
                  failed |-> FALSE, fresh |-> p \in fresh]
      /\ UNCHANGED <<files, pending, ops, planStatus, kept, journal, trail, broken>>
  BY DEF BeginUndo
<1>2. PICK b \in BOOLEAN : b = (p \in fresh)
  <2>1. CASE p \in fresh
    <3>1. TRUE = (p \in fresh)
      BY <2>1
    <3> QED BY <3>1, Zenon
  <2>2. CASE p \notin fresh
    <3>1. FALSE = (p \in fresh)
      BY <2>2
    <3> QED BY <3>1, Zenon
  <2> QED BY <2>1, <2>2
<1>3. Len(journal[p]) \in Nat
  BY DEF IInv, TypeOK
<1>4. /\ call' \in Call /\ Undoing' /\ ~InApply' /\ call'.plan = p /\ call'.left = Len(journal[p])
      /\ ~call'.failed /\ call'.fresh = b
  BY <1>1, <1>2, <1>3 DEF Call, Undoing, InApply, NoCall
<1>5. TypeOK'
  BY <1>1, <1>4 DEF IInv, TypeOK
<1>6. ApplyInv' /\ FreshInv'
  BY <1>1, <1>4 DEF ApplyInv, FreshInv
<1>7. JournalInv'
  BY <1>1 DEF IInv, JournalInv, EntriesOf
<1>8. UndoInv'
  <2>1. b => /\ broken[p] = {} => ReversibleTo(p, journal[p], Len(journal[p]))
             /\ DistinctOps(journal[p])
    BY <1>2 DEF IInv, FreshInv
  <2>2. b => /\ broken'[p] = {} => ReversibleTo(p, journal[p], Len(journal[p]))'
             /\ DistinctOps(journal[p])'
    BY <1>1, <2>1 DEF ReversibleTo, ReversibleFrom, StepReversible, DistinctOps
  <2> QED BY <1>1, <1>3, <1>4, <2>2 DEF UndoInv, ReversibleTo, ReversibleFrom, StepReversible, DistinctOps
<1> QED BY <1>5, <1>6, <1>7, <1>8 DEF IInv

\* An entry taken back: the files are as one step before, and the copies of
\* the entries still to take back are untouched.
LEMMA UndoEntryKeeps ==
  ASSUME IInv, UndoEntry
  PROVE  IInv'
<1>1. /\ Undoing /\ call.left > 0 /\ ~InApply
      /\ UNCHANGED <<pending, ops, planStatus, journal, trail, broken, fresh>>
      /\ call \in [name : {"undo"}, plan : Plan, left : Nat, failed : BOOLEAN, fresh : BOOLEAN]
  BY CallFields DEF UndoEntry, IInv
<1>2. PICK p \in Plan : p = call.plan
  BY <1>1
<1>3. PICK n \in Nat : n = call.left /\ n > 0
  BY <1>1
<1>4. PICK J \in Seq(Entry) : J = journal[p]
  BY DEF IInv, TypeOK
<1>5. /\ planStatus[p] # "none" /\ fresh = {} /\ n \in 1..Len(J)
      /\ EntriesOf(p, J)
      /\ call.fresh => DistinctOps(J)
      /\ call.fresh /\ broken[p] = {} => ~call.failed /\ ReversibleTo(p, J, n)
  BY <1>1, <1>2, <1>3, <1>4 DEF IInv, UndoInv, JournalInv
<1>6. PICK e \in Entry : e = J[n]
  BY <1>4, <1>5
<1>7. e.op \in 1..Len(ops[p]) /\ e.op \in OpIndex
  BY <1>5, <1>6 DEF EntriesOf, Entry
<1>8. PICK op \in Op : op = ops[p][e.op]
  BY <1>7, MenuAssumption DEF IInv, TypeOK
<1>9. PICK k \in File : k = kept[p][e.op]
  BY <1>7 DEF IInv, TypeOK
<1> DEFINE TakenBack == /\ Undoes(op, files, k)
                        /\ files' = Reversal(op, e, files, k)
                        /\ kept' = IF op.kind = "trash" THEN [kept EXCEPT ![p][e.op] = Absent] ELSE kept
                        /\ call' = [call EXCEPT !.left = n - 1]
           Fails == /\ ~Undoes(op, files, k)
                    /\ call' = [call EXCEPT !.left = n - 1, !.failed = TRUE]
                    /\ UNCHANGED <<files, kept>>
<1>10. TakenBack \/ Fails
  BY <1>2, <1>3, <1>4, <1>6, <1>8, <1>9 DEF UndoEntry, NextEntry
<1>11. /\ call' \in [name : {"undo"}, plan : Plan, left : Nat, failed : BOOLEAN, fresh : BOOLEAN]
       /\ call'.plan = p /\ call'.left = n - 1 /\ call'.fresh = call.fresh
       /\ call'.name = "undo"
  <2>1. n - 1 \in Nat
    BY <1>3
  <2>2. CASE TakenBack
    BY <1>1, <1>2, <2>1, <2>2
  <2>3. CASE Fails
    BY <1>1, <1>2, <2>1, <2>3
  <2> QED BY <1>10, <2>2, <2>3
<1>12. Undoing' /\ ~InApply' /\ call' \in Call
  BY <1>11 DEF Undoing, InApply, NoCall, Call
<1>13. files' \in Files
  <2>1. files \in Files
    BY DEF IInv, TypeOK
  <2>2. Reversal(op, e, files, k) \in Files
    BY <2>1, ReversalType
  <2> QED BY <1>10, <2>1, <2>2
<1>14. kept' \in [Plan -> [OpIndex -> File]]
  <2>1. kept \in [Plan -> [OpIndex -> File]] /\ Absent \in File
    BY DEF IInv, TypeOK
  <2>2. [kept EXCEPT ![p][e.op] = Absent] \in [Plan -> [OpIndex -> File]]
    BY <2>1, <1>7
  <2>3. kept' = kept \/ kept' = [kept EXCEPT ![p][e.op] = Absent]
    BY <1>10
  <2> QED BY <2>1, <2>2, <2>3
<1>15. TypeOK'
  BY <1>1, <1>12, <1>13, <1>14 DEF IInv, TypeOK
<1>16. ApplyInv' /\ FreshInv'
  BY <1>1, <1>5, <1>12 DEF ApplyInv, FreshInv
<1>17. JournalInv'
  BY <1>1 DEF IInv, JournalInv, EntriesOf
<1>18. ASSUME call.fresh, broken[p] = {}
       PROVE  ~call'.failed /\ ReversibleTo(p, J, n - 1)'
  <2>1. /\ ~call.failed /\ DistinctOps(J) /\ ReversibleTo(p, J, n)
    BY <1>5, <1>18
  <2>2. StepReversible(p, J, n) /\ files = trail[p][n + 1]
    BY <1>5, <2>1 DEF ReversibleTo, ReversibleFrom
  <2>3. Undoes(op, files, k) /\ Reversal(op, e, files, k) = trail[p][n]
    BY <2>2, <1>6, <1>8, <1>9 DEF StepReversible
  <2>4. files' = trail[p][n] /\ ~call'.failed
    BY <2>1, <2>3, <1>1, <1>10
  <2>5. \A l \in 1..n - 1 : J[l].op \in OpIndex /\ J[l].op # e.op
    <3> SUFFICES ASSUME NEW l \in 1..n - 1 PROVE J[l].op \in OpIndex /\ J[l].op # e.op
      OBVIOUS
    <3>1. l \in 1..Len(J) /\ l # n
      BY <1>3, <1>5
    <3>2. J[l] \in Entry
      BY <3>1
    <3> QED BY <3>1, <3>2, <1>5, <1>6, <2>1 DEF DistinctOps, Entry
  <2>6. \A j \in OpIndex : j # e.op => kept'[p][j] = kept[p][j]
    BY <2>3, <1>7, <1>10 DEF IInv, TypeOK
  <2>7. \A l \in 1..n - 1 : StepReversible(p, J, l)'
    <3> SUFFICES ASSUME NEW l \in 1..n - 1 PROVE StepReversible(p, J, l)'
      OBVIOUS
    <3>1. StepReversible(p, J, l)
      BY <2>1 DEF ReversibleTo, ReversibleFrom
    <3> QED BY <3>1, <2>5, <2>6, <1>1 DEF StepReversible
  <2> QED BY <2>1, <2>4, <2>7, <1>1, <1>3, <1>5 DEF ReversibleTo, ReversibleFrom
<1>19. UndoInv'
  <2>1. /\ call'.fresh => DistinctOps(J)
        /\ call'.fresh /\ broken'[p] = {} => ~call'.failed /\ ReversibleTo(p, J, n - 1)'
    BY <1>1, <1>5, <1>11, <1>18
  <2>2. n - 1 \in 0..Len(J)
    BY <1>3, <1>5
  <2>3. journal'[p] = J
    BY <1>1, <1>4
  <2>4. ReversibleTo(call.plan, journal[call.plan], call.left)' <=> ReversibleTo(p, J, n - 1)'
    BY <2>3, <1>11 DEF ReversibleTo, ReversibleFrom, StepReversible
  <2>5. DistinctOps(journal[call.plan])' <=> DistinctOps(J)
    BY <2>3, <1>11 DEF DistinctOps
  <2>6. /\ planStatus'[call'.plan] # "none" /\ fresh' = {}
        /\ call'.left \in 0..Len(journal'[call'.plan])
    BY <2>2, <2>3, <1>1, <1>5, <1>11
  <2>7. call'.plan = p
    BY <1>11
  <2> QED BY <2>1, <2>4, <2>5, <2>6, <2>7 DEF UndoInv
<1> QED BY <1>15, <1>16, <1>17, <1>19 DEF IInv

\* The file system refuses: nothing is said of this undo any more.
LEMMA UndoEntryThrowsKeeps ==
  ASSUME IInv, UndoEntryThrows
  PROVE  IInv'
<1>1. /\ Undoing /\ call.left > 0 /\ ~InApply
      /\ call' = [call EXCEPT !.left = @ - 1, !.failed = TRUE, !.fresh = FALSE]
      /\ UNCHANGED <<pending, ops, planStatus, kept, journal, trail, broken, fresh>>
      /\ call \in [name : {"undo"}, plan : Plan, left : Nat, failed : BOOLEAN, fresh : BOOLEAN]
  BY CallFields DEF UndoEntryThrows, IInv
<1>2. PICK p \in Plan : p = call.plan
  BY <1>1
<1>3. PICK n \in Nat : n = call.left /\ n > 0
  BY <1>1
<1>4. PICK J \in Seq(Entry) : J = journal[p]
  BY DEF IInv, TypeOK
<1>5. /\ planStatus[p] # "none" /\ fresh = {} /\ n \in 1..Len(J) /\ EntriesOf(p, J)
  BY <1>1, <1>2, <1>3, <1>4 DEF IInv, UndoInv, JournalInv
<1>6. PICK e \in Entry : e = J[n]
  BY <1>4, <1>5
<1>7. PICK op \in Op : op = ops[p][e.op]
  <2>1. ops[p] \in Seq(Menu)
    BY DEF IInv, TypeOK
  <2>2. e.op \in 1..Len(ops[p])
    BY <1>5, <1>6 DEF EntriesOf
  <2> QED BY <2>1, <2>2, MenuAssumption
<1>8. files' = files \/ \E rest \in File : files' = [files EXCEPT ![op.dst] = rest]
  BY <1>2, <1>3, <1>4, <1>6, <1>7 DEF UndoEntryThrows, NextEntry
<1>9. files' \in Files
  BY <1>8, OpFields DEF IInv, TypeOK
<1>10. n - 1 \in Nat /\ n - 1 \in 0..Len(J)
  BY <1>3, <1>5
<1>11. /\ call' \in [name : {"undo"}, plan : Plan, left : Nat, failed : BOOLEAN, fresh : BOOLEAN]
       /\ call'.plan = p /\ call'.left = n - 1 /\ ~call'.fresh /\ call'.name = "undo"
  BY <1>1, <1>2, <1>3, <1>10
<1>12. Undoing' /\ ~InApply' /\ call' \in Call
  BY <1>11 DEF Undoing, InApply, NoCall, Call
<1>13. TypeOK'
  BY <1>1, <1>9, <1>12 DEF IInv, TypeOK
<1>14. ApplyInv' /\ FreshInv'
  BY <1>1, <1>5, <1>12 DEF ApplyInv, FreshInv
<1>15. JournalInv'
  BY <1>1 DEF IInv, JournalInv, EntriesOf
<1>16. UndoInv'
  BY <1>1, <1>4, <1>5, <1>10, <1>11 DEF UndoInv
<1> QED BY <1>13, <1>14, <1>15, <1>16 DEF IInv

LEMMA ReturnUndoKeeps ==
  ASSUME IInv, ReturnUndo
  PROVE  IInv'
<1>1. TypeOK'
  BY CallFields DEF IInv, TypeOK, ReturnUndo, disk, Call, PlanStatus
<1>2. \A p \in Plan : planStatus'[p] = "none" => planStatus[p] = "none"
  BY DEF IInv, TypeOK, ReturnUndo
<1> QED BY <1>1, <1>2, CallEnds DEF ReturnUndo

LEMMA UserEditKeeps ==
  ASSUME IInv, NEW x \in Path, NEW c \in File, UserEdit(x, c)
  PROVE  IInv'
<1>1. TypeOK'
  BY DEF IInv, TypeOK, UserEdit
<1> QED BY <1>1, QuietFrame DEF UserEdit, Idle

LEMMA RestartKeeps ==
  ASSUME IInv, Restart
  PROVE  IInv'
<1>1. TypeOK'
  BY DEF IInv, TypeOK, Restart, disk, Call
<1> QED BY <1>1, CallEnds DEF Restart
-----------------------------------------------------------------------------
LEMMA NextKeeps == IInv /\ [Next]_vars => IInv'
<1> SUFFICES ASSUME IInv, [Next]_vars PROVE IInv'
  OBVIOUS
<1>1. CASE \E p \in Plan, op \in Menu : Stage(p, op)
  BY <1>1, StageKeeps
<1>2. CASE \E p \in Plan : CreatePlan(p)
  BY <1>2, CreatePlanKeeps
<1>3. CASE \E p \in Plan : Reject(p)
  BY <1>3, RejectKeeps
<1>4. CASE \E p \in Plan, excluded \in SUBSET OpIndex : BeginApply(p, excluded)
  BY <1>4, BeginApplyKeeps
<1>5. CASE \E i \in OpIndex : ApplyOp(i)
  BY <1>5, ApplyOpKeeps
<1>6. CASE ApplyOpThrows \/ ApplyLoopEnds \/ WriteOutcome
  BY <1>6, ApplyStepKeeps
<1>7. CASE WriteJournal
  BY <1>7, WriteJournalKeeps
<1>8. CASE ReturnApply
  BY <1>8, ReturnApplyKeeps
<1>9. CASE \E p \in Plan : BeginUndo(p)
  BY <1>9, BeginUndoKeeps
<1>10. CASE UndoEntry
  BY <1>10, UndoEntryKeeps
<1>11. CASE ReturnUndo
  BY <1>11, ReturnUndoKeeps
<1>12. CASE \E x \in Path, c \in File : UserEdit(x, c)
  BY <1>12, UserEditKeeps
<1>13. CASE Restart
  BY <1>13, RestartKeeps
<1>15. CASE \E i \in OpIndex : BackupBreaks(i) \/ WriteBreaks(i)
  BY <1>15, BackupBreaksKeeps, WriteBreaksKeeps
<1>16. CASE UndoEntryThrows
  BY <1>16, UndoEntryThrowsKeeps
<1>14. CASE UNCHANGED vars
  <2>1. TypeOK' /\ \A p \in Plan : planStatus'[p] = "none" => planStatus[p] = "none"
    BY <1>14 DEF vars, IInv, TypeOK
  <2> QED BY <1>14, <2>1, StatusFrame DEF vars, disk
<1> QED BY <1>1, <1>2, <1>3, <1>4, <1>5, <1>6, <1>7, <1>8, <1>9, <1>10, <1>11, <1>12, <1>13, <1>14, <1>15, <1>16
    DEF Next

\* The strengthened invariant holds of every behaviour of the store.
THEOREM Invariant == Spec => []IInv
<1>1. Init => IInv
  BY InitKeeps
<1>2. IInv /\ [Next]_vars => IInv'
  BY NextKeeps
<1> QED BY <1>1, <1>2, PTL DEF Spec

\* The types of the store's state.
THEOREM TypeCorrect == Spec => []TypeOK
<1>1. IInv => TypeOK
  BY DEF IInv
<1> QED BY <1>1, Invariant, PTL

\* Whatever the operations of a plan, at every point of apply() what the disk
\* keeps takes the files back to what they were before it.
THEOREM ApplyReversible == Spec => []ApplyIsReversible
<1>1. IInv => ApplyIsReversible
  BY DEF IInv, ApplyInv, ApplyIsReversible, InApply
<1> QED BY <1>1, Invariant, PTL

\* Whatever the operations of a plan, undoing it before anything else changes
\* the files gives back every file as it was, and no entry fails.
THEOREM UndoRestores == Spec => []UndoRestoresOriginal
<1>1. IInv => UndoRestoresOriginal
  BY DEF IInv, FreshInv, UndoInv, UndoRestoresOriginal
<1> QED BY <1>1, Invariant, PTL
=============================================================================
