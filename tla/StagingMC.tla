----------------------------- MODULE StagingMC -----------------------------
(* One plan over two paths. The menu holds a write to either (of a file     *)
(* that is there or not), a move of one onto the other and a deletion.      *)
EXTENDS Staging
CONSTANTS x, y, old, new

TwoPaths == {x, y}
TwoContents == {old, new}
Write(p, c) == [kind |-> "write", src |-> p, dst |-> p, body |-> c]
Move(p, q) == [kind |-> "move", src |-> p, dst |-> q, body |-> Absent]
Trash(p) == [kind |-> "trash", src |-> p, dst |-> p, body |-> Absent]

SmallMenu == {Write(x, new), Write(y, new), Move(x, y), Trash(x)}
=============================================================================
