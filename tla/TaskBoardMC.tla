---------------------------- MODULE TaskBoardMC ----------------------------
(* Three tasks over two agent types: one runs while two of its type queue.  *)
EXTENDS TaskBoard
=============================================================================
