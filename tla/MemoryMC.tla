------------------------------ MODULE MemoryMC ------------------------------
(* Two compactions in flight over layers of two or three.                   *)
EXTENDS Memory, TLC

Alike == Permutations(Worker) \cup Permutations(Body)
=============================================================================
