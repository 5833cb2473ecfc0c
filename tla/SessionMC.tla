----------------------------- MODULE SessionMC -----------------------------
(* Two requests at a time; pairs enough for a login and two refreshes of    *)
(* it, or for a refresh and another login.                                  *)
EXTENDS Session, TLC
CONSTANTS c1, c2

Alike == Permutations(Caller)
=============================================================================
