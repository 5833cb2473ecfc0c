------------------------------- MODULE ChatMC -------------------------------
(* Model values of the runs of Chat. *)
EXTENDS Chat
=============================================================================
