----------------------------- MODULE GatewayMC -----------------------------
(* One user and a task: users share nothing but the ledger of the day, and *)
(* it does not know whose call it charges.                                 *)
EXTENDS Gateway
=============================================================================
