---------------------------- MODULE MigrationMC ----------------------------
(* Two accounts on one device.                                             *)
EXTENDS Migration
=============================================================================
