---------------------------- MODULE MCTableTally ----------------------------
(* TableTally with the constants of MCCallSiteTable, for TLC.                *)
EXTENDS TableTally, MCCallSiteTable
=============================================================================
