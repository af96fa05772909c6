-------------------------- MODULE MCRetentionCycle --------------------------
(***************************************************************************)
(* Finite instances of RetentionCycle for TLC.                             *)
(***************************************************************************)
EXTENDS RetentionCycle, TLC
=============================================================================
