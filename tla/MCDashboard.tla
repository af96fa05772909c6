---------------------------- MODULE MCDashboard ----------------------------
(* Finite instances of Dashboard for TLC. *)
EXTENDS Dashboard

CONSTANTS t1, t2
=============================================================================
