------------------------------ MODULE RollupMC ------------------------------
(* Two processes with one pool connection each; the rollup is their only   *)
(* job.  A fresh database at hour StartHour is a cold start.               *)
EXTENDS Rollup

=============================================================================
