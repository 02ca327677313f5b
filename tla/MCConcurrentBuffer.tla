------------------------ MODULE MCConcurrentBuffer -------------------------
(***************************************************************************)
(* Instances of Task2 for TLC: the comment on writer_runs is checked of    *)
(* the constants of every run.                                             *)
(***************************************************************************)
EXTENDS ConcurrentBuffer
ASSUME BalancedAssumption == Balanced
=============================================================================
