------------------------ MODULE MCAlternatingBuffer ------------------------
(***************************************************************************)
(* Instances of Task6 for TLC: the comments on writer_runs and on          *)
(* buffer_size are checked of the constants of every run.                  *)
(***************************************************************************)
EXTENDS AlternatingBuffer
ASSUME ConstantsAssumption == Balanced /\ WholeTurns
=============================================================================
