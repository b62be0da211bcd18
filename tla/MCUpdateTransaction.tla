------------------------ MODULE MCUpdateTransaction ------------------------
(***************************************************************************)
(* Instances of UpdateTransaction for TLC: one transaction, swapped in     *)
(* process or by the script, under the faults of the run.                  *)
(***************************************************************************)
EXTENDS UpdateTransaction
=============================================================================
