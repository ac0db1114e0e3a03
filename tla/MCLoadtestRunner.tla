------------------------- MODULE MCLoadtestRunner -------------------------
(* Instances of LoadtestRunner for TLC. *)
EXTENDS LoadtestRunner, TLC

Interchangeable == Permutations(Runs)
=============================================================================
