-------------------------------- MODULE MCMm --------------------------------
(* Mm on small sets; see MCMm.cfg and MmRollback.cfg.                      *)
EXTENDS Mm, TLC

(* The tasks are alike, and so are the values. *)
Symmetry == Permutations(Task) \cup Permutations(Value)
=============================================================================
