----------------------------- MODULE MCConsole -----------------------------
(* Console on small sets; see MCConsole.cfg.                               *)
EXTENDS Console, TLC

(* The tasks are alike, and so are the consoles but the empty one. *)
Symmetry == Permutations(Task) \cup Permutations(Console \ {empty_console})
=============================================================================
