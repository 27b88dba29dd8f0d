----------------------------- MODULE MCDevices -----------------------------
(* Devices on small sets; see MCDevices.cfg.  The pids are alike, and so   *)
(* are the pages.                                                          *)
EXTENDS Devices, TLC

Symmetry == Permutations(Task) \cup Permutations(Page)
=============================================================================
