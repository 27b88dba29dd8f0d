------------------------------ MODULE MCSched ------------------------------
(* Sched on four tasks and the quantum of the code; see MCSched.cfg. *)
EXTENDS Sched
=============================================================================
