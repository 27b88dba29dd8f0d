------------------------------ MODULE MCKernel ------------------------------
(* Kernel on three tasks and two semaphores; see MCKernel.cfg. *)
EXTENDS Kernel
=============================================================================
