------------------------------- MODULE MCIrq -------------------------------
(* Irq with two tasks, a ring of two cells and a UART of two bytes.      *)
EXTENDS Irq
=============================================================================
