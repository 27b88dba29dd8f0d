------------------------------- MODULE MCFdd -------------------------------
(* Fdd with Boot and two tasks, on a disk of two cylinders, two heads and  *)
(* two sectors per track.                                                  *)
EXTENDS Fdd
=============================================================================
