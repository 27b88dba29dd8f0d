------------------------------- MODULE MCPipe -------------------------------
(* Pipe on small sets of readers and writers; see the MCPipe*.cfg files. *)
EXTENDS Pipe
=============================================================================
