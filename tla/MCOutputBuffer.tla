--------------------------- MODULE MCOutputBuffer ---------------------------
(***************************************************************************)
(* Three pages of three bytes.  No two bytes of Source within ten are      *)
(* equal, so that a byte read from the wrong place is a wrong byte.        *)
(***************************************************************************)
EXTENDS OutputBuffer

TestSource == [i \in 1 .. 16 |-> i]
============================================================================
