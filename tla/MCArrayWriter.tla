-------------------------- MODULE MCArrayWriter --------------------------
(***************************************************************************)
(* ArrayWriter on a memory whose bytes are all different (byte i holds i), *)
(* so that a byte moved from a wrong place shows.  Offsets and lengths lie *)
(* on both sides of every constant the code compares them with: patterns   *)
(* shorter than a word, 8, 16, and copies long enough for several wide     *)
(* moves.  The limits leave from nothing to more than enough room.         *)
(***************************************************************************)
EXTENDS ArrayWriter

CONSTANTS Offsets, Lengths

Memory == [i \in 0 .. MemSize - 1 |-> i]

Copies == [kind : {"copy"}, offset : Offsets, len : Lengths]

(* Literals of every way to append them: the bytes are 100, 101, ... *)
Lit(k, fast) == [kind  |-> "literal",
                 bytes |-> [i \in 1 .. k |-> 99 + i],
                 ahead |-> IF fast THEN [i \in 1 .. 16 - k |-> 150 + i] ELSE <<>>,
                 fast  |-> fast]

Literals == { Lit(k, FALSE) : k \in {0, 3, 17} } \cup { Lit(k, TRUE) : k \in {8, 16} }

TestCalls   == Copies \cup Literals
TestOutputs == { Memory }
TestValues  == 0 .. 200
============================================================================
