--------------------------- MODULE MCDecompress ---------------------------
(***************************************************************************)
(* Decompress on every stream of at most MaxLength bytes over some that    *)
(* are one digit of a length, several, or all of its bits; a literal of    *)
(* one byte-sized length is long already when Headroom is small.           *)
(*                                                                         *)
(* Wrapping: a header and a literal of 2^32 bytes.                         *)
(***************************************************************************)
EXTENDS Decompress

CONSTANTS SomeBytes, MaxLength

ShortStreams == UNION { [1 .. k -> SomeBytes] : k \in 0 .. MaxLength }
WrappingStreams == { <<h, 252, 255, 255, 255, 255>> : h \in SomeBytes }
TestJunk     == { [k \in 0 .. 4 |-> 0] }
============================================================================
