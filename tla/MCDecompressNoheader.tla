---------------------- MODULE MCDecompressNoheader ----------------------
(***************************************************************************)
(* Streams for DecompressNoheader.                                         *)
(*                                                                         *)
(* Short: every stream of at most MaxLength bytes over some that have a    *)
(* meaning as tags and as operands.  Those of at most five bytes start in  *)
(* scratch, which is uninitialised; those of six move there later.         *)
(*                                                                         *)
(* Tags: each of the 256 tags, with operands that are in range, out of     *)
(* range and cut off.                                                      *)
(*                                                                         *)
(* Literals: lengths on both sides of the fast path (16 bytes) and of the  *)
(* long form (60), in every width the length may be written in.            *)
(***************************************************************************)
EXTENDS DecompressNoheader

CONSTANTS SomeBytes, MaxLength

(* k bytes that are all different, as a literal of at most 60 bytes. *)
Different(k) == [i \in 1 .. k |-> 100 + i]
Short(k)     == <<4 * (k - 1)>> \o Different(k)

ShortStreams == UNION { [1 .. k -> SomeBytes] : k \in 0 .. MaxLength }

Run(k) == [i \in 1 .. k |-> i % 7]

(* The text before the copy is 60 bytes, or 20. *)
TagStreams ==
    { Short(60) \o <<t>> \o o : t \in Byte8,
        o \in { <<2, 0, 0, 0>>, <<61, 0, 0, 0, 7>>, <<60, 0>>, <<5>>, <<>>,
                <<0, 0, 0, 0>> \o Short(2) } }
    \cup { Short(20) \o <<t, 9, 0, 0, 0>> \o Short(1) : t \in Byte8 }

(* A literal of k bytes whose length less one takes w bytes. *)
Long(k, w) == <<4 * (59 + w)>> \o SubSeq(<<(k - 1) % 256, (k - 1) \div 256, 0, 0>>, 1, w)
                 \o Run(k)

LiteralStreams ==
    { Short(k) \o Run(m) : k \in {1, 15, 16, 17, 60}, m \in {0, 1, 14, 15, 16} }
    \cup { Long(k, w) \o Short(2) : k \in {1, 60, 61, 256}, w \in 1 .. 4 }
    \cup { Long(k, w) \o Short(2) : k \in {257, 300}, w \in 2 .. 4 }

ShapedStreams == TagStreams \cup LiteralStreams

AllStreams == ShapedStreams \cup ShortStreams

(* What the stack may hold: zeros, or a copy from close by. *)
TestJunk == { [k \in 0 .. 4 |-> 0], [k \in 0 .. 4 |-> IF k = 0 THEN 0 ELSE k % 2] }
============================================================================
