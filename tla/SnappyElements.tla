-------------------------- MODULE SnappyElements --------------------------
(***************************************************************************)
(* The elements of a Snappy stream as values, what an element means, and   *)
(* how many bytes csnappy_compress.c spends on it.                         *)
(*                                                                         *)
(* A literal carries its bytes; a copy says "repeat len bytes that start   *)
(* offset bytes back in the text produced so far".  The meaning of a copy  *)
(* is a relation between the text before and the text after it: stated     *)
(* this way a copy whose source overlaps its destination needs no          *)
(* recursion, because byte i of the longer text is byte i - offset of that *)
(* same longer text.                                                       *)
(***************************************************************************)
EXTENDS Integers, Sequences

LiteralElement(s)   == [kind |-> "literal", bytes |-> s]
CopyElement(o, len) == [kind |-> "copy", offset |-> o, len |-> len]

(* u is t followed by len bytes, each the byte `o' places before it. *)
IsRepeat(t, u, o, len) ==
    /\ o \in 1 .. Len(t)
    /\ Len(u) = Len(t) + len
    /\ \A i \in 1 .. Len(u) : u[i] = IF i <= Len(t) THEN t[i] ELSE u[i - o]

(* Decoding element e after the text t yields the text u. *)
Denotes(t, e, u) ==
    \/ e.kind = "literal" /\ u = t \o e.bytes
    \/ e.kind = "copy" /\ IsRepeat(t, u, e.offset, e.len)

(* What IncrementalCopy makes of t: the last o bytes over and over. *)
Repeat(t, o, len) ==
    t \o [i \in 1 .. len |-> t[Len(t) - o + 1 + ((i - 1) % o)]]

(***************************************************************************)
(* The two things the format allows to vary: how long a copy may be, and   *)
(* how far back it may reach.  These are the limits of the encoder         *)
(* (DCHECKs of EmitCopyLessThan64).                                        *)
(***************************************************************************)
MinCopyLen == 4
MaxCopyLen == 64
MaxOffset  == 65535

(* Mutant: a literal of exactly 60 bytes takes the long form.              *)
LengthBytes_OffByOne(len) ==
    CASE len < 60                          -> 0
      [] 60 <= len /\ len <= 256           -> 1
      [] 256 < len /\ len <= 65536         -> 2
      [] 65536 < len /\ len <= 16777216    -> 3
      [] OTHER                             -> 4

(* EmitLiteral's count: the bytes the length takes after the tag byte. *)
LengthBytes(len) ==
    CASE len <= 60                         -> 0
      [] 60 < len /\ len <= 256            -> 1
      [] 256 < len /\ len <= 65536         -> 2
      [] 65536 < len /\ len <= 16777216    -> 3
      [] OTHER                             -> 4

LiteralHeader(len) == 1 + LengthBytes(len)
LiteralSize(len)   == LiteralHeader(len) + len

(* EmitCopyLessThan64: 2 bytes for a short copy from near, else 3. *)
CopySize(o, len) == IF len < 12 /\ o < 2048 THEN 2 ELSE 3

ElementSize(e) ==
    IF e.kind = "literal" THEN LiteralSize(Len(e.bytes))
                          ELSE CopySize(e.offset, e.len)

(* 32 + n + n / 6, as if there were no limit to an integer. *)
RoomFor(n) == 32 + n + n \div 6

(* The sum does not fit in 32 bits. *)
BoundWraps(n) == RoomFor(n) \div 2 > 2147483647

(* Mutant: no room for the header of a literal or for a wide copy.         *)
MaxCompressedLength_NoSlack(n) == n + n \div 6

(* csnappy_max_compressed_length: of a longer sum, what a uint32_t keeps.  *)
MaxCompressedLength(n) ==
    IF BoundWraps(n) THEN RoomFor(n) - 2147483647 - 2147483647 - 2 ELSE RoomFor(n)
============================================================================
