--------------------------- MODULE SnappyFormat ---------------------------
(***************************************************************************)
(* The bytes of a Snappy stream after its header: one element after        *)
(* another, each a tag byte, up to four bytes of operand, and the bytes of *)
(* a literal.  The two low bits of the tag say which kind of element it is *)
(* (the enum of csnappy_internal.h); the fields are those which the        *)
(* decompressor without tables (csnappy_decompress.c, first version) takes *)
(* apart with shifts and masks.                                            *)
(*                                                                         *)
(* Streams are sequences of bytes; positions in them count from 0.         *)
(*                                                                         *)
(* A uint32_t is represented by the int32_t of the same bits: lengths and  *)
(* offsets of 2^31 and more are negative.  This is the width of the code.  *)
(***************************************************************************)
EXTENDS SnappyElements

Byte8    == 0 .. 255
MaxInt32 == 2147483647

(* The little-endian value of at most four bytes. *)
LittleEndian(b) ==
    LET digit(i) == IF i <= Len(b) THEN b[i] ELSE 0
        top      == IF digit(4) < 128 THEN digit(4) ELSE digit(4) - 256
    IN  digit(1) + 256 * digit(2) + 65536 * digit(3) + 16777216 * top

(* uint32_t + 1 *)
Increment(w) == IF w = MaxInt32 THEN -MaxInt32 - 1 ELSE w + 1

-----------------------------------------------------------------------------
IsLiteral(tag) == tag % 4 = 0

(* Operand bytes after the tag. *)
ExtraBytes(tag) ==
    CASE tag % 4 = 0 -> IF tag \div 4 < 60 THEN 0 ELSE tag \div 4 - 59
      [] tag % 4 = 1 -> 1
      [] tag % 4 = 2 -> 2
      [] tag % 4 = 3 -> 4

HeaderLen(tag) == 1 + ExtraBytes(tag)

(* Length of a literal whose operand is w: a length of 2^32 wraps to 0. *)
LiteralLen(tag, w) == IF tag \div 4 < 60 THEN tag \div 4 + 1 ELSE Increment(w)

CopyLen(tag) == IF tag % 4 = 1 THEN 4 + ((tag \div 4) % 8) ELSE 1 + tag \div 4

CopyOffset(tag, w) == IF tag % 4 = 1 THEN 256 * (tag \div 32) + w ELSE w

-----------------------------------------------------------------------------
(* The element that starts at position i of s. *)
TagAt(s, i)     == s[i + 1]
OperandAt(s, i) == LittleEndian(SubSeq(s, i + 2, i + HeaderLen(TagAt(s, i))))
LengthAt(s, i)  == LiteralLen(TagAt(s, i), OperandAt(s, i))
BodyAt(s, i)    == i + HeaderLen(TagAt(s, i))

HeaderWhole(s, i) == BodyAt(s, i) <= Len(s)

WholeLiteral(s, i) ==
    /\ IsLiteral(TagAt(s, i)) /\ HeaderWhole(s, i)
    /\ LengthAt(s, i) \in 0 .. Len(s) - BodyAt(s, i)

WholeCopy(s, i) == ~IsLiteral(TagAt(s, i)) /\ HeaderWhole(s, i)

LiteralAt(s, i) ==
    LiteralElement(SubSeq(s, BodyAt(s, i) + 1, BodyAt(s, i) + LengthAt(s, i)))

CopyAt(s, i) ==
    CopyElement(CopyOffset(TagAt(s, i), OperandAt(s, i)), CopyLen(TagAt(s, i)))

-----------------------------------------------------------------------------
(* What the compressor writes for an element (EmitLiteral and              *)
(* EmitCopyLessThan64, and emit_literal and emit_copy).                    *)
EncodeLiteral(b) ==
    LET k == LengthBytes(Len(b))
    IN  <<4 * (IF k = 0 THEN Len(b) - 1 ELSE 59 + k)>>
          \o [i \in 1 .. k |-> ((Len(b) - 1) \div 256^(i - 1)) % 256] \o b

(* Mutant: a length of 12 is taken to fit in three bits.                   *)
EncodeCopy_Wide(o, len) ==
    IF len < 13 /\ o < 2048
      THEN <<1 + 4 * (len - 4) + 32 * (o \div 256), o % 256>>
      ELSE <<2 + 4 * (len - 1), o % 256, o \div 256>>

EncodeCopy(o, len) ==
    IF len < 12 /\ o < 2048
      THEN <<1 + 4 * (len - 4) + 32 * (o \div 256), o % 256>>
      ELSE <<2 + 4 * (len - 1), o % 256, o \div 256>>

Encode(e) == IF e.kind = "literal" THEN EncodeLiteral(e.bytes)
                                   ELSE EncodeCopy(e.offset, e.len)

-----------------------------------------------------------------------------
(* The header: the length of the text, seven bits to a byte, low bits      *)
(* first, the top bit set in all bytes but the last (encode_varint32).     *)
ShiftRight7(w) == IF w < 0 THEN w \div 128 + 33554432 ELSE w \div 128

Varint(w) ==
    LET v1 == ShiftRight7(w)   v2 == v1 \div 128
        v3 == v2 \div 128      v4 == v3 \div 128
        v  == <<w, v1, v2, v3, v4>>
        k  == IF w < 0 THEN 5
              ELSE CHOOSE i \in 1 .. 5 : v[i] < 128 /\ \A j \in 1 .. i - 1 : v[j] >= 128
    IN  [i \in 1 .. k |-> IF i = k THEN v[i] % 128 ELSE 128 + (v[i] % 128)]

-----------------------------------------------------------------------------
(* The elements that the compressors write. *)
Encodable ==
    { e \in [kind : {"literal"}, bytes : Seq(Byte8)] : Len(e.bytes) \in 1 .. MaxInt32 }
      \cup [kind : {"copy"}, offset : 1 .. MaxOffset, len : MinCopyLen .. MaxCopyLen]

(* One element, from i to j of s, makes the first q bytes of t of the      *)
(* first p.                                                                *)
Extends(s, i, j, t, p, q) ==
    \E e \in Encodable : /\ SubSeq(s, i + 1, j) = Encode(e)
                         /\ Denotes(SubSeq(t, 1, p), e, SubSeq(t, 1, q))

(* Element i of k begins at starts[i - 1] of s and stands for the bytes of *)
(* t from made[i - 1] on.                                                  *)
IsParse(s, t, k, starts, made) ==
    /\ starts \in [0 .. k -> 0 .. Len(s)] /\ made \in [0 .. k -> 0 .. Len(t)]
    /\ made[0] = 0 /\ starts[k] = Len(s) /\ made[k] = Len(t)
    /\ \A i \in 1 .. k : /\ starts[i - 1] < starts[i]
                         /\ Extends(s, starts[i - 1], starts[i], t, made[i - 1], made[i])

(* s is the header for a text of w bytes, and elements that stand for t.   *)
Encodes(s, w, t) ==
    \E k \in Nat : \E starts \in [0 .. k -> Nat], made \in [0 .. k -> Nat] :
        /\ SubSeq(s, 1, starts[0]) = Varint(w)
        /\ IsParse(s, t, k, starts, made)
============================================================================
