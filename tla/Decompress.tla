----------------------------- MODULE Decompress -----------------------------
(***************************************************************************)
(* csnappy_decompress: the header is read by                               *)
(* csnappy_get_uncompressed_length, one byte at a time, the length in it   *)
(* compared with the room there is, and the rest of the input given to     *)
(* csnappy_decompress_noheader, with that length as its room.              *)
(*                                                                         *)
(* The variables of DecompressNoheader are used from the start: `src' is   *)
(* the position in the header too.                                         *)
(***************************************************************************)
EXTENDS DecompressSimple

VARIABLES dst_len,     \* what the caller offers
          olen,        \* the length read so far, the bits of a uint32_t
          shift

cvars == <<nvars, dstHigh, dst_len, olen, shift>>

CallInit ==
    /\ input \in Streams /\ dst_len \in Limits
    /\ limit = 0
    /\ pc = "header" /\ olen = 0 /\ shift = 0
    /\ where = "input" /\ src = 0 /\ end = Len(input)
    /\ scratch \in Junk
    /\ opcode = 0
    /\ pending = NoCall /\ text = <<>> /\ answer = "none"
    /\ inHigh = 0 /\ scratchHigh = 0 /\ dstHigh = 0

(* Mutant: the length is kept to 31 bits.                                  *)
Group_Positive(c, s) == IF s < 28 THEN (c % 128) * 2^s ELSE (c % 8) * 2^28

(* (uint32_t)(c & 0x7f) << s: of the fifth byte only four bits are left.   *)
Group(c, s) ==
    IF s < 28 THEN (c % 128) * 2^s
              ELSE (IF c % 16 < 8 THEN c % 16 ELSE (c % 16) - 16) * 2^28

(* Mutant: the fifth byte is one too many.                                 *)
TooManyBytes_Early == shift >= 28

TooManyBytes == shift >= 32

(* Mutant: the length of the input is not looked at.                       *)
BytesLeft_Always == TRUE

BytesLeft == src < n

HeaderByte ==
    /\ pc = "header"
    /\ ~TooManyBytes /\ BytesLeft
    /\ Touch(src + 1)
    /\ src' = src + 1
    /\ olen' = olen + Group(Fetch(src), shift)
    /\ IF Fetch(src) < 128 THEN pc' = "sized" /\ UNCHANGED shift
                           ELSE shift' = shift + 7 /\ UNCHANGED pc
    /\ UNCHANGED <<input, limit, where, end, scratch, opcode, pending, text,
                   answer, dstHigh, dst_len>>

HeaderBad ==
    /\ pc = "header"
    /\ TooManyBytes \/ src = n
    /\ Return("header_bad")
    /\ UNCHANGED <<input, limit, where, src, end, scratch, opcode, pending,
                   text, inHigh, scratchHigh, dstHigh, dst_len, olen, shift>>

(* Mutant: the lengths are compared as int.                                *)
Insufficient_Signed == olen > dst_len

Insufficient == olen < 0 \/ olen > dst_len

OutputInsuf ==
    /\ pc = "sized"
    /\ Insufficient
    /\ Return("output_insuf")
    /\ UNCHANGED <<input, limit, where, src, end, scratch, opcode, pending,
                   text, inHigh, scratchHigh, dstHigh, dst_len, olen, shift>>

(* The call of csnappy_decompress_noheader, either version of it. *)
Start ==
    /\ pc = "sized"
    /\ ~Insufficient
    /\ limit' = olen
    /\ pc' \in {"loop", "while"}
    /\ UNCHANGED <<input, where, src, end, scratch, opcode, pending, text,
                   answer, inHigh, scratchHigh, dstHigh, dst_len, olen, shift>>

Header == HeaderByte \/ HeaderBad \/ OutputInsuf \/ Start

(* The stores of the first version are those of the array writer. *)
CallBody == /\ \/ Next /\ UNCHANGED dstHigh
               \/ SimpleNext
            /\ UNCHANGED <<dst_len, olen, shift>>

CallNext == Header \/ CallBody

CallSpec == CallInit /\ [][CallNext]_cvars

-----------------------------------------------------------------------------
InHeader == pc \in {"header", "sized"}

(* The length read is the one that encode_varint32 wrote, whatever bytes   *)
(* follow.  A longer form of it is accepted too, and of a fifth byte only  *)
(* the low four bits count.                                                *)
HeaderInverse ==
    pc = "sized" =>
        /\ src >= Len(Varint(olen))
        /\ src = Len(Varint(olen)) /\ (src = 5 => input[5] < 16) =>
             SubSeq(input, 1, src) = Varint(olen)

(* A header is refused only when it does not end within five bytes or      *)
(* within the input.                                                       *)
HeaderRefused ==
    answer = "header_bad" =>
        /\ n < 5 => \A i \in 1 .. n : input[i] >= 128
        /\ n >= 5 => \A i \in 1 .. 5 : input[i] >= 128

(* How the length has been put together when `src' bytes of the header     *)
(* have been read, and that the caller's variables are as they were.       *)
GroupRead(k) == IF k <= src THEN Group(input[k], 7 * (k - 1)) ELSE 0

HeaderSoFar ==
    InHeader =>
        /\ where = "input" /\ end = n /\ src \in 0 .. n /\ src <= 5
        /\ limit = 0 /\ opcode = 0
        /\ pending = NoCall /\ text = <<>> /\ answer = "none" /\ dstHigh = 0
        /\ \A k \in 1 .. src : pc = "header" \/ k < src => input[k] >= 128
        /\ pc = "header" => shift = 7 * src
        /\ pc = "sized" => src >= 1 /\ input[src] < 128
        /\ olen = GroupRead(1) + GroupRead(2) + GroupRead(3) + GroupRead(4) + GroupRead(5)

(* Whatever length the header claims, not more than dst_len bytes are      *)
(* written into dst, except that the version for ARM leaves dst at a       *)
(* literal that no comparison of addresses can stop.                       *)
WithinRoom ==
    ~InHeader => /\ limit \in 0 .. dst_len /\ Len(text) <= dst_len
                 /\ dstHigh <= dst_len \/ AtLongLiteral

(* "If compressed data is malformed, does not write more than dst_len into *)
(* dst" (csnappy.h).                                                       *)
StaysInDst == dstHigh <= dst_len

(* Reads stay inside the input and scratch, with the same exception.       *)
CallReads == ReadsInside \/ AtLongLiteral

(* csnappy_decompress_noheader has not been called. *)
NotStarted == InHeader \/ answer \in {"header_bad", "output_insuf"}

(* While one version of csnappy_decompress_noheader runs, its invariant    *)
(* holds.                                                                  *)
Started ==
    IF pc \in {"while", "while_over", "astray"} THEN SimpleInductive
    ELSE (NotStarted \/ Inductive) /\ dstHigh = 0

(* The inductive invariant behind all of these properties. *)
CallInductive ==
    /\ input \in Seq(Byte8) /\ n < MaxInt32 /\ scratch \in [0 .. 4 -> Byte8]
    /\ inHigh \in Nat /\ scratchHigh \in Nat /\ dstHigh \in Nat /\ CallReads
    /\ dst_len \in 0 .. MaxInt32 - 1 /\ olen \in Int
    /\ pc \in {"header", "sized", "loop", "opcode", "append", "returned",
              "while", "while_over", "astray"}
    /\ answer \in {"header_bad", "output_insuf"} => pc = "returned"
    /\ HeaderSoFar /\ HeaderRefused /\ WithinRoom
    /\ Started

(* After the header, the elements are decoded as without one by either     *)
(* version, but for the step in which the version for ARM goes astray.     *)
BodyDecodes ==
    [][InHeader \/ Decoder!Next \/ AtLongLiteral']_<<Decoder!dvars, dstHigh>>

(* The other direction of "iff successful": input that is the header for   *)
(* a text t (of less than 2^32 bytes) and an encoding of t is never        *)
(* refused, unless the caller's room is too small for t, and when it is    *)
(* accepted the text is t.  Both versions of csnappy_decompress_noheader   *)
(* are meant.                                                              *)
DecodesEncoded ==
    \A t \in Seq(Byte8) :
        Len(t) \div 2 <= MaxInt32 /\ Encodes(input, Len(t), t) =>
            /\ answer \in {"none", "ok", "output_insuf"} /\ pc # "astray"
            /\ answer = "ok" => text = t
            /\ answer = "output_insuf" => dst_len < Len(t)

(* "Iff successful, returns CSNAPPY_E_OK" (csnappy.h): when OK is returned *)
(* the elements were all there, or at least the length in the header has   *)
(* been reached.                                                           *)
OkMeansSuccess == answer = "ok" => src = end \/ Len(text) = olen
============================================================================
