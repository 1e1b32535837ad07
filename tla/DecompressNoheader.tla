------------------------ MODULE DecompressNoheader ------------------------
(***************************************************************************)
(* csnappy_decompress_noheader of csnappy_decompress.c (the version with   *)
(* unaligned access).  Elements are parsed in place until fewer than six   *)
(* bytes are left; from then on what is left is moved to the front of a    *)
(* five-byte scratch buffer before every element, so that four bytes can   *)
(* always be loaded after a tag.                                           *)
(*                                                                         *)
(* `src' and `end' are offsets in the memory `where' says: the input, or   *)
(* scratch (end is end_minus5 + 5).  The array writer appears as what it   *)
(* implements, TextWriter: it is asked for `pending' and the text is       *)
(* extended, or the call refused, in one step.                             *)
(***************************************************************************)
EXTENDS SnappyFormat

CONSTANTS
    Streams,     \* what may be given to the decoder
    Limits,      \* how much room the caller may offer
    Junk,        \* what scratch may hold when the call starts
    NoCall       \* the writer is not being asked for anything

(* `available' and the casts to int32_t are meaningful below 2^31. *)
ASSUME StreamAssumption ==
    /\ Streams \subseteq Seq(Byte8)
    /\ \A s \in Streams : Len(s) < MaxInt32
    /\ Limits \subseteq 0 .. MaxInt32 - 1
    /\ Junk \subseteq [0 .. 4 -> Byte8]

LiteralCall == [kind : {"literal"}, bytes : Seq(Byte8), ahead : Seq(Byte8),
                fast : BOOLEAN]
CopyCall    == [kind : {"copy"}, offset : Nat, len : Nat \ {0}]

ASSUME NoCallAssumption == NoCall \notin LiteralCall \cup CopyCall

VARIABLES
    input, limit,            \* src and src_remaining, *dst_len
    pc,                      \* where the code is
    where, src, end,         \* the memory being read, src, end_minus5 + 5
    scratch,                 \* the five bytes
    opcode,                  \* the last tag
    pending,                 \* what the writer is asked for
    text,                    \* writer.base up to writer.op
    answer,                  \* what is returned, "none" until then
    inHigh, scratchHigh      \* ghosts: one past the highest byte read

nvars == <<input, limit, pc, where, src, end, scratch, opcode, pending, text,
           answer, inHigh, scratchHigh>>

-----------------------------------------------------------------------------
(* Length in bits 0 to 7, bits 8 to 10 of the offset in bits 8 to 10, and  *)
(* in bits 11 to 13 the number of bytes that follow.                       *)
char_table == <<
    \h0001, \h0804, \h1001, \h2001, \h0002, \h0805, \h1002, \h2002,
    \h0003, \h0806, \h1003, \h2003, \h0004, \h0807, \h1004, \h2004,
    \h0005, \h0808, \h1005, \h2005, \h0006, \h0809, \h1006, \h2006,
    \h0007, \h080a, \h1007, \h2007, \h0008, \h080b, \h1008, \h2008,
    \h0009, \h0904, \h1009, \h2009, \h000a, \h0905, \h100a, \h200a,
    \h000b, \h0906, \h100b, \h200b, \h000c, \h0907, \h100c, \h200c,
    \h000d, \h0908, \h100d, \h200d, \h000e, \h0909, \h100e, \h200e,
    \h000f, \h090a, \h100f, \h200f, \h0010, \h090b, \h1010, \h2010,
    \h0011, \h0a04, \h1011, \h2011, \h0012, \h0a05, \h1012, \h2012,
    \h0013, \h0a06, \h1013, \h2013, \h0014, \h0a07, \h1014, \h2014,
    \h0015, \h0a08, \h1015, \h2015, \h0016, \h0a09, \h1016, \h2016,
    \h0017, \h0a0a, \h1017, \h2017, \h0018, \h0a0b, \h1018, \h2018,
    \h0019, \h0b04, \h1019, \h2019, \h001a, \h0b05, \h101a, \h201a,
    \h001b, \h0b06, \h101b, \h201b, \h001c, \h0b07, \h101c, \h201c,
    \h001d, \h0b08, \h101d, \h201d, \h001e, \h0b09, \h101e, \h201e,
    \h001f, \h0b0a, \h101f, \h201f, \h0020, \h0b0b, \h1020, \h2020,
    \h0021, \h0c04, \h1021, \h2021, \h0022, \h0c05, \h1022, \h2022,
    \h0023, \h0c06, \h1023, \h2023, \h0024, \h0c07, \h1024, \h2024,
    \h0025, \h0c08, \h1025, \h2025, \h0026, \h0c09, \h1026, \h2026,
    \h0027, \h0c0a, \h1027, \h2027, \h0028, \h0c0b, \h1028, \h2028,
    \h0029, \h0d04, \h1029, \h2029, \h002a, \h0d05, \h102a, \h202a,
    \h002b, \h0d06, \h102b, \h202b, \h002c, \h0d07, \h102c, \h202c,
    \h002d, \h0d08, \h102d, \h202d, \h002e, \h0d09, \h102e, \h202e,
    \h002f, \h0d0a, \h102f, \h202f, \h0030, \h0d0b, \h1030, \h2030,
    \h0031, \h0e04, \h1031, \h2031, \h0032, \h0e05, \h1032, \h2032,
    \h0033, \h0e06, \h1033, \h2033, \h0034, \h0e07, \h1034, \h2034,
    \h0035, \h0e08, \h1035, \h2035, \h0036, \h0e09, \h1036, \h2036,
    \h0037, \h0e0a, \h1037, \h2037, \h0038, \h0e0b, \h1038, \h2038,
    \h0039, \h0f04, \h1039, \h2039, \h003a, \h0f05, \h103a, \h203a,
    \h003b, \h0f06, \h103b, \h203b, \h003c, \h0f07, \h103c, \h203c,
    \h0801, \h0f08, \h103d, \h203d, \h1001, \h0f09, \h103e, \h203e,
    \h1801, \h0f0a, \h103f, \h203f, \h2001, \h0f0b, \h1040, \h2040 >>

(* What the proofs need to know of the 192 entries that are used. *)
ASSUME TableAssumption ==
    \A t \in Byte8 : ~IsLiteral(t) =>
        /\ char_table[t + 1] \in Nat
        /\ char_table[t + 1] \div 2048 = ExtraBytes(t)
        /\ char_table[t + 1] % 256 = CopyLen(t)
        /\ 256 * ((char_table[t + 1] \div 256) % 8) = CopyOffset(t, 0)

Init ==
    /\ input \in Streams /\ limit \in Limits
    /\ pc = "loop"
    /\ where = "input" /\ src = 0 /\ end = Len(input)
    /\ scratch \in Junk
    /\ opcode = 0
    /\ pending = NoCall /\ text = <<>> /\ answer = "none"
    /\ inHigh = 0 /\ scratchHigh = 0

-----------------------------------------------------------------------------
n         == Len(input)
available == end - src

(* What lies past the end of a buffer: ReadsInside says it is not read. *)
Beyond == 0

Fetch(p) == CASE where = "input" /\ p \in 0 .. n - 1 -> input[p + 1]
              [] where = "scratch" /\ p \in 0 .. 4   -> scratch[p]
              [] OTHER                               -> Beyond

Bytes(p, k) == [i \in 1 .. k |-> Fetch(p + i - 1)]

(* get_unaligned_le(p, k): four bytes are loaded, k of them are kept. *)
get_unaligned_le(p, k) == LittleEndian(Bytes(p, k))

Higher(a, b) == IF a >= b THEN a ELSE b

(* Everything below p has been read in the memory being read. *)
Touch(p) ==
    /\ inHigh' = IF where = "input" THEN Higher(inHigh, p) ELSE inHigh
    /\ scratchHigh' = IF where = "input" THEN scratchHigh ELSE Higher(scratchHigh, p)

(* A uint32_t of 2^31 or more is beyond every buffer, as is 2^31 - 1. *)
Unsigned(w) == IF w < 0 THEN MaxInt32 ELSE w

Return(result) == answer' = result /\ pc' = "returned"

-----------------------------------------------------------------------------
(* Mutant: the four bytes after the tag are not all there.                 *)
Ahead_Short == src < end - 3

(* LOOP_COND() *)
Ahead == src < end - 5

InPlace ==
    /\ pc = "loop"
    /\ Ahead
    /\ pc' = "opcode"
    /\ UNCHANGED <<input, limit, where, src, end, scratch, opcode, pending,
                   text, answer, inHigh, scratchHigh>>

(* Mutant: the end is that of the buffer, not of what was moved there.     *)
MovedEnd_WholeBuffer == 5

(* Mutant: end_minus5 is set to the end of what was moved.                 *)
MovedEnd_FiveShort == available - 5

(* end_minus5 + available, plus five. *)
MovedEnd == available

Refill ==
    /\ pc = "loop"
    /\ ~Ahead /\ available > 0
    /\ scratch' = [k \in 0 .. 4 |-> IF k < available THEN Fetch(src + k) ELSE scratch[k]]
    /\ Touch(end)
    /\ where' = "scratch" /\ src' = 0 /\ end' = MovedEnd
    /\ pc' = "opcode"
    /\ UNCHANGED <<input, limit, opcode, pending, text, answer>>

Out ==
    /\ pc = "loop"
    /\ ~Ahead /\ available <= 0
    /\ Return("ok")
    /\ UNCHANGED <<input, limit, where, src, end, scratch, opcode, pending,
                   text, inHigh, scratchHigh>>

-----------------------------------------------------------------------------
tag    == Fetch(src)
opword == char_table[tag + 1]

(* A copy: the table says how long it is, how many bytes of its offset     *)
(* follow, and, for the shortest form, the high bits of the offset.        *)
extra_bytes == opword \div 2048

trailer == get_unaligned_le(src + 1, extra_bytes) + 256 * ((opword \div 256) % 8)

(* Mutant: the field holds the length less one, as the tag does.           *)
length_LessOne == (opword % 256) - 1

length == opword % 256

AskCopy ==
    /\ pc = "opcode" /\ ~IsLiteral(tag)
    /\ opcode' = tag
    /\ Touch(src + 5)
    /\ src' = src + 1 + extra_bytes
    /\ pending' = CopyElement(Unsigned(trailer), length)
    /\ pc' = "append"
    /\ UNCHANGED <<input, limit, where, end, scratch, text, answer>>

(* A literal: up to 60 bytes, or as many as the bytes after the tag say.   *)
short_length == tag \div 4 + 1
long         == short_length > 60
body         == IF long THEN src + 1 + (short_length - 60) ELSE src + 1
full_length  == IF long THEN Increment(get_unaligned_le(src + 1, short_length - 60))
                        ELSE short_length

(* Mutant: short literals take the fast path wherever they are.            *)
Fast_Anywhere == short_length <= 16

Fast == short_length <= 16 /\ end - (src + 1) >= 16

Ask(bytes, ahead, fast) ==
    pending' = [kind |-> "literal", bytes |-> bytes, ahead |-> ahead, fast |-> fast]

AskFast ==
    /\ pc = "opcode" /\ IsLiteral(tag) /\ Fast
    /\ opcode' = tag
    /\ Touch(src + 17)
    /\ src' = src + 1
    /\ Ask(Bytes(src + 1, short_length),
           Bytes(src + 1 + short_length, 16 - short_length), TRUE)
    /\ pc' = "append"
    /\ UNCHANGED <<input, limit, where, end, scratch, text, answer>>

(* Mutant: what is left is counted from the tag.                           *)
Enough_FromTag == end - src >= full_length

(* available < (int32_t)length, once src is past the length. *)
Enough == end - body >= full_length

(* The loads of the tag and of the length. *)
TouchHeader == Touch(IF long THEN src + 5 ELSE src + 1)

LiteralMalformed ==
    /\ pc = "opcode" /\ IsLiteral(tag) /\ ~Fast
    /\ ~Enough
    /\ TouchHeader
    /\ Return("malformed")
    /\ UNCHANGED <<input, limit, where, src, end, scratch, opcode, pending, text>>

(* 2^31 bytes or more: SAW__Append finds that they do not fit. *)
LiteralHuge ==
    /\ pc = "opcode" /\ IsLiteral(tag) /\ ~Fast
    /\ Enough /\ full_length < 0
    /\ TouchHeader
    /\ Return("overrun")
    /\ UNCHANGED <<input, limit, where, src, end, scratch, opcode, pending, text>>

AskExact ==
    /\ pc = "opcode" /\ IsLiteral(tag) /\ ~Fast
    /\ Enough /\ full_length >= 0
    /\ opcode' = tag
    /\ Touch(IF long THEN Higher(src + 5, body + full_length) ELSE body + full_length)
    /\ src' = body
    /\ Ask(Bytes(body, full_length), <<>>, FALSE)
    /\ pc' = "append"
    /\ UNCHANGED <<input, limit, where, end, scratch, text, answer>>

-----------------------------------------------------------------------------
(* The writer's answer. *)
Writer == INSTANCE TextWriter WITH Idle <- NoCall, ret <- answer

Appended ==
    /\ pc = "append"
    /\ ~Writer!BadOffset(pending) /\ ~Writer!TooLong(pending)
    /\ \/ /\ pending.kind = "literal"
          /\ text' = text \o pending.bytes
          /\ src' = src + Len(pending.bytes)
       \/ /\ pending.kind = "copy"
          /\ text' = Repeat(text, pending.offset, pending.len)
          /\ UNCHANGED src
    /\ pending' = NoCall
    /\ pc' = "loop"
    /\ UNCHANGED <<input, limit, where, end, scratch, opcode, answer,
                   inHigh, scratchHigh>>

(* Whatever is negative is passed on. *)
Refused ==
    /\ pc = "append"
    /\ \/ Writer!BadOffset(pending) /\ Return("malformed")
       \/ ~Writer!BadOffset(pending) /\ Writer!TooLong(pending) /\ Return("overrun")
    /\ UNCHANGED <<input, limit, where, src, end, scratch, opcode, pending,
                   text, inHigh, scratchHigh>>

Loop == InPlace \/ Refill \/ Out

Body == \/ AskCopy \/ AskFast \/ LiteralMalformed \/ LiteralHuge \/ AskExact
        \/ Appended \/ Refused

(* The call is over. *)
Returned == pc = "returned" /\ UNCHANGED nvars

Next == Loop \/ Body \/ Returned

Spec == Init /\ [][Next]_nvars

-----------------------------------------------------------------------------
TypeOK ==
    /\ input \in Seq(Byte8) /\ n < MaxInt32
    /\ pc \in {"loop", "opcode", "append", "returned"}
    /\ where \in {"input", "scratch"}
    /\ src \in Nat /\ end \in Nat
    /\ scratch \in [0 .. 4 -> Byte8]
    /\ opcode \in Byte8
    /\ limit \in 0 .. MaxInt32 - 1
    /\ pc = "append" => pending # NoCall
    /\ text \in Seq(Byte8) /\ Len(text) <= limit
    /\ answer \in {"none", "ok", "malformed", "overrun"}
    /\ inHigh \in Nat /\ scratchHigh \in Nat

(* Neither the loads of four bytes after a tag nor the 16 bytes of the     *)
(* fast path nor a literal's bytes lie past the input or past scratch.     *)
ReadsInside == inHigh <= n /\ scratchHigh <= 5

(* When a tag is read, scratch holds the last bytes of the input, however  *)
(* often they have been moved to its front.                                *)
ScratchHoldsTail ==
    where = "scratch" /\ pc = "opcode" =>
        /\ src = 0 /\ end \in 1 .. 5 /\ end <= n
        /\ \A k \in 0 .. end - 1 : scratch[k] = input[n - end + k + 1]

(* The writer is only asked for what ArrayWriter assumes of its calls: no  *)
(* copy of length zero, and sixteen bytes behind every fast literal.       *)
CallsLegal ==
    pending # NoCall =>
        /\ pending \in LiteralCall \cup CopyCall
        /\ pending.kind = "literal" /\ pending.fast =>
             Len(pending.bytes) + Len(pending.ahead) = 16

(* Where the next element starts in the input: an element whose operand is *)
(* cut off leaves src past the end.                                        *)
Place(p) == LET q == IF where = "input" THEN p ELSE n - end + p
            IN  IF q > n THEN n ELSE q

at == IF pending = NoCall THEN Place(src) ELSE Place(src - HeaderLen(opcode))

(* What the writer is asked for is what the input holds at `at', taken     *)
(* apart by bit fields; of a copy that is cut off it is the length.        *)
AsksForElement ==
    pc = "append" =>
        /\ at \in 0 .. n - 1 /\ opcode = TagAt(input, at)
        /\ n - end + src = BodyAt(input, at)
        /\ IF IsLiteral(opcode)
             THEN /\ WholeLiteral(input, at)
                  /\ pending.kind = "literal"
                  /\ pending.bytes = LiteralAt(input, at).bytes
             ELSE /\ pending.kind = "copy"
                  /\ pending.len = CopyLen(opcode)
                  /\ WholeCopy(input, at) =>
                       pending.offset = Unsigned(CopyAt(input, at).offset)

(* The inductive invariant behind ReadsInside, ScratchHoldsTail and        *)
(* CallsLegal.  Nothing of it depends on what the bytes are, only on how   *)
(* far the table lets src move.                                            *)
InBounds ==
    /\ TypeOK
    /\ CallsLegal
    /\ where = "input" => end = n
    /\ where = "scratch" =>
         /\ end \in 1 .. 5 /\ end <= n
         /\ \A k \in 0 .. end - 1 : scratch[k] = input[n - end + k + 1]
    /\ pc = "opcode" => IF where = "input" THEN src < end - 5 ELSE src = 0
    /\ pc \in {"loop", "opcode"} => pending = NoCall
    /\ ReadsInside

(* And behind DecodesStream. *)
Inductive == InBounds /\ AsksForElement /\ (answer = "none" \/ pc = "returned")

(* Through the table, the masks and the scratch buffer, every element of   *)
(* the input is decoded as the format defines it and refused for the right *)
(* reason, and a literal that is cut off is never accepted.                *)
Decoder == INSTANCE StreamDecoder

DecodesStream == Decoder!Spec
============================================================================
