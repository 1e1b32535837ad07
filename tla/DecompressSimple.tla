-------------------------- MODULE DecompressSimple --------------------------
(***************************************************************************)
(* csnappy_decompress_noheader for ARM without unaligned access: no        *)
(* scratch buffer, no table, no writer; an iteration of the loop is one    *)
(* step.                                                                   *)
(*                                                                         *)
(* It uses the variables of DecompressNoheader, which is the other version *)
(* of the same function; dst - dst_base is Len(text).  While it runs, `pc' *)
(* is "while", "while_over" once it has returned, and "astray" once it has *)
(* left the caller's memory.  The loop stores into dst itself, and the     *)
(* checks compare addresses of 32 bits.                                    *)
(***************************************************************************)
EXTENDS DecompressNoheader

CONSTANT Headroom      \* addresses behind the input, and behind dst

(* A copy, or a literal of the short form, never reaches the last address. *)
ASSUME AddressAssumption == Headroom \in Nat /\ Headroom > 64

VARIABLE dstHigh       \* ghost: one past the last byte of dst stored to

(* All bytes of the element at position i are there. *)
IsWhole(s, i) == WholeLiteral(s, i) \/ WholeCopy(s, i)

ElementAt(s, i) ==
    IF IsLiteral(TagAt(s, i)) THEN LiteralAt(s, i) ELSE CopyAt(s, i)

(* A literal so long that src + length, or dst + length, may lie past the  *)
(* last address: the comparison with src_end, or dst_end, may then come    *)
(* out either way.                                                         *)
LongLiteral == /\ IsLiteral(TagAt(input, src)) /\ HeaderWhole(input, src)
               /\ LengthAt(input, src) < 0 \/ LengthAt(input, src) >= Headroom

(* The length is 2^32: ++length makes it zero, which both comparisons take *)
(* for nothing at all, and do ... while (--length) for 2^32.               *)
Wrapped == /\ IsLiteral(TagAt(input, src)) /\ HeaderWhole(input, src)
           /\ LengthAt(input, src) = 0

Iteration == pc = "while" /\ src < n

SimpleReturn(result) == answer' = result /\ pc' = "while_over"

(* Mutant: the last byte of the room is not used.                          *)
NoRoom_OneLess(e) == Len(text) + Writer!ResultLen(e) >= limit

(* dst + length > dst_end, of an element that is whole. *)
NoRoom(e) == Writer!TooLong(e)

(* Mutant: src is moved past a byte more than the literal has.             *)
AfterElement_OneMore(e) ==
    BodyAt(input, src) + (IF e.kind = "literal" THEN Len(e.bytes) + 1 ELSE 0)

(* src behind the element. *)
AfterElement(e) ==
    BodyAt(input, src) + (IF e.kind = "literal" THEN Len(e.bytes) ELSE 0)

SimpleAppend ==
    /\ Iteration /\ ~Wrapped /\ IsWhole(input, src)
    /\ LET e == ElementAt(input, src) IN
         /\ ~Writer!BadOffset(e) /\ ~NoRoom(e)
         /\ src' = AfterElement(e)
         /\ text' = IF e.kind = "literal" THEN text \o e.bytes
                                          ELSE Repeat(text, e.offset, e.len)
    /\ Touch(src')
    /\ dstHigh' = Len(text')
    /\ UNCHANGED <<input, limit, pc, where, end, scratch, opcode, pending, answer>>

SimpleMalformed ==
    /\ Iteration /\ ~Wrapped
    /\ IsWhole(input, src) => Writer!BadOffset(ElementAt(input, src))
    /\ Touch(IF HeaderWhole(input, src) THEN BodyAt(input, src) ELSE src + 1)
    /\ SimpleReturn("malformed")
    /\ UNCHANGED <<input, limit, where, src, end, scratch, opcode, pending, text,
                   dstHigh>>

(* A length for which dst is too short. *)
Exceeds(len) == len \notin 1 .. limit - Len(text)

(* The literal is not all there, and src + length hides it. *)
TornUnnoticed == LongLiteral /\ ~IsWhole(input, src)

SimpleOverrun ==
    /\ Iteration /\ ~Wrapped
    /\ \/ /\ IsWhole(input, src)
          /\ ~Writer!BadOffset(ElementAt(input, src))
          /\ NoRoom(ElementAt(input, src))
       \/ TornUnnoticed /\ Exceeds(LengthAt(input, src))
    /\ Touch(BodyAt(input, src))
    /\ SimpleReturn("overrun")
    /\ UNCHANGED <<input, limit, where, src, end, scratch, opcode, pending, text,
                   dstHigh>>

(* Bytes copied up to where the loop has left dst, or the literal is over. *)
Strayed == IF Exceeds(LengthAt(input, src)) THEN limit - Len(text) + 1
                                            ELSE LengthAt(input, src)

(* No comparison has stopped a literal that is not all there, or for which *)
(* dst is too short: the loop reads past the input, stores past dst, or    *)
(* both.  What the process does from then on has no meaning in C.          *)
SimpleAstray ==
    /\ Iteration
    /\ \/ Wrapped
       \/ TornUnnoticed
       \/ LongLiteral /\ IsWhole(input, src) /\ NoRoom(ElementAt(input, src))
    /\ Touch(BodyAt(input, src) + Strayed)
    /\ dstHigh' = Len(text) + Strayed
    /\ pc' = "astray"
    /\ UNCHANGED <<input, limit, where, src, end, scratch, opcode, pending, text,
                   answer>>

SimpleOut ==
    /\ pc = "while" /\ src >= n
    /\ SimpleReturn("ok")
    /\ UNCHANGED <<input, limit, where, src, end, scratch, opcode, pending, text,
                   inHigh, scratchHigh, dstHigh>>

SimpleNext == \/ SimpleAppend \/ SimpleMalformed \/ SimpleOverrun
              \/ SimpleAstray \/ SimpleOut
              \/ pc \in {"while_over", "astray"} /\ UNCHANGED <<nvars, dstHigh>>

-----------------------------------------------------------------------------
(* The loop is where no comparison has kept it from going.                 *)
AtLongLiteral == pc = "astray" /\ (Wrapped \/ LongLiteral)

(* "Iff successful, returns CSNAPPY_E_OK": the elements that this version  *)
(* has decoded were all there.                                             *)
SimpleWhole == pc = "while_over" /\ answer = "ok" => src = end /\ inHigh <= n

(* The inductive invariant behind it: src never passes the end.            *)
SimpleInductive ==
    /\ where = "input" /\ end = n /\ src \in 0 .. n /\ pending = NoCall
    /\ limit \in 0 .. MaxInt32 - 1 /\ text \in Seq(Byte8) /\ Len(text) <= limit
    /\ pc # "astray" => dstHigh = Len(text)
    /\ pc = "astray" => AtLongLiteral
    /\ IF pc = "while_over" THEN answer \in {"ok", "malformed", "overrun"}
                            ELSE answer = "none"
    /\ answer = "ok" => src = n
============================================================================
