---------------------------- MODULE ArrayWriter ----------------------------
(***************************************************************************)
(* struct SnappyArrayWriter of csnappy_decompress.c and the three ways to  *)
(* append to it: SAW__AppendFastPath, SAW__Append and SAW__AppendFromSelf, *)
(* with IncrementalCopyFastPath and IncrementalCopy under the last.        *)
(*                                                                         *)
(* The output array is `mem', indexed from the writer's base; `op' and     *)
(* `limit' are the offsets of writer.op and writer.op_limit.  A copy runs  *)
(* one store at a time: UnalignedCopy64 is one 8-byte, two 4-byte or eight *)
(* 1-byte moves, depending on the platform (`unit'), and where source and  *)
(* destination overlap that order decides what is read.                    *)
(***************************************************************************)
EXTENDS SnappyElements

CONSTANTS
    Value,       \* what a byte of the output can hold
    MemSize,     \* bytes from the base that the model can see written
    Calls,       \* the elements the decoder's loop may ask for
    Outputs,     \* what the memory at the base may hold at the start
    Limits,      \* where the array may end
    Starts,      \* bound: calls are made when the text has these lengths
    NoCall       \* `call' when the writer is idle

LiteralCall == [kind : {"literal"}, bytes : Seq(Value), ahead : Seq(Value),
                fast : BOOLEAN]
CopyCall    == [kind : {"copy"}, offset : Nat, len : Nat \ {0}]

(* The decoder takes the fast path of a literal only when it is at most 16 *)
(* bytes long and the input holds 16 from where it starts; a copy's length *)
(* comes from char_table, which holds none of zero.                        *)
ASSUME CallAssumption ==
    /\ Calls \subseteq LiteralCall \cup CopyCall
    /\ \A e \in Calls : e.kind = "literal" /\ e.fast =>
         Len(e.bytes) + Len(e.ahead) = 16
    /\ NoCall \notin Calls

ASSUME MemAssumption ==
    /\ MemSize \in Nat
    /\ Outputs \subseteq [0 .. MemSize - 1 -> Value]
    /\ Limits \subseteq 0 .. MemSize
    /\ Starts \subseteq Nat

(* Mutant: the overflow of the last wide copy, forgetting the expansion.   *)
kMaxIncrementCopyOverflow_Short == 7

kMaxIncrementCopyOverflow == 10

VARIABLES
    mem, op, limit,      \* the array, writer.op, writer.op_limit
    unit,                \* bytes moved by one store of UnalignedCopy64
    call, ret,           \* the element asked for, the answer to the last one
    phase,               \* which loop is running
    src, to, left,       \* src, op and len of the loops
    piece,               \* bytes already moved by the current UnalignedCopy64
    high                 \* ghost: one past the highest byte this call wrote

wvars == <<mem, op, limit, unit, call, ret, phase, src, to, left, piece, high>>

Units == {1, 4, 8}

Init ==
    /\ mem \in Outputs
    /\ limit \in Limits
    /\ op \in Starts /\ op <= limit
    /\ unit \in Units
    /\ call = NoCall /\ ret = "ok" /\ phase = "idle"
    /\ src = 0 /\ to = 0 /\ left = 0 /\ piece = 0 /\ high = 0

-----------------------------------------------------------------------------
space_left == limit - op

HigherOf(a, b) == IF a >= b THEN a ELSE b

(* mem after w bytes have been loaded from s and then stored at d. *)
Move(s, d, w) ==
    [i \in DOMAIN mem |-> IF i \in d .. d + w - 1 THEN mem[s + (i - d)] ELSE mem[i]]

(* The call is over: the text is k bytes longer. *)
Return(k) ==
    /\ ret' = "ok" /\ op' = op + k
    /\ phase' = "idle" /\ call' = NoCall

Fail(error) ==
    /\ ret' = error /\ phase' = "idle" /\ call' = NoCall
    /\ UNCHANGED <<mem, op, src, to, left, piece, high>>

-----------------------------------------------------------------------------
(* A literal.  e.fast: SAW__AppendFastPath was chosen, which may move 16   *)
(* bytes: the literal and the input bytes that follow it (e.ahead).        *)
PutBytes(s, k) ==
    /\ mem' = [i \in DOMAIN mem |->
                 IF i \in op .. op + Len(s) - 1 THEN s[i - op + 1] ELSE mem[i]]
    /\ high' = op + Len(s)
    /\ Return(k)
    /\ UNCHANGED <<src, to, left, piece>>

AppendWide ==
    /\ phase = "called" /\ call.kind = "literal"
    /\ call.fast /\ space_left >= 16
    /\ PutBytes(call.bytes \o call.ahead, Len(call.bytes))
    /\ UNCHANGED <<limit, unit>>

AppendExact ==
    /\ phase = "called" /\ call.kind = "literal"
    /\ ~(call.fast /\ space_left >= 16)
    /\ space_left >= Len(call.bytes)
    /\ PutBytes(call.bytes, Len(call.bytes))
    /\ UNCHANGED <<limit, unit>>

AppendOverrun ==
    /\ phase = "called" /\ call.kind = "literal"
    /\ ~(call.fast /\ space_left >= 16)
    /\ space_left < Len(call.bytes)
    /\ Fail("overrun")
    /\ UNCHANGED <<limit, unit>>

-----------------------------------------------------------------------------
(* Mutant: the subtraction is signed, and an offset of zero is accepted.   *)
BadOffset_Signed == op <= call.offset - 1

(* op - base <= offset - 1u, where zero wraps to the largest of them all.  *)
BadOffset == call.offset = 0 \/ op <= call.offset - 1

(* SAW__AppendFromSelf, up to the loops. *)
SelfMalformed ==
    /\ phase = "called" /\ call.kind = "copy"
    /\ BadOffset
    /\ Fail("malformed")
    /\ UNCHANGED <<limit, unit>>

(* Mutant: the pattern may be shorter than a word.                         *)
TwoWords_AnyOffset == call.len <= 16 /\ space_left >= 16

TwoWords == call.len <= 16 /\ call.offset >= 8 /\ space_left >= 16

(* Mutant: room for the copy is enough.                                    *)
FastEnough_Exact == space_left >= call.len

FastEnough == space_left >= call.len + kMaxIncrementCopyOverflow

SelfBegin ==
    /\ phase = "called" /\ call.kind = "copy"
    /\ ~BadOffset
    /\ src' = op - call.offset /\ to' = op /\ piece' = 0 /\ high' = op
    /\ \/ TwoWords /\ phase' = "two" /\ left' = 16
       \/ ~TwoWords /\ FastEnough /\ phase' = "expand" /\ left' = call.len
       \/ /\ ~TwoWords /\ ~FastEnough /\ space_left >= call.len
          /\ phase' = "bytes" /\ left' = call.len
    /\ UNCHANGED <<mem, op, limit, unit, call, ret>>

SelfOverrun ==
    /\ phase = "called" /\ call.kind = "copy"
    /\ ~BadOffset
    /\ ~TwoWords /\ ~FastEnough /\ space_left < call.len
    /\ Fail("overrun")
    /\ UNCHANGED <<limit, unit>>

(* One move of UnalignedCopy64(src, to); after the last one the loop's     *)
(* variables become s2, t2 and l2.                                         *)
MovePiece(s2, t2, l2) ==
    /\ mem' = Move(src + piece, to + piece, unit)
    /\ high' = HigherOf(high, to + piece + unit)
    /\ IF piece + unit < 8
         THEN piece' = piece + unit /\ UNCHANGED <<src, to, left>>
         ELSE piece' = 0 /\ src' = s2 /\ to' = t2 /\ left' = l2
    /\ UNCHANGED <<op, limit, unit, call, ret, phase>>

(* Mutant: the bytes that doubling has produced are not counted.           *)
Expand_KeepsLen ==
    /\ phase = "expand" /\ to - src < 8
    /\ MovePiece(src, to + (to - src), left)

(* while (op - src < 8): the pattern is doubled. *)
Expand ==
    /\ phase = "expand" /\ to - src < 8
    /\ MovePiece(src, to + (to - src), left - (to - src))

ExpandEnd ==
    /\ phase = "expand" /\ to - src >= 8
    /\ phase' = "wide"
    /\ UNCHANGED <<mem, op, limit, unit, call, ret, src, to, left, piece, high>>

(* while (len > 0), or the two copies of the case len <= 16. *)
WideCopy ==
    /\ phase \in {"wide", "two"} /\ left > 0
    /\ MovePiece(src + 8, to + 8, left - 8)

WideEnd ==
    /\ phase \in {"wide", "two"} /\ left <= 0
    /\ Return(call.len)
    /\ UNCHANGED <<mem, limit, unit, src, to, left, piece, high>>

(* IncrementalCopy, one byte of its do-while loop. *)
ByteCopy ==
    /\ phase = "bytes"
    /\ mem' = Move(src, to, 1)
    /\ high' = HigherOf(high, to + 1)
    /\ src' = src + 1 /\ to' = to + 1 /\ left' = left - 1
    /\ IF left - 1 > 0 THEN UNCHANGED <<op, call, ret, phase>>
                       ELSE Return(call.len)
    /\ UNCHANGED <<limit, unit, piece>>

Serve == \/ AppendWide \/ AppendExact \/ AppendOverrun
         \/ SelfMalformed \/ SelfBegin \/ SelfOverrun
         \/ Expand \/ ExpandEnd \/ WideCopy \/ WideEnd \/ ByteCopy

(* The decoder's loop asks for element e. *)
Invoke(e) ==
    /\ phase = "idle"
    /\ phase' = "called" /\ call' = e
    /\ UNCHANGED <<mem, op, limit, unit, ret, src, to, left, piece, high>>

Next == Serve \/ (op \in Starts /\ \E e \in Calls : Invoke(e))

Spec == Init /\ [][Next]_wvars

(* The loops run until they are done; whether a call is made is up to the  *)
(* caller.                                                                 *)
FairSpec == Spec /\ WF_wvars(Serve)

-----------------------------------------------------------------------------
TypeOK ==
    /\ mem \in [0 .. MemSize - 1 -> Value]
    /\ limit \in 0 .. MemSize /\ op \in 0 .. limit
    /\ unit \in Units
    /\ call \in Calls \cup {NoCall}
    /\ ret \in {"ok", "malformed", "overrun"}
    /\ phase \in {"idle", "called", "two", "expand", "wide", "bytes"}
    /\ src \in Nat /\ to \in Nat /\ left \in Int /\ high \in Nat
    /\ \/ unit = 1 /\ piece \in 0 .. 7
       \/ unit = 4 /\ piece \in {0, 4}
       \/ unit = 8 /\ piece = 0

(* "no data is written beyond dst + dst_len", the bytes that the wide      *)
(* copies write too many included.                                         *)
StaysInside == high <= limit

(* "it can write up to ten extra bytes after the end of the copy": neither *)
(* doubling a short pattern nor the wide copies that follow write more.    *)
Overshoot ==
    phase \in {"expand", "wide"} =>
        high <= op + call.len + kMaxIncrementCopyOverflow

(* Whichever path serves a call, and whatever width the platform moves     *)
(* bytes at, the text is extended by exactly what the element stands for,  *)
(* or the call is refused for the right reason and the text is as before.  *)
Writer == INSTANCE TextWriter WITH
            text <- [i \in 1 .. op |-> mem[i - 1]], pending <- call, Idle <- NoCall

AppendsText == Writer!Spec

(* Every call is answered: the loop that doubles the pattern comes to an   *)
(* end because the pattern is never empty.                                 *)
Answered == (call # NoCall) ~> (call = NoCall)

-----------------------------------------------------------------------------
(***************************************************************************)
(* The inductive invariant behind StaysInside, Overshoot and AppendsText   *)
(* (the proofs are in ArrayWriter_proofs).                                 *)
(***************************************************************************)
Doubling == {"expand", "wide"}
Copying  == {"two", "bytes"} \cup Doubling

Gap == to - src

Serving ==
    /\ phase = "idle" <=> call = NoCall
    /\ phase \in Copying => call.kind = "copy" /\ ~BadOffset

Room ==
    /\ phase = "two" => call.len <= 16 /\ call.offset >= 8 /\ op + 16 <= limit
    /\ phase \in Doubling => op + call.len + kMaxIncrementCopyOverflow <= limit
    /\ phase = "bytes" => op + call.len <= limit

(* Where the loops are.  While the pattern is doubled, src stays and the   *)
(* gap between source and destination is the offset times a power of two.  *)
Counters ==
    /\ phase \in Copying => /\ op <= to /\ to <= high
                            /\ op - call.offset <= src /\ call.offset <= Gap
    /\ phase \in {"two", "bytes"} => Gap = call.offset
    /\ phase = "expand" =>
         /\ src = op - call.offset
         /\ Gap \in {call.offset, 2 * call.offset, 4 * call.offset, 8 * call.offset}
    /\ phase \in {"two", "wide"} => Gap >= 8
    /\ phase = "two" => to + left = op + 16 /\ left \in {0, 8, 16}
    /\ phase \in Doubling \cup {"bytes"} => to + left = op + call.len
    /\ phase = "bytes" => piece = 0 /\ left > 0
    /\ piece # 0 => \/ phase = "expand" /\ Gap < 8
                    \/ phase \in {"two", "wide"} /\ left > 0

(* What has been written repeats with the period the element asks for, ... *)
Recurrence ==
    phase \in Copying => \A i \in op .. to - 1 : mem[i] = mem[i - call.offset]

(* ... src is a whole number of periods behind to, ...                     *)
InPhase ==
    phase \in Copying =>
        \A k \in 0 .. call.offset - 1 : mem[to - call.offset + k] = mem[src + k]

(* ... and of the move that is under way, the bytes that were text when it *)
(* began have been copied faithfully.                                      *)
Moved ==
    phase \in Copying =>
        \A k \in 0 .. piece - 1 : k < Gap => mem[to + k] = mem[src + k]

Inductive ==
    /\ TypeOK /\ Serving /\ Room /\ Counters
    /\ Recurrence /\ InPhase /\ Moved
    /\ StaysInside /\ Overshoot
============================================================================
