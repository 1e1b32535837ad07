------------------------- MODULE CompressFragment -------------------------
(***************************************************************************)
(* csnappy_compress_fragment (csnappy_compress.c, the fast version): one   *)
(* call that compresses one block of the input.                            *)
(*                                                                         *)
(* Positions are 0-based offsets from `input' (the code's base_ip), so     *)
(* byte p is At(p).  The bytes the code writes are represented by the      *)
(* element they encode (`out') and the output offset they end at (`op').   *)
(* Two ghost variables record how far memory was touched: inHigh and       *)
(* outHigh are one past the highest input byte read and output byte        *)
(* written, the bytes that 16-byte wide copies touch and do not use        *)
(* included.                                                               *)
(***************************************************************************)
EXTENDS SnappyElements

CONSTANTS
    Byte,       \* the byte values
    Inputs,     \* the fragments that may be given
    Bucket,     \* the indices of the hash table, 2^(workmem power - 1)
    Hashes,     \* the hash functions considered, words to buckets
    Stale,      \* what working_memory may hold when the call starts
    Margin,     \* kInputMarginBytes
    Wide,       \* bytes that EmitLiteral's fast path moves
    SkipUnit    \* scan steps per increment of the stride (32 in the code)

PosLimit == 65536               \* table entries are uint16_t
Word     == [1 .. 4 -> Byte]    \* what UNALIGNED_LOAD32 returns

ASSUME InputAssumption ==
    /\ Inputs \subseteq Seq(Byte)
    /\ \A s \in Inputs : Len(s) <= PosLimit

ASSUME HashAssumption ==
    /\ Hashes \subseteq [Word -> Bucket]
    /\ Bucket # {}
    /\ Stale \subseteq [Bucket -> 0 .. PosLimit - 1]

ASSUME MarginAssumption ==
    /\ Margin \in Nat /\ Wide \in Nat /\ SkipUnit \in Nat \ {0}
    /\ Margin >= 6               \* GetEightBytesAt just below ip_limit
    /\ Wide <= Margin + 1        \* EmitLiteral's comment
    /\ Wide <= 31                \* "the output will have 32 spare bytes"

VARIABLES
    input, hashing,              \* the fragment, the hash function
    pc,                          \* where the code is
    table,                       \* working_memory as uint16_t[]
    ip, next_ip, next_emit,      \* positions, as in the code
    next_hash, skip, candidate,  \* as in the code
    offset, copyLeft,            \* arguments of EmitCopy, while it loops
    op, out,                     \* output offset, elements emitted
    inHigh, outHigh              \* ghosts: extent of reads and of writes

vars == <<input, hashing, pc, table, ip, next_ip, next_emit, next_hash, skip,
          candidate, offset, copyLeft, op, out, inHigh, outHigh>>

-----------------------------------------------------------------------------
n       == Len(input)            \* input_size; ip_end is n too
(* Mutant: a margin for the 4-byte loads only.                             *)
ip_limit_Loose == n - 4

ip_limit == n - Margin

At(p)     == input[p + 1]
Load32(p) == [k \in 1 .. 4 |-> input[p + k]]
Hash(p)   == hashing[Load32(p)]

SetMax(a, b) == IF a >= b THEN a ELSE b
Touch(p) == inHigh' = SetMax(inHigh, p)

(* m is what FindMatchLength(s1, s2, ip_end) returns. *)
IsMatchLength(s1, s2, m) ==
    /\ m \in 0 .. (n - s2)
    /\ \A k \in 0 .. m - 1 : At(s1 + k) = At(s2 + k)
    /\ m < n - s2 => At(s1 + m) # At(s2 + m)

(* EmitLiteral(op, start, len, fast): the fast path reads and writes Wide  *)
(* bytes for a literal of at most Wide, whatever its length.               *)
EmitLiteral(start, len, fast) ==
    LET moved == IF fast /\ len <= Wide THEN Wide ELSE len IN
    /\ out' = Append(out, LiteralElement(SubSeq(input, start + 1, start + len)))
    /\ op' = op + LiteralSize(len)
    /\ Touch(start + moved)
    /\ outHigh' = SetMax(outHigh, op + LiteralHeader(len) + moved)

-----------------------------------------------------------------------------
Init ==
    /\ input \in Inputs
    /\ hashing \in Hashes
    /\ table \in Stale
    /\ pc = "start"
    /\ ip = 0 /\ next_ip = 0 /\ next_emit = 0
    /\ next_hash = CHOOSE b \in Bucket : TRUE   \* not read before it is set
    /\ skip = SkipUnit /\ candidate = 0
    /\ offset = 0 /\ copyLeft = 0
    /\ op = 0 /\ out = <<>>
    /\ inHigh = 0 /\ outHigh = 0

(* Too short to look for matches: the table is not even cleared. *)
StartShort ==
    /\ pc = "start"
    /\ n < Margin
    /\ pc' = "remainder"
    /\ UNCHANGED <<input, hashing, table, ip, next_ip, next_emit, next_hash,
                   skip, candidate, offset, copyLeft, op, out, inHigh, outHigh>>

(* Mutant: the table is not cleared.                                       *)
StartLong_Stale ==
    /\ pc = "start"
    /\ n >= Margin
    /\ pc' = "main_loop"
    /\ ip' = 1
    /\ next_hash' = Hash(1)
    /\ Touch(5)
    /\ UNCHANGED <<input, hashing, table, next_ip, next_emit, skip, candidate,
                   offset, copyLeft, op, out, outHigh>>

StartLong ==
    /\ pc = "start"
    /\ n >= Margin
    /\ pc' = "main_loop"
    /\ table' = [b \in Bucket |-> 0]
    /\ ip' = 1
    /\ next_hash' = Hash(1)
    /\ Touch(5)
    /\ UNCHANGED <<input, hashing, next_ip, next_emit, skip, candidate,
                   offset, copyLeft, op, out, outHigh>>

(* Mutant: the first strides of a scan are zero.                           *)
MainLoop_SkipZero ==
    /\ pc = "main_loop"
    /\ pc' = "scan"
    /\ skip' = 0
    /\ next_ip' = ip
    /\ UNCHANGED <<input, hashing, table, ip, next_emit, next_hash, candidate,
                   offset, copyLeft, op, out, inHigh, outHigh>>

MainLoop ==
    /\ pc = "main_loop"
    /\ pc' = "scan"
    /\ skip' = SkipUnit
    /\ next_ip' = ip
    /\ UNCHANGED <<input, hashing, table, ip, next_emit, next_hash, candidate,
                   offset, copyLeft, op, out, inHigh, outHigh>>

(* One iteration of the scan: where the next one would look. *)
Stride   == skip \div SkipUnit
ScanNext == next_ip + Stride

ScanAtLimit ==
    /\ pc = "scan"
    /\ ScanNext > ip_limit
    /\ pc' = "remainder"
    /\ ip' = next_ip
    /\ next_ip' = ScanNext
    /\ skip' = skip + 1
    /\ UNCHANGED <<input, hashing, table, next_emit, next_hash, candidate,
                   offset, copyLeft, op, out, inHigh, outHigh>>

(* What the iteration does to the table before it compares the words. *)
Probe ==
    /\ pc = "scan"
    /\ ScanNext <= ip_limit
    /\ ip' = next_ip
    /\ next_ip' = ScanNext
    /\ skip' = skip + 1
    /\ next_hash' = Hash(ScanNext)
    /\ candidate' = table[next_hash]
    /\ table' = [table EXCEPT ![next_hash] = next_ip % PosLimit]
    /\ Touch(ScanNext + 4)
    /\ UNCHANGED <<input, hashing, next_emit, offset, copyLeft, op, out, outHigh>>

ScanMiss ==
    /\ Probe
    /\ Load32(next_ip) # Load32(candidate')
    /\ UNCHANGED pc

ScanHit ==
    /\ Probe
    /\ Load32(next_ip) = Load32(candidate')
    /\ pc' = "literal"

(* Mutant: gives up on a match close to the limit after the literal that   *)
(* precedes it has been written.                                           *)
PendingLiteral_ThenGiveUp ==
    /\ pc = "literal"
    /\ EmitLiteral(next_emit, ip - next_emit, TRUE)
    /\ pc' = IF ip + 1 >= ip_limit THEN "remainder" ELSE "match"
    /\ UNCHANGED <<input, hashing, table, ip, next_ip, next_emit, next_hash,
                   skip, candidate, offset, copyLeft>>

(* Step 2: the bytes since the last copy go out as a literal. *)
PendingLiteral ==
    /\ pc = "literal"
    /\ EmitLiteral(next_emit, ip - next_emit, TRUE)
    /\ pc' = "match"
    /\ UNCHANGED <<input, hashing, table, ip, next_ip, next_emit, next_hash,
                   skip, candidate, offset, copyLeft>>

(* Step 3: how long the match is; ip moves past it before it is emitted. *)
Match ==
    /\ pc = "match"
    /\ \E m \in {k \in 0 .. (n - ip - 4) : IsMatchLength(candidate + 4, ip + 4, k)} :
         /\ copyLeft' = 4 + m
         /\ ip' = ip + 4 + m
    /\ Touch(n)                      \* at most: it compares words, not bytes
    /\ offset' = ip - candidate
    /\ pc' = "copy"
    /\ UNCHANGED <<input, hashing, table, next_ip, next_emit, next_hash, skip,
                   candidate, op, out, outHigh>>

(* Mutant: as many copies of 64 as fit, whatever is left for the last one. *)
ChunkLen_Greedy(left) == IF left > 64 THEN 64 ELSE left

(* EmitCopy, one EmitCopyLessThan64 at a time. *)
ChunkLen(left) == IF left >= 68 THEN 64 ELSE IF left > 64 THEN 60 ELSE left

EmitCopyLessThan64(len) ==
    /\ out' = Append(out, CopyElement(offset, len))
    /\ op' = op + CopySize(offset, len)
    /\ outHigh' = SetMax(outHigh, op + CopySize(offset, len))
    /\ copyLeft' = copyLeft - len

(* Mutant: next_emit is left behind the match.                             *)
EmitCopy_NoAdvance ==
    /\ pc = "copy"
    /\ EmitCopyLessThan64(ChunkLen(copyLeft))
    /\ pc' = IF copyLeft' = 0 THEN "resume" ELSE "copy"
    /\ UNCHANGED <<input, hashing, table, ip, next_ip, next_emit, next_hash,
                   skip, candidate, offset, inHigh>>

EmitCopy ==
    /\ pc = "copy"
    /\ EmitCopyLessThan64(ChunkLen(copyLeft))
    /\ IF copyLeft' = 0
         THEN pc' = "resume" /\ next_emit' = ip
         ELSE UNCHANGED <<pc, next_emit>>
    /\ UNCHANGED <<input, hashing, table, ip, next_ip, next_hash, skip,
                   candidate, offset, inHigh>>

ResumeAtLimit ==
    /\ pc = "resume"
    /\ ip >= ip_limit
    /\ pc' = "remainder"
    /\ UNCHANGED <<input, hashing, table, ip, next_ip, next_emit, next_hash,
                   skip, candidate, offset, copyLeft, op, out, inHigh, outHigh>>

(* The entry for ip - 1 is written before the one for ip is read: they may *)
(* be the same bucket.                                                     *)
AfterPrevious == [table EXCEPT ![Hash(ip - 1)] = (ip - 1) % PosLimit]

(* Mutant: the entry for ip is written before it is read.                  *)
Resume_WriteFirst ==
    /\ pc = "resume"
    /\ ip < ip_limit
    /\ table' = [AfterPrevious EXCEPT ![Hash(ip)] = ip % PosLimit]
    /\ candidate' = table'[Hash(ip)]
    /\ Touch(ip + 7)
    /\ UNCHANGED <<input, hashing, next_ip, next_emit, skip, offset, copyLeft,
                   op, out, outHigh>>

Resume ==
    /\ pc = "resume"
    /\ ip < ip_limit
    /\ candidate' = AfterPrevious[Hash(ip)]
    /\ table' = [AfterPrevious EXCEPT ![Hash(ip)] = ip % PosLimit]
    /\ Touch(ip + 7)
    /\ UNCHANGED <<input, hashing, next_ip, next_emit, skip, offset, copyLeft,
                   op, out, outHigh>>

ResumeHit ==
    /\ Resume
    /\ Load32(ip) = Load32(candidate')
    /\ pc' = "match"
    /\ UNCHANGED <<ip, next_hash>>

(* Mutant: the hash of the word at ip, not of the one after it.            *)
ResumeMiss_StaleHash ==
    /\ Resume
    /\ Load32(ip) # Load32(candidate')
    /\ pc' = "main_loop"
    /\ next_hash' = Hash(ip)
    /\ ip' = ip + 1

ResumeMiss ==
    /\ Resume
    /\ Load32(ip) # Load32(candidate')
    /\ pc' = "main_loop"
    /\ next_hash' = Hash(ip + 1)
    /\ ip' = ip + 1

Remainder ==
    /\ pc = "remainder"
    /\ next_emit < n
    /\ EmitLiteral(next_emit, n - next_emit, FALSE)
    /\ pc' = "done"
    /\ UNCHANGED <<input, hashing, table, ip, next_ip, next_emit, next_hash,
                   skip, candidate, offset, copyLeft>>

RemainderEmpty ==
    /\ pc = "remainder"
    /\ next_emit >= n
    /\ pc' = "done"
    /\ UNCHANGED <<input, hashing, table, ip, next_ip, next_emit, next_hash,
                   skip, candidate, offset, copyLeft, op, out, inHigh, outHigh>>

Next == \/ StartShort \/ StartLong \/ MainLoop
        \/ ScanAtLimit \/ ScanMiss \/ ScanHit
        \/ PendingLiteral \/ Match \/ EmitCopy
        \/ ResumeAtLimit \/ ResumeHit \/ ResumeMiss
        \/ Remainder \/ RemainderEmpty

(* A call that has returned stays returned. *)
Returned == pc = "done" /\ UNCHANGED vars

Spec == Init /\ [][Next \/ Returned]_vars

-----------------------------------------------------------------------------
(* How much of the input the elements emitted so far account for. *)
Covered == CASE pc = "copy"            -> ip - copyLeft
             [] pc = "match"           -> ip
             [] pc = "done"            -> n
             [] OTHER                  -> next_emit

Element == [kind : {"literal"}, bytes : Seq(Byte)]
             \cup [kind : {"copy"}, offset : 1 .. MaxOffset,
                   len : MinCopyLen .. MaxCopyLen]

Control == {"start", "main_loop", "scan", "literal", "match", "copy",
            "resume", "remainder", "done"}

DataOK ==
    /\ input \in Seq(Byte) /\ n <= PosLimit
    /\ hashing \in [Word -> Bucket]
    /\ table \in [Bucket -> 0 .. PosLimit - 1]
    /\ ip \in 0 .. n /\ next_emit \in 0 .. n /\ next_ip \in Nat
    /\ next_hash \in Bucket
    /\ skip \in Nat /\ skip >= SkipUnit
    /\ candidate \in 0 .. PosLimit - 1
    /\ offset \in 0 .. MaxOffset /\ copyLeft \in Nat
    /\ op \in Nat /\ out \in Seq(Element)
    /\ inHigh \in Nat /\ outHigh \in Nat

TypeOK == pc \in Control /\ DataOK

(* DCHECK_LT(candidate, ip): whatever the hash function does, and whatever  *)
(* the working memory held before the call, a position found in the table   *)
(* lies strictly before the one that looks it up, so a copy has an offset   *)
(* of at least 1 and reads only text that a decoder already has.            *)
CandidateBehind ==
    /\ pc \in {"literal", "match"} => candidate < ip
    /\ pc = "copy" => 1 <= offset /\ offset <= Covered

(* DCHECK_EQ(hash, Hash(ip)): the hash is computed one iteration ahead, or *)
(* from the eight bytes loaded before ip moved, and is still the hash of   *)
(* the word at the position that uses it.                                  *)
HashCurrent ==
    /\ pc = "main_loop" => next_hash = Hash(ip)
    /\ pc = "scan" => next_hash = Hash(next_ip)

(* No load, wide copies and look-ahead included, passes the fragment's end. *)
ReadsInside == inHigh <= n

(* Every store, the bytes a wide copy writes too many included, falls      *)
(* inside the buffer that csnappy_max_compressed_length asks for.          *)
WritesInside == outHigh <= MaxCompressedLength(n)

(* What the elements cost beyond the bytes they stand for: one byte while  *)
(* a literal waits for its copy or ends the fragment, and one more for     *)
(* every 61 bytes covered.  It is why n + n/6 + 32 is always enough.       *)
Overhead == 61 * (op - Covered - 1) <= Covered

(* A literal is always followed by a copy: two in a row would mean that a  *)
(* second header is paid where one would do.                               *)
NoAdjacentLiterals ==
    \A i \in 1 .. Len(out) - 1 :
        out[i].kind = "literal" => out[i + 1].kind = "copy"

(* The elements mean the input: the abstract compressor with the text that *)
(* has been covered so far.                                                *)
Stream == INSTANCE SnappyStream WITH
            elements <- out, text <- SubSeq(input, 1, Covered), size <- op

EmitsInput == Stream!Spec

(* How far into the input the code has come, and, at one place in it, how  *)
(* many steps at most it makes there before it moves on.                   *)
Front == CASE pc = "start"                                       -> 0
           [] pc \in {"main_loop", "literal", "match", "resume"} -> ip
           [] pc = "scan"                                        -> next_ip
           [] pc = "copy"                                        -> ip - copyLeft
           [] pc \in {"remainder", "done"}                       -> n

Stage == CASE pc = "start"   -> 7  [] pc = "resume"    -> 6  [] pc = "main_loop" -> 5
           [] pc = "scan"    -> 4  [] pc = "literal"   -> 3  [] pc = "match"     -> 2
           [] pc = "copy"    -> 1  [] pc = "remainder" -> 1  [] pc = "done"      -> 0

Work == 8 * (n - Front) + Stage

(* Every probe, match and copy gets ahead: no stride is zero, and after a  *)
(* copy the scan goes on behind the match.  Hence the call returns after   *)
(* at most 8 * n + 7 steps, whatever the hash function and the table.      *)
Advances == [][Work' \in 0 .. Work - 1]_vars

-----------------------------------------------------------------------------
(***************************************************************************)
(* The inductive invariant behind the properties above (the proofs are in  *)
(* CompressFragment_proofs).                                               *)
(***************************************************************************)
AtRest == {"start", "main_loop", "scan", "literal", "resume", "remainder"}

Positions ==
    /\ pc = "start" => next_emit = 0
    /\ pc \notin {"start", "remainder", "done"} => n >= Margin
    /\ pc = "main_loop" => next_emit < ip /\ ip <= ip_limit + 1
    /\ pc = "scan" => next_emit < next_ip /\ next_ip <= ip_limit + 1
    /\ pc = "literal" => next_emit < ip
    /\ pc \in {"literal", "match"} => ip < ip_limit
    /\ pc = "resume" => next_emit = ip /\ 1 <= ip

(* Every table entry is a position before the one to be looked up. *)
TableBehind ==
    \A b \in Bucket :
        /\ pc \in {"main_loop", "copy", "resume"} => table[b] < ip
        /\ pc = "scan" => table[b] < next_ip
        /\ pc \in {"literal", "match"} => table[b] <= ip

(* DCHECK_EQ(0, memcmp(base, candidate, matched)), for what is left to emit. *)
MatchGenuine ==
    /\ pc \in {"literal", "match"} => Load32(ip) = Load32(candidate)
    /\ pc = "copy" => /\ 4 <= copyLeft /\ copyLeft + offset <= ip
                      /\ \A k \in ip - copyLeft .. ip - 1 : At(k) = At(k - offset)

(* Between matches the header of the last literal has been earned back. *)
PaidBack == pc \in AtRest => 61 * (op - next_emit) <= next_emit

LastIsCopy == pc \in AtRest => out = <<>> \/ out[Len(out)].kind = "copy"

(* The stores keep closer to the fragment than the buffer's size demands:  *)
(* one byte and a 61st of it, which many blocks in one buffer need.        *)
WritesNear == 61 * (outHigh - n - 1) <= n

(* What holds whatever elements precede those of this fragment. *)
BlockInductive ==
    /\ pc \in Control /\ DataOK /\ Positions /\ TableBehind /\ HashCurrent
    /\ CandidateBehind /\ MatchGenuine
    /\ ReadsInside /\ WritesNear /\ Overhead /\ PaidBack

Inductive == BlockInductive /\ NoAdjacentLiterals /\ LastIsCopy
============================================================================
