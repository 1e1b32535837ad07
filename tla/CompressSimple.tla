--------------------------- MODULE CompressSimple ---------------------------
(***************************************************************************)
(* csnappy_compress_fragment for ARM without unaligned access: the table   *)
(* is probed at every byte, there are no margins and no wide copies.       *)
(*                                                                         *)
(* It uses the variables of CompressFragment, which is the other version   *)
(* of the same function: src is `ip', done_upto is `next_emit', match is   *)
(* `candidate' and wm is `table'.                                          *)
(***************************************************************************)
EXTENDS CompressFragment

VARIABLE curr_val     \* the four bytes at src, kept up to date by shifting

-----------------------------------------------------------------------------
(* emit_literal(op, start, end): nothing for a literal of no bytes. *)
emit_literal(start, end) ==
    IF start = end THEN UNCHANGED <<op, out, inHigh, outHigh>>
                   ELSE EmitLiteral(start, end - start, FALSE)

(* What a match of k bytes behind the first four counts for: a match that  *)
(* ends with the input is one byte short.                                  *)
find_match_length(s1, s2, m) ==
    \E k \in 0 .. n - s2 : /\ IsMatchLength(s1, s2, k)
                           /\ m = IF k = n - s2 THEN k - 1 ELSE k

(* Mutant: the word is not read again after a match.                       *)
Reload_Never(p) == UNCHANGED curr_val

(* curr_val is set to the three bytes after p.  After a match up to two of *)
(* them lie past the input: they are whatever is there.                    *)
Reload(p) ==
    \E past \in [2 .. 4 -> Byte] :
        curr_val' = [k \in 1 .. 4 |-> IF k = 1 THEN 0
                                      ELSE IF p + k > n THEN past[k]
                                      ELSE At(p + k - 1)]

SimpleShort ==
    /\ pc = "simple"
    /\ n < 4
    /\ pc' = "simple_end"
    /\ UNCHANGED <<input, hashing, table, ip, next_ip, next_emit, next_hash,
                   skip, candidate, offset, copyLeft, op, out, inHigh, outHigh,
                   curr_val>>

SimpleLong ==
    /\ pc = "simple"
    /\ n >= 4
    /\ table' = [b \in Bucket |-> 0]
    /\ Reload(ip)
    /\ Touch(ip + 4)
    /\ pc' = "advance"
    /\ UNCHANGED <<input, hashing, ip, next_ip, next_emit, next_hash, skip,
                   candidate, offset, copyLeft, op, out, outHigh>>

(* src++, and out of both loops four bytes before the end. *)
AdvanceToEnd ==
    /\ pc = "advance"
    /\ ip + 1 >= n - 4
    /\ ip' = ip + 1
    /\ pc' = "simple_end"
    /\ UNCHANGED <<input, hashing, table, next_ip, next_emit, next_hash, skip,
                   candidate, offset, copyLeft, op, out, inHigh, outHigh, curr_val>>

Advance ==
    /\ pc = "advance"
    /\ ip + 1 < n - 4
    /\ ip' = ip + 1
    /\ curr_val' = <<curr_val[2], curr_val[3], curr_val[4], At(ip + 4)>>
    /\ candidate' = table[hashing[curr_val']]
    /\ table' = [table EXCEPT ![hashing[curr_val']] = ip + 1]
    /\ Touch(ip + 5)
    /\ UNCHANGED <<input, hashing, next_ip, next_emit, next_hash, skip,
                   offset, copyLeft, op, out, outHigh>>

AdvanceMiss ==
    /\ Advance
    /\ curr_val' # Load32(candidate')
    /\ UNCHANGED pc

AdvanceHit ==
    /\ Advance
    /\ curr_val' = Load32(candidate')
    /\ pc' = "simple_match"

(* The literal since the last copy; done_upto moves past the match before  *)
(* the copies are written.                                                 *)
SimpleMatch ==
    /\ pc = "simple_match"
    /\ \E m \in 0 .. n - ip - 4 :
         /\ find_match_length(candidate + 4, ip + 4, m)
         /\ copyLeft' = 4 + m
         /\ next_emit' = ip + 4 + m
    /\ offset' = ip - candidate
    /\ emit_literal(next_emit, ip)
    /\ pc' = "simple_copy"
    /\ UNCHANGED <<input, hashing, table, ip, next_ip, next_hash, skip,
                   candidate, curr_val>>

(* Mutant: the scan goes on from the end of the match.                     *)
ScanFrom_End == next_emit

ScanFrom == next_emit - 1

(* One copy; after the last, the scan goes on from the byte before the end *)
(* of the match.                                                           *)
SimpleCopy ==
    /\ pc = "simple_copy"
    /\ EmitCopyLessThan64(ChunkLen(copyLeft))
    /\ IF copyLeft' = 0
         THEN /\ ip' = ScanFrom
              /\ Reload(ip')
              /\ Touch(ip' + 4)
              /\ pc' = "advance"
         ELSE UNCHANGED <<ip, curr_val, inHigh, pc>>
    /\ UNCHANGED <<input, hashing, table, next_ip, next_emit, next_hash, skip,
                   candidate, offset>>

SimpleEnd ==
    /\ pc = "simple_end"
    /\ emit_literal(next_emit, n)
    /\ pc' = "done"
    /\ UNCHANGED <<input, hashing, table, ip, next_ip, next_emit, next_hash,
                   skip, candidate, offset, copyLeft, curr_val>>

SimpleNext == \/ SimpleShort \/ SimpleLong
              \/ AdvanceToEnd \/ AdvanceMiss \/ AdvanceHit
              \/ SimpleMatch \/ SimpleCopy \/ SimpleEnd

-----------------------------------------------------------------------------
(* How much of the input has been accounted for, in either version. *)
BlockCovered == IF pc = "simple_copy" THEN next_emit - copyLeft ELSE Covered

(* DCHECK_EQ(curr_val, get_unaligned_le32(src)): the word is shifted in    *)
(* byte by byte over every way around the loop, and set from three bytes   *)
(* only after a match.                                                     *)
WordCurrent ==
    /\ pc = "simple_match" => curr_val = Load32(ip)
    /\ pc = "advance" /\ ip + 1 < n - 4 =>
         \A k \in 2 .. 4 : curr_val[k] = At(ip + k - 1)

-----------------------------------------------------------------------------
(***************************************************************************)
(* The inductive invariant of this version (the proofs are in              *)
(* Compress_proofs).                                                       *)
(***************************************************************************)
SimpleControl == {"simple", "advance", "simple_match", "simple_copy",
                  "simple_end", "done"}

SimplePositions ==
    /\ pc = "simple" => ip = 0 /\ next_emit = 0
    /\ pc \in {"advance", "simple_match", "simple_copy"} => n >= 4
    /\ pc = "advance" => next_emit <= ip + 1 /\ ip <= n - 2
    /\ pc = "simple_match" => next_emit <= ip /\ 1 <= ip /\ ip < n - 4
    /\ pc = "simple_copy" => ip + 4 <= next_emit /\ next_emit <= n - 1

SimpleTableBehind ==
    /\ pc \in {"advance", "simple_match", "simple_copy"} =>
         \A b \in Bucket : table[b] <= ip
    /\ pc = "simple_match" => candidate < ip

SimpleMatchGenuine ==
    /\ pc = "simple_match" => Load32(ip) = Load32(candidate)
    /\ pc = "simple_copy" =>
         /\ 1 <= offset /\ 4 <= copyLeft /\ copyLeft + offset <= next_emit
         /\ \A k \in next_emit - copyLeft .. next_emit - 1 : At(k) = At(k - offset)

(* The three bytes that will be shifted down, those past the end included. *)
WordKnown ==
    /\ pc = "advance" =>
         \A k \in 2 .. 4 :
           /\ curr_val[k] \in Byte
           /\ ip + k <= n => curr_val[k] = At(ip + k - 1)
    /\ pc = "simple_match" => curr_val = Load32(ip)

SimpleOverhead ==
    /\ 61 * (op - BlockCovered - 1) <= BlockCovered
    /\ pc \in {"simple", "advance", "simple_match", "simple_end"} =>
         61 * (op - next_emit) <= next_emit

SimpleInductive ==
    /\ pc \in SimpleControl /\ DataOK
    /\ SimplePositions /\ SimpleTableBehind /\ SimpleMatchGenuine /\ WordKnown
    /\ inHigh <= n + 2 /\ WritesNear /\ SimpleOverhead
============================================================================
