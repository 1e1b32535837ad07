-------------------------- MODULE Compress_proofs --------------------------
(***************************************************************************)
(* Proofs about csnappy_compress, for every text whose length a uint32_t   *)
(* holds, either version of the fragment compressor, every hash function,  *)
(* size of the working memory and previous contents of it.                 *)
(*                                                                         *)
(* The proofs about the fast version are those of CompressFragment_proofs; *)
(* the simple version has an inductive invariant of its own.               *)
(***************************************************************************)
EXTENDS Compress, CompressFragment_proofs, SnappyFormat_proofs

-----------------------------------------------------------------------------
(* The simple version, one lemma per action. *)

(* The three bytes after p, in the part of the word they are kept in. *)
LEMMA ReloadFacts ==
    ASSUME DataOK, NEW p \in Nat, Reload(p)
    PROVE  \A k \in 2 .. 4 :
             /\ curr_val'[k] \in Byte
             /\ p + k <= n => curr_val'[k] = input[p + k]
<1>1. PICK past \in [2 .. 4 -> Byte] :
        curr_val' = [k \in 1 .. 4 |-> IF k = 1 THEN 0
                                      ELSE IF p + k > n THEN past[k]
                                      ELSE At(p + k - 1)]
  BY DEF Reload
<1>2. n \in Nat /\ \A q \in 0 .. n - 1 : At(q) \in Byte
  BY InputFacts
<1> SUFFICES ASSUME NEW k \in 2 .. 4
             PROVE  /\ curr_val'[k] \in Byte
                    /\ p + k <= n => curr_val'[k] = input[p + k]
  OBVIOUS
<1>3. curr_val'[k] = IF p + k > n THEN past[k] ELSE At(p + k - 1)
  BY <1>1
<1>4. CASE p + k > n
  BY <1>2, <1>3, <1>4
<1>5. CASE p + k <= n
  <2>1. p + k - 1 \in 0 .. n - 1 /\ p + k - 1 + 1 = p + k
    BY <1>2, <1>5
  <2>2. curr_val'[k] = At(p + k - 1)
    BY <1>2, <1>3, <1>5
  <2>. QED  BY <1>2, <2>1, <2>2 DEF At
<1>. QED  BY <1>2, <1>4, <1>5

LEMMA SimpleShortKeeps == SimpleInductive /\ SimpleShort => SimpleInductive'
<1> SUFFICES ASSUME SimpleInductive, SimpleShort PROVE SimpleInductive'
  OBVIOUS
<1> USE DEF SimpleShort, n
<1>1. DataOK' /\ pc' \in SimpleControl
  BY DEF SimpleInductive, DataOK, SimpleControl
<1>2. SimplePositions' /\ SimpleTableBehind'
  BY DEF SimplePositions, SimpleTableBehind
<1>3. SimpleMatchGenuine' /\ WordKnown'
  BY DEF SimpleMatchGenuine, WordKnown
<1>4. inHigh' <= n' + 2 /\ WritesNear'
  BY DEF SimpleInductive, WritesNear
<1>5. SimpleOverhead'
  BY DEF SimpleInductive, SimpleOverhead, BlockCovered, Covered
<1>. QED  BY <1>1, <1>2, <1>3, <1>4, <1>5 DEF SimpleInductive

LEMMA SimpleLongKeeps == SimpleInductive /\ SimpleLong => SimpleInductive'
<1> SUFFICES ASSUME SimpleInductive, SimpleLong PROVE SimpleInductive'
  OBVIOUS
<1>0. /\ DataOK /\ n \in Nat /\ n >= 4 /\ ip = 0 /\ next_emit = 0 /\ inHigh \in Nat
      /\ Reload(ip) /\ inHigh <= n + 2
  BY InputFacts DEF SimpleInductive, DataOK, SimplePositions, SimpleLong
<1>1. \A k \in 2 .. 4 : /\ curr_val'[k] \in Byte
                        /\ ip + k <= n => curr_val'[k] = input[ip + k]
  BY <1>0, ReloadFacts
<1>2. inHigh' \in Nat /\ inHigh' <= n + 2
  BY <1>0 DEF SimpleLong, Touch, SetMax
<1> USE DEF SimpleLong, n
<1>3. DataOK' /\ pc' \in SimpleControl
  <2>1. table' \in [Bucket -> 0 .. PosLimit - 1]
    BY <1>0, FitsEntry DEF DataOK
  <2>. QED  BY <1>2, <2>1 DEF SimpleInductive, DataOK, SimpleControl
<1>4. SimplePositions' /\ SimpleTableBehind'
  BY <1>0 DEF SimplePositions, SimpleTableBehind
<1>5. SimpleMatchGenuine'
  BY DEF SimpleMatchGenuine
<1>6. WordKnown'
  <2>1. \A k \in 2 .. 4 : ip + k - 1 + 1 = ip + k
    BY <1>0
  <2>. QED  BY <1>0, <1>1, <2>1 DEF WordKnown, At
<1>7. inHigh' <= n' + 2 /\ WritesNear'
  BY <1>2 DEF SimpleInductive, WritesNear
<1>8. SimpleOverhead'
  BY DEF SimpleInductive, SimpleOverhead, BlockCovered, Covered
<1>. QED  BY <1>3, <1>4, <1>5, <1>6, <1>7, <1>8 DEF SimpleInductive

LEMMA AdvanceToEndKeeps == SimpleInductive /\ AdvanceToEnd => SimpleInductive'
<1> SUFFICES ASSUME SimpleInductive, AdvanceToEnd PROVE SimpleInductive'
  OBVIOUS
<1>0. n \in Nat /\ ip \in Nat /\ ip <= n - 2 /\ n >= 4
  BY InputFacts DEF SimpleInductive, DataOK, SimplePositions, AdvanceToEnd
<1> USE DEF AdvanceToEnd, n
<1>1. DataOK' /\ pc' \in SimpleControl
  BY <1>0 DEF SimpleInductive, DataOK, SimpleControl
<1>2. SimplePositions' /\ SimpleTableBehind'
  BY DEF SimplePositions, SimpleTableBehind
<1>3. SimpleMatchGenuine' /\ WordKnown'
  BY DEF SimpleMatchGenuine, WordKnown
<1>4. inHigh' <= n' + 2 /\ WritesNear'
  BY DEF SimpleInductive, WritesNear
<1>5. SimpleOverhead'
  BY DEF SimpleInductive, SimpleOverhead, BlockCovered, Covered
<1>. QED  BY <1>1, <1>2, <1>3, <1>4, <1>5 DEF SimpleInductive

(* What both outcomes of a probe share. *)
LEMMA AdvanceFacts ==
    ASSUME SimpleInductive, Advance
    PROVE  /\ DataOK' /\ n' = n /\ n \in Nat /\ n >= 4
           /\ ip \in Nat /\ ip' = ip + 1 /\ ip + 1 < n - 4 /\ next_emit <= ip + 1
           /\ curr_val' = Load32(ip + 1)
           /\ \A b \in Bucket : table'[b] <= ip'
           /\ candidate' \in Nat /\ candidate' < ip'
           /\ inHigh' \in Nat /\ inHigh' <= n + 2
<1>0. /\ DataOK /\ n \in Nat /\ n <= PosLimit /\ PosLimit \in Nat /\ n >= 4
      /\ ip \in Nat /\ ip + 1 < n - 4 /\ next_emit <= ip + 1
      /\ inHigh \in Nat /\ inHigh <= n + 2
      /\ table \in [Bucket -> 0 .. PosLimit - 1]
      /\ \A b \in Bucket : table[b] <= ip
      /\ hashing \in [Word -> Bucket]
  <2>1. /\ DataOK /\ n \in Nat /\ n <= PosLimit /\ PosLimit \in Nat
        /\ inHigh <= n + 2
    BY InputFacts, FitsEntry DEF SimpleInductive
  <2>2. pc = "advance" /\ ip + 1 < n - 4
    BY DEF Advance
  <2>3. /\ ip \in Nat /\ inHigh \in Nat /\ hashing \in [Word -> Bucket]
        /\ table \in [Bucket -> 0 .. PosLimit - 1]
    BY <2>1 DEF DataOK
  <2>4. n >= 4 /\ next_emit <= ip + 1 /\ \A b \in Bucket : table[b] <= ip
    BY <2>2 DEF SimpleInductive, SimplePositions, SimpleTableBehind
  <2>. QED  BY <2>1, <2>2, <2>3, <2>4
<1>1. curr_val' = Load32(ip + 1)
  <2>1. \A k \in 2 .. 4 : curr_val[k] = At(ip + k - 1)
    BY <1>0 DEF SimpleInductive, WordKnown, Advance
  <2>2. \A k \in 2 .. 4 : At(ip + k - 1) = input[ip + k]
    BY <1>0 DEF At
  <2>3. /\ curr_val[2] = input[ip + 1 + 1] /\ curr_val[3] = input[ip + 1 + 2]
        /\ curr_val[4] = input[ip + 1 + 3] /\ At(ip + 4) = input[ip + 1 + 4]
    <3>1. /\ ip + 2 = ip + 1 + 1 /\ ip + 3 = ip + 1 + 2 /\ ip + 4 = ip + 1 + 3
          /\ ip + 4 + 1 = ip + 1 + 4
      BY <1>0
    <3>. QED  BY <2>1, <2>2, <3>1 DEF At
  <2>4. curr_val' = <<input[ip + 1 + 1], input[ip + 1 + 2], input[ip + 1 + 3], input[ip + 1 + 4]>>
    BY <2>3 DEF Advance
  <2>. QED  BY <2>4 DEF Load32
<1>2. curr_val' \in Word
  BY <1>0, <1>1, WordFacts
<1> DEFINE h == hashing[curr_val']
<1>3. h \in Bucket
  BY <1>0, <1>2
<1> HIDE DEF h
<1>4. candidate' = table[h] /\ table' = [table EXCEPT ![h] = ip + 1]
  BY DEF Advance, h
<1>5. ip + 1 \in 0 .. PosLimit - 1
  BY <1>0
<1>6. /\ table' \in [Bucket -> 0 .. PosLimit - 1]
      /\ \A b \in Bucket : table'[b] <= ip + 1
  <2>1. \A b \in Bucket : table[b] \in Nat /\ table[b] <= ip
    BY <1>0
  <2>. QED  BY <1>0, <1>3, <1>4, <1>5, <2>1
<1>7. candidate' \in 0 .. PosLimit - 1 /\ candidate' \in Nat /\ candidate' < ip + 1
  BY <1>0, <1>3, <1>4
<1>8. inHigh' \in Nat /\ inHigh' <= n + 2
  BY <1>0 DEF Advance, Touch, SetMax
<1>9. DataOK'
  <2>1. /\ ip' = ip + 1 /\ ip + 1 \in 0 .. n
        /\ UNCHANGED <<input, hashing, next_ip, next_emit, next_hash, skip,
                       offset, copyLeft, op, out, outHigh>>
    BY <1>0 DEF Advance
  <2>. QED  BY <1>0, <1>6, <1>7, <1>8, <2>1 DEF DataOK, n
<1>. QED  BY <1>0, <1>1, <1>6, <1>7, <1>8, <1>9 DEF Advance, n

LEMMA AdvanceMissKeeps == SimpleInductive /\ AdvanceMiss => SimpleInductive'
<1> SUFFICES ASSUME SimpleInductive, AdvanceMiss PROVE SimpleInductive'
  OBVIOUS
<1>0. Advance /\ pc = "advance" /\ pc' = "advance" /\ input' = input
  BY DEF AdvanceMiss, Advance
<1>1. DataOK' /\ pc' \in SimpleControl
  BY <1>0, AdvanceFacts DEF SimpleControl
<1>2. SimplePositions' /\ SimpleTableBehind'
  <2>1. /\ n' = n /\ n >= 4 /\ ip \in Nat /\ ip' = ip + 1 /\ ip + 1 < n - 4
        /\ next_emit <= ip + 1 /\ n \in Nat
        /\ \A b \in Bucket : table'[b] <= ip'
    BY <1>0, AdvanceFacts
  <2>2. next_emit' = next_emit /\ next_emit \in Nat
    BY <1>0, <2>1 DEF Advance, SimpleInductive, DataOK
  <2>. QED  BY <1>0, <2>1, <2>2 DEF SimplePositions, SimpleTableBehind
<1>3. SimpleMatchGenuine'
  BY <1>0 DEF SimpleMatchGenuine
<1>4. WordKnown'
  <2>1. /\ curr_val' = Load32(ip + 1) /\ ip' = ip + 1 /\ ip \in Nat
        /\ n \in Nat /\ ip + 1 < n - 4 /\ DataOK
    BY <1>0, AdvanceFacts DEF SimpleInductive
  <2>2. \A k \in 2 .. 4 : curr_val'[k] = input[ip' + k] /\ input[ip' + k] \in Byte
    BY <2>1, WordFacts DEF Load32, Word
  <2>3. \A k \in 2 .. 4 : ip' + k - 1 + 1 = ip' + k
    BY <2>1
  <2>. QED  BY <1>0, <2>2, <2>3 DEF WordKnown, At
<1>5. inHigh' <= n' + 2 /\ WritesNear'
  BY <1>0, AdvanceFacts DEF SimpleInductive, WritesNear, Advance
<1>6. SimpleOverhead'
  BY <1>0 DEF SimpleInductive, SimpleOverhead, BlockCovered, Covered, Advance
<1>. QED  BY <1>1, <1>2, <1>3, <1>4, <1>5, <1>6 DEF SimpleInductive

LEMMA AdvanceHitKeeps == SimpleInductive /\ AdvanceHit => SimpleInductive'
<1> SUFFICES ASSUME SimpleInductive, AdvanceHit PROVE SimpleInductive'
  OBVIOUS
<1>0. /\ Advance /\ pc = "advance" /\ pc' = "simple_match" /\ input' = input
      /\ curr_val' = Load32(candidate')
  BY DEF AdvanceHit, Advance
<1>1. DataOK' /\ pc' \in SimpleControl
  BY <1>0, AdvanceFacts DEF SimpleControl
<1>2. SimplePositions' /\ SimpleTableBehind'
  <2>1. /\ n' = n /\ n >= 4 /\ ip \in Nat /\ ip' = ip + 1 /\ ip + 1 < n - 4
        /\ next_emit <= ip + 1 /\ candidate' < ip' /\ n \in Nat
        /\ \A b \in Bucket : table'[b] <= ip'
    BY <1>0, AdvanceFacts
  <2>2. next_emit' = next_emit
    BY <1>0 DEF Advance
  <2>. QED  BY <1>0, <2>1, <2>2 DEF SimplePositions, SimpleTableBehind
<1>3. SimpleMatchGenuine' /\ WordKnown'
  <2>1. curr_val' = Load32(ip + 1) /\ ip' = ip + 1
    BY <1>0, AdvanceFacts
  <2>. QED  BY <1>0, <2>1 DEF SimpleMatchGenuine, WordKnown, Load32
<1>4. inHigh' <= n' + 2 /\ WritesNear'
  BY <1>0, AdvanceFacts DEF SimpleInductive, WritesNear, Advance
<1>5. SimpleOverhead'
  BY <1>0 DEF SimpleInductive, SimpleOverhead, BlockCovered, Covered, Advance
<1>. QED  BY <1>1, <1>2, <1>3, <1>4, <1>5 DEF SimpleInductive

(* emit_literal where everything before it has been paid for. *)
LEMMA SimpleLiteralFacts ==
    ASSUME DataOK, WritesNear, inHigh <= n + 2,
           NEW start \in Nat, NEW end \in Nat, start <= end, end <= n,
           61 * (op - start) <= start,
           emit_literal(start, end)
    PROVE  /\ out' \in Seq(Element)
           /\ op' \in Nat /\ 61 * (op' - end - 1) <= end
           /\ inHigh' \in Nat /\ inHigh' <= n + 2
           /\ outHigh' \in Nat /\ 61 * (outHigh' - n - 1) <= n
<1>0. /\ n \in Nat /\ op \in Nat /\ inHigh \in Nat /\ outHigh \in Nat
      /\ out \in Seq(Element) /\ 61 * (outHigh - n - 1) <= n
  BY InputFacts DEF DataOK, WritesNear
<1>1. CASE start = end
  BY <1>0, <1>1 DEF emit_literal
<1>2. CASE start # end
  <2> DEFINE len == end - start
  <2>1. len \in Nat /\ start + len = end
    BY <1>0
  <2>2. EmitLiteral(start, len, FALSE)
    BY <1>2 DEF emit_literal
  <2>3. FALSE \in BOOLEAN /\ start + len <= n
    BY <2>1
  <2> HIDE DEF len
  <2>4. /\ out' \in Seq(Element)
        /\ op' \in Nat /\ 61 * (op' - (start + len) - 1) <= start + len
        /\ inHigh' \in Nat /\ (inHigh' <= inHigh \/ inHigh' <= n)
        /\ outHigh' \in Nat /\ 61 * (outHigh' - n - 1) <= n
    BY <2>1, <2>2, <2>3, EmitLiteralFacts
  <2>5. 61 * (op' - end - 1) <= end
    BY <2>1, <2>4
  <2>6. inHigh' <= n + 2
    BY <1>0, <2>4
  <2>. QED  BY <2>4, <2>5, <2>6
<1>. QED  BY <1>1, <1>2

(* Four bytes and m more agree with those at c. *)
LEMMA MatchedBytes ==
    ASSUME NEW c \in Nat, NEW i \in Nat, c < i, NEW m \in Nat,
           Load32(i) = Load32(c),
           \A k \in 0 .. m - 1 : At(c + 4 + k) = At(i + 4 + k)
    PROVE  \A k \in i .. i + 4 + m - 1 : At(k) = At(k - (i - c))
<1>1. \A k \in 0 .. 3 : At(i + k) = At(c + k)
  BY WordEqual
<1> SUFFICES ASSUME NEW k \in i .. i + 4 + m - 1 PROVE At(k) = At(k - (i - c))
  OBVIOUS
<1>2. k - (i - c) = c + (k - i)
  OBVIOUS
<1>3. CASE k - i <= 3
  <2>1. k - i \in 0 .. 3 /\ i + (k - i) = k
    BY <1>3
  <2>2. At(i + (k - i)) = At(c + (k - i))
    BY <1>1, <2>1
  <2>. QED  BY <1>2, <2>1, <2>2
<1>4. CASE k - i > 3
  <2>1. /\ k - i - 4 \in 0 .. m - 1 /\ i + 4 + (k - i - 4) = k
        /\ c + 4 + (k - i - 4) = c + (k - i)
    BY <1>4
  <2>2. At(c + 4 + (k - i - 4)) = At(i + 4 + (k - i - 4))
    BY <2>1
  <2>. QED  BY <1>2, <2>1, <2>2
<1>. QED  BY <1>3, <1>4

LEMMA SimpleMatchKeeps == SimpleInductive /\ SimpleMatch => SimpleInductive'
<1> SUFFICES ASSUME SimpleInductive, SimpleMatch PROVE SimpleInductive'
  OBVIOUS
<1>0. /\ DataOK /\ n \in Nat /\ n' = n /\ n <= PosLimit /\ PosLimit \in Nat
      /\ WritesNear /\ inHigh <= n + 2
      /\ ip \in Nat /\ next_emit \in Nat /\ candidate \in Nat /\ op \in Nat
      /\ pc = "simple_match" /\ pc' = "simple_copy" /\ ip' = ip
      /\ input' = input /\ table' = table /\ offset' = ip - candidate
      /\ UNCHANGED <<hashing, next_ip, next_hash, skip, candidate>>
  <2>1. /\ DataOK /\ WritesNear /\ inHigh <= n + 2
        /\ ip \in Nat /\ next_emit \in Nat /\ candidate \in Nat /\ op \in Nat
    <3>1. DataOK /\ WritesNear /\ inHigh <= n + 2
      BY DEF SimpleInductive
    <3>. QED  BY <3>1, FitsEntry, InputFacts DEF DataOK
  <2>2. /\ pc = "simple_match" /\ pc' = "simple_copy" /\ ip' = ip
        /\ input' = input /\ table' = table /\ offset' = ip - candidate
        /\ UNCHANGED <<hashing, next_ip, next_hash, skip, candidate>>
    BY DEF SimpleMatch
  <2>3. n \in Nat /\ n <= PosLimit /\ n' = n
    BY <2>1, <2>2, InputFacts DEF n
  <2>. QED  BY <2>1, <2>2, <2>3, FitsEntry
<1>1. /\ n >= 4 /\ next_emit <= ip /\ ip < n - 4 /\ candidate < ip
      /\ Load32(ip) = Load32(candidate)
      /\ 61 * (op - next_emit) <= next_emit
      /\ \A b \in Bucket : table[b] <= ip
  BY <1>0 DEF SimpleInductive, SimplePositions, SimpleTableBehind,
              SimpleMatchGenuine, SimpleOverhead
<1>2. PICK m \in 0 .. n - ip - 4 :
         /\ find_match_length(candidate + 4, ip + 4, m)
         /\ copyLeft' = 4 + m
         /\ next_emit' = ip + 4 + m
  BY DEF SimpleMatch
<1>3. PICK k \in 0 .. n - (ip + 4) : /\ IsMatchLength(candidate + 4, ip + 4, k)
                                     /\ m = IF k = n - (ip + 4) THEN k - 1 ELSE k
  BY <1>2 DEF find_match_length
<1>4. m \in Nat /\ m <= k /\ ip + 4 + m <= n - 1
  BY <1>0, <1>1, <1>3
<1>5. \A j \in ip .. ip + 4 + m - 1 : At(j) = At(j - (ip - candidate))
  <2>1. \A j \in 0 .. m - 1 : At(candidate + 4 + j) = At(ip + 4 + j)
    <3>1. \A j \in 0 .. k - 1 : At(candidate + 4 + j) = At(ip + 4 + j)
      BY <1>3 DEF IsMatchLength
    <3>2. \A j \in 0 .. m - 1 : j \in 0 .. k - 1
      BY <1>4
    <3>. QED  BY <3>1, <3>2
  <2>. QED  BY <1>0, <1>1, <1>4, <2>1, MatchedBytes
<1>6. /\ out' \in Seq(Element)
      /\ op' \in Nat /\ 61 * (op' - ip - 1) <= ip
      /\ inHigh' \in Nat /\ inHigh' <= n + 2
      /\ outHigh' \in Nat /\ 61 * (outHigh' - n - 1) <= n
  <2>1. emit_literal(next_emit, ip)
    BY DEF SimpleMatch
  <2>. QED  BY <1>0, <1>1, <2>1, SimpleLiteralFacts
<1>7. DataOK' /\ pc' \in SimpleControl
  <2>1. MaxOffset = PosLimit - 1
    BY SMT DEF MaxOffset, PosLimit
  <2>2. offset' \in 0 .. MaxOffset /\ copyLeft' \in Nat /\ next_emit' \in 0 .. n
    BY <1>0, <1>1, <1>2, <1>4, <2>1
  <2>. QED  BY <1>0, <1>6, <2>2 DEF DataOK, SimpleControl, n
<1>8. SimplePositions' /\ SimpleTableBehind'
  BY <1>0, <1>1, <1>2, <1>4 DEF SimplePositions, SimpleTableBehind
<1>9. SimpleMatchGenuine' /\ WordKnown'
  <2>1. next_emit' - copyLeft' = ip /\ next_emit' - 1 = ip + 4 + m - 1
    BY <1>0, <1>2, <1>4
  <2>2. \A j \in next_emit' - copyLeft' .. next_emit' - 1 : At(j) = At(j - offset')
    BY <1>0, <1>5, <2>1
  <2>3. 1 <= offset' /\ 4 <= copyLeft' /\ copyLeft' + offset' <= next_emit'
    BY <1>0, <1>1, <1>2, <1>4
  <2>. QED  BY <1>0, <2>2, <2>3 DEF SimpleMatchGenuine, WordKnown, At
<1>10. inHigh' <= n' + 2 /\ WritesNear'
  BY <1>0, <1>6 DEF WritesNear
<1>11. SimpleOverhead'
  <2>1. BlockCovered' = ip
    BY <1>0, <1>2, <1>4 DEF BlockCovered
  <2>. QED  BY <1>0, <1>6, <2>1 DEF SimpleOverhead
<1>. QED  BY <1>7, <1>8, <1>9, <1>10, <1>11 DEF SimpleInductive

LEMMA SimpleCopyKeeps == SimpleInductive /\ SimpleCopy => SimpleInductive'
<1> SUFFICES ASSUME SimpleInductive, SimpleCopy PROVE SimpleInductive'
  OBVIOUS
<1> DEFINE len == ChunkLen(copyLeft)
           size == CopySize(offset, len)
<1>0. /\ DataOK /\ n \in Nat /\ n' = n /\ n <= PosLimit
      /\ inHigh \in Nat /\ inHigh <= n + 2
      /\ ip \in Nat /\ next_emit \in Nat /\ offset \in Nat /\ offset <= MaxOffset
      /\ copyLeft \in Nat /\ op \in Nat /\ out \in Seq(Element)
      /\ outHigh \in Nat /\ 61 * (outHigh - n - 1) <= n
  <2>1. DataOK /\ inHigh <= n + 2 /\ WritesNear /\ n \in Nat /\ n <= PosLimit
    BY InputFacts DEF SimpleInductive
  <2>2. n' = n
    BY DEF SimpleCopy, n
  <2>0. offset \in 0 .. MaxOffset
    BY <2>1 DEF DataOK
  <2>3. offset \in Nat /\ offset <= MaxOffset
    BY <2>0, MaxOffsetFacts
  <2>. QED  BY <2>1, <2>2, <2>3 DEF DataOK, WritesNear
<1>1. /\ pc = "simple_copy"
      /\ input' = input /\ table' = table /\ next_emit' = next_emit
      /\ candidate' = candidate /\ offset' = offset
      /\ UNCHANGED <<hashing, next_ip, next_hash, skip>>
      /\ out' = Append(out, CopyElement(offset, len)) /\ op' = op + size
      /\ outHigh' = SetMax(outHigh, op + size) /\ copyLeft' = copyLeft - len
      /\ IF copyLeft' = 0
           THEN ip' = ScanFrom /\ Reload(ip') /\ Touch(ip' + 4) /\ pc' = "advance"
           ELSE UNCHANGED <<ip, curr_val, inHigh, pc>>
  BY DEF SimpleCopy, EmitCopyLessThan64
<1>2. /\ n >= 4 /\ ip + 4 <= next_emit /\ next_emit <= n - 1
      /\ 1 <= offset /\ 4 <= copyLeft /\ copyLeft + offset <= next_emit
      /\ \A k \in next_emit - copyLeft .. next_emit - 1 : At(k) = At(k - offset)
      /\ 61 * (op - (next_emit - copyLeft) - 1) <= next_emit - copyLeft
      /\ \A b \in Bucket : table[b] <= ip
  BY <1>1 DEF SimpleInductive, SimplePositions, SimpleTableBehind,
              SimpleMatchGenuine, SimpleOverhead, BlockCovered
<1>3. /\ len \in 4 .. 64 /\ len <= copyLeft /\ len \in MinCopyLen .. MaxCopyLen
      /\ copyLeft' = 0 \/ copyLeft' >= 4
  BY <1>0, <1>1, <1>2, ChunkFacts DEF MinCopyLen, MaxCopyLen
<1>4. size \in 2 .. 3
  <2> HIDE DEF len
  <2>. QED  BY <1>0, <1>3, CopySizeBound
<1>5. CopyElement(offset, len) \in Element
  <2> HIDE DEF len
  <2>1. offset \in 1 .. MaxOffset
    BY <1>2 DEF SimpleInductive, DataOK
  <2>. QED  BY <1>3, <2>1 DEF CopyElement, Element
<1> HIDE DEF len, size
<1>6. out' \in Seq(Element)
  BY <1>0, <1>1, <1>5, AppendFacts
<1>7. op' \in Nat /\ copyLeft' \in Nat
  BY <1>0, <1>1, <1>3, <1>4
<1>8. /\ 61 * (op' - (next_emit - copyLeft') - 1) <= next_emit - copyLeft'
      /\ 61 * (op' - (next_emit - copyLeft')) <= next_emit - copyLeft'
  BY <1>0, <1>1, <1>2, <1>3, <1>4
<1>9. outHigh' \in Nat /\ 61 * (outHigh' - n - 1) <= n
  <2>1. 61 * (op + size - n - 1) <= n
    BY <1>0, <1>2, <1>3, <1>4
  <2>. QED  BY <1>0, <1>1, <1>4, <2>1 DEF SetMax
<1>10. /\ ip' = (IF copyLeft' = 0 THEN next_emit - 1 ELSE ip)
       /\ inHigh' \in Nat /\ inHigh' <= n + 2
       /\ pc' = (IF copyLeft' = 0 THEN "advance" ELSE "simple_copy")
  BY <1>0, <1>1, <1>2 DEF ScanFrom, Touch, SetMax
<1>11. ip' \in Nat /\ ip <= ip' /\ ip' <= n
  BY <1>0, <1>2, <1>10
<1>12. DataOK' /\ pc' \in SimpleControl
  <2>1. /\ input' \in Seq(Byte) /\ n' <= PosLimit
        /\ hashing' \in [Word -> Bucket]
        /\ table' \in [Bucket -> 0 .. PosLimit - 1]
        /\ next_emit' \in 0 .. n' /\ next_ip' \in Nat /\ next_hash' \in Bucket
        /\ skip' \in Nat /\ skip' >= SkipUnit
        /\ candidate' \in 0 .. PosLimit - 1 /\ offset' \in 0 .. MaxOffset
    BY <1>0, <1>1 DEF DataOK
  <2>2. ip' \in 0 .. n'
    BY <1>0, <1>11
  <2>3. DataOK'
    BY <1>6, <1>7, <1>9, <1>10, <2>1, <2>2 DEF DataOK
  <2>. QED  BY <1>10, <2>3 DEF SimpleControl
<1>13. SimplePositions' /\ SimpleTableBehind'
  <2>1. \A b \in Bucket : table[b] <= ip'
    <3>1. \A b \in Bucket : table[b] \in 0 .. PosLimit - 1
      BY <1>0 DEF DataOK
    <3>2. PosLimit \in Nat
      BY FitsEntry
    <3>. QED  BY <1>0, <1>2, <1>11, <3>1, <3>2
  <2>. QED  BY <1>0, <1>1, <1>2, <1>10, <2>1 DEF SimplePositions, SimpleTableBehind
<1>14. SimpleMatchGenuine' /\ WordKnown'
  <2>1. CASE copyLeft' = 0
    <3>1. Reload(ip') /\ ip' \in Nat
      BY <1>1, <1>11, <2>1
    <3>2. \A k \in 2 .. 4 : /\ curr_val'[k] \in Byte
                            /\ ip' + k <= n => curr_val'[k] = input[ip' + k]
      <4> DEFINE p == ip'
      <4>1. Reload(p) /\ p \in Nat
        BY <3>1
      <4> HIDE DEF p
      <4>2. \A k \in 2 .. 4 : /\ curr_val'[k] \in Byte
                              /\ p + k <= n => curr_val'[k] = input[p + k]
        BY <1>0, <4>1, ReloadFacts
      <4>. QED  BY <4>2 DEF p
    <3>3. \A k \in 2 .. 4 : ip' + k - 1 + 1 = ip' + k
      BY <1>11
    <3>. QED  BY <1>0, <1>1, <1>10, <2>1, <3>2, <3>3 DEF SimpleMatchGenuine, WordKnown, At
  <2>2. CASE copyLeft' # 0
    <3>1. /\ copyLeft' >= 4 /\ copyLeft' + offset <= next_emit
          /\ \A k \in next_emit - copyLeft' .. next_emit - 1 : At(k) = At(k - offset)
      BY <1>0, <1>1, <1>2, <1>3, <2>2
    <3>. QED  BY <1>1, <1>2, <1>10, <2>2, <3>1 DEF SimpleMatchGenuine, WordKnown, At
  <2>. QED  BY <2>1, <2>2
<1>15. inHigh' <= n' + 2 /\ WritesNear'
  BY <1>0, <1>9, <1>10 DEF WritesNear
<1>16. SimpleOverhead'
  <2>1. CASE copyLeft' = 0
    <3>1. BlockCovered' = next_emit /\ next_emit - copyLeft' = next_emit
      BY <1>0, <1>1, <1>10, <2>1 DEF BlockCovered, Covered
    <3>. QED  BY <1>1, <1>8, <3>1 DEF SimpleOverhead
  <2>2. CASE copyLeft' # 0
    <3>1. BlockCovered' = next_emit - copyLeft'
      BY <1>1, <1>10, <2>2 DEF BlockCovered
    <3>. QED  BY <1>8, <1>10, <2>2, <3>1 DEF SimpleOverhead
  <2>. QED  BY <2>1, <2>2
<1>. QED  BY <1>12, <1>13, <1>14, <1>15, <1>16 DEF SimpleInductive

LEMMA SimpleEndKeeps == SimpleInductive /\ SimpleEnd => SimpleInductive'
<1> SUFFICES ASSUME SimpleInductive, SimpleEnd PROVE SimpleInductive'
  OBVIOUS
<1>0. /\ DataOK /\ n \in Nat /\ n' = n /\ WritesNear /\ inHigh <= n + 2
      /\ next_emit \in Nat /\ next_emit <= n /\ op \in Nat
      /\ pc = "simple_end" /\ pc' = "done" /\ emit_literal(next_emit, n)
  BY InputFacts DEF SimpleInductive, DataOK, SimpleEnd, n
<1>1. 61 * (op - next_emit) <= next_emit
  BY <1>0 DEF SimpleInductive, SimpleOverhead
<1>2. /\ out' \in Seq(Element)
      /\ op' \in Nat /\ 61 * (op' - n - 1) <= n
      /\ inHigh' \in Nat /\ inHigh' <= n + 2
      /\ outHigh' \in Nat /\ 61 * (outHigh' - n - 1) <= n
  <2>1. n <= n
    BY <1>0
  <2>. QED  BY <1>0, <1>1, <2>1, SimpleLiteralFacts
<1>3. DataOK' /\ pc' \in SimpleControl
  <2>1. UNCHANGED <<input, hashing, table, ip, next_ip, next_emit, next_hash,
                    skip, candidate, offset, copyLeft>>
    BY DEF SimpleEnd
  <2>. QED  BY <1>0, <1>2, <2>1 DEF DataOK, SimpleControl, n
<1>4. SimplePositions' /\ SimpleTableBehind'
  BY <1>0 DEF SimplePositions, SimpleTableBehind
<1>5. SimpleMatchGenuine' /\ WordKnown'
  BY <1>0 DEF SimpleMatchGenuine, WordKnown
<1>6. inHigh' <= n' + 2 /\ WritesNear'
  BY <1>0, <1>2 DEF WritesNear
<1>7. SimpleOverhead'
  <2>1. BlockCovered' = n
    BY <1>0 DEF BlockCovered, Covered
  <2>. QED  BY <1>0, <1>2, <2>1 DEF SimpleOverhead
<1>. QED  BY <1>3, <1>4, <1>5, <1>6, <1>7 DEF SimpleInductive

(* Every step of the simple version keeps its invariant. *)
LEMMA SimpleStep ==
    ASSUME SimpleInductive, SimpleNext
    PROVE  SimpleInductive'
BY SimpleShortKeeps, SimpleLongKeeps, AdvanceToEndKeeps, AdvanceMissKeeps,
   AdvanceHitKeeps, SimpleMatchKeeps, SimpleCopyKeeps, SimpleEndKeeps
   DEF SimpleNext

-----------------------------------------------------------------------------
(* What is written for an element. *)

(* An element that may be emitted: a literal has a byte at least, and no   *)
(* more than a block has.                                                  *)
Emittable == { e \in Element : e.kind = "literal" => Len(e.bytes) \in 1 .. PosLimit }

LEMMA EmittableEncodable == Emittable \subseteq Encodable
<1> SUFFICES ASSUME NEW e \in Emittable PROVE e \in Encodable
  OBVIOUS
<1>1. CASE e \in [kind : {"literal"}, bytes : Seq(Byte)]
  <2>1. e.kind = "literal" /\ e.bytes \in Seq(Byte) /\ Len(e.bytes) \in 1 .. PosLimit
    BY <1>1 DEF Emittable
  <2>2. e.bytes \in Seq(Byte8)
    <3> DEFINE b == e.bytes
    <3>1. b \in Seq(Byte)
      BY <2>1
    <3> HIDE DEF b
    <3>2. \A i \in 1 .. Len(b) : b[i] \in Byte8
      BY <3>1, ElementOfSeq, BlockAssumption
    <3>3. b \in Seq(Byte8)
      BY <3>1, <3>2, LenProperties, SeqDef
    <3>. QED  BY <3>3 DEF b
  <2>3. Len(e.bytes) \in 1 .. MaxInt32
    <3>1. PosLimit \in Nat /\ MaxInt32 \in Nat /\ PosLimit <= MaxInt32
      BY SMT DEF PosLimit, MaxInt32
    <3>. QED  BY <2>1, <3>1
  <2>4. e \in [kind : {"literal"}, bytes : Seq(Byte8)]
    BY <1>1, <2>2
  <2>. QED  BY <2>3, <2>4 DEF Encodable
<1>2. CASE e \in [kind : {"copy"}, offset : 1 .. MaxOffset, len : MinCopyLen .. MaxCopyLen]
  BY <1>2 DEF Encodable
<1>. QED  BY <1>1, <1>2 DEF Emittable, Element

-----------------------------------------------------------------------------
(* A step of either version writes one element or nothing. *)
Emits ==
    \/ out' = out /\ op' = op
    \/ \E e \in Emittable : out' = Append(out, e) /\ op' = op + ElementSize(e)

LEMMA LiteralEmits ==
    ASSUME DataOK, NEW start \in Nat, NEW len \in Nat, len >= 1, start + len <= n,
           NEW fast, EmitLiteral(start, len, fast)
    PROVE  Emits
<1> DEFINE b == SubSeq(input, start + 1, start + len)
           e == LiteralElement(b)
<1>1. b \in Seq(Byte) /\ Len(b) = len
  BY PieceFacts
<1>2. out' = Append(out, e) /\ op' = op + LiteralSize(len)
  BY DEF EmitLiteral
<1> HIDE DEF b
<1>3. Len(b) \in 1 .. PosLimit
  <2>1. n \in Nat /\ n <= PosLimit
    BY InputFacts DEF DataOK
  <2>2. PosLimit \in Nat
    BY SMT DEF PosLimit
  <2>. QED  BY <1>1, <2>1, <2>2
<1>4. e \in Emittable
  BY <1>1, <1>3 DEF LiteralElement, Element, Emittable
<1>5. ElementSize(e) = LiteralSize(len)
  BY <1>1 DEF LiteralElement, ElementSize
<1> HIDE DEF e
<1>. QED  BY <1>2, <1>4, <1>5 DEF Emits

LEMMA CopyEmits ==
    ASSUME NEW len, offset \in 1 .. MaxOffset, len \in MinCopyLen .. MaxCopyLen,
           EmitCopyLessThan64(len)
    PROVE  Emits
<1> DEFINE e == CopyElement(offset, len)
<1>1. out' = Append(out, e) /\ op' = op + CopySize(offset, len)
  BY DEF EmitCopyLessThan64
<1>2. e \in Emittable /\ ElementSize(e) = CopySize(offset, len)
  BY DEF CopyElement, Element, Emittable, ElementSize
<1> HIDE DEF e
<1>. QED  BY <1>1, <1>2 DEF Emits

LEMMA FastEmits ==
    ASSUME BlockInductive, Next
    PROVE  Emits
<1>0. DataOK /\ n \in Nat
  BY InputFacts DEF BlockInductive
<1>1. CASE StartShort \/ StartLong \/ MainLoop \/ ScanAtLimit \/ ScanMiss \/ ScanHit
           \/ Match \/ ResumeAtLimit \/ ResumeHit \/ ResumeMiss \/ RemainderEmpty
  BY <1>1 DEF StartShort, StartLong, MainLoop, ScanAtLimit, ScanMiss, ScanHit,
       Probe, Match, ResumeAtLimit, ResumeHit, ResumeMiss, Resume,
       RemainderEmpty, Emits
<1>2. CASE PendingLiteral
  <2>1. /\ next_emit \in Nat /\ ip - next_emit \in Nat /\ ip - next_emit >= 1
        /\ next_emit + (ip - next_emit) <= n
        /\ EmitLiteral(next_emit, ip - next_emit, TRUE)
    <3>1. next_emit \in Nat /\ ip \in Nat /\ ip <= n
      BY <1>0 DEF DataOK
    <3>2. next_emit < ip /\ EmitLiteral(next_emit, ip - next_emit, TRUE)
      BY <1>2 DEF BlockInductive, Positions, PendingLiteral
    <3>3. /\ ip - next_emit \in Nat /\ ip - next_emit >= 1
          /\ next_emit + (ip - next_emit) <= n
      BY <1>0, <3>1, <3>2
    <3>. QED  BY <3>1, <3>2, <3>3
  <2>. QED  BY <1>0, <2>1, LiteralEmits
<1>3. CASE Remainder
  <2>1. /\ next_emit \in Nat /\ n - next_emit \in Nat /\ n - next_emit >= 1
        /\ next_emit + (n - next_emit) <= n
        /\ EmitLiteral(next_emit, n - next_emit, FALSE)
    <3>1. next_emit \in Nat
      BY <1>0 DEF DataOK
    <3>2. next_emit < n /\ EmitLiteral(next_emit, n - next_emit, FALSE)
      BY <1>3 DEF Remainder
    <3>3. /\ n - next_emit \in Nat /\ n - next_emit >= 1
          /\ next_emit + (n - next_emit) <= n
      BY <1>0, <3>1, <3>2
    <3>. QED  BY <3>1, <3>2, <3>3
  <2>. QED  BY <1>0, <2>1, LiteralEmits
<1>4. CASE EmitCopy
  <2>1. /\ offset \in 1 .. MaxOffset
        /\ ChunkLen(copyLeft) \in MinCopyLen .. MaxCopyLen
    BY <1>4, EmitCopyFacts
  <2>2. EmitCopyLessThan64(ChunkLen(copyLeft))
    BY <1>4 DEF EmitCopy
  <2>. QED  BY <2>1, <2>2, CopyEmits
<1>. QED  BY <1>1, <1>2, <1>3, <1>4 DEF Next

LEMMA SimpleEmits ==
    ASSUME SimpleInductive, SimpleNext
    PROVE  Emits
<1>0. DataOK /\ n \in Nat /\ ip \in Nat /\ next_emit \in Nat /\ next_emit <= n
  BY InputFacts DEF SimpleInductive, DataOK
<1>1. CASE SimpleShort \/ SimpleLong \/ AdvanceToEnd \/ AdvanceMiss \/ AdvanceHit
  BY <1>1 DEF SimpleShort, SimpleLong, AdvanceToEnd, AdvanceMiss, AdvanceHit,
       Advance, Emits
<1>2. ASSUME NEW end \in Nat, next_emit <= end, end <= n, emit_literal(next_emit, end)
      PROVE  Emits
  <2>1. CASE next_emit = end
    BY <1>2, <2>1 DEF emit_literal, Emits
  <2>2. CASE next_emit # end
    <3>1. /\ end - next_emit \in Nat /\ end - next_emit >= 1
          /\ next_emit + (end - next_emit) <= n
      BY <1>0, <1>2, <2>2
    <3>2. EmitLiteral(next_emit, end - next_emit, FALSE)
      BY <1>2, <2>2 DEF emit_literal
    <3>. QED  BY <1>0, <3>1, <3>2, LiteralEmits
  <2>. QED  BY <2>1, <2>2
<1>3. CASE SimpleMatch
  <2>1. next_emit <= ip /\ ip <= n /\ emit_literal(next_emit, ip)
    BY <1>0, <1>3 DEF SimpleInductive, SimplePositions, SimpleMatch
  <2>. QED  BY <1>0, <1>2, <2>1
<1>4. CASE SimpleEnd
  <2>1. n <= n /\ emit_literal(next_emit, n)
    BY <1>0, <1>4 DEF SimpleEnd
  <2>. QED  BY <1>0, <1>2, <2>1
<1>5. CASE SimpleCopy
  <2>1. /\ offset \in 0 .. MaxOffset /\ offset >= 1
        /\ copyLeft \in Nat /\ copyLeft >= 4
    BY <1>5 DEF SimpleInductive, DataOK, SimpleMatchGenuine, SimpleCopy
  <2>2. offset \in 1 .. MaxOffset
    BY <2>1
  <2>3. ChunkLen(copyLeft) \in MinCopyLen .. MaxCopyLen
    BY <2>1, ChunkFacts
  <2>4. EmitCopyLessThan64(ChunkLen(copyLeft))
    BY <1>5 DEF SimpleCopy
  <2>. QED  BY <2>2, <2>3, <2>4, CopyEmits
<1>. QED  BY <1>1, <1>3, <1>4, <1>5 DEF SimpleNext

(* What goes into the stream is as long as the offset says. *)
LEMMA StreamGrows ==
    ASSUME stream \in Seq(Byte8), DataOK, Emits,
           stream' = IF out' = out THEN stream ELSE stream \o Encode(out'[Len(out')])
    PROVE  /\ stream' \in Seq(Byte8)
           /\ op' \in Nat
           /\ Len(stream') - op' = Len(stream) - op
<1>0. op \in Nat /\ out \in Seq(Element) /\ Len(stream) \in Nat
  BY LenProperties DEF DataOK
<1>1. CASE out' = out /\ op' = op
  BY <1>0, <1>1
<1>2. ASSUME NEW e \in Emittable, out' = Append(out, e), op' = op + ElementSize(e)
      PROVE  /\ stream' \in Seq(Byte8)
             /\ op' \in Nat
             /\ Len(stream') - op' = Len(stream) - op
  <2>1. e \in Element
    BY DEF Emittable
  <2>2. Len(out') = Len(out) + 1 /\ out'[Len(out')] = e /\ Len(out) \in Nat
    BY <1>0, <1>2, <2>1, AppendFacts
  <2>3. out' # out
    BY <2>2
  <2>4. stream' = stream \o Encode(e)
    BY <2>2, <2>3
  <2>5. /\ Encode(e) \in Seq(Byte8) /\ Len(Encode(e)) = ElementSize(e)
        /\ ElementSize(e) \in Nat
    BY EncodeFacts, EmittableEncodable, LenProperties
  <2>6. stream' \in Seq(Byte8) /\ Len(stream') = Len(stream) + ElementSize(e)
    BY <2>4, <2>5, ConcatProperties
  <2>. QED  BY <1>0, <1>2, <2>5, <2>6
<1>. QED  BY <1>1, <1>2 DEF Emits

-----------------------------------------------------------------------------
(* The working memory of a block. *)

(* a divided by d is less than b, when b * d is more than a. *)
LEMMA QuotientBelow ==
    ASSUME NEW a \in Nat, NEW b \in Nat, NEW d \in Nat \ {0}, a < b * d
    PROVE  a \div d \in Nat /\ a \div d < b
<1> DEFINE q == a \div d
<1>1. q \in Nat /\ a = d * q + (a % d) /\ a % d \in 0 .. d - 1
  OBVIOUS
<1> HIDE DEF q
<1>2. d * q <= a
  BY <1>1
<1>3. q < b
  <2> SUFFICES ASSUME q >= b PROVE FALSE
    BY <1>1
  <2>1. PICK r \in Nat : q = b + r
    <3>1. q - b \in Nat /\ q = b + (q - b)
      BY <1>1
    <3>. QED  BY <3>1
  <2>2. d * q = d * b + d * r /\ d * r \in Nat /\ d * b \in Nat /\ d * b = b * d
    BY <2>1
  <2>. QED  BY <1>1, <1>2, <2>2
<1>. QED  BY <1>1, <1>3 DEF q

LEMMA PowerFacts ==
    ASSUME NEW a \in Nat, NEW b \in Nat, a <= b, b <= HashBits
    PROVE  /\ 2^a \in Nat \ {0} /\ 2^b \in Nat \ {0} /\ 2^(b - a) \in Nat \ {0}
           /\ 2^b = 2^a * 2^(b - a)
           /\ 2^a <= 2^b
<1>. HashBits \in Nat
  BY BlockAssumption
<1> DEFINE c == b - a
<1>1. a \in 0 .. HashBits /\ b \in 0 .. HashBits /\ c \in 0 .. HashBits
      /\ a + c = b
  OBVIOUS
<1> HIDE DEF c
<1>2. 2^a \in Nat \ {0} /\ 2^b \in Nat \ {0} /\ 2^c \in Nat \ {0}
  BY <1>1, PowerAssumption
<1>3. 2^b = 2^a * 2^c
  <2>1. a + c <= HashBits
    BY <1>1
  <2>. QED  BY <1>1, <2>1, PowerAssumption
<1>4. 2^a <= 2^b
  <2> DEFINE x == 2^a
             y == 2^c
             z == 2^b
  <2>1. x \in Nat /\ y \in Nat \ {0} /\ z = x * y
    BY <1>2, <1>3
  <2> HIDE DEF x, y, z
  <2>2. x <= z
    <3>1. PICK r \in Nat : y = 1 + r
      <4>1. y - 1 \in Nat /\ y = 1 + (y - 1)
        BY <2>1
      <4>. QED  BY <4>1
    <3>2. x * y = x + x * r /\ x * r \in Nat
      BY <2>1, <3>1
    <3>. QED  BY <2>1, <3>2
  <2>. QED  BY <2>2 DEF x, z
<1>. QED  BY <1>2, <1>3, <1>4 DEF c

(* The parameters of a call. *)
LEMMA CallFacts ==
    ASSUME CallOK
    PROVE  /\ FirstPower \in Nat \ {0} /\ power \in Nat /\ FirstPower <= power
           /\ HashBits \in Nat /\ power - 1 <= HashBits
           /\ mixer \in [Word -> 0 .. 2^HashBits - 1]
           /\ Bucket = 0 .. 2^HashBits - 1
           /\ kBlockSize \in 7 .. PosLimit
           /\ version \in {"fast", "simple"}
<1>1. power \in Powers /\ mixer \in Mixers /\ version \in Versions
  BY DEF CallOK
<1>2. /\ FirstPower \in Nat \ {0} /\ HashBits \in Nat /\ Powers \subseteq Nat
      /\ \A p \in Powers : FirstPower <= p /\ p - 1 <= HashBits
  BY BlockAssumption
<1>3. power \in Nat /\ FirstPower <= power /\ power - 1 <= HashBits
  BY <1>1, <1>2
<1>. QED  BY <1>1, <1>2, <1>3, BlockAssumption

(* The size chosen for a block is at most what the caller gave. *)
LEMMA SizeForFacts ==
    ASSUME CallOK, NEW num \in Nat
    PROVE  SizeFor(num) \in FirstPower .. power
<1>1. /\ FirstPower \in Nat \ {0} /\ power \in Nat /\ FirstPower <= power
      /\ power - 1 <= HashBits /\ HashBits \in Nat
  BY CallFacts
<1>2. CASE num = kBlockSize
  BY <1>1, <1>2 DEF SizeFor
<1>3. CASE num # kBlockSize
  <2> DEFINE Enough(p) == p = power \/ 2^(p - 1) >= num
             T == {p \in FirstPower .. power : Enough(p)}
             First(p) == Enough(p) /\ \A q \in FirstPower .. p - 1 : 2^(q - 1) < num
  <2>1. T \subseteq Nat /\ power \in T
    BY <1>1
  <2>2. PICK p \in T : \A q \in T : ~(<<q, p>> \in OpToRel(<, Nat))
    <3> HIDE DEF T
    <3>. QED  BY <2>1, NatLessThanWellFounded, WFMin
  <2>3. \A q \in T : ~(q < p)
    <3>1. \A q \in T : q < p => <<q, p>> \in OpToRel(<, Nat)
      BY <2>1 DEF OpToRel
    <3>. QED  BY <2>2, <3>1
  <2>4. p \in FirstPower .. power /\ Enough(p)
    OBVIOUS
  <2>5. \A q \in FirstPower .. p - 1 : 2^(q - 1) < num
    <3> SUFFICES ASSUME NEW q \in FirstPower .. p - 1 PROVE 2^(q - 1) < num
      OBVIOUS
    <3>1. q \in FirstPower .. power /\ q < p
      BY <1>1, <2>4
    <3>2. ~Enough(q)
      BY <2>3, <3>1
    <3>3. 2^(q - 1) \in Nat
      <4> DEFINE a == q - 1
      <4>1. a \in 0 .. HashBits
        BY <1>1, <3>1
      <4> HIDE DEF a
      <4>2. 2^a \in Nat
        BY <4>1, PowerAssumption
      <4>. QED  BY <4>2 DEF a
    <3>4. ~(2^(q - 1) >= num)
      BY <3>2
    <3>. QED  BY <3>3, <3>4
  <2>6. \E x \in FirstPower .. power : First(x)
    BY <2>4, <2>5
  <2>7. SizeFor(num) = CHOOSE x \in FirstPower .. power : First(x)
    BY <1>3 DEF SizeFor
  <2> HIDE DEF First
  <2>. QED  BY <2>6, <2>7
<1>. QED  BY <1>2, <1>3

(* What the hash is shifted by leaves it within the table of that size. *)
LEMMA ShiftedFacts ==
    ASSUME CallOK, NEW size \in FirstPower .. power
    PROVE  /\ Shifted(size) \in [Word -> Bucket]
           /\ \A w \in Word : Shifted(size)[w] < 2^(power - 1)
<1>1. /\ FirstPower \in Nat \ {0} /\ power \in Nat /\ FirstPower <= power
      /\ HashBits \in Nat /\ power - 1 <= HashBits
      /\ mixer \in [Word -> 0 .. 2^HashBits - 1]
      /\ Bucket = 0 .. 2^HashBits - 1
  BY CallFacts
<1> DEFINE s == size - 1
           m == power - 1
           h == HashBits
<1>2. s \in Nat /\ m \in Nat /\ s <= m /\ m <= h /\ h <= h /\ s <= h /\ h \in Nat
  BY <1>1
<1> HIDE DEF s, m, h
<1>3. /\ 2^s \in Nat \ {0} /\ 2^h \in Nat \ {0} /\ 2^(h - s) \in Nat \ {0}
      /\ 2^h = 2^s * 2^(h - s)
  BY <1>2, PowerFacts DEF h
<1>4. 2^s <= 2^m /\ 2^m \in Nat /\ 2^m <= 2^h
  BY <1>2, PowerFacts DEF h
<1>5. ASSUME NEW w \in Word
      PROVE  /\ mixer[w] \div 2^(h - s) \in Bucket
             /\ mixer[w] \div 2^(h - s) < 2^m
  <2> DEFINE a == mixer[w]
             b == 2^s
             d == 2^(h - s)
             q == a \div d
  <2>1. a \in Nat /\ a < 2^h
    <3>1. a \in 0 .. 2^h - 1
      BY <1>1 DEF h
    <3>. QED  BY <1>3, <3>1
  <2>2. b \in Nat /\ d \in Nat \ {0} /\ a < b * d
    BY <1>3, <2>1
  <2> HIDE DEF a, b, d
  <2>3. q \in Nat /\ q < b
    BY <2>1, <2>2, QuotientBelow
  <2> HIDE DEF q
  <2>4. q < 2^m /\ q \in 0 .. 2^h - 1
    BY <1>3, <1>4, <2>3 DEF b
  <2>. QED  BY <1>1, <2>4 DEF q, a, d, h
<1>6. Shifted(size) = [w \in Word |-> mixer[w] \div 2^(h - s)]
  BY DEF Shifted, h, s
<1>7. \A w \in Word : mixer[w] \div 2^(h - s) \in Bucket /\ mixer[w] \div 2^(h - s) < 2^m
  BY <1>5
<1>. QED  BY <1>6, <1>7 DEF m

-----------------------------------------------------------------------------
(* The steps between blocks. *)

(* The header is known from the text alone. *)
LEMMA HeaderFacts ==
    ASSUME CallOK
    PROVE  Header \in 1 .. 5 /\ Len(source) \in Nat /\ left \in Nat /\ taken \in Nat
<1>1. Len(source) \in Nat /\ taken \in 0 .. Len(source)
  BY LenProperties DEF CallOK
<1>2. Len(source) \div 2 <= MaxInt32
  BY DEF CallOK
<1>3. Header \in 1 .. 5
  BY <1>1, <1>2, VarintFacts DEF Header
<1>. QED  BY <1>1, <1>3 DEF left

(* What is added to a 61st and to a sixth of the text, in bytes. *)
LEMMA RoomFacts ==
    ASSUME NEW len \in Nat, NEW x \in Int, 427 * (x - len) <= 427 + 68 * len
    PROVE  5 + x <= RoomFor(len)
BY DEF RoomFor

LEMMA InitCompress == CompressInit => CompressInductive
<1> SUFFICES ASSUME CompressInit PROVE CompressInductive
  OBVIOUS
<1>1. source \in Seq(Byte) /\ Len(source) \in Nat /\ Len(source) \div 2 <= MaxInt32
  BY BlockAssumption, LenProperties DEF CompressInit
<1>2. Varint(Len(source)) \in Seq(Byte8) /\ Len(Varint(Len(source))) \in 1 .. 5
  BY <1>1, VarintFacts
<1>3. CallOK
  BY <1>1, <1>2 DEF CompressInit, CallOK
<1>4. DataOK
  <2>1. input \in Seq(Byte) /\ n = 0 /\ out \in Seq(Element)
    BY EmptySeq DEF CompressInit, n
  <2>2. table \in [Bucket -> 0 .. PosLimit - 1]
    BY HashAssumption DEF CompressInit
  <2>3. 0 \in Bucket
    <3> DEFINE h == HashBits
    <3>1. h \in 0 .. h
      BY <1>3, CallFacts
    <3>2. 2^h \in Nat \ {0}
      BY <3>1, PowerAssumption
    <3> DEFINE x == 2^h
    <3>3. x \in Nat \ {0} /\ Bucket = 0 .. x - 1
      BY <1>3, <3>2, CallFacts
    <3> HIDE DEF x
    <3>. QED  BY <3>3
  <2>4. hashing \in [Word -> Bucket] /\ next_hash \in Bucket
    BY <2>3 DEF CompressInit
  <2>5. 0 \in 0 .. PosLimit - 1 /\ 0 \in 0 .. MaxOffset /\ n <= PosLimit
    BY <2>1, SMT DEF PosLimit, MaxOffset
  <2>6. skip \in Nat /\ skip >= SkipUnit
    BY MarginAssumption DEF CompressInit
  <2>. QED  BY <2>1, <2>2, <2>4, <2>5, <2>6 DEF CompressInit, DataOK
<1>5. ~InBlock /\ BlockCurrent /\ TableInside
  BY DEF CompressInit, InBlock, BlockCurrent, TableInside
<1>6. BlocksPaid
  <2>1. Spent = 0
    BY <1>2, <1>5 DEF CompressInit, Spent, Header
  <2>. QED  BY <2>1 DEF BlocksPaid, CompressInit
<1>7. RoomEnough
  <2>1. RoomFor(Len(source)) \in Nat /\ 5 <= RoomFor(Len(source))
    BY <1>1 DEF RoomFor
  <2>2. Len(stream) - op + outHigh = Len(Varint(Len(source)))
    BY <1>2 DEF CompressInit
  <2>. QED  BY <1>2, <2>1, <2>2 DEF RoomEnough
<1>. QED  BY <1>3, <1>4, <1>5, <1>6, <1>7 DEF CompressInductive

(* The piece of the text a block is. *)
LEMMA BlockFacts ==
    ASSUME CallOK
    PROVE  /\ num_to_read \in Nat /\ num_to_read <= left /\ num_to_read <= kBlockSize
           /\ num_to_read < kBlockSize => num_to_read = left
           /\ kBlockSize \in 7 .. PosLimit
           /\ Block \in Seq(Byte) /\ Len(Block) = num_to_read
<1>1. Len(source) \in Nat /\ left \in Nat /\ taken \in Nat /\ left = Len(source) - taken
  BY HeaderFacts DEF left
<1>2. kBlockSize \in 7 .. PosLimit
  BY BlockAssumption
<1>3. /\ num_to_read \in Nat /\ num_to_read <= left /\ num_to_read <= kBlockSize
      /\ num_to_read < kBlockSize => num_to_read = left
  BY <1>1, <1>2 DEF num_to_read
<1> DEFINE a == taken + 1
           b == taken + num_to_read
<1>4. \A i \in a .. b : source[i] \in Byte
  <2>1. source \in Seq(Byte)
    BY DEF CallOK
  <2>2. \A i \in a .. b : i \in 1 .. Len(source)
    BY <1>1, <1>3
  <2>. QED  BY <2>1, <2>2, ElementOfSeq
<1>5. a \in Int /\ b \in Int /\ (IF a <= b THEN b - a + 1 ELSE 0) = num_to_read
  BY <1>1, <1>3
<1> HIDE DEF a, b
<1>6. /\ SubSeq(source, a, b) \in Seq(Byte)
      /\ Len(SubSeq(source, a, b)) = num_to_read
  BY <1>4, <1>5, SubSeqProperties
<1>. QED  BY <1>2, <1>3, <1>6 DEF Block, a, b

LEMMA NextBlockKeeps == CompressInductive /\ NextBlock => CompressInductive'
<1> SUFFICES ASSUME CompressInductive, NextBlock PROVE CompressInductive'
  OBVIOUS
<1>0. CallOK /\ DataOK
  BY DEF CompressInductive
<1>1. /\ pc = "block" /\ left > 0 /\ input' = Block
      /\ workmem_size' = SizeFor(num_to_read) /\ hashing' = Shifted(workmem_size')
      /\ pc' = IF version = "fast" THEN "start" ELSE "simple"
      /\ ip' = 0 /\ next_emit' = 0 /\ op' = 0 /\ inHigh' = 0 /\ outHigh' = 0
  BY DEF NextBlock
<1>2. UNCHANGED <<table, next_ip, next_hash, skip, candidate, offset, copyLeft,
                  out, curr_val, source, power, mixer, version, taken, stream>>
  BY DEF NextBlock
<1>3. /\ num_to_read \in Nat /\ num_to_read <= kBlockSize
      /\ kBlockSize \in 7 .. PosLimit
      /\ Block \in Seq(Byte) /\ Len(Block) = num_to_read
  BY <1>0, BlockFacts
<1>4. /\ hashing' \in [Word -> Bucket]
      /\ \A w \in Word : hashing'[w] < 2^(power - 1)
  BY <1>0, <1>1, <1>3, SizeForFacts, ShiftedFacts
<1>5. CallOK'
  BY <1>0, <1>2 DEF CallOK
<1>6. DataOK'
  <2>1. input' \in Seq(Byte) /\ n' \in Nat /\ n' <= PosLimit
    <3>1. n' = num_to_read
      BY <1>1, <1>3 DEF n
    <3>2. num_to_read <= PosLimit
      <4>1. PosLimit \in Nat
        BY DEF PosLimit
      <4>. QED  BY <1>3, <4>1
    <3>. QED  BY <1>1, <1>3, <3>1, <3>2
  <2>. QED  BY <1>0, <1>1, <1>2, <1>4, <2>1 DEF DataOK
<1>7. InBlock' /\ ~InBlock
  BY <1>1 DEF InBlock
<1>8. n' \in Nat
  BY <1>1, <1>3 DEF n
<1>9. BlockCurrent'
  <2>1. left' > 0 /\ (input = Block)'
    BY <1>1, <1>2 DEF left, Block, num_to_read
  <2>2. ASSUME version = "fast" PROVE BlockInductive'
    <3>1. pc' = "start" /\ pc' \in Control
      BY <1>1, <2>2 DEF Control
    <3>2. Covered' = 0
      BY <1>1, <3>1 DEF Covered
    <3>3. Positions' /\ TableBehind' /\ HashCurrent' /\ CandidateBehind' /\ MatchGenuine'
      BY <1>1, <3>1 DEF Positions, TableBehind, HashCurrent, CandidateBehind, MatchGenuine
    <3>4. ReadsInside' /\ WritesNear' /\ Overhead' /\ PaidBack'
      <4>1. /\ op' = 0 /\ next_emit' = 0 /\ inHigh' = 0 /\ outHigh' = 0
        BY <1>1
      <4>2. ReadsInside' /\ WritesNear'
        <5>1. \A m \in Nat : 0 <= m /\ 61 * (0 - m - 1) <= m
          OBVIOUS
        <5>. QED  BY <1>8, <4>1, <5>1 DEF ReadsInside, WritesNear
      <4>3. Overhead' /\ PaidBack'
        BY <3>2, <4>1 DEF Overhead, PaidBack
      <4>. QED  BY <4>2, <4>3
    <3>. QED  BY <1>6, <3>1, <3>3, <3>4 DEF BlockInductive
  <2>3. ASSUME version = "simple" PROVE SimpleInductive'
    <3>1. pc' = "simple" /\ pc' \in SimpleControl
      BY <1>1, <2>3 DEF SimpleControl
    <3>2. BlockCovered' = 0
      BY <1>1, <3>1 DEF BlockCovered, Covered
    <3>3. SimplePositions' /\ SimpleTableBehind' /\ SimpleMatchGenuine' /\ WordKnown'
      BY <1>1, <3>1 DEF SimplePositions, SimpleTableBehind, SimpleMatchGenuine, WordKnown
    <3>4. inHigh' <= n' + 2 /\ WritesNear' /\ SimpleOverhead'
      <4>1. /\ op' = 0 /\ next_emit' = 0 /\ inHigh' = 0 /\ outHigh' = 0
        BY <1>1
      <4>2. inHigh' <= n' + 2 /\ WritesNear'
        <5>1. \A m \in Nat : 0 <= m + 2 /\ 61 * (0 - m - 1) <= m
          OBVIOUS
        <5>. QED  BY <1>8, <4>1, <5>1 DEF WritesNear
      <4>3. SimpleOverhead'
        BY <3>2, <4>1 DEF SimpleOverhead
      <4>. QED  BY <4>2, <4>3
    <3>. QED  BY <1>6, <3>1, <3>3, <3>4 DEF SimpleInductive
  <2>. QED  BY <1>2, <2>1, <2>2, <2>3 DEF BlockCurrent
<1>10. 427 * (Len(stream) - Header - taken) <= 68 * taken
  BY <1>1, <1>7 DEF CompressInductive, BlocksPaid, Spent
<1>11. Len(stream) \in Nat /\ Header \in 1 .. 5 /\ taken \in Nat /\ Len(source) \in Nat
       /\ taken <= Len(source)
  BY <1>0, HeaderFacts, LenProperties DEF CallOK
<1>12. BlocksPaid'
  <2>1. Header' = Header
    BY <1>2 DEF Header
  <2>2. Spent' = Len(stream) - Header
    BY <1>1, <1>2, <1>7, <1>11, <2>1 DEF Spent
  <2>. QED  BY <1>2, <1>10, <2>2 DEF BlocksPaid
<1>13. RoomEnough'
  <2> DEFINE x == Len(stream) - Header
             l == Len(source)
  <2>1. x \in Int /\ l \in Nat /\ 427 * (x - l) <= 427 + 68 * l /\ Len(stream) <= 5 + x
    BY <1>10, <1>11
  <2> HIDE DEF x, l
  <2>2. 5 + x <= RoomFor(l)
    BY <2>1, RoomFacts
  <2>3. RoomFor(l) \in Nat
    BY <2>1 DEF RoomFor
  <2>4. Len(stream) <= RoomFor(l)
    BY <1>11, <2>1, <2>2, <2>3
  <2>. QED  BY <1>1, <1>2, <1>11, <2>4 DEF RoomEnough, l
<1>14. TableInside'
  BY <1>2, <1>4 DEF TableInside
<1>. QED  BY <1>5, <1>6, <1>9, <1>12, <1>13, <1>14 DEF CompressInductive

(* A step inside a block is one of the version that compresses it. *)
LEMMA VersionFacts ==
    ASSUME CompressInductive, FragmentStep
    PROVE  /\ InBlock /\ input' = input /\ hashing' = hashing
           /\ \/ version = "fast" /\ BlockInductive /\ Next
              \/ version = "simple" /\ SimpleInductive /\ SimpleNext
<1>1. version \in {"fast", "simple"}
  BY CallFacts DEF CompressInductive
<1>2. CASE Next
  <2>1. /\ pc \in Control \ {"done"}
        /\ input' = input /\ hashing' = hashing
    BY <1>2 DEF Control, Next, StartShort, StartLong, MainLoop, ScanAtLimit, ScanMiss,
         ScanHit, Probe, PendingLiteral, Match, EmitCopy, ResumeAtLimit, ResumeHit,
         ResumeMiss, Resume, Remainder, RemainderEmpty
  <2>2. InBlock
    BY <2>1 DEF InBlock, Control
  <2>3. version = "fast"
    BY <1>1, <2>1, <2>2
       DEF CompressInductive, BlockCurrent, SimpleInductive, SimpleControl, Control
  <2>4. BlockInductive
    BY <2>2, <2>3 DEF CompressInductive, BlockCurrent
  <2>. QED  BY <1>2, <2>1, <2>2, <2>3, <2>4
<1>3. CASE SimpleNext
  <2>1. /\ pc \in SimpleControl \ {"done"}
        /\ input' = input /\ hashing' = hashing
    BY <1>3 DEF SimpleControl, SimpleNext, SimpleShort, SimpleLong, AdvanceToEnd,
         AdvanceMiss, AdvanceHit, Advance, SimpleMatch, SimpleCopy, SimpleEnd
  <2>2. InBlock
    BY <2>1 DEF InBlock, SimpleControl
  <2>3. version = "simple"
    BY <1>1, <2>1, <2>2
       DEF CompressInductive, BlockCurrent, BlockInductive, SimpleControl, Control
  <2>4. SimpleInductive
    BY <2>2, <2>3 DEF CompressInductive, BlockCurrent
  <2>. QED  BY <1>3, <2>1, <2>2, <2>3, <2>4
<1>. QED  BY <1>2, <1>3 DEF FragmentStep

(* What such a step keeps, whichever version takes it. *)
LEMMA VersionStep ==
    ASSUME CompressInductive, FragmentStep
    PROVE  /\ InBlock /\ InBlock' /\ DataOK' /\ WritesNear' /\ Emits
           /\ input' = input /\ hashing' = hashing
           /\ version = "fast" => BlockInductive'
           /\ version = "simple" => SimpleInductive'
<1>1. InBlock /\ input' = input /\ hashing' = hashing
  BY VersionFacts
<1>2. CASE version = "fast" /\ BlockInductive /\ Next
  <2>1. BlockInductive' /\ Emits
    BY <1>2, BlockStep, FastEmits
  <2>2. DataOK' /\ WritesNear' /\ pc' \in Control
    BY <2>1 DEF BlockInductive
  <2>3. InBlock' /\ version # "simple"
    BY <1>2, <2>2 DEF InBlock, Control
  <2>. QED  BY <1>1, <2>1, <2>2, <2>3
<1>3. CASE version = "simple" /\ SimpleInductive /\ SimpleNext
  <2>1. SimpleInductive' /\ Emits
    BY <1>3, SimpleStep, SimpleEmits
  <2>2. DataOK' /\ WritesNear' /\ pc' \in SimpleControl
    BY <2>1 DEF SimpleInductive
  <2>3. InBlock' /\ version # "fast"
    BY <1>3, <2>2 DEF InBlock, SimpleControl
  <2>. QED  BY <1>1, <2>1, <2>2, <2>3
<1>. QED  BY <1>2, <1>3, VersionFacts

(* All but this block is paid for with a sixth of it to spare, and this    *)
(* one writes at most a byte and a 61st too much: less than a sixth of the *)
(* whole text and the header's five bytes.                                 *)
LEMMA BlockFits ==
    ASSUME NEW header \in 1 .. 5, NEW others \in Int, NEW t \in Nat, NEW k \in Nat,
           NEW len \in Nat, NEW high \in Nat, t + k <= len,
           427 * (others - t) <= 68 * t,
           61 * (high - k - 1) <= k
    PROVE  header + others + high <= RoomFor(len)
<1> DEFINE x == others + high
<1>1. x \in Int /\ 427 * (x - len) <= 427 + 68 * len
  OBVIOUS
<1> HIDE DEF x
<1>2. 5 + x <= RoomFor(len)
  BY <1>1, RoomFacts
<1>3. RoomFor(len) \in Nat
  BY DEF RoomFor
<1>4. header + x <= RoomFor(len)
  BY <1>1, <1>2, <1>3
<1>. QED  BY <1>4 DEF x

LEMMA FragmentStepKeeps == CompressInductive /\ FragmentStep => CompressInductive'
<1> SUFFICES ASSUME CompressInductive, FragmentStep PROVE CompressInductive'
  OBVIOUS
<1>0. CallOK /\ DataOK
  BY DEF CompressInductive
<1>1. /\ InBlock /\ InBlock' /\ DataOK' /\ WritesNear' /\ Emits
      /\ input' = input /\ hashing' = hashing
      /\ version = "fast" => BlockInductive'
      /\ version = "simple" => SimpleInductive'
  BY VersionStep
<1>2. /\ stream' = IF out' = out THEN stream ELSE stream \o Encode(out'[Len(out')])
      /\ UNCHANGED <<source, power, mixer, version, taken, workmem_size>>
  BY DEF FragmentStep, bvars
<1>3. /\ stream \in Seq(Byte8) /\ stream' \in Seq(Byte8)
      /\ op \in Nat /\ op' \in Nat /\ Len(stream') - op' = Len(stream) - op
  BY <1>0, <1>1, <1>2, StreamGrows DEF CallOK, DataOK
<1>4. CallOK'
  BY <1>0, <1>2, <1>3 DEF CallOK
<1>5. left > 0 /\ input = Block
  BY <1>1 DEF CompressInductive, BlockCurrent
<1>6. BlockCurrent'
  <2>1. left' > 0 /\ input' = Block'
    BY <1>1, <1>2, <1>5 DEF left, Block, num_to_read
  <2>. QED  BY <1>1, <1>2, <2>1 DEF BlockCurrent
<1>7. Spent' = Spent /\ Spent = Len(stream) - op - Header
  <2>1. Header' = Header
    BY <1>2 DEF Header
  <2>. QED  BY <1>1, <1>3, <2>1 DEF Spent
<1>8. 427 * (Spent - taken) <= 68 * taken
  BY <1>1 DEF CompressInductive, BlocksPaid
<1>9. BlocksPaid'
  BY <1>2, <1>7, <1>8 DEF BlocksPaid
<1>10. RoomEnough'
  <2>1. /\ Header \in 1 .. 5 /\ taken \in Nat /\ Len(source) \in Nat
        /\ left = Len(source) - taken
    BY <1>0, HeaderFacts DEF left
  <2>2. n \in Nat /\ n <= left
    BY <1>0, <1>5, BlockFacts DEF n
  <2>3. n' = n
    BY <1>1 DEF n
  <2>4. outHigh' \in Nat /\ 61 * (outHigh' - n - 1) <= n
    BY <1>1, <2>3 DEF DataOK, WritesNear
  <2>5. Len(stream) \in Nat /\ Len(stream') \in Nat
    BY <1>3, LenProperties
  <2>6. Spent \in Int /\ taken + n <= Len(source)
    BY <1>3, <1>7, <2>1, <2>2, <2>5
  <2>7. Header + Spent + outHigh' <= RoomFor(Len(source))
    BY <1>8, <2>1, <2>2, <2>4, <2>6, BlockFits
  <2>8. Len(stream') - op' + outHigh' = Header + Spent + outHigh'
    BY <1>3, <1>7, <2>1, <2>4, <2>5
  <2>. QED  BY <1>2, <2>7, <2>8 DEF RoomEnough
<1>11. TableInside'
  BY <1>1, <1>2 DEF CompressInductive, TableInside
<1>. QED  BY <1>1, <1>4, <1>6, <1>9, <1>10, <1>11 DEF CompressInductive

LEMMA BlockDoneKeeps == CompressInductive /\ BlockDone => CompressInductive'
<1> SUFFICES ASSUME CompressInductive, BlockDone PROVE CompressInductive'
  OBVIOUS
<1>0. CallOK /\ DataOK
  BY DEF CompressInductive
<1>1. pc = "done" /\ taken' = taken + n /\ pc' = "block"
  BY DEF BlockDone, TakenAfter
<1>2. UNCHANGED <<input, hashing, table, ip, next_ip, next_emit, next_hash, skip,
                  candidate, offset, copyLeft, op, out, inHigh, outHigh, curr_val,
                  source, power, mixer, version, workmem_size, stream>>
  BY DEF BlockDone
<1>3. InBlock /\ ~InBlock'
  BY <1>1 DEF InBlock
<1>4. /\ Header \in 1 .. 5 /\ taken \in Nat /\ Len(source) \in Nat
      /\ left = Len(source) - taken
  BY <1>0, HeaderFacts DEF left
<1>5. left > 0 /\ input = Block
  BY <1>3 DEF CompressInductive, BlockCurrent
<1>6. /\ n \in Nat /\ n <= left /\ n <= kBlockSize /\ kBlockSize \in 7 .. PosLimit
      /\ n < kBlockSize => n = left
  BY <1>0, <1>5, BlockFacts DEF n
<1>7. CallOK'
  <2>1. taken' \in 0 .. Len(source)
    BY <1>1, <1>4, <1>6
  <2>. QED  BY <1>0, <1>2, <2>1 DEF CallOK
<1>8. DataOK'
  BY <1>0, <1>2 DEF DataOK, n
<1>9. BlockCurrent' /\ TableInside'
  BY <1>3 DEF BlockCurrent, TableInside
<1>10. RoomEnough'
  BY <1>2 DEF CompressInductive, RoomEnough
<1>11. op \in Nat /\ 61 * (op - n - 1) <= n
  <2>1. version \in {"fast", "simple"}
    BY <1>0, CallFacts
  <2>2. Covered = n /\ BlockCovered = n
    BY <1>1 DEF Covered, BlockCovered
  <2>3. CASE version = "fast"
    BY <1>3, <2>2, <2>3
       DEF CompressInductive, BlockCurrent, BlockInductive, Overhead, DataOK
  <2>4. CASE version = "simple"
    BY <1>3, <2>2, <2>4
       DEF CompressInductive, BlockCurrent, SimpleInductive, SimpleOverhead, DataOK
  <2>. QED  BY <2>1, <2>3, <2>4
<1>12. BlocksPaid'
  <2> SUFFICES ASSUME left' > 0 PROVE 427 * (Spent' - taken') <= 68 * taken'
    BY <1>3 DEF BlocksPaid
  <2>1. n = kBlockSize
    BY <1>1, <1>2, <1>4, <1>6 DEF left
  <2>2. n >= 7
    BY <1>6, <2>1
  <2>3. Len(stream) \in Nat
    BY <1>0, LenProperties DEF CallOK
  <2>4. Spent = Len(stream) - op - Header /\ Spent \in Int
    BY <1>3, <1>4, <1>11, <2>3 DEF Spent
  <2>5. 427 * (Spent - taken) <= 68 * taken
    BY <1>3 DEF CompressInductive, BlocksPaid
  <2>6. Header' = Header
    BY <1>2 DEF Header
  <2>7. Spent' = Spent + op
    BY <1>2, <1>3, <1>4, <1>11, <2>3, <2>4, <2>6 DEF Spent
  <2>8. 427 * ((Spent + op) - (taken + n)) <= 68 * (taken + n)
    <3>1. 427 * (op - n) <= 68 * n
      BY <1>6, <1>11, <2>2
    <3>. QED  BY <1>4, <1>6, <1>11, <2>4, <2>5, <3>1
  <2>. QED  BY <1>1, <2>7, <2>8
<1>. QED  BY <1>7, <1>8, <1>9, <1>10, <1>12 DEF CompressInductive

LEMMA AllBlocksDoneKeeps == CompressInductive /\ AllBlocksDone => CompressInductive'
<1> SUFFICES ASSUME CompressInductive, AllBlocksDone PROVE CompressInductive'
  OBVIOUS
<1>1. pc = "block" /\ left = 0 /\ pc' = "compressed"
  BY DEF AllBlocksDone
<1>2. UNCHANGED <<input, hashing, table, ip, next_ip, next_emit, next_hash, skip,
                  candidate, offset, copyLeft, op, out, inHigh, outHigh, stream>>
  BY DEF AllBlocksDone
<1>3. UNCHANGED <<source, power, mixer, version, taken, workmem_size>>
  BY DEF AllBlocksDone, bvars
<1>4. ~InBlock'
  BY <1>1 DEF InBlock
<1>5. CallOK' /\ RoomEnough'
  BY <1>2, <1>3 DEF CompressInductive, CallOK, RoomEnough
<1>6. DataOK'
  BY <1>2 DEF CompressInductive, DataOK, n
<1>7. BlockCurrent' /\ TableInside'
  BY <1>4 DEF BlockCurrent, TableInside
<1>8. BlocksPaid'
  BY <1>1, <1>3, <1>4 DEF BlocksPaid, left
<1>. QED  BY <1>5, <1>6, <1>7, <1>8 DEF CompressInductive

LEMMA CompressStutters == CompressInductive /\ UNCHANGED zvars => CompressInductive'
<1> SUFFICES ASSUME CompressInductive, UNCHANGED zvars PROVE CompressInductive'
  OBVIOUS
<1>1. UNCHANGED vars /\ UNCHANGED curr_val /\ stream' = stream
  BY DEF zvars
<1>2. UNCHANGED <<source, power, mixer, version, taken, workmem_size>>
  BY DEF zvars, bvars
<1>3. /\ pc' = pc /\ input' = input /\ hashing' = hashing /\ op' = op
      /\ outHigh' = outHigh
  BY <1>1 DEF vars
<1>4. InBlock' <=> InBlock
  BY <1>3 DEF InBlock
<1>5. CallOK' /\ RoomEnough' /\ TableInside'
  BY <1>1, <1>2, <1>3, <1>4 DEF CompressInductive, CallOK, RoomEnough, TableInside
<1>6. DataOK'
  BY <1>1 DEF CompressInductive, DataOK, vars, n
<1>7. BlocksPaid'
  BY <1>1, <1>2, <1>3, <1>4
     DEF CompressInductive, BlocksPaid, Spent, Header, left
<1>8. BlockCurrent'
  <2>1. BlockInductive => BlockInductive'
    BY <1>1, BlockStep
  <2>2. SimpleInductive => SimpleInductive'
    <3> SUFFICES ASSUME SimpleInductive PROVE SimpleInductive'
      OBVIOUS
    <3> USE <1>1 DEF vars, n
    <3>1. SimplePositions' /\ SimpleTableBehind' /\ pc' \in SimpleControl
      BY DEF SimpleInductive, SimplePositions, SimpleTableBehind
    <3>2. SimpleMatchGenuine' /\ WordKnown'
      BY DEF SimpleInductive, SimpleMatchGenuine, WordKnown, Load32, At
    <3>3. inHigh' <= n' + 2 /\ WritesNear' /\ SimpleOverhead'
      BY DEF SimpleInductive, WritesNear, SimpleOverhead, BlockCovered, Covered
    <3>. QED  BY <1>6, <3>1, <3>2, <3>3 DEF SimpleInductive
  <2>3. left' = left /\ Block' = Block
    BY <1>2 DEF left, Block, num_to_read
  <2>. QED  BY <1>2, <1>3, <1>4, <2>1, <2>2, <2>3 DEF CompressInductive, BlockCurrent
<1>. QED  BY <1>5, <1>6, <1>7, <1>8 DEF CompressInductive

LEMMA CompressStep ==
    ASSUME CompressInductive, [CompressNext]_zvars
    PROVE  CompressInductive'
<1>1. CASE NextBlock
  BY <1>1, NextBlockKeeps
<1>2. CASE FragmentStep
  BY <1>2, FragmentStepKeeps
<1>3. CASE BlockDone
  BY <1>3, BlockDoneKeeps
<1>4. CASE AllBlocksDone
  BY <1>4, AllBlocksDoneKeeps
<1>5. CASE UNCHANGED zvars
  BY <1>5, CompressStutters
<1>. QED  BY <1>1, <1>2, <1>3, <1>4, <1>5 DEF CompressNext

(* The inductive invariant of the whole call: whichever version compresses *)
(* the blocks, each of them finds the working memory as the one before it  *)
(* left it, and all but the current one are paid for.                      *)
THEOREM CompressInvariant == CompressSpec => []CompressInductive
<1>1. CompressInit => CompressInductive
  BY InitCompress
<1>2. CompressInductive /\ [CompressNext]_zvars => CompressInductive'
  BY CompressStep
<1>. QED  BY <1>1, <1>2, PTL DEF CompressSpec

(* What the bound lacks where it does not fit in 32 bits. *)
LEMMA BoundTruncated ==
    ASSUME NEW len \in Nat
    PROVE  /\ BoundWraps(len) <=> len >= 3681400512
           /\ ~BoundWraps(len) => MaxCompressedLength(len) = RoomFor(len)
           /\ BoundWraps(len) /\ len \div 2 <= 2147483647 => MaxCompressedLength(len) < len
<1>1. len \div 6 \in Nat /\ 6 * (len \div 6) <= len /\ len < 6 * (len \div 6) + 6
  OBVIOUS
<1>2. BoundWraps(len) <=> 32 + len + len \div 6 >= 4294967296
  BY <1>1 DEF BoundWraps, RoomFor
<1>. QED  BY <1>1, <1>2 DEF MaxCompressedLength, RoomFor

(* csnappy_max_compressed_length is enough: no store of any block, wide    *)
(* copies included, passes the end of the buffer it asks for, whatever the *)
(* text of less than 3681400512 bytes.                                     *)
THEOREM OutputAlwaysFits == CompressSpec => []OutputFits
<1>1. CompressInductive => OutputFits
  <2> SUFFICES ASSUME CompressInductive, ~BoundWraps(Len(source))
               PROVE  Len(stream) - op + outHigh <= MaxCompressedLength(Len(source))
    BY DEF OutputFits
  <2>1. Len(source) \in Nat
    BY HeaderFacts DEF CompressInductive
  <2>2. MaxCompressedLength(Len(source)) = RoomFor(Len(source))
    BY <2>1, BoundTruncated
  <2>. QED  BY <2>2 DEF CompressInductive, RoomEnough
<1>. QED  BY <1>1, CompressInvariant, PTL

(* For a longer text, of any length a uint32_t holds, the bound is smaller *)
(* than the text: a buffer of that size cannot take it as literals.  This  *)
(* is where csnappy.h's "maximal size of the compressed representation" is *)
(* not what csnappy_max_compressed_length returns.                         *)
THEOREM BoundFallsShort ==
    \A len \in Nat : len >= 3681400512 /\ len \div 2 <= MaxInt32 =>
                      MaxCompressedLength(len) < len
BY BoundTruncated, SMT DEF MaxInt32

(* However short the last block and small its table, no hash leads past    *)
(* the 2^workmem_bytes_power_of_two bytes of the caller's working memory.  *)
THEOREM TableStaysInside == CompressSpec => []TableInside
<1>1. CompressInductive => TableInside
  BY DEF CompressInductive
<1>. QED  BY <1>1, CompressInvariant, PTL

(* No load passes the end of the block, but for the two bytes the simple   *)
(* version may read behind a match that ends there.                        *)
THEOREM ReadsStayNear == CompressSpec => []ReadsNear
<1>1. CompressInductive => ReadsNear
  <2> SUFFICES ASSUME CompressInductive, InBlock
               PROVE  inHigh <= n + (IF version = "simple" THEN 2 ELSE 0)
    BY DEF ReadsNear
  <2>1. version \in {"fast", "simple"} /\ n \in Nat
    BY CallFacts, InputFacts DEF CompressInductive
  <2>2. CASE version = "fast"
    <3>1. inHigh <= n
      BY <2>2 DEF CompressInductive, BlockCurrent, BlockInductive, ReadsInside
    <3>. QED  BY <2>1, <2>2, <3>1
  <2>3. CASE version = "simple"
    <3>1. inHigh <= n + 2
      BY <2>3 DEF CompressInductive, BlockCurrent, SimpleInductive
    <3>. QED  BY <2>3, <3>1
  <2>. QED  BY <2>1, <2>2, <2>3
<1>. QED  BY <1>1, CompressInvariant, PTL

(* DCHECK_EQ(curr_val, get_unaligned_le32(src)): the word the simple       *)
(* version shifts along and sets anew after a match is the one at `src'.   *)
THEOREM WordsCurrent == CompressSpec => []WordCurrent
<1>1. CompressInductive => WordCurrent
  <2> SUFFICES ASSUME CompressInductive, pc \in {"simple_match", "advance"}
               PROVE  WordCurrent
    BY DEF WordCurrent
  <2>1. InBlock /\ pc \notin Control
    BY DEF InBlock, Control
  <2>2. version = "simple"
    BY <2>1, CallFacts DEF CompressInductive, BlockCurrent, BlockInductive
  <2>3. SimpleInductive /\ DataOK
    BY <2>1, <2>2 DEF CompressInductive, BlockCurrent
  <2>4. WordKnown /\ ip \in Nat /\ n \in Nat
    BY <2>3, InputFacts DEF SimpleInductive, DataOK
  <2>5. pc = "simple_match" => curr_val = Load32(ip)
    BY <2>4 DEF WordKnown
  <2>6. ASSUME pc = "advance", ip + 1 < n - 4, NEW k \in 2 .. 4
        PROVE  curr_val[k] = At(ip + k - 1)
    <3>1. ip + k <= n
      BY <2>4, <2>6
    <3>. QED  BY <2>4, <2>6, <3>1 DEF WordKnown
  <2>. QED  BY <2>5, <2>6 DEF WordCurrent
<1>. QED  BY <1>1, CompressInvariant, PTL

-----------------------------------------------------------------------------
(***************************************************************************)
(* The refinement: every element that either version writes into the       *)
(* shared output covers the next bytes of the whole text.                  *)
(***************************************************************************)

LEMMA SimpleCovers ==
    ASSUME SimpleInductive, SimpleNext
    PROVE  /\ BlockCovered \in 0 .. n
           /\ Covers(BlockCovered, BlockCovered')
<1>0. /\ DataOK /\ n \in Nat /\ ip \in Nat /\ next_emit \in Nat /\ next_emit <= n
      /\ copyLeft \in Nat
  BY InputFacts DEF SimpleInductive, DataOK
<1>1. pc = "simple_copy" =>
        /\ 1 <= offset /\ 4 <= copyLeft /\ copyLeft + offset <= next_emit
        /\ offset \in Nat /\ offset <= MaxOffset
        /\ \A k \in next_emit - copyLeft .. next_emit - 1 : At(k) = At(k - offset)
  <2>1. offset \in 0 .. MaxOffset
    BY <1>0 DEF DataOK
  <2>2. offset \in Nat /\ offset <= MaxOffset
    BY <2>1, MaxOffsetFacts
  <2>. QED  BY <2>2 DEF SimpleInductive, SimpleMatchGenuine
<1>2. pc \notin {"copy", "match"}
  BY DEF SimpleInductive, SimpleControl
<1>3. BlockCovered \in 0 .. n
  BY <1>0, <1>1, <1>2 DEF BlockCovered, Covered
<1> SUFFICES Covers(BlockCovered, BlockCovered')
  BY <1>3
<1>4. CASE SimpleShort \/ SimpleLong \/ AdvanceToEnd \/ AdvanceMiss \/ AdvanceHit
  <2>1. /\ pc \in {"simple", "advance"} /\ next_emit' = next_emit
        /\ pc' \in {"simple_end", "advance", "simple_match"}
        /\ out' = out /\ op' = op
    BY <1>4 DEF SimpleShort, SimpleLong, AdvanceToEnd, AdvanceMiss, AdvanceHit, Advance
  <2>2. BlockCovered = next_emit /\ BlockCovered' = next_emit
    BY <2>1 DEF BlockCovered, Covered
  <2>. QED  BY <2>1, <2>2 DEF Covers
<1>5. ASSUME NEW end \in Nat, next_emit <= end, end <= n, emit_literal(next_emit, end),
             BlockCovered = next_emit, BlockCovered' = end
      PROVE  Covers(BlockCovered, BlockCovered')
  <2>1. CASE next_emit = end
    BY <1>5, <2>1 DEF emit_literal, Covers
  <2>2. CASE next_emit # end
    <3> DEFINE k == end - next_emit
    <3>1. k \in 1 .. n - next_emit /\ next_emit + k = end
      BY <1>0, <1>5, <2>2
    <3>2. EmitLiteral(next_emit, k, FALSE)
      BY <1>5, <2>2 DEF emit_literal
    <3> HIDE DEF k
    <3>3. Covers(next_emit, next_emit + k)
      BY <3>1, <3>2, LiteralCovers
    <3>. QED  BY <1>5, <3>1, <3>3
  <2>. QED  BY <2>1, <2>2
<1>6. CASE SimpleMatch
  <2>1. PICK m \in 0 .. n - ip - 4 : copyLeft' = 4 + m /\ next_emit' = ip + 4 + m
    BY <1>6 DEF SimpleMatch
  <2>2. /\ pc = "simple_match" /\ pc' = "simple_copy" /\ next_emit <= ip /\ ip <= n
        /\ emit_literal(next_emit, ip)
    BY <1>0, <1>6 DEF SimpleInductive, SimplePositions, SimpleMatch
  <2>3. BlockCovered = next_emit
    BY <2>2 DEF BlockCovered, Covered
  <2>4. BlockCovered' = next_emit' - copyLeft'
    BY <2>2 DEF BlockCovered
  <2>5. next_emit' - copyLeft' = ip
    BY <1>0, <2>1
  <2>. QED  BY <1>0, <1>5, <2>2, <2>3, <2>4, <2>5
<1>7. CASE SimpleEnd
  <2>1. /\ pc = "simple_end" /\ pc' = "done" /\ n' = n
        /\ emit_literal(next_emit, n)
    BY <1>7 DEF SimpleEnd, n
  <2>2. BlockCovered = next_emit /\ BlockCovered' = n
    BY <2>1 DEF BlockCovered, Covered
  <2>. QED  BY <1>0, <1>5, <2>1, <2>2
<1>8. CASE SimpleCopy
  <2> DEFINE len == ChunkLen(copyLeft)
  <2>1. /\ pc = "simple_copy" /\ next_emit' = next_emit
        /\ pc' = IF copyLeft' = 0 THEN "advance" ELSE "simple_copy"
        /\ out' = Append(out, CopyElement(offset, len))
        /\ op' = op + CopySize(offset, len)
        /\ copyLeft' = copyLeft - len
    BY <1>8 DEF SimpleCopy, EmitCopyLessThan64
  <2>2. len \in MinCopyLen .. MaxCopyLen /\ len <= copyLeft
    BY <1>0, <1>1, <2>1, ChunkFacts
  <2> HIDE DEF len
  <2>3. len \in Nat /\ len >= 4
    BY <2>2 DEF MinCopyLen, MaxCopyLen
  <2> DEFINE c == next_emit - copyLeft
  <2>4. BlockCovered = c
    BY <2>1 DEF BlockCovered
  <2>5. BlockCovered' = c + len
    <3>1. BlockCovered' = next_emit - copyLeft'
      <4>1. CASE copyLeft' = 0
        BY <1>0, <2>1, <4>1 DEF BlockCovered, Covered
      <4>2. CASE copyLeft' # 0
        BY <2>1, <4>2 DEF BlockCovered
      <4>. QED  BY <4>1, <4>2
    <3>. QED  BY <1>0, <2>1, <2>3, <3>1
  <2>6. /\ len \in 1 .. n - c /\ offset \in 1 .. c /\ offset <= MaxOffset
    BY <1>0, <1>1, <2>1, <2>2, <2>3
  <2>7. \A j \in c .. c + len - 1 : At(j) = At(j - offset)
    <3>1. \A j \in c .. c + len - 1 : j \in next_emit - copyLeft .. next_emit - 1
      BY <1>0, <2>2, <2>3
    <3>. QED  BY <1>1, <2>1, <3>1
  <2> HIDE DEF c
  <2>8. Covers(c, c + len)
    BY <2>1, <2>2, <2>6, <2>7, CopyCovers
  <2>. QED  BY <2>4, <2>5, <2>8
<1>. QED  BY <1>4, <1>6, <1>7, <1>8 DEF SimpleNext

(* A block's byte i is the text's byte taken + i. *)
LEMMA BlockBytes ==
    ASSUME CallOK, input = Block
    PROVE  /\ n \in Nat /\ taken + n <= Len(source)
           /\ \A i \in 1 .. n : input[i] = source[taken + i]
<1>1. Len(source) \in Nat /\ taken \in Nat /\ left = Len(source) - taken
  BY HeaderFacts DEF left
<1>2. n = num_to_read /\ n \in Nat /\ n <= left
  BY BlockFacts DEF n
<1> DEFINE a == taken + 1
           b == taken + num_to_read
<1>3. \A i \in a .. b : source[i] \in Byte
  <2>1. source \in Seq(Byte)
    BY DEF CallOK
  <2>2. \A i \in a .. b : i \in 1 .. Len(source)
    BY <1>1, <1>2
  <2>. QED  BY <2>1, <2>2, ElementOfSeq
<1>4. a \in Int /\ b \in Int /\ b - a + 1 = n
  BY <1>1, <1>2
<1> HIDE DEF a, b
<1>5. \A i \in 1 .. b - a + 1 : SubSeq(source, a, b)[i] = source[a + i - 1]
  BY <1>3, <1>4, SubSeqProperties
<1>6. \A i \in 1 .. n : input[i] = source[taken + i]
  <2> SUFFICES ASSUME NEW i \in 1 .. n PROVE input[i] = source[taken + i]
    OBVIOUS
  <2>1. input = SubSeq(source, a, b)
    BY DEF Block, a, b
  <2>2. a + i - 1 = taken + i
    BY <1>1, <1>2 DEF a
  <2>. QED  BY <1>4, <1>5, <2>1, <2>2
<1>. QED  BY <1>1, <1>2, <1>6

(* A piece of the text from position p on. *)
LEMMA SourcePiece ==
    ASSUME CallOK, NEW p \in Nat, NEW len \in Nat, p + len <= Len(source)
    PROVE  /\ SubSeq(source, p + 1, p + len) \in Seq(Byte)
           /\ Len(SubSeq(source, p + 1, p + len)) = len
           /\ \A i \in 1 .. len : SubSeq(source, p + 1, p + len)[i] = source[p + i]
<1>1. source \in Seq(Byte) /\ Len(source) \in Nat
  BY HeaderFacts DEF CallOK
<1>2. \A i \in p + 1 .. p + len : source[i] \in Byte
  BY <1>1, ElementOfSeq
<1>3. /\ SubSeq(source, p + 1, p + len) \in Seq(Byte)
      /\ Len(SubSeq(source, p + 1, p + len))
           = IF p + 1 <= p + len THEN (p + len) - (p + 1) + 1 ELSE 0
      /\ \A i \in 1 .. (p + len) - (p + 1) + 1 :
            SubSeq(source, p + 1, p + len)[i] = source[p + 1 + i - 1]
  BY <1>2, SubSeqProperties
<1>4. \A i \in 1 .. len : i \in 1 .. (p + len) - (p + 1) + 1 /\ p + 1 + i - 1 = p + i
  OBVIOUS
<1>. QED  BY <1>3, <1>4

(* A literal of the block is the same piece of the text. *)
LEMMA SamePiece ==
    ASSUME CallOK, DataOK, input = Block, NEW c \in Nat, NEW k \in Nat, c + k <= n
    PROVE  SubSeq(input, c + 1, c + k) = SubSeq(source, (taken + c) + 1, (taken + c) + k)
<1> DEFINE s == SubSeq(input, c + 1, c + k)
           p == taken + c
           t == SubSeq(source, p + 1, p + k)
<1>1. /\ n \in Nat /\ taken + n <= Len(source)
      /\ \A i \in 1 .. n : input[i] = source[taken + i]
  BY BlockBytes
<1>2. taken \in Nat /\ Len(source) \in Nat
  BY HeaderFacts
<1>3. p \in Nat /\ p + k <= Len(source)
  BY <1>1, <1>2
<1>4. s \in Seq(Byte) /\ Len(s) = k /\ \A i \in 1 .. k : s[i] = At(c + i - 1)
  BY PieceFacts
<1>5. t \in Seq(Byte) /\ Len(t) = k /\ \A i \in 1 .. k : t[i] = source[p + i]
  <2> HIDE DEF p
  <2>. QED  BY <1>3, SourcePiece
<1>6. \A i \in 1 .. k : s[i] = t[i]
  <2> SUFFICES ASSUME NEW i \in 1 .. k PROVE s[i] = t[i]
    OBVIOUS
  <2>1. c + i \in 1 .. n /\ c + i - 1 + 1 = c + i /\ taken + (c + i) = p + i
    BY <1>1, <1>2
  <2>2. At(c + i - 1) = input[c + i]
    BY <2>1 DEF At
  <2> HIDE DEF s, t, p
  <2>3. s[i] = At(c + i - 1) /\ t[i] = source[p + i]
    BY <1>4, <1>5
  <2>4. input[c + i] = source[taken + (c + i)]
    BY <1>1, <2>1
  <2>. QED  BY <2>1, <2>2, <2>3, <2>4
<1> HIDE DEF s, t
<1>7. s = t
  BY <1>4, <1>5, <1>6, SeqEqual
<1>. QED  BY <1>7 DEF s, t

(* The text covered so far, of all blocks. *)
Progress == taken + (IF InBlock THEN BlockCovered ELSE 0)

LEMMA WholeLiteralStep ==
    ASSUME CallOK, source' = source, NEW p \in Nat, NEW k \in Nat \ {0},
           p + k <= Len(source), p = Progress, Progress' = p + k,
           out' = Append(out, LiteralElement(SubSeq(source, p + 1, p + k))),
           Len(stream') - Header' = (Len(stream) - Header) + LiteralSize(k)
    PROVE  Whole!Next
<1> DEFINE t == SubSeq(source, 1, p)
           u == SubSeq(source, 1, p + k)
           s == SubSeq(source, p + 1, p + k)
<1>0. source \in Seq(Byte) /\ Len(source) \in Nat
  BY HeaderFacts DEF CallOK
<1>1. Len(t) = p /\ Len(u) = p + k
  <2>1. /\ Len(SubSeq(source, 0 + 1, 0 + p)) = p
        /\ Len(SubSeq(source, 0 + 1, 0 + (p + k))) = p + k
    <3>1. 0 + p <= Len(source) /\ 0 + (p + k) <= Len(source) /\ p + k \in Nat
      BY <1>0
    <3>. QED  BY <3>1, SourcePiece
  <2>2. 0 + 1 = 1 /\ 0 + p = p /\ 0 + (p + k) = p + k
    OBVIOUS
  <2>. QED  BY <2>1, <2>2
<1>2. Len(s) = k
  BY SourcePiece
<1>3. u = t \o s
  <2>1. /\ 1 \in 1 .. Len(source) + 1 /\ p \in 1 - 1 .. Len(source)
        /\ p + k \in p .. Len(source)
    BY <1>0
  <2>. QED  BY <1>0, <2>1, ConcatAdjacentSubSeq
<1>4. Whole!Denotes(t, Whole!LiteralElement(s), u)
  BY <1>3 DEF Whole!Denotes, Whole!LiteralElement
<1>5. LiteralSize(k) = Whole!ElementSize(Whole!LiteralElement(s))
  <2> HIDE DEF s
  <2>1. /\ Whole!LiteralElement(s).kind = "literal"
        /\ Whole!LiteralElement(s).bytes = s
    BY DEF Whole!LiteralElement
  <2>2. Whole!ElementSize(Whole!LiteralElement(s)) = Whole!LiteralSize(k)
    BY <1>2, <2>1 DEF Whole!ElementSize
  <2>3. Whole!LengthBytes(k) = LengthBytes(k)
    BY DEF Whole!LengthBytes, LengthBytes
  <2>4. Whole!LiteralSize(k) = LiteralSize(k)
    BY <2>3 DEF Whole!LiteralSize, LiteralSize, Whole!LiteralHeader, LiteralHeader
  <2>. QED  BY <2>2, <2>4
<1>6. Whole!Literal(k)
  BY <1>1, <1>4, <1>5
     DEF Whole!Literal, Whole!Emit, LiteralElement, Whole!LiteralElement,
         Progress, Header
<1>7. k \in 1 .. (Len(source) - Len(SubSeq(source, 1, Progress)))
  BY <1>0, <1>1
<1>8. Len(SubSeq(source, 1, Progress)') = Len(SubSeq(source, 1, Progress)) + k
  BY <1>1
<1>. QED  BY <1>6, <1>7, <1>8 DEF Whole!Next, Progress

LEMMA WholeCopyStep ==
    ASSUME CallOK, source' = source, NEW p \in Nat, NEW k \in MinCopyLen .. MaxCopyLen,
           p + k <= Len(source), p = Progress, Progress' = p + k,
           NEW o \in 1 .. p, o <= MaxOffset,
           \A i \in p + 1 .. p + k : source[i] = source[i - o],
           out' = Append(out, CopyElement(o, k)),
           Len(stream') - Header' = (Len(stream) - Header) + CopySize(o, k)
    PROVE  Whole!Next
<1> DEFINE t == SubSeq(source, 1, p)
           u == SubSeq(source, 1, p + k)
<1>0. Len(source) \in Nat /\ k \in Nat /\ k >= 1
  BY HeaderFacts DEF MinCopyLen, MaxCopyLen
<1>1. /\ Len(t) = p /\ Len(u) = p + k
      /\ \A i \in 1 .. p : t[i] = source[i]
      /\ \A i \in 1 .. p + k : u[i] = source[i]
  <2> DEFINE q == p + k
  <2>1. 0 + p <= Len(source) /\ 0 + q <= Len(source) /\ q \in Nat
    BY <1>0
  <2> HIDE DEF q
  <2>2. /\ Len(SubSeq(source, 0 + 1, 0 + p)) = p /\ Len(SubSeq(source, 0 + 1, 0 + q)) = q
        /\ \A i \in 1 .. p : SubSeq(source, 0 + 1, 0 + p)[i] = source[0 + i]
        /\ \A i \in 1 .. q : SubSeq(source, 0 + 1, 0 + q)[i] = source[0 + i]
    BY <2>1, SourcePiece
  <2>3. 0 + 1 = 1 /\ 0 + p = p /\ 0 + q = q /\ \A i \in Nat : 0 + i = i
    BY <2>1
  <2>4. \A i \in 1 .. p : source[0 + i] = source[i]
    BY <2>3
  <2>5. \A i \in 1 .. q : source[0 + i] = source[i]
    BY <2>1, <2>3
  <2>. QED  BY <2>2, <2>3, <2>4, <2>5 DEF q
<1> HIDE DEF t, u
<1>2. \A i \in 1 .. Len(u) : u[i] = IF i <= Len(t) THEN t[i] ELSE u[i - o]
  <2>1. TAKE i \in 1 .. Len(u)
  <2>2. CASE i <= p
    BY <1>0, <1>1, <2>2
  <2>3. CASE i > p
    <3>1. i \in p + 1 .. p + k /\ i - o \in 1 .. p + k
      BY <1>0, <1>1, <2>3
    <3>2. source[i] = source[i - o]
      BY <3>1
    <3>. QED  BY <1>1, <2>3, <3>1, <3>2
  <2>. QED  BY <1>0, <1>1, <2>2, <2>3
<1>3. Whole!IsRepeat(t, u, o, k)
  BY <1>1, <1>2 DEF Whole!IsRepeat
<1>4. Whole!Denotes(t, Whole!CopyElement(o, k), u)
  BY <1>3 DEF Whole!Denotes, Whole!CopyElement
<1>5. CopySize(o, k) = Whole!ElementSize(Whole!CopyElement(o, k))
  BY DEF Whole!ElementSize, Whole!CopyElement, Whole!CopySize, CopySize
<1> USE DEF t, u
<1>6. Whole!Copy(o, k)
  BY <1>1, <1>4, <1>5
     DEF Whole!Copy, Whole!Emit, CopyElement, Whole!CopyElement, Progress, Header
<1>7. k \in 1 .. (Len(source) - Len(SubSeq(source, 1, Progress)))
  BY <1>0, <1>1
<1>8. Len(SubSeq(source, 1, Progress)') = Len(SubSeq(source, 1, Progress)) + k
  BY <1>1
<1>9. o \in 1 .. Len(SubSeq(source, 1, Progress))
  BY <1>1
<1>10. k \in Whole!MinCopyLen .. Whole!MaxCopyLen /\ o <= Whole!MaxOffset
  BY DEF MinCopyLen, MaxCopyLen, MaxOffset,
         Whole!MinCopyLen, Whole!MaxCopyLen, Whole!MaxOffset
<1>. QED  BY <1>6, <1>7, <1>8, <1>9, <1>10 DEF Whole!Next, Progress

LEMMA WholeStutterStep ==
    ASSUME source' = source, out' = out, Progress' = Progress, Len(stream') = Len(stream)
    PROVE  UNCHANGED Whole!svars
<1>1. UNCHANGED SubSeq(source, 1, Progress)
  OBVIOUS
<1>. QED  BY <1>1 DEF Whole!svars, Progress

(* What covers a piece of the block covers a piece of the text. *)
LEMMA WholeCoverStep ==
    ASSUME CallOK, DataOK, input = Block, InBlock, InBlock',
           source' = source, taken' = taken,
           NEW c \in 0 .. n, NEW d, c = BlockCovered, d = BlockCovered', Covers(c, d),
           op \in Nat, op' \in Nat, Len(stream) \in Nat, Len(stream') \in Nat,
           Len(stream') - op' = Len(stream) - op,
           out' = out => stream' = stream
    PROVE  Whole!Next \/ UNCHANGED Whole!svars
<1>0. /\ taken \in Nat /\ Len(source) \in Nat /\ Header \in Nat /\ Header' = Header
      /\ n \in Nat /\ taken + n <= Len(source)
      /\ \A i \in 1 .. n : input[i] = source[taken + i]
  BY HeaderFacts, BlockBytes DEF Header
<1> DEFINE p == taken + c
<1>1. p = Progress /\ Progress' = taken + d /\ p \in Nat
  BY <1>0 DEF Progress
<1>2. CASE d = c /\ out' = out /\ op' = op
  <2>1. Progress' = Progress /\ stream' = stream
    BY <1>1, <1>2
  <2>. QED  BY <1>2, <2>1, WholeStutterStep
<1>3. ASSUME NEW k \in 1 .. n - c, d = c + k,
             out' = Append(out, LiteralElement(SubSeq(input, c + 1, c + k))),
             op' = op + LiteralSize(k)
      PROVE  Whole!Next
  <2>1. k \in Nat \ {0} /\ c \in Nat /\ c + k <= n /\ p + k <= Len(source)
    BY <1>0
  <2>2. SubSeq(input, c + 1, c + k) = SubSeq(source, p + 1, p + k)
    BY <2>1, SamePiece
  <2>3. Progress' = p + k
    BY <1>0, <1>1, <1>3, <2>1
  <2>4. Len(stream') - Header' = (Len(stream) - Header) + LiteralSize(k)
    <3> DEFINE z == LiteralSize(k)
    <3>1. z \in Nat
      <4>1. k \in Nat /\ LiteralHeader(k) \in 1 .. 5
        BY <2>1, HeaderBound
      <4>. QED  BY <4>1 DEF LiteralSize
    <3> HIDE DEF z
    <3>2. op' = op + z
      BY <1>3 DEF z
    <3>3. Len(stream') - Header' = (Len(stream) - Header) + z
      BY <1>0, <3>1, <3>2
    <3>. QED  BY <3>3 DEF z
  <2> HIDE DEF p
  <2>. QED  BY <1>1, <1>3, <2>1, <2>2, <2>3, <2>4, WholeLiteralStep
<1>4. ASSUME NEW k \in 1 .. n - c, NEW o \in 1 .. c, d = c + k,
             k \in MinCopyLen .. MaxCopyLen, o <= MaxOffset,
             \A j \in c .. c + k - 1 : At(j) = At(j - o),
             out' = Append(out, CopyElement(o, k)),
             op' = op + CopySize(o, k)
      PROVE  Whole!Next
  <2>1. k \in Nat \ {0} /\ c \in Nat /\ c + k <= n /\ p + k <= Len(source) /\ o \in 1 .. p
    <3>1. k \in Nat \ {0} /\ c \in Nat /\ c + k <= n
      BY <1>0
    <3>2. taken \in Nat /\ n \in Nat /\ Len(source) \in Nat /\ taken + n <= Len(source)
      BY <1>0
    <3>3. p = taken + c /\ o \in 1 .. c
      OBVIOUS
    <3> HIDE DEF p
    <3>. QED  BY <3>1, <3>2, <3>3
  <2>2. \A i \in p + 1 .. p + k : source[i] = source[i - o]
    <3> SUFFICES ASSUME NEW i \in p + 1 .. p + k PROVE source[i] = source[i - o]
      OBVIOUS
    <3> DEFINE j == i - taken - 1
    <3>1. /\ j \in c .. c + k - 1 /\ j + 1 \in 1 .. n /\ j - o + 1 \in 1 .. n
          /\ taken + (j + 1) = i /\ taken + (j - o + 1) = i - o
      <4>1. /\ taken \in Nat /\ c \in Nat /\ k \in Nat /\ o \in 1 .. c /\ c + k <= n
            /\ i \in taken + c + 1 .. taken + c + k /\ n \in Nat
        BY <1>0, <2>1
      <4>2. j \in Int /\ i = j + taken + 1
        BY <4>1
      <4> HIDE DEF j, p
      <4>3. j \in c .. c + k - 1
        BY <4>1, <4>2
      <4>. QED  BY <4>1, <4>2, <4>3
    <3> HIDE DEF j, p
    <3>2. At(j) = At(j - o)
      BY <1>4, <3>1
    <3>3. input[j + 1] = input[j - o + 1]
      BY <3>2 DEF At
    <3>4. input[j + 1] = source[i] /\ input[j - o + 1] = source[i - o]
      <4>1. input[j + 1] = source[taken + (j + 1)]
        BY <1>0, <3>1
      <4>2. input[j - o + 1] = source[taken + (j - o + 1)]
        BY <1>0, <3>1
      <4>. QED  BY <3>1, <4>1, <4>2
    <3>. QED  BY <3>3, <3>4
  <2>3. Progress' = p + k
    BY <1>0, <1>1, <1>4, <2>1
  <2>4. Len(stream') - Header' = (Len(stream) - Header) + CopySize(o, k)
    <3> DEFINE z == CopySize(o, k)
    <3>1. z \in Nat
      BY <2>1, CopySizeBound
    <3> HIDE DEF z
    <3>2. op' = op + z
      BY <1>4 DEF z
    <3>3. Len(stream') - Header' = (Len(stream) - Header) + z
      BY <1>0, <3>1, <3>2
    <3>. QED  BY <3>3 DEF z
  <2> HIDE DEF p
  <2>. QED  BY <1>1, <1>4, <2>1, <2>2, <2>3, <2>4, WholeCopyStep
<1>. QED  BY <1>2, <1>3, <1>4 DEF Covers

(* What such a step covers, whichever version takes it. *)
LEMMA VersionCovers ==
    ASSUME CompressInductive, FragmentStep
    PROVE  /\ BlockCovered \in 0 .. n
           /\ Covers(BlockCovered, BlockCovered')
<1>1. CASE version = "fast" /\ BlockInductive /\ Next
  <2>1. pc \in Control /\ pc' \in Control
    BY <1>1, BlockStep DEF BlockInductive
  <2>2. BlockCovered = Covered /\ BlockCovered' = Covered'
    BY <2>1 DEF BlockCovered, Control
  <2>. QED  BY <1>1, <2>2, NextCovers
<1>2. CASE version = "simple" /\ SimpleInductive /\ SimpleNext
  BY <1>2, SimpleCovers
<1>. QED  BY <1>1, <1>2, VersionFacts

LEMMA InitWhole == CompressInit => Whole!Init
<1> SUFFICES ASSUME CompressInit PROVE Whole!Init
  OBVIOUS
<1>1. Progress = 0
  BY DEF CompressInit, Progress, InBlock
<1>2. SubSeq(source, 1, Progress) = <<>>
  BY <1>1, SubSeqEmpty
<1>3. Len(stream) - Len(Varint(Len(source))) = 0
  <2>1. source \in Seq(Byte) /\ Len(source) \in Nat /\ Len(source) \div 2 <= MaxInt32
    BY BlockAssumption, LenProperties DEF CompressInit
  <2>2. Len(Varint(Len(source))) \in Nat
    BY <2>1, VarintFacts
  <2>. QED  BY <2>2 DEF CompressInit
<1>. QED  BY <1>2, <1>3 DEF CompressInit, Whole!Init, Progress

LEMMA CompressImplements ==
    ASSUME CompressInductive, [CompressNext]_zvars
    PROVE  Whole!Next \/ UNCHANGED Whole!svars
<1>0. CallOK /\ DataOK /\ n \in Nat /\ taken \in Nat
  BY HeaderFacts, InputFacts DEF CompressInductive
<1>1. CASE NextBlock
  <2>1. /\ pc = "block" /\ pc' \in {"start", "simple"} /\ next_emit' = 0
        /\ source' = source /\ out' = out /\ stream' = stream /\ taken' = taken
    BY <1>1 DEF NextBlock
  <2>2. Progress = taken /\ Progress' = taken
    BY <1>0, <2>1 DEF Progress, InBlock, BlockCovered, Covered
  <2>. QED  BY <2>1, <2>2, WholeStutterStep
<1>2. CASE FragmentStep
  <2>1. /\ InBlock /\ InBlock' /\ Emits
    BY <1>2, VersionStep
  <2>2. /\ source' = source /\ taken' = taken
        /\ stream' = IF out' = out THEN stream ELSE stream \o Encode(out'[Len(out')])
    BY <1>2 DEF FragmentStep, bvars
  <2>3. /\ op \in Nat /\ op' \in Nat /\ stream \in Seq(Byte8) /\ stream' \in Seq(Byte8)
        /\ Len(stream') - op' = Len(stream) - op
    BY <1>0, <2>1, <2>2, StreamGrows DEF CallOK, DataOK
  <2>4. Len(stream) \in Nat /\ Len(stream') \in Nat
    BY <2>3, LenProperties
  <2>5. input = Block
    BY <2>1 DEF CompressInductive, BlockCurrent
  <2>6. /\ BlockCovered \in 0 .. n /\ Covers(BlockCovered, BlockCovered')
    BY <1>2, VersionCovers
  <2>7. out' = out => stream' = stream
    BY <2>2
  <2>. QED  BY <1>0, <2>1, <2>2, <2>3, <2>4, <2>5, <2>6, <2>7, WholeCoverStep
<1>3. CASE BlockDone
  <2>1. /\ pc = "done" /\ pc' = "block" /\ taken' = taken + n
        /\ source' = source /\ out' = out /\ stream' = stream
    BY <1>3 DEF BlockDone, TakenAfter
  <2>2. Progress = taken + n /\ Progress' = taken + n
    BY <1>0, <2>1 DEF Progress, InBlock, BlockCovered, Covered
  <2>. QED  BY <2>1, <2>2, WholeStutterStep
<1>4. CASE AllBlocksDone
  <2>1. /\ pc = "block" /\ pc' = "compressed" /\ taken' = taken
        /\ source' = source /\ out' = out /\ stream' = stream
    BY <1>4 DEF AllBlocksDone, bvars
  <2>2. Progress = taken /\ Progress' = taken
    BY <1>0, <2>1 DEF Progress, InBlock
  <2>. QED  BY <2>1, <2>2, WholeStutterStep
<1>5. CASE UNCHANGED zvars
  <2>1. /\ UNCHANGED vars /\ taken' = taken
        /\ source' = source /\ out' = out /\ stream' = stream
    BY <1>5 DEF zvars, bvars, vars
  <2>2. Progress' = Progress
    BY <2>1 DEF Progress, InBlock, BlockCovered, Covered, vars, n
  <2>. QED  BY <2>1, <2>2, WholeStutterStep
<1>. QED  BY <1>1, <1>2, <1>3, <1>4, <1>5 DEF CompressNext

(* All blocks together implement one abstract compressor of the whole      *)
(* text: every byte is covered once, every copy repeats text before it,    *)
(* and the bytes in the output are as many as the elements need.           *)
THEOREM WholeImplemented == CompressSpec => EmitsSource
<1>1. CompressInit => Whole!Init
  BY InitWhole
<1>2. CompressInductive /\ [CompressNext]_zvars => [Whole!Next]_Whole!svars
  BY CompressImplements
<1>. QED  BY <1>1, <1>2, CompressInvariant, PTL DEF CompressSpec, EmitsSource, Whole!Spec

-----------------------------------------------------------------------------
(* The bytes of the stream.                                                *)

LEMMA SourceBytes ==
    ASSUME CallOK
    PROVE  source \in Seq(Byte8)
<1>1. source \in Seq(Byte) /\ Byte \subseteq Byte8
  BY BlockAssumption DEF CallOK
<1>2. \A i \in 1 .. Len(source) : source[i] \in Byte8
  BY <1>1, ElementOfSeq
<1>. QED  BY <1>1, <1>2, LenProperties, SeqDef

(* The last element of a sequence is the one appended last. *)
LEMMA SameAppended ==
    ASSUME NEW S, NEW s \in Seq(S), NEW d \in S, NEW e, Append(s, d) = Append(s, e)
    PROVE  d = e
<1> DEFINE Z == S \cup {e}
<1>1. s \in Seq(Z) /\ d \in Z /\ e \in Z
  <2>1. \A i \in 1 .. Len(s) : s[i] \in Z
    BY ElementOfSeq
  <2>. QED  BY <2>1, LenProperties, SeqDef
<1> HIDE DEF Z
<1>2. Append(s, d)[Len(s) + 1] = d /\ Append(s, e)[Len(s) + 1] = e
  BY <1>1, AppendProperties
<1>. QED  BY <1>2

LEMMA WholeDenotes ==
    ASSUME NEW t, NEW e, NEW u, Whole!Denotes(t, e, u)
    PROVE  Denotes(t, e, u)
BY DEF Whole!Denotes, Denotes, Whole!IsRepeat, IsRepeat

LEMMA SoFarBytes ==
    ASSUME CallOK, NEW p \in 0 .. Len(source)
    PROVE  SubSeq(source, 1, p) \in Seq(Byte8)
BY SourceBytes, Prefix

(* With a step of the fragment compressor the stream stays the encoding of *)
(* what it stands for.                                                     *)
LEMMA FragmentEncodes ==
    ASSUME CompressInductive, FragmentStep, Encodes(stream, Len(source), SoFar)
    PROVE  Encodes(stream', Len(source), SoFar')
<1>0. /\ CallOK /\ DataOK /\ stream \in Seq(Byte8) /\ out \in Seq(Element)
      /\ source' = source /\ taken' = taken
      /\ stream' = IF out' = out THEN stream ELSE stream \o Encode(out'[Len(out')])
  BY DEF CompressInductive, CallOK, DataOK, FragmentStep, bvars
<1>1. InBlock /\ InBlock' /\ Emits
  BY VersionStep
<1>2. Whole!Next \/ UNCHANGED Whole!svars
  BY CompressImplements DEF CompressNext
<1>3. /\ SoFar = SubSeq(source, 1, taken + BlockCovered)
      /\ SoFar' = SubSeq(source, 1, taken + BlockCovered')
  BY <1>0, <1>1 DEF SoFar
<1>4. CASE UNCHANGED Whole!svars
  <2>1. out' = out /\ SoFar' = SoFar
    BY <1>4 DEF Whole!svars, SoFar
  <2>. QED  BY <1>0, <2>1
<1>5. CASE Whole!Next
  <2>1. PICK e : out' = Append(out, e) /\ Whole!Denotes(SoFar, e, SoFar')
    <3>1. PICK k : Whole!Literal(k) \/ \E o : Whole!Copy(o, k)
      BY <1>5 DEF Whole!Next
    <3>2. \E e : Whole!Emit(e, k)
      BY <3>1 DEF Whole!Literal, Whole!Copy
    <3>. QED  BY <3>2 DEF Whole!Emit, SoFar
  <2>2. Denotes(SoFar, e, SoFar')
    BY <2>1, WholeDenotes
  <2>3. out' # out
    <3> DEFINE Z == Element \cup {e}
    <3>1. out \in Seq(Z) /\ e \in Z
      <4>1. \A i \in 1 .. Len(out) : out[i] \in Z
        BY <1>0, ElementOfSeq
      <4>. QED  BY <1>0, <4>1, LenProperties, SeqDef
    <3> HIDE DEF Z
    <3>2. Len(Append(out, e)) = Len(out) + 1 /\ Len(out) \in Nat
      BY <3>1, AppendProperties, LenProperties
    <3>. QED  BY <2>1, <3>2
  <2>4. e \in Emittable
    <3>1. PICK d \in Emittable : out' = Append(out, d)
      BY <1>1, <2>3 DEF Emits
    <3>2. d \in Element /\ Append(out, d) = Append(out, e)
      BY <2>1, <3>1 DEF Emittable
    <3>3. d = e
      BY <1>0, <3>2, SameAppended, Zenon
    <3>. QED  BY <3>3
  <2>5. e \in Encodable /\ e \in Element
    BY <2>4, EmittableEncodable DEF Emittable
  <2>6. stream' = stream \o Encode(e)
    <3>1. out'[Len(out')] = e
      BY <1>0, <2>1, <2>5, AppendFacts
    <3>. QED  BY <1>0, <2>3, <3>1
  <2>7. SoFar \in Seq(Byte8) /\ SoFar' \in Seq(Byte8)
    <3> DEFINE c == BlockCovered   d == BlockCovered'
    <3>1. c \in 0 .. n /\ Covers(c, d) /\ n \in Nat
      BY VersionCovers, InputFacts, <1>0
    <3>2. d \in 0 .. n
      <4> HIDE DEF c, d
      <4>1. d = c \/ \E k \in 1 .. n - c : d = c + k
        BY <3>1 DEF Covers
      <4>. QED  BY <3>1, <4>1
    <3>3. input = Block
      BY <1>1 DEF CompressInductive, BlockCurrent
    <3>4. taken + n <= Len(source) /\ taken \in Nat /\ Len(source) \in Nat
      BY <1>0, <3>3, BlockBytes, HeaderFacts
    <3> HIDE DEF c, d
    <3>5. taken + c \in 0 .. Len(source) /\ taken + d \in 0 .. Len(source)
      BY <3>1, <3>2, <3>4
    <3>6. SubSeq(source, 1, taken + c) \in Seq(Byte8) /\ SubSeq(source, 1, taken + d) \in Seq(Byte8)
      BY <1>0, <3>5, SoFarBytes
    <3>. QED  BY <1>3, <3>6 DEF c, d
  <2> DEFINE t == SoFar   u == SoFar'   w == Len(source)
  <2>8. t \in Seq(Byte8) /\ u \in Seq(Byte8) /\ Denotes(t, e, u) /\ Encodes(stream, w, t)
    BY <2>2, <2>7
  <2> HIDE DEF t, u, w
  <2>9. Encodes(stream \o Encode(e), w, u)
    BY <1>0, <2>5, <2>8, EncodesMore
  <2>. QED  BY <2>6, <2>9 DEF u, w
<1>. QED  BY <1>2, <1>4, <1>5

LEMMA StreamStep ==
    ASSUME CompressInductive, StreamSoFar, [CompressNext]_zvars
    PROVE  StreamSoFar'
<1>0. CallOK /\ DataOK /\ n \in Nat /\ taken \in Nat
  BY HeaderFacts, InputFacts DEF CompressInductive
<1>1. source' = source /\ Len(source') = Len(source)
  BY DEF CompressNext, NextBlock, FragmentStep, BlockDone, AllBlocksDone, bvars, zvars
<1>2. ASSUME stream' = stream, SoFar' = SoFar
      PROVE  Encodes(stream, Len(source), SoFar)'
  BY <1>1, <1>2 DEF StreamSoFar
<1>3. CASE NextBlock
  <2>1. /\ pc = "block" /\ pc' \in {"start", "simple"} /\ next_emit' = 0
        /\ stream' = stream /\ taken' = taken
    BY <1>3 DEF NextBlock
  <2>2. taken + (IF InBlock THEN BlockCovered ELSE 0) = taken
        /\ (taken + (IF InBlock THEN BlockCovered ELSE 0))' = taken
    BY <1>0, <2>1 DEF InBlock, BlockCovered, Covered
  <2>3. SoFar' = SoFar /\ pc' # "compressed"
    BY <1>1, <2>1, <2>2 DEF SoFar
  <2>. QED  BY <1>2, <2>1, <2>3 DEF StreamSoFar
<1>4. CASE FragmentStep
  <2>1. InBlock' /\ pc' # "compressed"
    BY <1>4, VersionStep DEF InBlock
  <2>2. Encodes(stream', Len(source), SoFar')
    BY <1>4, FragmentEncodes DEF StreamSoFar
  <2>. QED  BY <1>1, <2>1, <2>2 DEF StreamSoFar
<1>5. CASE BlockDone
  <2>1. /\ pc = "done" /\ pc' = "block" /\ taken' = taken + n /\ stream' = stream
    BY <1>5 DEF BlockDone, TakenAfter
  <2>2. taken + (IF InBlock THEN BlockCovered ELSE 0) = taken + n
        /\ (taken + (IF InBlock THEN BlockCovered ELSE 0))' = taken + n
    BY <1>0, <2>1 DEF InBlock, BlockCovered, Covered
  <2>3. SoFar' = SoFar /\ pc' # "compressed"
    BY <1>1, <2>1, <2>2 DEF SoFar
  <2>. QED  BY <1>2, <2>1, <2>3 DEF StreamSoFar
<1>6. CASE AllBlocksDone
  <2>1. /\ pc = "block" /\ pc' = "compressed" /\ taken' = taken /\ stream' = stream /\ left = 0
    BY <1>6 DEF AllBlocksDone, bvars
  <2>2. taken + (IF InBlock THEN BlockCovered ELSE 0) = taken
        /\ (taken + (IF InBlock THEN BlockCovered ELSE 0))' = taken
    BY <1>0, <2>1 DEF InBlock
  <2>3. SoFar' = SoFar /\ left' = 0
    BY <1>1, <2>1, <2>2 DEF SoFar, left
  <2>. QED  BY <1>2, <2>1, <2>3 DEF StreamSoFar
<1>7. CASE UNCHANGED zvars
  <2>1. UNCHANGED vars /\ taken' = taken /\ stream' = stream /\ pc' = pc
    BY <1>7 DEF zvars, bvars, vars
  <2>2. SoFar' = SoFar /\ left' = left
    BY <1>1, <2>1 DEF SoFar, InBlock, BlockCovered, Covered, vars, n, left
  <2>. QED  BY <1>2, <2>1, <2>2 DEF StreamSoFar
<1>. QED  BY <1>3, <1>4, <1>5, <1>6, <1>7 DEF CompressNext

LEMMA InitStream == CompressInit => StreamSoFar
<1> SUFFICES ASSUME CompressInit PROVE StreamSoFar
  OBVIOUS
<1>1. source \in Seq(Byte) /\ Len(source) \in Nat /\ Len(source) \div 2 <= MaxInt32
  BY BlockAssumption, LenProperties DEF CompressInit
<1>2. Varint(Len(source)) \in Seq(Byte8)
  BY <1>1, VarintFacts
<1>3. SoFar = <<>>
  BY SubSeqEmpty DEF CompressInit, SoFar, InBlock
<1>4. stream = Varint(Len(source)) /\ pc = "block"
  BY DEF CompressInit
<1>5. Encodes(stream, Len(source), SoFar)
  BY <1>2, <1>3, <1>4, EncodesNothing
<1>. QED  BY <1>4, <1>5 DEF StreamSoFar

(* When csnappy_compress returns, the bytes it has written are the length  *)
(* of the text followed by elements, each in the form the format gives it, *)
(* that together stand for the whole text: one half of the round trip.     *)
THEOREM StreamIsEncoding == CompressSpec => []StreamEncodes
<1>1. CompressInit => StreamSoFar
  BY InitStream
<1>2. CompressInductive /\ StreamSoFar /\ [CompressNext]_zvars => StreamSoFar'
  BY StreamStep
<1>3. CompressInductive /\ StreamSoFar => StreamEncodes
  <2> SUFFICES ASSUME CompressInductive, StreamSoFar, pc = "compressed"
               PROVE  Encodes(stream, Len(source), source)
    BY DEF StreamEncodes
  <2>1. left = 0 /\ ~InBlock /\ Encodes(stream, Len(source), SoFar)
    BY DEF StreamSoFar, InBlock
  <2>2. taken + 0 = Len(source)
    BY <2>1, HeaderFacts DEF left, CompressInductive
  <2>3. SoFar = SubSeq(source, 1, Len(source))
    BY <2>1, <2>2 DEF SoFar
  <2>4. SoFar = source
    BY <2>3, SourceBytes, WholePrefix DEF CompressInductive
  <2>. QED  BY <2>1, <2>4
<1>. QED  BY <1>1, <1>2, <1>3, CompressInvariant, PTL DEF CompressSpec
============================================================================
