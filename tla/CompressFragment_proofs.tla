---------------------- MODULE CompressFragment_proofs ----------------------
(***************************************************************************)
(* Proofs about CompressFragment, for every set of inputs of at most 65536 *)
(* bytes, every hash function and every value of the constants that meets  *)
(* the assumptions: BlockInductive, and with it Inductive, is an inductive *)
(* invariant, which gives the safety properties the runs check; every step *)
(* lowers a measure of what is left to do; and every step is a step of     *)
(* SnappyStream or a stutter.                                              *)
(***************************************************************************)
EXTENDS CompressFragment, SequenceTheorems, TLAPS

-----------------------------------------------------------------------------
(* Arithmetic and data facts the proof uses. *)

(* The stride of the scan is never zero: every probe moves forward. *)
LEMMA StrideForward ==
    ASSUME NEW s \in Nat, NEW u \in Nat \ {0}, s >= u
    PROVE  s \div u \in Nat /\ s \div u >= 1
OBVIOUS

(* A literal's header: one byte, and one more for every 61 bytes of it. *)
LEMMA HeaderBound ==
    ASSUME NEW len \in Nat
    PROVE  /\ LiteralHeader(len) \in 1 .. 5
           /\ 61 * (LiteralHeader(len) - 1) <= len
           /\ len <= 60 => LiteralHeader(len) = 1
<1>1. LengthBytes(len) \in 0 .. 4 /\ 61 * LengthBytes(len) <= len
  BY SMT DEF LengthBytes
<1>2. len <= 60 => LengthBytes(len) = 0
  BY SMT DEF LengthBytes
<1>. QED  BY <1>1, <1>2 DEF LiteralHeader

(* What is bounded by a 61st is bounded by the sixth that is reserved. *)
LEMMA SixthIsEnough ==
    ASSUME NEW len \in Nat, NEW extra \in Int, 61 * extra <= len
    PROVE  /\ len \div 6 \in Nat
           /\ extra <= len \div 6
OBVIOUS

(* A position inside a fragment survives its uint16_t table entry. *)
LEMMA FitsEntry ==
    /\ PosLimit \in Nat
    /\ \A p \in 0 .. PosLimit - 1 : p % PosLimit = p
BY SMT DEF PosLimit

LEMMA CopySizeBound ==
    ASSUME NEW o \in Int, NEW len \in Int
    PROVE  CopySize(o, len) \in 2 .. 3
BY DEF CopySize

(* What DataOK and the assumptions say of the input. *)
LEMMA InputFacts ==
    ASSUME DataOK
    PROVE  /\ input \in Seq(Byte)
           /\ n \in Nat /\ n <= PosLimit
           /\ \A p \in 0 .. n - 1 : At(p) \in Byte
<1>1. input \in Seq(Byte) /\ Len(input) <= PosLimit
  BY DEF DataOK, n
<1>2. Len(input) \in Nat /\ \A i \in 1 .. Len(input) : input[i] \in Byte
  BY <1>1, LenProperties, ElementOfSeq
<1>. QED  BY <1>1, <1>2 DEF n, At

LEMMA WordFacts ==
    ASSUME DataOK, NEW p \in Nat, p + 4 <= n
    PROVE  /\ Load32(p) \in Word
           /\ Hash(p) \in Bucket
<1>1. input \in Seq(Byte) /\ n \in Nat
  BY InputFacts
<1>2. \A k \in 1 .. 4 : input[p + k] \in Byte
  BY <1>1, ElementOfSeq DEF n
<1>3. Load32(p) \in Word
  BY <1>2 DEF Load32, Word
<1>4. hashing \in [Word -> Bucket]
  BY DEF DataOK
<1>. QED  BY <1>3, <1>4 DEF Hash

(* Equal words are equal byte by byte. *)
LEMMA WordEqual ==
    ASSUME NEW p \in Nat, NEW q \in Nat, Load32(p) = Load32(q)
    PROVE  \A k \in 0 .. 3 : At(p + k) = At(q + k)
<1> SUFFICES ASSUME NEW k \in 0 .. 3 PROVE At(p + k) = At(q + k)
  OBVIOUS
<1>1. Load32(p)[k + 1] = input[p + (k + 1)] /\ Load32(q)[k + 1] = input[q + (k + 1)]
  BY DEF Load32
<1>. QED  BY <1>1 DEF At

(* A piece of the input is a sequence of bytes of the length asked for. *)
LEMMA PieceFacts ==
    ASSUME DataOK, NEW a \in Nat, NEW len \in Nat, a + len <= n
    PROVE  /\ SubSeq(input, a + 1, a + len) \in Seq(Byte)
           /\ Len(SubSeq(input, a + 1, a + len)) = len
           /\ \A i \in 1 .. len : SubSeq(input, a + 1, a + len)[i] = At(a + i - 1)
<1>1. input \in Seq(Byte) /\ n \in Nat
  BY InputFacts
<1>2. \A i \in a + 1 .. a + len : input[i] \in Byte
  BY <1>1, ElementOfSeq DEF n
<1>3. /\ SubSeq(input, a + 1, a + len) \in Seq(Byte)
      /\ Len(SubSeq(input, a + 1, a + len)) = IF a + 1 <= a + len THEN (a + len) - (a + 1) + 1 ELSE 0
      /\ \A i \in 1 .. (a + len) - (a + 1) + 1 :
            SubSeq(input, a + 1, a + len)[i] = input[a + 1 + i - 1]
  BY <1>2, SubSeqProperties
<1>. QED  BY <1>3 DEF At

-----------------------------------------------------------------------------
(* The inductive invariant, one lemma per action. *)

LEMMA InitInductive == Init => BlockInductive
<1> SUFFICES ASSUME Init PROVE BlockInductive
  OBVIOUS
<1>0. input \in Seq(Byte) /\ n \in Nat /\ n <= PosLimit
  <2>1. input \in Seq(Byte) /\ Len(input) <= PosLimit
    BY InputAssumption DEF Init
  <2>. QED  BY <2>1 DEF n
<1>1. pc \in Control /\ DataOK
  <2>1. next_hash \in Bucket
    BY HashAssumption DEF Init
  <2>2. table \in [Bucket -> 0 .. PosLimit - 1]
    BY HashAssumption DEF Init
  <2>3. 0 \in 0 .. PosLimit - 1 /\ 0 \in 0 .. MaxOffset
    BY SMT DEF PosLimit, MaxOffset
  <2>4. out \in Seq(Element)
    BY EmptySeq DEF Init
  <2>5. hashing \in [Word -> Bucket]
    BY HashAssumption DEF Init
  <2>. QED  BY <1>0, <2>1, <2>2, <2>3, <2>4, <2>5, MarginAssumption DEF Init, DataOK, Control
<1>2. Covered = 0
  BY DEF Init, Covered
<1>3. Positions /\ TableBehind /\ HashCurrent /\ CandidateBehind /\ MatchGenuine
  BY DEF Init, Positions, TableBehind, HashCurrent, CandidateBehind, MatchGenuine
<1>4. ReadsInside /\ WritesNear /\ Overhead /\ PaidBack
  BY <1>0, <1>2 DEF Init, ReadsInside, WritesNear, Overhead, PaidBack
<1>5. NoAdjacentLiterals /\ LastIsCopy
  BY DEF Init, NoAdjacentLiterals, LastIsCopy
<1>. QED  BY <1>1, <1>3, <1>4, <1>5 DEF BlockInductive

LEMMA StartShortKeeps == BlockInductive /\ StartShort => BlockInductive'
<1> SUFFICES ASSUME BlockInductive, StartShort PROVE BlockInductive'
  OBVIOUS
<1> USE DEF StartShort, n
<1>1. DataOK' /\ pc' \in Control
  BY DEF BlockInductive, DataOK, Control
<1>2. Positions' /\ TableBehind'
  BY DEF BlockInductive, Positions, TableBehind
<1>3. HashCurrent' /\ CandidateBehind' /\ MatchGenuine'
  BY DEF BlockInductive, HashCurrent, CandidateBehind, MatchGenuine
<1>4. ReadsInside' /\ WritesNear'
  BY DEF BlockInductive, ReadsInside, WritesNear
<1>5. Overhead' /\ PaidBack'
  BY DEF BlockInductive, Overhead, PaidBack, Covered, AtRest
<1>. QED  BY <1>1, <1>2, <1>3, <1>4, <1>5 DEF BlockInductive

LEMMA StartLongKeeps == BlockInductive /\ StartLong => BlockInductive'
<1> SUFFICES ASSUME BlockInductive, StartLong PROVE BlockInductive'
  OBVIOUS
<1>0. DataOK /\ n \in Nat /\ n <= PosLimit /\ Margin \in Nat /\ Margin >= 6
  BY InputFacts, MarginAssumption DEF BlockInductive
<1> USE DEF StartLong, n
<1>1. next_hash' \in Bucket /\ next_hash' = Hash(1)
  BY <1>0, WordFacts
<1>2. next_hash' = Hash(1)'
  BY <1>1 DEF Hash, Load32
<1>3. DataOK' /\ pc' \in Control
  <2>1. table' \in [Bucket -> 0 .. PosLimit - 1]
    BY <1>0, FitsEntry
  <2>2. inHigh' \in Nat
    BY <1>0 DEF DataOK, Touch, SetMax
  <2>. QED  BY <1>0, <1>1, <2>1, <2>2 DEF DataOK, Control
<1>4. Positions' /\ TableBehind'
  BY <1>0 DEF BlockInductive, Positions, TableBehind, ip_limit
<1>5. HashCurrent' /\ CandidateBehind' /\ MatchGenuine'
  BY <1>2 DEF BlockInductive, HashCurrent, CandidateBehind, MatchGenuine
<1>6. ReadsInside' /\ WritesNear'
  BY <1>0 DEF BlockInductive, ReadsInside, WritesNear, Touch, SetMax
<1>7. Overhead' /\ PaidBack'
  BY DEF BlockInductive, Overhead, PaidBack, Covered, AtRest
<1>. QED  BY <1>3, <1>4, <1>5, <1>6, <1>7 DEF BlockInductive

LEMMA MainLoopKeeps == BlockInductive /\ MainLoop => BlockInductive'
<1> SUFFICES ASSUME BlockInductive, MainLoop PROVE BlockInductive'
  OBVIOUS
<1> USE DEF MainLoop, n
<1>1. DataOK' /\ pc' \in Control
  BY MarginAssumption DEF BlockInductive, DataOK, Control
<1>2. Positions' /\ TableBehind'
  BY DEF BlockInductive, Positions, TableBehind, ip_limit
<1>3. HashCurrent' /\ CandidateBehind' /\ MatchGenuine'
  BY DEF BlockInductive, HashCurrent, CandidateBehind, MatchGenuine, Hash, Load32
<1>4. ReadsInside' /\ WritesNear'
  BY DEF BlockInductive, ReadsInside, WritesNear
<1>5. Overhead' /\ PaidBack'
  BY DEF BlockInductive, Overhead, PaidBack, Covered, AtRest
<1>. QED  BY <1>1, <1>2, <1>3, <1>4, <1>5 DEF BlockInductive

LEMMA ScanAtLimitKeeps == BlockInductive /\ ScanAtLimit => BlockInductive'
<1> SUFFICES ASSUME BlockInductive, ScanAtLimit PROVE BlockInductive'
  OBVIOUS
<1>0. /\ DataOK /\ n \in Nat /\ Margin \in Nat /\ Margin >= 6
      /\ skip \in Nat /\ next_ip \in Nat /\ n >= Margin
      /\ next_ip <= ip_limit + 1
  BY InputFacts, MarginAssumption DEF BlockInductive, DataOK, ScanAtLimit, Positions
<1>1. Stride \in Nat
  BY StrideForward, MarginAssumption DEF BlockInductive, DataOK, Stride
<1> USE DEF ScanAtLimit, n
<1>2. DataOK' /\ pc' \in Control
  BY <1>0, <1>1, MarginAssumption DEF DataOK, Control, ip_limit, ScanNext
<1>3. Positions' /\ TableBehind'
  BY DEF BlockInductive, Positions, TableBehind
<1>4. HashCurrent' /\ CandidateBehind' /\ MatchGenuine'
  BY DEF BlockInductive, HashCurrent, CandidateBehind, MatchGenuine
<1>5. ReadsInside' /\ WritesNear'
  BY DEF BlockInductive, ReadsInside, WritesNear
<1>6. Overhead' /\ PaidBack'
  BY DEF BlockInductive, Overhead, PaidBack, Covered, AtRest
<1>. QED  BY <1>2, <1>3, <1>4, <1>5, <1>6 DEF BlockInductive

(* What both outcomes of a probe share. *)
LEMMA ProbeFacts ==
    ASSUME BlockInductive, Probe
    PROVE  /\ DataOK'
           /\ n' = n /\ n \in Nat /\ ip' \in Nat /\ ip' < next_ip' /\ next_ip' <= ip_limit
           /\ next_emit' < ip' /\ n >= Margin
           /\ candidate' < ip'
           /\ \A b \in Bucket : table'[b] <= ip'
           /\ next_hash' = Hash(next_ip)'
           /\ inHigh' <= n
<1>0. /\ DataOK /\ n \in Nat /\ n <= PosLimit /\ PosLimit \in Nat
      /\ Margin \in Nat /\ Margin >= 6 /\ n >= Margin
      /\ next_ip \in Nat /\ next_emit \in Nat /\ next_emit < next_ip
      /\ skip \in Nat /\ SkipUnit \in Nat /\ skip >= SkipUnit
      /\ next_hash \in Bucket /\ inHigh \in Nat
  BY InputFacts, FitsEntry, MarginAssumption
     DEF BlockInductive, DataOK, Probe, Positions
<1>1. Stride \in Nat /\ Stride >= 1
  BY <1>0, StrideForward, MarginAssumption DEF Stride
<1>2. ScanNext \in Nat /\ next_ip < ScanNext /\ ScanNext + 4 <= n
  BY <1>0, <1>1 DEF ScanNext, Probe, ip_limit
<1>3. next_hash' \in Bucket /\ next_hash' = Hash(next_ip)'
  <2>1. Hash(ScanNext) \in Bucket
    BY <1>0, <1>2, WordFacts
  <2>. QED  BY <2>1 DEF Probe, Hash, Load32
<1>4. /\ table \in [Bucket -> 0 .. PosLimit - 1]
      /\ \A b \in Bucket : table[b] < next_ip
  BY <1>0 DEF BlockInductive, DataOK, TableBehind, Probe
<1>5. next_ip % PosLimit = next_ip /\ next_ip \in 0 .. PosLimit - 1
  BY <1>0, <1>2, FitsEntry
<1>6. /\ table' \in [Bucket -> 0 .. PosLimit - 1]
      /\ \A b \in Bucket : table'[b] <= next_ip
  BY <1>0, <1>4, <1>5 DEF Probe
<1>7. candidate' \in 0 .. PosLimit - 1 /\ candidate' < next_ip
  BY <1>0, <1>4 DEF Probe
<1>8. inHigh' \in Nat /\ inHigh' <= n
  BY <1>0, <1>2 DEF BlockInductive, ReadsInside, Probe, Touch, SetMax
<1>9. DataOK'
  BY <1>0, <1>2, <1>3, <1>6, <1>7, <1>8 DEF DataOK, Probe, n
<1>. QED  BY <1>0, <1>2, <1>3, <1>6, <1>7, <1>8, <1>9 DEF Probe, n

LEMMA ScanMissKeeps == BlockInductive /\ ScanMiss => BlockInductive'
<1> SUFFICES ASSUME BlockInductive, ScanMiss PROVE BlockInductive'
  OBVIOUS
<1>0. Probe /\ pc = "scan" /\ pc' = "scan"
  BY DEF ScanMiss, Probe
<1>1. DataOK' /\ pc' \in Control
  BY <1>0, ProbeFacts DEF Control
<1>2. Positions' /\ TableBehind'
  <2>1. /\ n' \in Nat /\ n' >= Margin /\ Margin \in Nat /\ ip' \in Nat
        /\ next_ip' \in Nat /\ next_emit' \in Nat
    BY <1>0, <1>1, ProbeFacts, MarginAssumption DEF DataOK
  <2>2. table' \in [Bucket -> 0 .. PosLimit - 1]
    BY <1>1 DEF DataOK
  <2>. QED  BY <1>0, <2>1, <2>2, ProbeFacts, FitsEntry DEF Positions, TableBehind, ip_limit
<1>3. HashCurrent' /\ CandidateBehind' /\ MatchGenuine'
  BY <1>0, ProbeFacts DEF HashCurrent, CandidateBehind, MatchGenuine
<1>4. ReadsInside' /\ WritesNear'
  BY <1>0, ProbeFacts DEF BlockInductive, ReadsInside, WritesNear, Probe
<1>5. Overhead' /\ PaidBack'
  BY <1>0 DEF BlockInductive, Overhead, PaidBack, Covered, AtRest, Probe
<1>. QED  BY <1>1, <1>2, <1>3, <1>4, <1>5 DEF BlockInductive

LEMMA ScanHitKeeps == BlockInductive /\ ScanHit => BlockInductive'
<1> SUFFICES ASSUME BlockInductive, ScanHit PROVE BlockInductive'
  OBVIOUS
<1>0. Probe /\ pc = "scan" /\ pc' = "literal"
  BY DEF ScanHit, Probe
<1>1. DataOK' /\ pc' \in Control
  BY <1>0, ProbeFacts DEF Control
<1>2. Positions' /\ TableBehind'
  <2>1. /\ n' \in Nat /\ n' >= Margin /\ Margin \in Nat /\ ip' \in Nat
        /\ next_ip' \in Nat /\ next_emit' \in Nat
    BY <1>0, <1>1, ProbeFacts, MarginAssumption DEF DataOK
  <2>. QED  BY <1>0, <2>1, ProbeFacts DEF Positions, TableBehind, ip_limit
<1>3. HashCurrent' /\ CandidateBehind' /\ MatchGenuine'
  BY <1>0, ProbeFacts
     DEF HashCurrent, CandidateBehind, MatchGenuine, ScanHit, Probe, Load32
<1>4. ReadsInside' /\ WritesNear'
  BY <1>0, ProbeFacts DEF BlockInductive, ReadsInside, WritesNear, Probe
<1>5. Overhead' /\ PaidBack'
  BY <1>0 DEF BlockInductive, Overhead, PaidBack, Covered, AtRest, Probe
<1>. QED  BY <1>1, <1>2, <1>3, <1>4, <1>5 DEF BlockInductive

(* Appending an element leaves the earlier ones where they are. *)
LEMMA AppendFacts ==
    ASSUME NEW s \in Seq(Element), NEW e \in Element
    PROVE  /\ Append(s, e) \in Seq(Element)
           /\ Len(s) \in Nat /\ Len(Append(s, e)) = Len(s) + 1
           /\ \A i \in 1 .. Len(s) : Append(s, e)[i] = s[i]
           /\ Append(s, e)[Len(s) + 1] = e
           /\ Append(s, e) # <<>>
BY AppendProperties, LenProperties

(* A literal emitted where everything before it has been paid for. *)
LEMMA EmitLiteralFacts ==
    ASSUME DataOK, WritesNear,
           NEW start \in Nat, NEW len \in Nat, start + len <= n,
           NEW fast \in BOOLEAN, fast => start + Wide <= n,
           61 * (op - start) <= start,
           EmitLiteral(start, len, fast)
    PROVE  /\ out' = Append(out, LiteralElement(SubSeq(input, start + 1, start + len)))
           /\ LiteralElement(SubSeq(input, start + 1, start + len)) \in Element
           /\ out' \in Seq(Element)
           /\ op' \in Nat /\ 61 * (op' - (start + len) - 1) <= start + len
           /\ inHigh' \in Nat /\ (inHigh' <= inHigh \/ inHigh' <= n)
           /\ outHigh' \in Nat /\ 61 * (outHigh' - n - 1) <= n
<1>0. /\ n \in Nat /\ op \in Nat /\ inHigh \in Nat /\ outHigh \in Nat
      /\ out \in Seq(Element) /\ 61 * (outHigh - n - 1) <= n
      /\ Wide \in Nat /\ Wide <= 31
  BY InputFacts, MarginAssumption DEF DataOK, WritesNear
<1>1. LiteralElement(SubSeq(input, start + 1, start + len)) \in Element
  BY <1>0, PieceFacts DEF LiteralElement, Element
<1>2. out' = Append(out, LiteralElement(SubSeq(input, start + 1, start + len)))
  BY DEF EmitLiteral
<1>3. out' \in Seq(Element)
  BY <1>0, <1>1, <1>2, AppendFacts
<1>4. /\ LiteralHeader(len) \in 1 .. 5 /\ 61 * (LiteralHeader(len) - 1) <= len
      /\ len <= 60 => LiteralHeader(len) = 1
  BY HeaderBound
<1>5. op' \in Nat /\ op' = op + LiteralHeader(len) + len
  <2>1. op' = op + LiteralSize(len)
    BY DEF EmitLiteral
  <2>. QED  BY <1>0, <1>4, <2>1 DEF LiteralSize
<1>6. 61 * (op' - (start + len) - 1) <= start + len
  <2> DEFINE h == LiteralHeader(len)
  <2>1. op' = op + h + len /\ h \in 1 .. 5 /\ 61 * (h - 1) <= len /\ op \in Nat
    BY <1>0, <1>4, <1>5
  <2> HIDE DEF h
  <2>. QED  BY <2>1
<1> DEFINE moved == IF fast /\ len <= Wide THEN Wide ELSE len
<1>7. moved \in Nat /\ start + moved <= n
  BY <1>0
<1>8. inHigh' \in Nat /\ (inHigh' <= inHigh \/ inHigh' <= n)
  <2>1. inHigh' = SetMax(inHigh, start + moved)
    BY DEF EmitLiteral, Touch
  <2>. QED  BY <1>0, <1>7, <2>1 DEF SetMax
<1>9. outHigh' \in Nat /\ 61 * (outHigh' - n - 1) <= n
  <2>1. outHigh' = SetMax(outHigh, op + LiteralHeader(len) + moved)
    BY DEF EmitLiteral
  <2>2. CASE fast /\ len <= Wide
    <3>1. moved = Wide /\ LiteralHeader(len) = 1
      BY <1>0, <1>4, <2>2
    <3>2. 61 * (op + 1 + Wide - n - 1) <= n
      BY <1>0, <2>2
    <3>. QED  BY <1>0, <2>1, <3>1, <3>2 DEF SetMax
  <2>3. CASE ~(fast /\ len <= Wide)
    <3>1. moved = len
      BY <2>3
    <3>2. 61 * (op' - n - 1) <= n
      <4>1. \A a, b, c \in Nat : b <= c /\ 61 * (a - b - 1) <= b => 61 * (a - c - 1) <= c
        OBVIOUS
      <4>2. start + len \in Nat /\ start + len <= n
        OBVIOUS
      <4>. QED  BY <1>0, <1>5, <1>6, <4>1, <4>2
    <3>3. outHigh' = SetMax(outHigh, op')
      BY <1>5, <2>1, <3>1
    <3>4. outHigh' = outHigh \/ outHigh' = op'
      BY <3>3 DEF SetMax
    <3>. QED  BY <1>0, <1>5, <3>2, <3>4
  <2>. QED  BY <2>2, <2>3
<1>. QED  BY <1>1, <1>2, <1>3, <1>5, <1>6, <1>8, <1>9

LEMMA PendingLiteralKeeps == BlockInductive /\ PendingLiteral => BlockInductive'
<1> SUFFICES ASSUME BlockInductive, PendingLiteral PROVE BlockInductive'
  OBVIOUS
<1>0. /\ DataOK /\ n \in Nat /\ n' = n /\ Margin \in Nat /\ Wide \in Nat
      /\ ip \in Nat /\ next_emit \in Nat /\ op \in Nat /\ out \in Seq(Element)
      /\ pc = "literal" /\ next_emit < ip /\ ip < ip_limit
      /\ Wide <= Margin + 1 /\ pc' = "match"
  BY InputFacts, MarginAssumption
     DEF BlockInductive, DataOK, Positions, PendingLiteral, n
<1> DEFINE len == ip - next_emit
<1>1. len \in Nat /\ next_emit + len = ip /\ ip <= n /\ next_emit + Wide <= n
  BY <1>0, MarginAssumption DEF ip_limit
<1>2. 61 * (op - next_emit) <= next_emit
  BY <1>0 DEF BlockInductive, PaidBack, AtRest
<1>3. EmitLiteral(next_emit, len, TRUE)
  BY DEF PendingLiteral
<1> DEFINE e == LiteralElement(SubSeq(input, next_emit + 1, next_emit + len))
<1>4. /\ out' = Append(out, e) /\ e \in Element /\ out' \in Seq(Element)
      /\ op' \in Nat /\ 61 * (op' - ip - 1) <= ip
      /\ inHigh' \in Nat /\ inHigh' <= n
      /\ outHigh' \in Nat /\ 61 * (outHigh' - n - 1) <= n
  <2> HIDE DEF len
  <2>1. TRUE \in BOOLEAN /\ inHigh \in Nat /\ inHigh <= n /\ WritesNear
    BY DEF BlockInductive, DataOK, ReadsInside
  <2>2. /\ out' = Append(out, e) /\ e \in Element /\ out' \in Seq(Element)
        /\ op' \in Nat /\ 61 * (op' - (next_emit + len) - 1) <= next_emit + len
        /\ inHigh' \in Nat /\ (inHigh' <= inHigh \/ inHigh' <= n)
        /\ outHigh' \in Nat /\ 61 * (outHigh' - n - 1) <= n
    BY <1>0, <1>1, <1>2, <1>3, <2>1, EmitLiteralFacts
  <2> HIDE DEF e
  <2>3. 61 * (op' - ip - 1) <= ip
    BY <1>1, <2>2
  <2>4. inHigh' \in Nat /\ inHigh' <= n
    BY <1>0, <2>1, <2>2
  <2>. QED  BY <2>2, <2>3, <2>4
<1> HIDE DEF len, e
<1> USE DEF PendingLiteral
<1>5. DataOK' /\ pc' \in Control
  BY <1>0, <1>4 DEF DataOK, Control, n
<1>6. Positions' /\ TableBehind'
  BY <1>0 DEF BlockInductive, Positions, TableBehind, ip_limit, n
<1>7. HashCurrent' /\ CandidateBehind' /\ MatchGenuine'
  BY <1>0 DEF BlockInductive, HashCurrent, CandidateBehind, MatchGenuine, Load32
<1>8. ReadsInside' /\ WritesNear'
  BY <1>0, <1>4 DEF ReadsInside, WritesNear
<1>9. Overhead' /\ PaidBack'
  BY <1>0, <1>4 DEF Overhead, PaidBack, Covered, AtRest
<1>. QED  BY <1>5, <1>6, <1>7, <1>8, <1>9 DEF BlockInductive

LEMMA RemainderEmptyKeeps == BlockInductive /\ RemainderEmpty => BlockInductive'
<1> SUFFICES ASSUME BlockInductive, RemainderEmpty PROVE BlockInductive'
  OBVIOUS
<1>0. n \in Nat /\ next_emit = n /\ op \in Nat
  BY InputFacts DEF BlockInductive, DataOK, RemainderEmpty
<1> USE DEF RemainderEmpty, n
<1>1. DataOK' /\ pc' \in Control
  BY DEF BlockInductive, DataOK, Control
<1>2. Positions' /\ TableBehind'
  BY DEF BlockInductive, Positions, TableBehind
<1>3. HashCurrent' /\ CandidateBehind' /\ MatchGenuine'
  BY DEF BlockInductive, HashCurrent, CandidateBehind, MatchGenuine
<1>4. ReadsInside' /\ WritesNear'
  BY DEF BlockInductive, ReadsInside, WritesNear
<1>5. Overhead' /\ PaidBack'
  BY <1>0 DEF BlockInductive, Overhead, PaidBack, Covered, AtRest
<1>. QED  BY <1>1, <1>2, <1>3, <1>4, <1>5 DEF BlockInductive

LEMMA ResumeAtLimitKeeps == BlockInductive /\ ResumeAtLimit => BlockInductive'
<1> SUFFICES ASSUME BlockInductive, ResumeAtLimit PROVE BlockInductive'
  OBVIOUS
<1> USE DEF ResumeAtLimit, n
<1>1. DataOK' /\ pc' \in Control
  BY DEF BlockInductive, DataOK, Control
<1>2. Positions' /\ TableBehind'
  BY DEF BlockInductive, Positions, TableBehind
<1>3. HashCurrent' /\ CandidateBehind' /\ MatchGenuine'
  BY DEF BlockInductive, HashCurrent, CandidateBehind, MatchGenuine
<1>4. ReadsInside' /\ WritesNear'
  BY DEF BlockInductive, ReadsInside, WritesNear
<1>5. Overhead' /\ PaidBack'
  BY DEF BlockInductive, Overhead, PaidBack, Covered, AtRest
<1>. QED  BY <1>1, <1>2, <1>3, <1>4, <1>5 DEF BlockInductive

LEMMA RemainderKeeps == BlockInductive /\ Remainder => BlockInductive'
<1> SUFFICES ASSUME BlockInductive, Remainder PROVE BlockInductive'
  OBVIOUS
<1>0. /\ DataOK /\ n \in Nat /\ n' = n /\ next_emit \in Nat /\ op \in Nat
      /\ out \in Seq(Element) /\ pc = "remainder" /\ next_emit < n /\ pc' = "done"
  BY InputFacts DEF BlockInductive, DataOK, Remainder, n
<1> DEFINE len == n - next_emit
<1>1. len \in Nat /\ next_emit + len = n
  BY <1>0
<1>2. 61 * (op - next_emit) <= next_emit
  BY <1>0 DEF BlockInductive, PaidBack, AtRest
<1>3. EmitLiteral(next_emit, len, FALSE)
  BY DEF Remainder
<1> DEFINE e == LiteralElement(SubSeq(input, next_emit + 1, next_emit + len))
<1>4. /\ out' = Append(out, e) /\ e \in Element /\ out' \in Seq(Element)
      /\ op' \in Nat /\ 61 * (op' - n - 1) <= n
      /\ inHigh' \in Nat /\ inHigh' <= n
      /\ outHigh' \in Nat /\ 61 * (outHigh' - n - 1) <= n
  <2> HIDE DEF len
  <2>1. /\ FALSE \in BOOLEAN /\ n <= n
        /\ inHigh \in Nat /\ inHigh <= n /\ WritesNear
    BY <1>0 DEF BlockInductive, DataOK, ReadsInside
  <2>2. /\ out' = Append(out, e) /\ e \in Element /\ out' \in Seq(Element)
        /\ op' \in Nat /\ 61 * (op' - (next_emit + len) - 1) <= next_emit + len
        /\ inHigh' \in Nat /\ (inHigh' <= inHigh \/ inHigh' <= n)
        /\ outHigh' \in Nat /\ 61 * (outHigh' - n - 1) <= n
    BY <1>0, <1>1, <1>2, <1>3, <2>1, EmitLiteralFacts
  <2> HIDE DEF e
  <2>3. 61 * (op' - n - 1) <= n
    BY <1>1, <2>2
  <2>4. inHigh' \in Nat /\ inHigh' <= n
    BY <1>0, <2>1, <2>2
  <2>. QED  BY <2>2, <2>3, <2>4
<1> HIDE DEF len, e
<1> USE DEF Remainder
<1>5. DataOK' /\ pc' \in Control
  BY <1>0, <1>4 DEF DataOK, Control, n
<1>6. Positions' /\ TableBehind'
  BY <1>0 DEF BlockInductive, Positions, TableBehind, ip_limit, n
<1>7. HashCurrent' /\ CandidateBehind' /\ MatchGenuine'
  BY <1>0 DEF BlockInductive, HashCurrent, CandidateBehind, MatchGenuine, Load32
<1>8. ReadsInside' /\ WritesNear'
  BY <1>0, <1>4 DEF ReadsInside, WritesNear
<1>9. Overhead' /\ PaidBack'
  BY <1>0, <1>4 DEF Overhead, PaidBack, Covered, AtRest
<1>. QED  BY <1>5, <1>6, <1>7, <1>8, <1>9 DEF BlockInductive

LEMMA MatchKeeps == BlockInductive /\ Match => BlockInductive'
<1> SUFFICES ASSUME BlockInductive, Match PROVE BlockInductive'
  OBVIOUS
<1>0. /\ DataOK /\ n \in Nat /\ n' = n /\ Margin \in Nat /\ Margin >= 6
      /\ n <= PosLimit /\ PosLimit \in Nat
      /\ ip \in Nat /\ candidate \in Nat /\ op \in Nat /\ n >= Margin
      /\ pc = "match" /\ pc' = "copy" /\ ip < ip_limit /\ candidate < ip
      /\ Load32(ip) = Load32(candidate)
  BY InputFacts, FitsEntry, MarginAssumption
     DEF BlockInductive, DataOK, Positions, CandidateBehind, MatchGenuine, Match, n
<1>1. PICK m \in 0 .. (n - ip - 4) :
         /\ IsMatchLength(candidate + 4, ip + 4, m)
         /\ copyLeft' = 4 + m
         /\ ip' = ip + 4 + m
  BY DEF Match
<1>2. offset' = ip - candidate /\ input' = input /\ table' = table /\ candidate' = candidate
  BY DEF Match
<1>3. ip + 4 <= n /\ ip' \in Nat /\ ip' <= n /\ copyLeft' \in 0 .. n
  BY <1>0, <1>1 DEF ip_limit
<1>4. offset' \in 0 .. MaxOffset /\ offset' >= 1 /\ offset' <= ip
  <2>1. offset' \in Nat /\ offset' >= 1 /\ offset' <= ip /\ ip < PosLimit
    BY <1>0, <1>2, <1>3
  <2>2. MaxOffset = PosLimit - 1
    BY SMT DEF MaxOffset, PosLimit
  <2>. QED  BY <1>0, <2>1, <2>2
<1>5. inHigh' \in Nat /\ inHigh' <= n
  BY <1>0 DEF BlockInductive, DataOK, ReadsInside, Match, Touch, SetMax
<1>6. DataOK' /\ pc' \in Control
  <2>1. pc' \in Control
    BY <1>0 DEF Control
  <2>2. UNCHANGED <<input, table, hashing, next_ip, next_emit, next_hash, skip,
                    candidate, op, out, outHigh>>
    BY DEF Match
  <2>3. ip' \in 0 .. n /\ copyLeft' \in Nat
    BY <1>0, <1>3
  <2>. HIDE DEF n
  <2>4. DataOK'
    BY <1>0, <1>4, <1>5, <2>2, <2>3 DEF DataOK
  <2>. QED  BY <2>1, <2>4
<1>7. Positions' /\ TableBehind'
  <2>1. \A b \in Bucket : table[b] \in Nat /\ table[b] <= ip
    BY <1>0, FitsEntry DEF BlockInductive, DataOK, TableBehind
  <2>. QED  BY <1>0, <1>1, <1>2, <2>1 DEF Positions, TableBehind
<1>8. MatchGenuine'
  <2>1. \A k \in 0 .. 3 : At(ip + k) = At(candidate + k)
    BY <1>0, WordEqual
  <2>2. \A k \in 0 .. m - 1 : At(candidate + 4 + k) = At(ip + 4 + k)
    BY <1>1 DEF IsMatchLength
  <2>3. \A k \in ip .. ip' - 1 : At(k) = At(k - offset')
    <3>1. TAKE k \in ip .. ip' - 1
    <3>2. k - offset' = candidate + (k - ip)
      BY <1>0, <1>1, <1>2
    <3>3. CASE k - ip <= 3
      <4>1. k - ip \in 0 .. 3 /\ ip + (k - ip) = k
        BY <1>0, <1>3, <3>3
      <4>2. At(ip + (k - ip)) = At(candidate + (k - ip))
        BY <2>1, <4>1
      <4>. QED  BY <3>2, <4>1, <4>2
    <3>4. CASE k - ip > 3
      <4>1. /\ k - ip - 4 \in 0 .. m - 1 /\ ip + 4 + (k - ip - 4) = k
            /\ candidate + 4 + (k - ip - 4) = candidate + (k - ip)
        BY <1>0, <1>1, <3>4
      <4>2. At(candidate + 4 + (k - ip - 4)) = At(ip + 4 + (k - ip - 4))
        BY <2>2, <4>1
      <4>. QED  BY <3>2, <4>1, <4>2
    <3>. QED  BY <1>0, <1>3, <3>3, <3>4
  <2>4. ip' - copyLeft' = ip /\ 4 <= copyLeft' /\ copyLeft' + offset' <= ip'
    BY <1>0, <1>1, <1>2
  <2>. QED  BY <1>0, <1>2, <2>3, <2>4 DEF MatchGenuine, At
<1>9. HashCurrent' /\ CandidateBehind'
  BY <1>0, <1>1, <1>4 DEF HashCurrent, CandidateBehind, Covered
<1>10. ReadsInside' /\ WritesNear'
  BY <1>0, <1>5 DEF BlockInductive, ReadsInside, WritesNear, Match
<1>11. Overhead' /\ PaidBack'
  BY <1>0, <1>1 DEF BlockInductive, Overhead, PaidBack, Covered, AtRest, Match
<1>. QED  BY <1>6, <1>7, <1>8, <1>9, <1>10, <1>11 DEF BlockInductive

(* EmitCopy never leaves fewer than four bytes for its last copy. *)
LEMMA ChunkFacts ==
    ASSUME NEW left \in Nat, left >= 4
    PROVE  /\ ChunkLen(left) \in MinCopyLen .. MaxCopyLen
           /\ ChunkLen(left) <= left
           /\ left - ChunkLen(left) = 0 \/ left - ChunkLen(left) >= 4
BY DEF ChunkLen, MinCopyLen, MaxCopyLen

LEMMA EmitCopyFacts ==
    ASSUME BlockInductive, EmitCopy
    PROVE  /\ DataOK /\ n \in Nat /\ n' = n /\ ip \in Nat /\ ip <= n
           /\ copyLeft \in Nat /\ copyLeft >= 4 /\ copyLeft + offset <= ip
           /\ offset \in 1 .. MaxOffset /\ op \in Nat /\ Covered = ip - copyLeft
           /\ ChunkLen(copyLeft) \in MinCopyLen .. MaxCopyLen
           /\ ChunkLen(copyLeft) <= copyLeft
           /\ copyLeft' = copyLeft - ChunkLen(copyLeft)
           /\ copyLeft' = 0 \/ copyLeft' >= 4
           /\ Covered' = ip - copyLeft'
           /\ pc' = IF copyLeft' = 0 THEN "resume" ELSE "copy"
           /\ next_emit' \in 0 .. n
           /\ CopyElement(offset, ChunkLen(copyLeft)) \in Element
           /\ out' = Append(out, CopyElement(offset, ChunkLen(copyLeft)))
           /\ op' = op + CopySize(offset, ChunkLen(copyLeft))
<1>0. /\ DataOK /\ n \in Nat /\ n' = n /\ ip \in Nat /\ ip <= n
      /\ copyLeft \in Nat /\ copyLeft >= 4 /\ copyLeft + offset <= ip
      /\ offset \in Nat /\ offset >= 1 /\ op \in Nat /\ pc = "copy"
      /\ next_emit \in 0 .. n
  BY InputFacts DEF BlockInductive, DataOK, MatchGenuine, CandidateBehind, EmitCopy, n
<1>1. offset \in 1 .. MaxOffset
  BY <1>0 DEF DataOK
<1>2. Covered = ip - copyLeft
  BY <1>0 DEF Covered
<1>3. /\ out' = Append(out, CopyElement(offset, ChunkLen(copyLeft)))
      /\ op' = op + CopySize(offset, ChunkLen(copyLeft))
      /\ copyLeft' = copyLeft - ChunkLen(copyLeft) /\ ip' = ip
  BY DEF EmitCopy, EmitCopyLessThan64
<1>4. /\ ChunkLen(copyLeft) \in MinCopyLen .. MaxCopyLen
      /\ ChunkLen(copyLeft) <= copyLeft
      /\ copyLeft' = 0 \/ copyLeft' >= 4
  BY <1>0, <1>3, ChunkFacts
<1>5. CopyElement(offset, ChunkLen(copyLeft)) \in Element
  BY <1>1, <1>4 DEF CopyElement, Element
<1>6. /\ pc' = IF copyLeft' = 0 THEN "resume" ELSE "copy"
      /\ next_emit' = IF copyLeft' = 0 THEN ip ELSE next_emit
  BY <1>0 DEF EmitCopy
<1>7. Covered' = ip - copyLeft'
  BY <1>0, <1>3, <1>6 DEF Covered
<1>. QED  BY <1>0, <1>1, <1>2, <1>3, <1>4, <1>5, <1>6, <1>7

LEMMA EmitCopyKeeps == BlockInductive /\ EmitCopy => BlockInductive'
<1> SUFFICES ASSUME BlockInductive, EmitCopy PROVE BlockInductive'
  OBVIOUS
<1> DEFINE len == ChunkLen(copyLeft)
           size == CopySize(offset, len)
<1>0. /\ DataOK /\ n \in Nat /\ n' = n /\ ip \in Nat /\ ip <= n
      /\ copyLeft \in Nat /\ copyLeft >= 4 /\ copyLeft + offset <= ip
      /\ offset \in 1 .. MaxOffset /\ op \in Nat /\ Covered = ip - copyLeft
      /\ len \in MinCopyLen .. MaxCopyLen
      /\ len <= copyLeft /\ copyLeft' = copyLeft - len
      /\ copyLeft' = 0 \/ copyLeft' >= 4
      /\ Covered' = ip - copyLeft'
      /\ pc' = IF copyLeft' = 0 THEN "resume" ELSE "copy"
      /\ next_emit' \in 0 .. n
      /\ CopyElement(offset, len) \in Element
      /\ out' = Append(out, CopyElement(offset, len))
      /\ op' = op + size
  BY EmitCopyFacts
<1>1. len \in 4 .. 64 /\ size \in 2 .. 3 /\ offset \in Nat
  <2> HIDE DEF len
  <2>1. size \in 2 .. 3
    BY <1>0, CopySizeBound DEF MinCopyLen, MaxCopyLen
  <2>2. len \in 4 .. 64
    BY <1>0 DEF MinCopyLen, MaxCopyLen
  <2>3. offset \in Nat
    BY <1>0
  <2>. QED  BY <2>1, <2>2, <2>3
<1>2. /\ ip' = ip /\ input' = input /\ offset' = offset /\ table' = table
      /\ outHigh' = SetMax(outHigh, op + size) /\ pc = "copy"
      /\ inHigh' = inHigh /\ candidate' = candidate
      /\ copyLeft' = 0 => next_emit' = ip
      /\ UNCHANGED <<hashing, next_ip, next_hash, skip>>
  BY DEF EmitCopy, EmitCopyLessThan64
<1> HIDE DEF len, size
<1>3. /\ out' \in Seq(Element) /\ Len(out') = Len(out) + 1 /\ Len(out) \in Nat
      /\ \A i \in 1 .. Len(out) : out'[i] = out[i]
      /\ out'[Len(out')].kind = "copy"
  <2>1. out \in Seq(Element) /\ CopyElement(offset, len).kind = "copy"
    BY <1>0 DEF DataOK, CopyElement
  <2>. QED  BY <1>0, <2>1, AppendFacts
<1>4. outHigh' \in Nat /\ 61 * (outHigh' - n - 1) <= n
  <2>1. outHigh \in Nat /\ 61 * (outHigh - n - 1) <= n
    BY DEF BlockInductive, DataOK, WritesNear
  <2>2. 61 * (op - (ip - copyLeft) - 1) <= ip - copyLeft
    BY <1>0 DEF BlockInductive, Overhead
  <2>3. 61 * (op + size - n - 1) <= n
    BY <1>0, <1>1, <2>2
  <2>. QED  BY <1>0, <1>1, <1>2, <2>1, <2>3 DEF SetMax
<1>5. DataOK' /\ pc' \in Control
  <2>1. copyLeft' \in Nat /\ op' \in Nat /\ offset' \in 0 .. MaxOffset
    BY <1>0, <1>1, <1>2 DEF DataOK
  <2>. QED  BY <1>0, <1>2, <1>3, <1>4, <2>1 DEF DataOK, Control, n
<1>6. Positions' /\ TableBehind'
  BY <1>0, <1>1, <1>2 DEF BlockInductive, Positions, TableBehind
<1>7. HashCurrent' /\ CandidateBehind'
  BY <1>0, <1>1, <1>2 DEF BlockInductive, HashCurrent, CandidateBehind
<1>8. MatchGenuine'
  BY <1>0, <1>1, <1>2 DEF BlockInductive, MatchGenuine, At
<1>9. ReadsInside' /\ WritesNear'
  BY <1>0, <1>2, <1>4 DEF BlockInductive, ReadsInside, WritesNear
<1>10. Overhead' /\ PaidBack'
  <2>1. 61 * (op - (ip - copyLeft) - 1) <= ip - copyLeft
    BY <1>0 DEF BlockInductive, Overhead
  <2>2. /\ 61 * (op + size - (ip - copyLeft') - 1) <= ip - copyLeft'
        /\ 61 * (op + size - (ip - copyLeft')) <= ip - copyLeft'
    BY <1>0, <1>1, <2>1
  <2>3. /\ 61 * (op' - Covered' - 1) <= Covered'
        /\ 61 * (op' - Covered') <= Covered'
    <3> DEFINE c == ip - copyLeft'
    <3>1. op' = op + size /\ op' \in Nat /\ Covered' = c /\ c \in Nat
      BY <1>0, <1>1
    <3>2. 61 * (op' - c - 1) <= c /\ 61 * (op' - c) <= c
      BY <1>0, <1>1, <2>2, <3>1
    <3> HIDE DEF c
    <3>. QED  BY <3>1, <3>2
  <2>4. Overhead'
    BY <2>3 DEF Overhead
  <2>5. PaidBack'
    <3>1. CASE copyLeft' = 0
      <4>1. next_emit' = Covered'
        BY <1>0, <1>2, <3>1
      <4>. QED  BY <2>3, <4>1 DEF PaidBack
    <3>2. CASE copyLeft' # 0
      BY <1>0, <3>2 DEF PaidBack, AtRest
    <3>. QED  BY <3>1, <3>2
  <2>. QED  BY <2>4, <2>5
<1>. QED  BY <1>5, <1>6, <1>7, <1>8, <1>9, <1>10 DEF BlockInductive

(* What both outcomes of a look-up after a copy share. *)
LEMMA ResumeFacts ==
    ASSUME BlockInductive, Resume
    PROVE  /\ DataOK /\ n \in Nat /\ n' = n /\ ip \in Nat /\ 1 <= ip /\ ip < ip_limit
           /\ next_emit = ip /\ Margin \in Nat /\ Margin >= 6 /\ n >= Margin
           /\ candidate' \in 0 .. PosLimit - 1 /\ candidate' < ip
           /\ table' \in [Bucket -> 0 .. PosLimit - 1]
           /\ \A b \in Bucket : table'[b] <= ip
           /\ inHigh' \in Nat /\ inHigh' <= n
<1>0. /\ DataOK /\ n \in Nat /\ n' = n /\ ip \in Nat /\ 1 <= ip /\ ip < ip_limit
      /\ next_emit = ip /\ Margin \in Nat /\ Margin >= 6 /\ n >= Margin
      /\ n <= PosLimit /\ PosLimit \in Nat /\ inHigh \in Nat /\ inHigh <= n
      /\ table \in [Bucket -> 0 .. PosLimit - 1]
      /\ \A b \in Bucket : table[b] < ip
  BY InputFacts, FitsEntry, MarginAssumption
     DEF BlockInductive, DataOK, Positions, TableBehind, ReadsInside, Resume, n
<1>1. ip + 7 <= n /\ ip - 1 \in Nat
  BY <1>0 DEF ip_limit
<1>2. Hash(ip - 1) \in Bucket /\ Hash(ip) \in Bucket
  BY <1>0, <1>1, WordFacts
<1>3. /\ ip % PosLimit = ip /\ (ip - 1) % PosLimit = ip - 1
      /\ ip \in 0 .. PosLimit - 1 /\ ip - 1 \in 0 .. PosLimit - 1
  BY <1>0, <1>1, FitsEntry
<1>4. /\ AfterPrevious \in [Bucket -> 0 .. PosLimit - 1]
      /\ \A b \in Bucket : AfterPrevious[b] < ip
  BY <1>0, <1>2, <1>3 DEF AfterPrevious
<1>5. candidate' \in 0 .. PosLimit - 1 /\ candidate' < ip
  BY <1>2, <1>4 DEF Resume
<1>6. /\ table' \in [Bucket -> 0 .. PosLimit - 1]
      /\ \A b \in Bucket : table'[b] <= ip
  <2>1. table' = [AfterPrevious EXCEPT ![Hash(ip)] = ip]
    BY <1>3 DEF Resume
  <2>. QED  BY <1>0, <1>2, <1>3, <1>4, <2>1
<1>7. inHigh' \in Nat /\ inHigh' <= n
  BY <1>0, <1>1 DEF Resume, Touch, SetMax
<1>. QED  BY <1>0, <1>5, <1>6, <1>7

LEMMA ResumeHitKeeps == BlockInductive /\ ResumeHit => BlockInductive'
<1> SUFFICES ASSUME BlockInductive, ResumeHit PROVE BlockInductive'
  OBVIOUS
<1>0. Resume /\ pc = "resume" /\ pc' = "match" /\ ip' = ip /\ next_hash' = next_hash
  BY DEF ResumeHit, Resume
<1> USE DEF Resume
<1>1. DataOK' /\ pc' \in Control
  BY <1>0, ResumeFacts DEF DataOK, Control, n
<1>2. Positions' /\ TableBehind'
  BY <1>0, ResumeFacts DEF Positions, TableBehind, ip_limit
<1>3. HashCurrent' /\ CandidateBehind' /\ MatchGenuine'
  BY <1>0, ResumeFacts
     DEF HashCurrent, CandidateBehind, MatchGenuine, ResumeHit, Load32
<1>4. ReadsInside' /\ WritesNear'
  BY <1>0, ResumeFacts DEF BlockInductive, ReadsInside, WritesNear
<1>5. Overhead' /\ PaidBack'
  BY <1>0, ResumeFacts DEF BlockInductive, Overhead, PaidBack, Covered, AtRest
<1>. QED  BY <1>1, <1>2, <1>3, <1>4, <1>5 DEF BlockInductive

LEMMA ResumeMissKeeps == BlockInductive /\ ResumeMiss => BlockInductive'
<1> SUFFICES ASSUME BlockInductive, ResumeMiss PROVE BlockInductive'
  OBVIOUS
<1>0. Resume /\ pc = "resume" /\ pc' = "main_loop" /\ ip' = ip + 1
      /\ next_hash' = Hash(ip + 1)
  BY DEF ResumeMiss, Resume
<1>1. ip + 1 \in Nat /\ ip + 5 <= n
  BY <1>0, ResumeFacts DEF ip_limit
<1>2. next_hash' \in Bucket /\ next_hash' = Hash(ip)'
  <2>1. Hash(ip + 1) \in Bucket
    BY <1>0, <1>1, ResumeFacts, WordFacts
  <2>. QED  BY <1>0, <2>1 DEF Resume, Hash, Load32
<1> USE DEF Resume
<1>3. DataOK' /\ pc' \in Control
  <2>1. next_hash' \in Bucket /\ ip' \in 0 .. n
    BY <1>0, <1>1, <1>2, ResumeFacts
  <2>. QED  BY <1>0, <2>1, ResumeFacts DEF DataOK, Control, n
<1>4. Positions' /\ TableBehind'
  <2>1. \A b \in Bucket : table'[b] \in Int /\ table'[b] < ip'
    BY <1>0, ResumeFacts, FitsEntry
  <2>. QED  BY <1>0, <2>1, ResumeFacts DEF Positions, TableBehind, ip_limit
<1>5. HashCurrent' /\ CandidateBehind' /\ MatchGenuine'
  BY <1>0, <1>2 DEF HashCurrent, CandidateBehind, MatchGenuine
<1>6. ReadsInside' /\ WritesNear'
  BY <1>0, ResumeFacts DEF BlockInductive, ReadsInside, WritesNear
<1>7. Overhead' /\ PaidBack'
  BY <1>0, ResumeFacts DEF BlockInductive, Overhead, PaidBack, Covered, AtRest
<1>. QED  BY <1>3, <1>4, <1>5, <1>6, <1>7 DEF BlockInductive

-----------------------------------------------------------------------------
(* Every step of the fragment compressor keeps what does not depend on the *)
(* elements that precede those of the fragment.                            *)
LEMMA BlockStep ==
    ASSUME BlockInductive, [Next]_vars
    PROVE  BlockInductive'
<1>1. CASE StartShort
  BY <1>1, StartShortKeeps
<1>2. CASE StartLong
  BY <1>2, StartLongKeeps
<1>3. CASE MainLoop
  BY <1>3, MainLoopKeeps
<1>4. CASE ScanAtLimit
  BY <1>4, ScanAtLimitKeeps
<1>5. CASE ScanMiss
  BY <1>5, ScanMissKeeps
<1>6. CASE ScanHit
  BY <1>6, ScanHitKeeps
<1>7. CASE PendingLiteral
  BY <1>7, PendingLiteralKeeps
<1>8. CASE Match
  BY <1>8, MatchKeeps
<1>9. CASE EmitCopy
  BY <1>9, EmitCopyKeeps
<1>10. CASE ResumeAtLimit
  BY <1>10, ResumeAtLimitKeeps
<1>11. CASE ResumeHit
  BY <1>11, ResumeHitKeeps
<1>12. CASE ResumeMiss
  BY <1>12, ResumeMissKeeps
<1>13. CASE Remainder
  BY <1>13, RemainderKeeps
<1>14. CASE RemainderEmpty
  BY <1>14, RemainderEmptyKeeps
<1>15. CASE UNCHANGED vars
  <2> USE <1>15 DEF vars, n
  <2>1. DataOK' /\ pc' \in Control
    BY DEF BlockInductive, DataOK
  <2>2. Positions' /\ TableBehind'
    BY DEF BlockInductive, Positions, TableBehind, ip_limit
  <2>3. HashCurrent' /\ CandidateBehind' /\ MatchGenuine'
    BY DEF BlockInductive, HashCurrent, CandidateBehind, MatchGenuine, Covered,
           Hash, Load32, At
  <2>4. ReadsInside' /\ WritesNear' /\ Overhead' /\ PaidBack'
    BY DEF BlockInductive, ReadsInside, WritesNear, Overhead, PaidBack, Covered
  <2>. QED  BY <2>1, <2>2, <2>3, <2>4 DEF BlockInductive
<1>. QED
  BY <1>1, <1>2, <1>3, <1>4, <1>5, <1>6, <1>7, <1>8, <1>9, <1>10, <1>11,
     <1>12, <1>13, <1>14, <1>15 DEF Next

(* A literal goes out only where the last element is a copy, or none. *)
LEMMA AlternationStep ==
    ASSUME Inductive, [Next]_vars
    PROVE  NoAdjacentLiterals' /\ LastIsCopy'
<1>0. BlockInductive /\ NoAdjacentLiterals /\ LastIsCopy /\ out \in Seq(Element)
  BY DEF Inductive, BlockInductive, DataOK
<1>1. ASSUME NEW e \in Element, out' = Append(out, e),
             e.kind = "copy" \/ (e.kind = "literal" /\ pc \in AtRest /\ pc' \notin AtRest)
      PROVE  NoAdjacentLiterals' /\ LastIsCopy'
  <2>1. /\ Len(out') = Len(out) + 1 /\ Len(out) \in Nat /\ out'[Len(out')] = e
        /\ \A i \in 1 .. Len(out) : out'[i] = out[i]
    BY <1>0, <1>1, AppendFacts
  <2>2. e.kind = "literal" => out = <<>> \/ out[Len(out)].kind = "copy"
    BY <1>0, <1>1 DEF LastIsCopy
  <2>3. \A i \in 1 .. Len(out') - 1 : out'[i].kind = "literal" => out'[i + 1].kind = "copy"
    <3>1. TAKE i \in 1 .. Len(out') - 1
    <3>2. CASE i < Len(out)
      BY <1>0, <2>1, <3>2 DEF NoAdjacentLiterals
    <3>3. CASE i = Len(out)
      BY <1>1, <2>1, <2>2, <3>3, EmptySeq
    <3>. QED  BY <2>1, <3>2, <3>3
  <2>. QED  BY <1>1, <2>1, <2>3 DEF NoAdjacentLiterals, LastIsCopy
<1>2. ASSUME out' = out, pc \in AtRest \/ pc' \notin AtRest
      PROVE  NoAdjacentLiterals' /\ LastIsCopy'
  BY <1>0, <1>2 DEF NoAdjacentLiterals, LastIsCopy
<1>3. ASSUME NEW first \in Nat, NEW len \in Nat, first + len <= n,
             pc \in AtRest, pc' \notin AtRest,
             out' = Append(out, LiteralElement(SubSeq(input, first + 1, first + len)))
      PROVE  NoAdjacentLiterals' /\ LastIsCopy'
  <2> DEFINE e == LiteralElement(SubSeq(input, first + 1, first + len))
  <2>1. SubSeq(input, first + 1, first + len) \in Seq(Byte)
    BY <1>0, <1>3, PieceFacts DEF BlockInductive
  <2>2. e \in Element /\ e.kind = "literal"
    BY <2>1 DEF LiteralElement, Element
  <2>3. out' = Append(out, e)
    BY <1>3
  <2> HIDE DEF e
  <2>. QED  BY <1>1, <1>3, <2>2, <2>3
<1>4. CASE PendingLiteral
  <2>1. /\ next_emit \in Nat /\ ip - next_emit \in Nat
        /\ next_emit + (ip - next_emit) <= n
    BY <1>0, <1>4, InputFacts DEF BlockInductive, DataOK, Positions, PendingLiteral
  <2>2. /\ pc \in AtRest /\ pc' \notin AtRest
        /\ EmitLiteral(next_emit, ip - next_emit, TRUE)
    BY <1>4 DEF PendingLiteral, AtRest
  <2>. QED  BY <1>3, <2>1, <2>2 DEF EmitLiteral
<1>5. CASE Remainder
  <2>1. /\ next_emit \in Nat /\ n - next_emit \in Nat
        /\ next_emit + (n - next_emit) <= n
    BY <1>0, <1>5, InputFacts DEF BlockInductive, DataOK, Remainder
  <2>2. /\ pc \in AtRest /\ pc' \notin AtRest
        /\ EmitLiteral(next_emit, n - next_emit, FALSE)
    BY <1>5 DEF Remainder, AtRest
  <2>. QED  BY <1>3, <2>1, <2>2 DEF EmitLiteral
<1>6. CASE EmitCopy
  <2>1. /\ CopyElement(offset, ChunkLen(copyLeft)) \in Element
        /\ out' = Append(out, CopyElement(offset, ChunkLen(copyLeft)))
    BY <1>0, <1>6, EmitCopyFacts
  <2>2. CopyElement(offset, ChunkLen(copyLeft)).kind = "copy"
    BY DEF CopyElement
  <2>. QED  BY <1>1, <2>1, <2>2
<1>7. CASE StartShort \/ StartLong \/ MainLoop \/ ScanAtLimit \/ ScanMiss \/ ScanHit
           \/ Match \/ ResumeAtLimit \/ ResumeHit \/ ResumeMiss \/ RemainderEmpty
           \/ UNCHANGED vars
  <2>1. out' = out /\ (pc \in AtRest \/ pc' \notin AtRest)
    BY <1>7 DEF StartShort, StartLong, MainLoop, ScanAtLimit, ScanMiss, ScanHit,
         Probe, Match, ResumeAtLimit, ResumeHit, ResumeMiss, Resume,
         RemainderEmpty, vars, AtRest
  <2>. QED  BY <1>2, <2>1
<1>. QED  BY <1>4, <1>5, <1>6, <1>7 DEF Next

-----------------------------------------------------------------------------
(* Inductive is an invariant of every behaviour of the call: whatever the  *)
(* input, the hash function and the previous contents of working_memory.   *)
THEOREM InductiveInvariant == Spec => []Inductive
<1>1. Init => Inductive
  BY InitInductive DEF Inductive, Init, NoAdjacentLiterals, LastIsCopy
<1>2. Inductive /\ [Next \/ Returned]_vars => Inductive'
  <2>1. Returned => UNCHANGED vars
    BY DEF Returned
  <2>. QED  BY <2>1, BlockStep, AlternationStep DEF Inductive
<1>. QED  BY <1>1, <1>2, PTL DEF Spec

(* Every variable keeps its type; an element is always one the format holds. *)
THEOREM TypeCorrect == Spec => []TypeOK
<1>1. Inductive => TypeOK
  BY DEF Inductive, BlockInductive, TypeOK
<1>. QED  BY <1>1, InductiveInvariant, PTL

(* A copy always reads text that a decoder already has: candidates lie      *)
(* strictly before the position that looks them up.                         *)
THEOREM CandidatesBehind == Spec => []CandidateBehind
<1>1. Inductive => CandidateBehind
  BY DEF Inductive, BlockInductive
<1>. QED  BY <1>1, InductiveInvariant, PTL

(* The hash computed ahead of time is that of the word it is used for.      *)
THEOREM HashesCurrent == Spec => []HashCurrent
<1>1. Inductive => HashCurrent
  BY DEF Inductive, BlockInductive
<1>. QED  BY <1>1, InductiveInvariant, PTL

(* No load passes the end of the fragment, for every margin of at least 6   *)
(* and every wide copy of at most Margin + 1 bytes.                         *)
THEOREM ReadsStayInside == Spec => []ReadsInside
<1>1. Inductive => ReadsInside
  BY DEF Inductive, BlockInductive
<1>. QED  BY <1>1, InductiveInvariant, PTL

(* No store passes csnappy_max_compressed_length(input_size).               *)
THEOREM WritesStayInside == Spec => []WritesInside
<1>1. Inductive => WritesInside
  <2> SUFFICES ASSUME Inductive PROVE WritesInside
    OBVIOUS
  <2>1. n \in Nat /\ outHigh \in Nat /\ 61 * (outHigh - n - 1) <= n
    BY InputFacts DEF Inductive, BlockInductive, DataOK, WritesNear
  <2>2. outHigh - n - 1 <= n \div 6
    BY <2>1, SixthIsEnough
  <2>3. MaxCompressedLength(n) = RoomFor(n)
    <3>1. n <= PosLimit
      BY InputFacts DEF Inductive, BlockInductive
    <3>. QED  BY <2>1, <3>1 DEF PosLimit, MaxCompressedLength, BoundWraps, RoomFor
  <2>. QED  BY <2>1, <2>2, <2>3, SixthIsEnough DEF WritesInside, RoomFor
<1>. QED  BY <1>1, InductiveInvariant, PTL

(* The output exceeds what it stands for by at most one byte plus a 61st.   *)
THEOREM OverheadBounded == Spec => []Overhead
<1>1. Inductive => Overhead
  BY DEF Inductive, BlockInductive
<1>. QED  BY <1>1, InductiveInvariant, PTL

(* Two literals are never adjacent.                                         *)
THEOREM LiteralsAlternate == Spec => []NoAdjacentLiterals
<1>1. Inductive => NoAdjacentLiterals
  BY DEF Inductive
<1>. QED  BY <1>1, InductiveInvariant, PTL

-----------------------------------------------------------------------------
(* Termination without fairness: every step lowers Work. *)

(* Further on by a byte or more, or at the same place a stage further. *)
GetsAhead ==
    /\ n' = n /\ n \in Nat
    /\ Front \in Int /\ Front' \in Int /\ Front' <= n
    /\ Stage \in 0 .. 7 /\ Stage' \in 0 .. 7
    /\ \/ Front + 1 <= Front'
       \/ Front = Front' /\ Stage' < Stage

LEMMA AheadIsLess ==
    ASSUME GetsAhead
    PROVE  Work' \in 0 .. Work - 1
<1> DEFINE f == Front  g == Front'  s == Stage  t == Stage'
<1>1. /\ n \in Nat /\ f \in Int /\ g \in Int /\ g <= n
      /\ s \in 0 .. 7 /\ t \in 0 .. 7
      /\ f + 1 <= g \/ (f = g /\ t < s)
  BY DEF GetsAhead
<1>2. Work = 8 * (n - f) + s /\ Work' = 8 * (n - g) + t
  BY DEF Work, GetsAhead
<1> HIDE DEF f, g, s, t
<1>. QED  BY <1>1, <1>2

LEMMA NextAhead ==
    ASSUME BlockInductive, Next
    PROVE  GetsAhead
<1>0. /\ DataOK /\ n \in Nat /\ Margin \in Nat /\ Margin >= 6
      /\ ip \in Nat /\ ip <= n /\ next_ip \in Nat /\ next_emit \in Nat
  BY InputFacts, MarginAssumption DEF BlockInductive, DataOK
<1>1. CASE StartShort \/ StartLong
  <2>1. /\ n' = n /\ pc = "start"
        /\ \/ pc' = "remainder"
           \/ pc' = "main_loop" /\ ip' = 1 /\ n >= Margin
    BY <1>1 DEF StartShort, StartLong, n
  <2>. QED  BY <1>0, <2>1 DEF GetsAhead, Front, Stage
<1>2. CASE MainLoop
  <2>1. n' = n /\ pc = "main_loop" /\ pc' = "scan" /\ next_ip' = ip
    BY <1>2 DEF MainLoop, n
  <2>. QED  BY <1>0, <2>1 DEF GetsAhead, Front, Stage
<1>3. CASE ScanAtLimit
  <2>1. n' = n /\ pc = "scan" /\ pc' = "remainder"
    BY <1>3 DEF ScanAtLimit, n
  <2>2. next_ip <= n
    BY <1>0, <2>1 DEF BlockInductive, Positions, ip_limit
  <2>. QED  BY <1>0, <2>1, <2>2 DEF GetsAhead, Front, Stage
<1>4. CASE ScanMiss \/ ScanHit
  <2>1. Probe /\ pc = "scan" /\ pc' \in {"scan", "literal"}
    BY <1>4 DEF ScanMiss, ScanHit, Probe
  <2>2. /\ n' = n /\ ip' = next_ip /\ ip' < next_ip' /\ next_ip' <= ip_limit
        /\ next_ip' \in Nat
    BY <2>1, ProbeFacts DEF Probe, DataOK
  <2>3. next_ip' <= n /\ next_ip <= n
    BY <1>0, <2>2 DEF ip_limit
  <2>. QED  BY <1>0, <2>1, <2>2, <2>3 DEF GetsAhead, Front, Stage
<1>5. CASE PendingLiteral
  <2>1. n' = n /\ pc = "literal" /\ pc' = "match" /\ ip' = ip
    BY <1>5 DEF PendingLiteral, n
  <2>. QED  BY <1>0, <2>1 DEF GetsAhead, Front, Stage
<1>6. CASE Match
  <2>1. n' = n /\ pc = "match" /\ pc' = "copy"
    BY <1>6 DEF Match, n
  <2>2. PICK m \in 0 .. (n - ip - 4) : copyLeft' = 4 + m /\ ip' = ip + 4 + m
    BY <1>6 DEF Match
  <2>3. ip' - copyLeft' = ip
    BY <1>0, <2>2
  <2>. QED  BY <1>0, <2>1, <2>3 DEF GetsAhead, Front, Stage
<1>7. CASE EmitCopy
  <2>1. /\ n' = n /\ ip' = ip /\ copyLeft \in Nat /\ pc = "copy"
        /\ copyLeft' = copyLeft - ChunkLen(copyLeft)
        /\ ChunkLen(copyLeft) \in MinCopyLen .. MaxCopyLen
        /\ ChunkLen(copyLeft) <= copyLeft
        /\ pc' = IF copyLeft' = 0 THEN "resume" ELSE "copy"
    BY <1>7, EmitCopyFacts DEF EmitCopy
  <2>2. /\ copyLeft' \in Nat /\ copyLeft' + 1 <= copyLeft
    BY <2>1 DEF MinCopyLen, MaxCopyLen
  <2>3. Front = ip - copyLeft /\ Front' = ip - copyLeft'
    BY <1>0, <2>1, <2>2 DEF Front
  <2>4. Stage \in 0 .. 7 /\ Stage' \in 0 .. 7
    BY <2>1 DEF Stage
  <2>. QED  BY <1>0, <2>1, <2>2, <2>3, <2>4 DEF GetsAhead
<1>8. CASE ResumeAtLimit
  <2>1. n' = n /\ pc = "resume" /\ pc' = "remainder"
    BY <1>8 DEF ResumeAtLimit, n
  <2>. QED  BY <1>0, <2>1 DEF GetsAhead, Front, Stage
<1>9. CASE ResumeHit \/ ResumeMiss
  <2>1. /\ n' = n /\ pc = "resume" /\ ip < ip_limit
        /\ \/ pc' = "match" /\ ip' = ip
           \/ pc' = "main_loop" /\ ip' = ip + 1
    BY <1>9 DEF ResumeHit, ResumeMiss, Resume, n
  <2>. QED  BY <1>0, <2>1 DEF GetsAhead, Front, Stage, ip_limit
<1>10. CASE Remainder \/ RemainderEmpty
  <2>1. n' = n /\ pc = "remainder" /\ pc' = "done"
    BY <1>10 DEF Remainder, RemainderEmpty, n
  <2>. QED  BY <1>0, <2>1 DEF GetsAhead, Front, Stage
<1>. QED
  BY <1>1, <1>2, <1>3, <1>4, <1>5, <1>6, <1>7, <1>8, <1>9, <1>10 DEF Next

(* No stride is zero and no match leaves the scan where it was: every step *)
(* lowers Work, so a call returns, whatever the hash function, the stride  *)
(* unit and the margin.                                                    *)
THEOREM Advancing == Spec => Advances
<1>1. Inductive /\ [Next \/ Returned]_vars => [Work' \in 0 .. Work - 1]_vars
  <2>1. Returned => UNCHANGED vars
    BY DEF Returned
  <2>2. Inductive /\ Next => Work' \in 0 .. Work - 1
    BY NextAhead, AheadIsLess DEF Inductive
  <2>. QED  BY <2>1, <2>2
<1>. QED  BY <1>1, InductiveInvariant, PTL DEF Spec, Advances

-----------------------------------------------------------------------------
(***************************************************************************)
(* CompressFragment implements SnappyStream: the elements it emits mean    *)
(* the input.  The text of the abstract state is the part of the input     *)
(* that is covered; a step that emits an element extends it by what the    *)
(* element stands for, and every other step leaves it alone.               *)
(***************************************************************************)

(* What a step adds when the bytes before c are accounted for before it    *)
(* and those before d after it.                                            *)
Covers(c, d) ==
    \/ d = c /\ out' = out /\ op' = op
    \/ \E k \in 1 .. n - c :
         /\ d = c + k
         /\ out' = Append(out, LiteralElement(SubSeq(input, c + 1, c + k)))
         /\ op' = op + LiteralSize(k)
    \/ \E k \in 1 .. n - c, o \in 1 .. c :
         /\ d = c + k /\ k \in MinCopyLen .. MaxCopyLen /\ o <= MaxOffset
         /\ \A j \in c .. c + k - 1 : At(j) = At(j - o)
         /\ out' = Append(out, CopyElement(o, k))
         /\ op' = op + CopySize(o, k)

(* The covered text, for any position c. *)
LEMMA TextFacts ==
    ASSUME DataOK, NEW c \in 0 .. n
    PROVE  /\ SubSeq(input, 1, c) \in Seq(Byte)
           /\ Len(SubSeq(input, 1, c)) = c
           /\ \A i \in 1 .. c : SubSeq(input, 1, c)[i] = input[i]
<1>1. input \in Seq(Byte) /\ n \in Nat
  BY InputFacts
<1>2. \A i \in 1 .. c : input[i] \in Byte
  BY <1>1, ElementOfSeq DEF n
<1>3. /\ SubSeq(input, 1, c) \in Seq(Byte)
      /\ Len(SubSeq(input, 1, c)) = IF 1 <= c THEN c - 1 + 1 ELSE 0
      /\ \A i \in 1 .. c - 1 + 1 : SubSeq(input, 1, c)[i] = input[1 + i - 1]
  BY <1>2, SubSeqProperties
<1>4. \A i \in 1 .. c : i \in 1 .. c - 1 + 1 /\ 1 + i - 1 = i
  BY <1>1
<1>. QED  BY <1>1, <1>3, <1>4

(* A literal of k bytes is a step of the abstract compressor. *)
LEMMA LiteralStep ==
    ASSUME BlockInductive, NEW c \in 0 .. n, NEW k \in 1 .. n - c, c = Covered,
           Covered' = c + k, input' = input,
           out' = Append(out, LiteralElement(SubSeq(input, c + 1, c + k))),
           op' = op + LiteralSize(k)
    PROVE  Stream!Next
<1>0. DataOK /\ n \in Nat /\ input \in Seq(Byte)
  BY InputFacts DEF BlockInductive
<1> DEFINE t == SubSeq(input, 1, c)
           u == SubSeq(input, 1, c + k)
           s == SubSeq(input, c + 1, c + k)
<1>1. Len(t) = c /\ Len(u) = c + k
  BY <1>0, TextFacts
<1>2. Len(s) = k
  BY <1>0, PieceFacts
<1>3. u = t \o s
  BY <1>0, ConcatAdjacentSubSeq DEF n
<1>4. Stream!Denotes(t, Stream!LiteralElement(s), u)
  BY <1>3 DEF Stream!Denotes, Stream!LiteralElement
<1>5. LiteralSize(k) = Stream!ElementSize(Stream!LiteralElement(s))
  <2> HIDE DEF s
  <2>1. /\ Stream!LiteralElement(s).kind = "literal"
        /\ Stream!LiteralElement(s).bytes = s
    BY DEF Stream!LiteralElement
  <2>2. Stream!ElementSize(Stream!LiteralElement(s)) = Stream!LiteralSize(k)
    BY <1>2, <2>1 DEF Stream!ElementSize
  <2>3. Stream!LengthBytes(k) = LengthBytes(k)
    BY DEF Stream!LengthBytes, LengthBytes
  <2>4. Stream!LiteralSize(k) = LiteralSize(k)
    BY <2>3 DEF Stream!LiteralSize, LiteralSize, Stream!LiteralHeader, LiteralHeader
  <2>. QED  BY <2>2, <2>4
<1>6. Stream!Literal(k)
  BY <1>1, <1>4, <1>5
     DEF Stream!Literal, Stream!Emit, LiteralElement, Stream!LiteralElement
<1>7. k \in 1 .. (Len(input) - Len(SubSeq(input, 1, Covered)))
  BY <1>0, <1>1 DEF n
<1>8. Len(SubSeq(input, 1, Covered)') = Len(SubSeq(input, 1, Covered)) + k
  BY <1>1
<1>. QED  BY <1>6, <1>7, <1>8 DEF Stream!Next

(* One copy of k bytes out of a genuine match is a step of it too. *)
LEMMA CopyStep ==
    ASSUME BlockInductive, NEW c \in 0 .. n, NEW k \in 1 .. n - c, c = Covered,
           Covered' = c + k, input' = input,
           k \in MinCopyLen .. MaxCopyLen,
           NEW o \in 1 .. c, o <= MaxOffset,
           \A j \in c .. c + k - 1 : At(j) = At(j - o),
           out' = Append(out, CopyElement(o, k)),
           op' = op + CopySize(o, k)
    PROVE  Stream!Next
<1>0. DataOK /\ n \in Nat /\ input \in Seq(Byte) /\ c + k \in 0 .. n
  BY InputFacts DEF BlockInductive
<1> DEFINE t == SubSeq(input, 1, c)
           u == SubSeq(input, 1, c + k)
<1>1. /\ Len(t) = c /\ Len(u) = c + k
      /\ \A i \in 1 .. c : t[i] = input[i]
      /\ \A i \in 1 .. c + k : u[i] = input[i]
  BY <1>0, TextFacts
<1> HIDE DEF t, u
<1>2. \A i \in 1 .. Len(u) : u[i] = IF i <= Len(t) THEN t[i] ELSE u[i - o]
  <2>1. TAKE i \in 1 .. Len(u)
  <2>2. CASE i <= c
    BY <1>0, <1>1, <2>2
  <2>3. CASE i > c
    <3>1. i - 1 \in c .. c + k - 1 /\ i - o \in 1 .. c + k
      BY <1>0, <1>1, <2>3
    <3>2. At(i - 1) = At(i - 1 - o)
      BY <3>1
    <3>3. At(i - 1) = input[i] /\ At(i - 1 - o) = input[i - o]
      BY <1>0, <1>1 DEF At
    <3>. QED  BY <1>1, <2>3, <3>1, <3>2, <3>3
  <2>. QED  BY <1>0, <1>1, <2>2, <2>3
<1>3. Stream!IsRepeat(t, u, o, k)
  BY <1>1, <1>2 DEF Stream!IsRepeat
<1>4. Stream!Denotes(t, Stream!CopyElement(o, k), u)
  BY <1>3 DEF Stream!Denotes, Stream!CopyElement
<1>5. CopySize(o, k) = Stream!ElementSize(Stream!CopyElement(o, k))
  BY DEF Stream!ElementSize, Stream!CopyElement, Stream!CopySize, CopySize
<1> USE DEF t, u
<1>6. Stream!Copy(o, k)
  BY <1>1, <1>4, <1>5 DEF Stream!Copy, Stream!Emit, CopyElement, Stream!CopyElement
<1>7. k \in 1 .. (Len(input) - Len(SubSeq(input, 1, Covered)))
  BY <1>0, <1>1 DEF n
<1>8. Len(SubSeq(input, 1, Covered)') = Len(SubSeq(input, 1, Covered)) + k
  BY <1>1
<1>9. o \in 1 .. Len(SubSeq(input, 1, Covered))
  BY <1>1
<1>10. k \in Stream!MinCopyLen .. Stream!MaxCopyLen /\ o <= Stream!MaxOffset
  BY DEF MinCopyLen, MaxCopyLen, MaxOffset,
         Stream!MinCopyLen, Stream!MaxCopyLen, Stream!MaxOffset
<1>. QED  BY <1>6, <1>7, <1>8, <1>9, <1>10 DEF Stream!Next

LEMMA StutterStep ==
    ASSUME input' = input, out' = out, op' = op, Covered' = Covered
    PROVE  UNCHANGED Stream!svars
BY DEF Stream!svars

-----------------------------------------------------------------------------
LEMMA InitImplements == Init => Stream!Init
<1> SUFFICES ASSUME Init PROVE Stream!Init
  OBVIOUS
<1>1. SubSeq(input, 1, Covered) = <<>>
  <2>1. Covered = 0
    BY DEF Init, Covered
  <2>. QED  BY <2>1, SubSeqEmpty
<1>. QED  BY <1>1 DEF Init, Stream!Init

LEMMA CoveredFacts ==
    ASSUME BlockInductive
    PROVE  Covered \in 0 .. n
<1>1. DataOK /\ n \in Nat /\ ip \in 0 .. n /\ next_emit \in 0 .. n /\ copyLeft \in Nat
  BY InputFacts DEF BlockInductive, DataOK
<1>2. pc = "copy" => copyLeft + offset <= ip /\ offset \in Nat
  BY DEF BlockInductive, MatchGenuine, DataOK
<1>. QED  BY <1>1, <1>2 DEF Covered

LEMMA LiteralCovers ==
    ASSUME NEW c, NEW k \in 1 .. n - c, NEW fast, EmitLiteral(c, k, fast)
    PROVE  Covers(c, c + k)
BY DEF EmitLiteral, Covers

LEMMA CopyCovers ==
    ASSUME NEW c, NEW k \in 1 .. n - c, NEW o \in 1 .. c,
           k \in MinCopyLen .. MaxCopyLen, o <= MaxOffset,
           \A j \in c .. c + k - 1 : At(j) = At(j - o),
           out' = Append(out, CopyElement(o, k)),
           op' = op + CopySize(o, k)
    PROVE  Covers(c, c + k)
BY DEF Covers

(* Every step of the fast version covers something or nothing. *)
LEMMA NextCovers ==
    ASSUME BlockInductive, [Next \/ Returned]_vars
    PROVE  /\ Covered \in 0 .. n /\ input' = input
           /\ Covers(Covered, Covered')
<1>0. DataOK /\ n \in Nat
  BY InputFacts DEF BlockInductive
<1> SUFFICES Covers(Covered, Covered')
  <2>1. input' = input
    BY DEF Next, StartShort, StartLong, MainLoop, ScanAtLimit, ScanMiss, ScanHit,
         Probe, PendingLiteral, Match, EmitCopy, ResumeAtLimit, ResumeHit,
         ResumeMiss, Resume, Remainder, RemainderEmpty, Returned, vars
  <2>. QED  BY <2>1, CoveredFacts
<1>1. CASE StartShort \/ StartLong \/ MainLoop \/ ScanAtLimit \/ ScanMiss \/ ScanHit
  <2>1. input' = input /\ out' = out /\ op' = op /\ Covered' = Covered
    BY <1>1 DEF StartShort, StartLong, MainLoop, ScanAtLimit, ScanMiss, ScanHit,
                Probe, Covered
  <2>. QED  BY <2>1 DEF Covers
<1>2. CASE PendingLiteral
  <2>1. /\ next_emit \in Nat /\ ip \in Nat /\ next_emit < ip /\ ip <= n
        /\ Covered = next_emit /\ Covered' = ip /\ input' = input
    BY <1>0, <1>2 DEF BlockInductive, DataOK, Positions, PendingLiteral, Covered
  <2>2. next_emit \in 0 .. n /\ ip - next_emit \in 1 .. n - next_emit
        /\ next_emit + (ip - next_emit) = ip
    BY <1>0, <2>1
  <2>3. EmitLiteral(next_emit, ip - next_emit, TRUE)
    BY <1>2 DEF PendingLiteral
  <2>. QED  BY <2>1, <2>2, <2>3, LiteralCovers
<1>3. CASE Match
  <2>1. PICK m \in 0 .. (n - ip - 4) : copyLeft' = 4 + m /\ ip' = ip + 4 + m
    BY <1>3 DEF Match
  <2>2. /\ pc = "match" /\ pc' = "copy"
        /\ input' = input /\ out' = out /\ op' = op
    BY <1>3 DEF Match
  <2>3. ip \in Nat
    BY <1>0 DEF DataOK
  <2>4. Covered = ip
    BY <2>2 DEF Covered
  <2>5. Covered' = ip' - copyLeft'
    BY <2>2 DEF Covered
  <2>6. ip' - copyLeft' = ip
    BY <2>1, <2>3
  <2>. QED  BY <2>2, <2>4, <2>5, <2>6 DEF Covers
<1>4. CASE EmitCopy
  <2> DEFINE len == ChunkLen(copyLeft)
  <2>1. /\ ip \in Nat /\ ip <= n /\ copyLeft \in Nat /\ copyLeft + offset <= ip
        /\ offset \in 1 .. MaxOffset /\ Covered = ip - copyLeft
        /\ len \in MinCopyLen .. MaxCopyLen /\ len <= copyLeft
        /\ copyLeft' = copyLeft - len /\ Covered' = ip - copyLeft'
        /\ out' = Append(out, CopyElement(offset, len))
        /\ op' = op + CopySize(offset, len)
    BY <1>4, EmitCopyFacts
  <2>2. input' = input /\ pc = "copy"
    BY <1>4 DEF EmitCopy
  <2>3. \A j \in ip - copyLeft .. ip - 1 : At(j) = At(j - offset)
    BY <2>2 DEF BlockInductive, MatchGenuine
  <2> HIDE DEF len
  <2>4. len \in Nat /\ len >= 4
    BY <2>1 DEF MinCopyLen, MaxCopyLen
  <2>5. /\ ip - copyLeft \in 0 .. n /\ len \in 1 .. n - (ip - copyLeft)
        /\ Covered' = (ip - copyLeft) + len
        /\ offset \in 1 .. ip - copyLeft /\ offset <= MaxOffset
    BY <1>0, <2>1, <2>4
  <2>6. \A j \in ip - copyLeft .. (ip - copyLeft) + len - 1 : At(j) = At(j - offset)
    BY <2>1, <2>3, <2>4
  <2>. QED  BY <2>1, <2>5, <2>6, CopyCovers
<1>5. CASE ResumeAtLimit \/ ResumeHit \/ ResumeMiss
  <2>1. input' = input /\ out' = out /\ op' = op
    BY <1>5 DEF ResumeAtLimit, ResumeHit, ResumeMiss, Resume
  <2>2. Covered = next_emit /\ next_emit = ip
    BY <1>5 DEF ResumeAtLimit, ResumeHit, ResumeMiss, Resume, Covered, BlockInductive, Positions
  <2>3. Covered' = next_emit
    BY <1>5, <2>2 DEF ResumeAtLimit, ResumeHit, ResumeMiss, Resume, Covered
  <2>. QED  BY <2>1, <2>2, <2>3 DEF Covers
<1>6. CASE Remainder
  <2>1. /\ next_emit \in Nat /\ next_emit < n
        /\ Covered = next_emit /\ Covered' = n /\ input' = input
    BY <1>0, <1>6 DEF BlockInductive, DataOK, Remainder, Covered, n
  <2>2. next_emit \in 0 .. n /\ n - next_emit \in 1 .. n - next_emit
        /\ next_emit + (n - next_emit) = n
    BY <1>0, <2>1
  <2>3. EmitLiteral(next_emit, n - next_emit, FALSE)
    BY <1>6 DEF Remainder
  <2>. QED  BY <2>1, <2>2, <2>3, LiteralCovers
<1>7. CASE RemainderEmpty
  <2>1. Covered = next_emit /\ Covered' = n /\ next_emit = n
    BY <1>0, <1>7 DEF DataOK, RemainderEmpty, Covered, n
  <2>2. input' = input /\ out' = out /\ op' = op
    BY <1>7 DEF RemainderEmpty
  <2>. QED  BY <2>1, <2>2 DEF Covers
<1>8. CASE Returned \/ UNCHANGED vars
  <2>1. input' = input /\ out' = out /\ op' = op /\ Covered' = Covered
    BY <1>8 DEF Returned, vars, Covered, n
  <2>. QED  BY <2>1 DEF Covers
<1>. QED
  BY <1>1, <1>2, <1>3, <1>4, <1>5, <1>6, <1>7, <1>8 DEF Next

LEMMA NextImplements ==
    ASSUME BlockInductive, [Next \/ Returned]_vars
    PROVE  Stream!Next \/ UNCHANGED Stream!svars
<1> DEFINE c == Covered
           d == Covered'
<1>1. c \in 0 .. n /\ input' = input /\ Covers(c, d)
  BY NextCovers
<1>2. CASE d = c /\ out' = out /\ op' = op
  BY <1>1, <1>2, StutterStep
<1>3. ASSUME NEW k \in 1 .. n - c, d = c + k,
             out' = Append(out, LiteralElement(SubSeq(input, c + 1, c + k))),
             op' = op + LiteralSize(k)
      PROVE  Stream!Next
  BY <1>1, <1>3, LiteralStep
<1>4. ASSUME NEW k \in 1 .. n - c, NEW o \in 1 .. c, d = c + k,
             k \in MinCopyLen .. MaxCopyLen, o <= MaxOffset,
             \A j \in c .. c + k - 1 : At(j) = At(j - o),
             out' = Append(out, CopyElement(o, k)),
             op' = op + CopySize(o, k)
      PROVE  Stream!Next
  BY <1>1, <1>4, CopyStep
<1> HIDE DEF c, d
<1>. QED  BY <1>1, <1>2, <1>3, <1>4 DEF Covers

(* The elements written are those of a compressor that promises only that  *)
(* they mean the input, each within what the format can hold, and op is    *)
(* the number of bytes they occupy.                                        *)
THEOREM Implements == Spec => EmitsInput
<1>1. Init => Stream!Init
  BY InitImplements
<1>2. Inductive /\ [Next \/ Returned]_vars => [Stream!Next]_Stream!svars
  BY NextImplements DEF Inductive
<1>. QED  BY <1>1, <1>2, InductiveInvariant, PTL DEF Spec, EmitsInput, Stream!Spec
=============================================================================
