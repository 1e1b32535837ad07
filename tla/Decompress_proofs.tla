------------------------- MODULE Decompress_proofs -------------------------
(***************************************************************************)
(* Proofs about the stream decompressor.  First DecompressNoheader: for    *)
(* every stream, room and content of the stack, nothing is read outside    *)
(* the input and scratch, scratch holds the end of the input whenever a    *)
(* tag is taken from it, and every element is decoded as StreamDecoder,    *)
(* the abstract decoder, does.  Then csnappy_decompress around it: the     *)
(* length in the header is read for what encode_varint32 writes, it bounds *)
(* the text whatever follows, and either version of                        *)
(* csnappy_decompress_noheader decodes the elements behind it.             *)
(***************************************************************************)
EXTENDS Decompress, SnappyFormat_proofs

(* Whatever position is read, a byte is found there. *)
LEMMA FetchByte ==
    ASSUME TypeOK, NEW p \in Int
    PROVE  Fetch(p) \in Byte8
<1>1. CASE where = "input" /\ p \in 0 .. n - 1
  BY <1>1 DEF Fetch, TypeOK, n
<1>2. CASE where = "scratch" /\ p \in 0 .. 4
  BY <1>2 DEF Fetch, TypeOK
<1>3. CASE ~(where = "input" /\ p \in 0 .. n - 1) /\ ~(where = "scratch" /\ p \in 0 .. 4)
  BY <1>3 DEF Fetch, Beyond, Byte8
<1> QED
  BY <1>1, <1>2, <1>3

(* k bytes from p on. *)
LEMMA BytesShape ==
    ASSUME TypeOK, NEW p \in Int, NEW k \in Nat
    PROVE  Bytes(p, k) \in Seq(Byte8) /\ Len(Bytes(p, k)) = k
<1>1. \A i \in 1 .. k : Fetch(p + i - 1) \in Byte8
  BY FetchByte
<1>2. Bytes(p, k) \in [1 .. k -> Byte8]
  BY <1>1 DEF Bytes
<1>3. Bytes(p, k) \in Seq(Byte8)
  BY <1>2
<1>4. Len(Bytes(p, k)) = k
  BY <1>2, <1>3
<1> QED
  BY <1>3, <1>4

(* The value of some bytes is a number. *)
LEMMA LittleEndianInt ==
    ASSUME NEW b \in Seq(Byte8) PROVE LittleEndian(b) \in Int
<1> DEFINE digit(i) == IF i <= Len(b) THEN b[i] ELSE 0
<1> Byte8 \subseteq Int
  BY DEF Byte8
<1>1. \A i \in 1 .. 4 : digit(i) \in Int
  <2>1. Len(b) \in Nat /\ \A i \in 1 .. Len(b) : b[i] \in Byte8
    BY ElementOfSeq, LenProperties
  <2> SUFFICES ASSUME NEW i \in 1 .. 4 PROVE digit(i) \in Int
    OBVIOUS
  <2>2. CASE i <= Len(b)
    <3>1. b[i] \in Byte8
      BY <2>1, <2>2
    <3>2. b[i] \in Int
      BY <3>1
    <3>3. digit(i) = b[i]
      BY <2>2
    <3> QED
      BY <3>2, <3>3
  <2>3. CASE ~(i <= Len(b))
    BY <2>3
  <2> QED
    BY <2>2, <2>3
<1>2. LittleEndian(b) =
        digit(1) + 256 * digit(2) + 65536 * digit(3)
          + 16777216 * (IF digit(4) < 128 THEN digit(4) ELSE digit(4) - 256)
  BY DEF LittleEndian
<1>3. digit(1) \in Int /\ digit(2) \in Int /\ digit(3) \in Int /\ digit(4) \in Int
  <2> HIDE DEF digit
  <2> QED
    BY <1>1
<1> DEFINE top == IF digit(4) < 128 THEN digit(4) ELSE digit(4) - 256
<1> HIDE DEF digit
<1>4. top \in Int
  BY <1>3
<1>5. LittleEndian(b) = digit(1) + 256 * digit(2) + 65536 * digit(3) + 16777216 * top
  BY <1>2
<1> HIDE DEF top
<1> QED
  BY <1>3, <1>4, <1>5

(* What get_unaligned_le returns is one. *)
LEMMA LoadInt ==
    ASSUME TypeOK, NEW p \in Int, NEW k \in Nat
    PROVE  get_unaligned_le(p, k) \in Int
BY BytesShape, LittleEndianInt DEF get_unaligned_le

(* The parts of a copy: the table moves src on and asks for some bytes. *)
LEMMA CopyFields ==
    ASSUME TypeOK, ~IsLiteral(tag)
    PROVE  /\ tag \in Byte8
           /\ extra_bytes \in Nat
           /\ CopyElement(Unsigned(trailer), length) \in CopyCall
<1>1. tag \in Byte8
  BY FetchByte DEF tag, TypeOK
<1>2. /\ opword \in Nat
      /\ extra_bytes = ExtraBytes(tag)
      /\ length = CopyLen(tag)
  BY <1>1, TableAssumption DEF opword, extra_bytes, length
<1>3. extra_bytes \in Nat
  BY <1>2 DEF extra_bytes
<1>4. length \in Nat \ {0}
  BY <1>1, <1>2 DEF CopyLen, Byte8
<1>5. trailer \in Int
  <2>1. get_unaligned_le(src + 1, extra_bytes) \in Int
    BY <1>3, LoadInt DEF TypeOK
  <2>2. (opword \div 256) % 8 \in Int
    BY <1>2
  <2> QED
    BY <2>1, <2>2 DEF trailer
<1>6. Unsigned(trailer) \in Nat
  BY <1>5 DEF Unsigned, MaxInt32
<1> QED
  BY <1>1, <1>3, <1>4, <1>6 DEF CopyElement, CopyCall

(* The parts of a literal. *)
LEMMA LiteralFields ==
    ASSUME TypeOK, IsLiteral(tag)
    PROVE  /\ tag \in Byte8
           /\ short_length \in 1 .. 64
           /\ full_length \in Int
           /\ body \in Nat /\ src < body /\ body <= src + 5
<1>1. tag \in Byte8
  BY FetchByte DEF tag, TypeOK
<1>2. short_length \in 1 .. 64
  BY <1>1 DEF short_length, Byte8
<1>3. body \in Nat /\ src < body /\ body <= src + 5
  BY <1>2 DEF body, long, TypeOK
<1>4. full_length \in Int
  <2>1. CASE long
    <3>1. get_unaligned_le(src + 1, short_length - 60) \in Int
      BY <2>1, <1>2, LoadInt DEF TypeOK, long
    <3> QED
      BY <3>1, <2>1 DEF full_length, Increment, MaxInt32
  <2>2. CASE ~long
    BY <2>2, <1>2 DEF full_length
  <2> QED
    BY <2>1, <2>2
<1> QED
  BY <1>1, <1>2, <1>3, <1>4
-----------------------------------------------------------------------------
(* A read that ends inside the memory being read. *)
LEMMA TouchInside ==
    ASSUME TypeOK, ReadsInside, input' = input, NEW p \in Nat, Touch(p),
           p <= IF where = "input" THEN n ELSE 5
    PROVE  ReadsInside' /\ inHigh' \in Nat /\ scratchHigh' \in Nat
<1>1. n \in Nat /\ n' = n
  BY LenProperties DEF TypeOK, n
<1> QED
  BY <1>1 DEF TypeOK, ReadsInside, Touch, Higher

(* A step that leaves the buffers as they are and ends before the next tag *)
(* is read.                                                                *)
LEMMA Quiet ==
    ASSUME InBounds, UNCHANGED <<input, where, end, scratch>>, pc' # "opcode",
           TypeOK', ReadsInside', CallsLegal', pc' = "loop" => pending' = NoCall
    PROVE  InBounds'
<1>1. n' = n
  BY DEF n
<1> QED
  BY <1>1 DEF InBounds

(* What the writer is asked for stays as it is. *)
LEMMA CallKept ==
    ASSUME CallsLegal, pending' = pending PROVE CallsLegal'
BY DEF CallsLegal

(* The memory is whole and nothing has been read. *)
LEMMA InitInductive == Init => InBounds
<1> SUFFICES ASSUME Init PROVE InBounds
  OBVIOUS
<1>1. input \in Seq(Byte8) /\ n < MaxInt32 /\ n \in Nat
  BY StreamAssumption, LenProperties DEF Init, n
<1>2. limit \in 0 .. MaxInt32 - 1 /\ scratch \in [0 .. 4 -> Byte8]
  BY StreamAssumption DEF Init
<1>3. text = <<>> /\ text \in Seq(Byte8) /\ Len(text) = 0
  BY DEF Init
<1>4. TypeOK
  BY <1>1, <1>2, <1>3 DEF TypeOK, Init, Byte8, n
<1> QED
  BY <1>1, <1>4 DEF Init, InBounds, ReadsInside, CallsLegal, n

(* LOOP_COND decides to go on in place, ... *)
LEMMA InPlaceInductive == InBounds /\ InPlace => InBounds'
<1> SUFFICES ASSUME InBounds, InPlace PROVE InBounds'
  OBVIOUS
<1>1. n' = n /\ src \in Nat /\ end \in Nat
  BY DEF InPlace, InBounds, TypeOK, n
<1>2. TypeOK' /\ ReadsInside'
  BY <1>1 DEF InPlace, InBounds, TypeOK, ReadsInside
<1>3. where = "input" /\ src < end - 5
  BY <1>1 DEF InPlace, Ahead, InBounds, TypeOK
<1> QED
  BY <1>1, <1>2, <1>3, CallKept DEF InPlace, InBounds

(* ... to move what is left to scratch, ... *)
LEMMA RefillInductive == InBounds /\ Refill => InBounds'
<1> SUFFICES ASSUME InBounds, Refill PROVE InBounds'
  OBVIOUS
<1>1. /\ n' = n /\ n \in Nat /\ src \in Nat /\ end \in Nat /\ input \in Seq(Byte8)
      /\ where \in {"input", "scratch"} /\ scratch \in [0 .. 4 -> Byte8]
  BY LenProperties DEF Refill, MovedEnd, InBounds, TypeOK, n
<1>2. available \in 1 .. 5 /\ available <= end /\ available = end - src
  BY <1>1 DEF Refill, Ahead, available
<1>3. end <= n /\ (where = "input" => end = n) /\ (where = "scratch" => end <= 5)
  BY <1>1 DEF InBounds
<1>4. \A k \in 0 .. 4 : scratch'[k] = IF k < available THEN Fetch(src + k) ELSE scratch[k]
  BY DEF Refill
<1>5. scratch' \in [0 .. 4 -> Byte8]
  <2>1. \A k \in 0 .. 4 : (IF k < available THEN Fetch(src + k) ELSE scratch[k]) \in Byte8
    BY <1>1, FetchByte DEF InBounds
  <2> QED
    BY <2>1 DEF Refill
<1>6. \A k \in 0 .. available - 1 : Fetch(src + k) = input[n - available + k + 1]
  <2> SUFFICES ASSUME NEW k \in 0 .. available - 1
               PROVE  Fetch(src + k) = input[n - available + k + 1]
    OBVIOUS
  <2>1. CASE where = "input"
    <3>1. src + k \in 0 .. n - 1 /\ src + k + 1 = n - available + k + 1
      BY <2>1, <1>1, <1>2, <1>3
    <3>2. Fetch(src + k) = input[src + k + 1]
      BY <2>1, <3>1 DEF Fetch
    <3> QED
      BY <3>1, <3>2
  <2>2. CASE where = "scratch"
    <3>1. src + k \in 0 .. end - 1 /\ src + k \in 0 .. 4
      BY <2>2, <1>1, <1>2, <1>3
    <3>2. Fetch(src + k) = scratch[src + k]
      BY <2>2, <3>1 DEF Fetch
    <3>3. scratch[src + k] = input[n - end + (src + k) + 1]
      BY <2>2, <3>1 DEF InBounds
    <3>4. n - end + (src + k) + 1 = n - available + k + 1
      BY <1>1, <1>2
    <3> QED
      BY <3>2, <3>3, <3>4
  <2> QED
    BY <2>1, <2>2, <1>1
<1>7. ReadsInside' /\ inHigh' \in Nat /\ scratchHigh' \in Nat
  BY <1>1, <1>3, TouchInside DEF Refill, InBounds
<1>8. TypeOK'
  BY <1>1, <1>2, <1>5, <1>7 DEF InBounds, TypeOK, Refill, MovedEnd
<1>9. \A k \in 0 .. end' - 1 : scratch'[k] = input'[n' - end' + k + 1]
  BY <1>1, <1>2, <1>4, <1>6 DEF Refill, MovedEnd
<1>10. /\ where' = "scratch" /\ src' = 0 /\ end' = available /\ pending' = pending
  BY DEF Refill, MovedEnd
<1> QED
  <2>1. pc = "loop" /\ pc' = "opcode"
    BY DEF Refill
  <2> QED
    BY <1>1, <1>2, <1>3, <1>7, <1>8, <1>9, <1>10, <2>1, CallKept DEF InBounds

(* ... or that nothing is left. *)
LEMMA OutInductive == InBounds /\ Out => InBounds'
<1> SUFFICES ASSUME InBounds, Out PROVE InBounds'
  OBVIOUS
<1>1. TypeOK' /\ ReadsInside'
  BY DEF Out, Return, InBounds, TypeOK, ReadsInside, n
<1> QED
  BY <1>1, Quiet, CallKept DEF Out, Return, InBounds

-----------------------------------------------------------------------------
(* After the tag there are four bytes more, in the input or in scratch. *)
LEMMA HeaderReadable ==
    ASSUME InBounds, pc = "opcode"
    PROVE  /\ src \in Nat /\ end \in Nat /\ n \in Nat
           /\ src + 5 <= IF where = "input" THEN n ELSE 5
           /\ end <= IF where = "input" THEN n ELSE 5
<1>1. n \in Nat
  BY LenProperties DEF InBounds, TypeOK, n
<1> QED
  BY <1>1 DEF InBounds, TypeOK

(* A copy is asked for. *)
LEMMA AskCopyInductive == InBounds /\ AskCopy => InBounds'
<1> SUFFICES ASSUME InBounds, AskCopy PROVE InBounds'
  OBVIOUS
<1>1. ReadsInside' /\ inHigh' \in Nat /\ scratchHigh' \in Nat
  BY HeaderReadable, TouchInside DEF AskCopy, InBounds
<1>2. /\ tag \in Byte8 /\ src' \in Nat
      /\ pending' \in CopyCall
  BY HeaderReadable, CopyFields DEF AskCopy, InBounds
<1>3. pending' # NoCall
  BY <1>2, NoCallAssumption
<1>4. TypeOK'
  BY <1>1, <1>2, <1>3 DEF AskCopy, InBounds, TypeOK, n
<1> QED
  <2>1. CallsLegal'
    BY <1>2 DEF CallsLegal, CopyCall
  <2> QED
    BY <1>1, <1>2, <1>4, <2>1, Quiet DEF AskCopy

(* A literal that cannot be there. *)
LEMMA LiteralStopsInductive ==
    InBounds /\ (LiteralMalformed \/ LiteralHuge) => InBounds'
<1> SUFFICES ASSUME InBounds, LiteralMalformed \/ LiteralHuge PROVE InBounds'
  OBVIOUS
<1>1. pc = "opcode" /\ TouchHeader /\ input' = input
  BY DEF LiteralMalformed, LiteralHuge
<1>2. ReadsInside' /\ inHigh' \in Nat /\ scratchHigh' \in Nat
  <2> DEFINE p == IF long THEN src + 5 ELSE src + 1
  <2>1. p \in Nat /\ p <= IF where = "input" THEN n ELSE 5
    BY <1>1, HeaderReadable
  <2>2. Touch(p)
    BY <1>1 DEF TouchHeader
  <2> HIDE DEF p
  <2> QED
    BY <1>1, <2>1, <2>2, TouchInside DEF InBounds
<1>3. TypeOK'
  BY <1>2 DEF LiteralMalformed, LiteralHuge, Return, InBounds, TypeOK, n
<1> QED
  BY <1>2, <1>3, Quiet, CallKept DEF LiteralMalformed, LiteralHuge, Return, InBounds

(* A literal is asked for by the fast path. *)
LEMMA AskFastInductive == InBounds /\ AskFast => InBounds'
<1> SUFFICES ASSUME InBounds, AskFast PROVE InBounds'
  OBVIOUS
<1>1. pc = "opcode" /\ IsLiteral(tag) /\ TypeOK
  BY DEF AskFast, InBounds
<1>2. src + 17 <= end /\ short_length <= 16
  BY <1>1, HeaderReadable DEF AskFast, Fast
<1>3. ReadsInside' /\ inHigh' \in Nat /\ scratchHigh' \in Nat
  BY <1>1, <1>2, HeaderReadable, TouchInside DEF AskFast, InBounds
<1>4. tag \in Byte8 /\ short_length \in 1 .. 16
  BY <1>1, <1>2, LiteralFields
<1>5. /\ Bytes(src + 1, short_length) \in Seq(Byte8)
      /\ Bytes(src + 1 + short_length, 16 - short_length) \in Seq(Byte8)
      /\ Len(Bytes(src + 1, short_length))
           + Len(Bytes(src + 1 + short_length, 16 - short_length)) = 16
  <2>1. /\ src + 1 \in Int /\ src + 1 + short_length \in Int
        /\ short_length \in Nat /\ 16 - short_length \in Nat
    BY <1>1, <1>4, HeaderReadable
  <2> QED
    BY <1>1, <2>1, BytesShape
<1>6. pending' \in LiteralCall
  BY <1>5 DEF AskFast, Ask, LiteralCall
<1>7. pending' # NoCall
  BY <1>6, NoCallAssumption
<1>8. TypeOK'
  BY <1>1, <1>3, <1>4, <1>7 DEF AskFast, InBounds, TypeOK, n
<1> QED
  <2>1. Len(pending'.bytes) + Len(pending'.ahead) = 16
    BY <1>5 DEF AskFast, Ask
  <2>2. CallsLegal'
    BY <1>6, <2>1 DEF CallsLegal
  <2> QED
    BY <1>3, <1>8, <2>2, Quiet DEF AskFast

(* A literal of any other length is asked for. *)
LEMMA AskExactInductive == InBounds /\ AskExact => InBounds'
<1> SUFFICES ASSUME InBounds, AskExact PROVE InBounds'
  OBVIOUS
<1>1. pc = "opcode" /\ IsLiteral(tag) /\ TypeOK
  BY DEF AskExact, InBounds
<1>2. full_length \in Nat /\ body \in Nat /\ tag \in Byte8
  <2>1. full_length \in Int /\ body \in Nat /\ tag \in Byte8
    BY <1>1, LiteralFields
  <2>2. full_length >= 0
    BY DEF AskExact
  <2> QED
    BY <2>1, <2>2
<1>3. body + full_length <= end
  BY <1>1, <1>2, HeaderReadable DEF AskExact, Enough
<1>4. ReadsInside' /\ inHigh' \in Nat /\ scratchHigh' \in Nat
  <2> DEFINE p == IF long THEN Higher(src + 5, body + full_length) ELSE body + full_length
  <2>1. p \in Nat /\ p <= IF where = "input" THEN n ELSE 5
    BY <1>1, <1>2, <1>3, HeaderReadable DEF Higher
  <2>2. Touch(p)
    BY DEF AskExact
  <2> HIDE DEF p
  <2> QED
    BY <2>1, <2>2, TouchInside DEF AskExact, InBounds
<1>5. Bytes(body, full_length) \in Seq(Byte8)
  BY <1>1, <1>2, BytesShape
<1>6. pending' \in LiteralCall
  BY <1>5 DEF AskExact, Ask, LiteralCall
<1>7. pending' # NoCall
  BY <1>6, NoCallAssumption
<1>8. TypeOK'
  BY <1>1, <1>2, <1>4, <1>7 DEF AskExact, InBounds, TypeOK, n
<1> QED
  <2>1. ~pending'.fast
    BY DEF AskExact, Ask
  <2>2. CallsLegal'
    BY <1>6, <2>1 DEF CallsLegal
  <2> QED
    BY <1>4, <1>8, <2>2, Quiet DEF AskExact

-----------------------------------------------------------------------------
(* Repeating the end of a text gives a longer text. *)
LEMMA RepeatShape ==
    ASSUME NEW t \in Seq(Byte8), NEW o \in 1 .. Len(t), NEW k \in Nat
    PROVE  Repeat(t, o, k) \in Seq(Byte8) /\ Len(Repeat(t, o, k)) = Len(t) + k
<1> DEFINE u == [i \in 1 .. k |-> t[Len(t) - o + 1 + ((i - 1) % o)]]
<1>1. \A i \in 1 .. k : t[Len(t) - o + 1 + ((i - 1) % o)] \in Byte8
  <2> SUFFICES ASSUME NEW i \in 1 .. k
               PROVE  t[Len(t) - o + 1 + ((i - 1) % o)] \in Byte8
    OBVIOUS
  <2>1. (i - 1) % o \in 0 .. o - 1
    OBVIOUS
  <2>2. Len(t) - o + 1 + ((i - 1) % o) \in 1 .. Len(t)
    BY <2>1
  <2> QED
    BY <2>2, ElementOfSeq
<1>2. u \in [1 .. k -> Byte8]
  BY <1>1
<1>3. u \in Seq(Byte8)
  BY <1>2
<1>4. Len(u) = k
  BY <1>2, <1>3
<1> HIDE DEF u
<1>5. t \o u \in Seq(Byte8) /\ Len(t \o u) = Len(t) + k
  BY <1>3, <1>4, ConcatProperties
<1> QED
  BY <1>5 DEF Repeat, u

(* The writer has appended what it was asked for. *)
LEMMA AppendedInductive == InBounds /\ Appended => InBounds'
<1> SUFFICES ASSUME InBounds, Appended PROVE InBounds'
  OBVIOUS
<1>1. pending # NoCall /\ pending \in LiteralCall \cup CopyCall
  BY DEF Appended, InBounds, TypeOK, CallsLegal
<1>2. text \in Seq(Byte8) /\ Len(text) \in Nat /\ limit \in Nat /\ src \in Nat
  BY LenProperties DEF InBounds, TypeOK
<1>3. text' \in Seq(Byte8) /\ Len(text') <= limit /\ src' \in Nat
  <2>1. CASE pending \in LiteralCall
    <3>1. pending.kind = "literal" /\ pending.bytes \in Seq(Byte8)
      BY <2>1 DEF LiteralCall
    <3>2. text' = text \o pending.bytes /\ src' = src + Len(pending.bytes)
      BY <3>1 DEF Appended
    <3>3. Len(text) + Len(pending.bytes) <= limit
      BY <3>1, <1>2, LenProperties DEF Appended, Writer!TooLong, Writer!ResultLen
    <3> QED
      BY <3>1, <3>2, <3>3, <1>2, ConcatProperties, LenProperties
  <2>2. CASE pending \in CopyCall
    <3>1. pending.kind = "copy" /\ pending.offset \in Nat /\ pending.len \in Nat
      BY <2>2 DEF CopyCall
    <3>2. text' = Repeat(text, pending.offset, pending.len) /\ src' = src
      BY <3>1 DEF Appended
    <3>3. pending.offset \in 1 .. Len(text) /\ Len(text) + pending.len <= limit
      BY <3>1, <1>2 DEF Appended, Writer!TooLong, Writer!ResultLen, Writer!BadOffset
    <3> QED
      BY <3>1, <3>2, <3>3, <1>2, RepeatShape
  <2> QED
    BY <1>1, <2>1, <2>2
<1>4. TypeOK'
  BY <1>3 DEF Appended, InBounds, TypeOK, n
<1>5. ReadsInside'
  BY DEF Appended, InBounds, ReadsInside, n
<1> QED
  <2>1. CallsLegal' /\ pending' = NoCall
    BY DEF Appended, CallsLegal
  <2> QED
    BY <1>4, <1>5, <2>1, Quiet DEF Appended

(* The writer's error is returned. *)
LEMMA RefusedInductive == InBounds /\ Refused => InBounds'
<1> SUFFICES ASSUME InBounds, Refused PROVE InBounds'
  OBVIOUS
<1>1. TypeOK' /\ ReadsInside'
  BY DEF Refused, Return, InBounds, TypeOK, ReadsInside, n
<1> QED
  BY <1>1, Quiet, CallKept DEF Refused, Return, InBounds

(* A step that changes nothing. *)
LEMMA StutterInductive == InBounds /\ UNCHANGED nvars => InBounds'
BY CallKept DEF nvars, InBounds, TypeOK, ReadsInside, n

(* Every step of the loop. *)
LEMMA NextInductive == InBounds /\ [Next]_nvars => InBounds'
<1> SUFFICES ASSUME InBounds, [Next]_nvars PROVE InBounds'
  OBVIOUS
<1>1. CASE Loop
  BY <1>1, InPlaceInductive, RefillInductive, OutInductive DEF Loop
<1>2. CASE Body
  BY <1>2, AskCopyInductive, AskFastInductive, LiteralStopsInductive,
     AskExactInductive, AppendedInductive, RefusedInductive DEF Body
<1>3. CASE Returned \/ UNCHANGED nvars
  BY <1>3, StutterInductive DEF Returned
<1> QED
  BY <1>1, <1>2, <1>3 DEF Next

-----------------------------------------------------------------------------
(* The bytes read are those of the input.                                  *)
LEMMA InputBytes ==
    ASSUME InBounds, NEW p \in Nat, NEW k \in Nat, p + k <= end
    PROVE  /\ n - end + p \in Nat /\ n - end + p + k <= n
           /\ Bytes(p, k) = SubSeq(input, n - end + p + 1, n - end + p + k)
<1> DEFINE m == n - end + p
<1>1. input \in Seq(Byte8) /\ n \in Nat /\ end \in Nat /\ where \in {"input", "scratch"}
      /\ n = Len(input)
  BY LenProperties DEF InBounds, TypeOK, n
<1>2. m \in Nat /\ m + k <= n /\ m = n - end + p
  BY <1>1 DEF InBounds
<1>3. \A i \in 1 .. k : Fetch(p + i - 1) = input[m + i]
  <2> SUFFICES ASSUME NEW i \in 1 .. k PROVE Fetch(p + i - 1) = input[m + i]
    OBVIOUS
  <2>1. CASE where = "input"
    BY <1>1, <1>2, <2>1 DEF Fetch, InBounds
  <2>2. CASE where = "scratch"
    <3>1. p + i - 1 \in 0 .. end - 1 /\ p + i - 1 \in 0 .. 4
      BY <1>1, <2>2 DEF InBounds
    <3>2. scratch[p + i - 1] = input[n - end + (p + i - 1) + 1]
      BY <2>2, <3>1 DEF InBounds
    <3>3. n - end + (p + i - 1) + 1 = m + i
      BY <1>1
    <3> QED
      BY <2>2, <3>1, <3>2, <3>3 DEF Fetch
  <2> QED
    BY <1>1, <2>1, <2>2
<1> HIDE DEF m
<1>4. \A i \in m + 1 .. m + k : input[i] \in Byte8
  BY <1>1, <1>2, ElementOfSeq
<1> DEFINE t == SubSeq(input, m + 1, m + k)
<1>5. /\ t \in Seq(Byte8)
      /\ Len(t) = IF m + 1 <= m + k THEN (m + k) - (m + 1) + 1 ELSE 0
      /\ \A i \in 1 .. (m + k) - (m + 1) + 1 : t[i] = input[m + 1 + i - 1]
  BY <1>2, <1>4, SubSeqProperties
<1>6. Len(t) = k /\ \A i \in 1 .. k : t[i] = input[m + i]
  BY <1>2, <1>5
<1>7. Bytes(p, k) \in Seq(Byte8) /\ Len(Bytes(p, k)) = k
  BY BytesShape DEF InBounds
<1>8. \A i \in 1 .. k : Bytes(p, k)[i] = Fetch(p + i - 1)
  BY DEF Bytes
<1>9. \A i \in 1 .. k : Bytes(p, k)[i] = t[i]
  BY <1>3, <1>6, <1>8
<1>10. Bytes(p, k) = t
  BY <1>5, <1>6, <1>7, <1>9, SeqEqual
<1> QED
  BY <1>2, <1>10

(* The operand of a tag takes at most four bytes. *)
LEMMA HeaderLength ==
    ASSUME NEW t \in Byte8
    PROVE  ExtraBytes(t) \in 0 .. 4 /\ HeaderLen(t) = 1 + ExtraBytes(t)
<1>1. t \in 0 .. 255 /\ t % 4 \in 0 .. 3
  BY DEF Byte8
<1> QED
  BY <1>1 DEF ExtraBytes, HeaderLen

(* When a tag is about to be read, `at' is its place in the input. *)
LEMMA TagPlace ==
    ASSUME InBounds, pc = "opcode"
    PROVE  /\ at = n - end + src /\ at \in Nat /\ at < n
           /\ tag = TagAt(input, at) /\ tag \in Byte8
           /\ BodyAt(input, at) = at + HeaderLen(tag)
<1>1. /\ n \in Nat /\ end \in Nat /\ src \in Nat /\ src < end /\ end <= n
      /\ where \in {"input", "scratch"} /\ pending = NoCall
  BY LenProperties DEF InBounds, TypeOK, n
<1>2. at = n - end + src /\ at \in Nat /\ at < n
  BY <1>1 DEF at, Place, InBounds
<1>3. Bytes(src, 1) = SubSeq(input, at + 1, at + 1)
  <2>1. src + 1 <= end /\ 1 \in Nat
    BY <1>1
  <2>2. Bytes(src, 1) = SubSeq(input, n - end + src + 1, n - end + src + 1)
    BY <1>1, <2>1, InputBytes
  <2> QED
    BY <1>2, <2>2
<1>4. Bytes(src, 1)[1] = Fetch(src)
  BY <1>1 DEF Bytes
<1>5. SubSeq(input, at + 1, at + 1)[1] = input[at + 1]
  <2>1. input \in Seq(Byte8) /\ n = Len(input)
    BY DEF InBounds, TypeOK, n
  <2>2. \A i \in at + 1 .. at + 1 : input[i] \in Byte8
    BY <1>1, <1>2, <2>1, ElementOfSeq
  <2> DEFINE m == at + 1
  <2>3. m \in Int
    BY <1>2
  <2> HIDE DEF m
  <2>4. \A i \in m .. m : input[i] \in Byte8
    BY <2>2 DEF m
  <2>5. \A i \in 1 .. m - m + 1 : SubSeq(input, m, m)[i] = input[m + i - 1]
    BY <2>3, <2>4, SubSeqProperties
  <2>6. 1 \in 1 .. m - m + 1 /\ m + 1 - 1 = m
    BY <2>3
  <2>7. SubSeq(input, m, m)[1] = input[m]
    BY <2>5, <2>6
  <2> QED
    BY <2>7 DEF m
<1>6. tag = TagAt(input, at)
  BY <1>3, <1>4, <1>5 DEF tag, TagAt
<1>7. tag \in Byte8
  BY <1>1, FetchByte DEF tag, InBounds
<1> QED
  BY <1>2, <1>6, <1>7 DEF BodyAt

(* The word loaded behind the tag is its operand, if that is whole. *)
LEMMA OperandRead ==
    ASSUME InBounds, pc = "opcode", HeaderWhole(input, at)
    PROVE  get_unaligned_le(src + 1, ExtraBytes(tag)) = OperandAt(input, at)
<1> DEFINE k == ExtraBytes(tag)
<1>1. /\ at = n - end + src /\ at \in Nat /\ tag = TagAt(input, at)
      /\ BodyAt(input, at) = at + HeaderLen(tag) /\ k \in 0 .. 4
      /\ HeaderLen(tag) = 1 + k
  BY TagPlace, HeaderLength
<1>2. n \in Nat /\ end \in Nat /\ src \in Nat /\ Len(input) = n
  BY LenProperties DEF InBounds, TypeOK, n
<1> HIDE DEF k
<1>3. src + 1 \in Nat /\ k \in Nat /\ (src + 1) + k <= end
  BY <1>1, <1>2 DEF HeaderWhole
<1>4. Bytes(src + 1, k) = SubSeq(input, n - end + (src + 1) + 1, n - end + (src + 1) + k)
  BY <1>3, InputBytes
<1>5. /\ n - end + (src + 1) + 1 = at + 2
      /\ n - end + (src + 1) + k = at + HeaderLen(tag)
  BY <1>1, <1>2
<1>6. get_unaligned_le(src + 1, k) = LittleEndian(SubSeq(input, at + 2, at + HeaderLen(tag)))
  BY <1>4, <1>5 DEF get_unaligned_le
<1> QED
  BY <1>1, <1>6 DEF OperandAt, k

(* Once src is past the header of an element, `at' still names it. *)
LEMMA PlaceKept ==
    ASSUME InBounds, pc = "opcode", src' = src + HeaderLen(tag), opcode' = tag,
           pending' # NoCall, UNCHANGED <<input, where, end>>
    PROVE  /\ at' = at /\ at' \in 0 .. n' - 1 /\ opcode' = TagAt(input', at')
           /\ n' - end' + src' = BodyAt(input', at')
<1>1. /\ at = n - end + src /\ at \in Nat /\ at < n /\ tag = TagAt(input, at)
      /\ BodyAt(input, at) = at + HeaderLen(tag) /\ HeaderLen(tag) \in Nat
  BY TagPlace, HeaderLength
<1>2. n \in Nat /\ end \in Nat /\ src \in Nat /\ n' = n
      /\ (where = "input" => end = n) /\ where \in {"input", "scratch"}
  BY LenProperties DEF InBounds, TypeOK, n
<1>3. src' - HeaderLen(opcode') = src
  BY <1>1, <1>2
<1>5. at' = LET q == IF where = "input" THEN src ELSE n - end + src
            IN  IF q > n THEN n ELSE q
  BY <1>2, <1>3 DEF at, Place
<1>6. at' = at
  BY <1>1, <1>2, <1>5
<1> QED
  BY <1>1, <1>2, <1>6

-----------------------------------------------------------------------------
(* The bit fields of a copy, which the code looks up, as the format has    *)
(* them.                                                                   *)
LEMMA CopyRead ==
    ASSUME InBounds, pc = "opcode", ~IsLiteral(tag)
    PROVE  /\ src + 1 + extra_bytes = src + HeaderLen(tag)
           /\ length = CopyLen(tag)
           /\ HeaderWhole(input, at) => trailer = CopyAt(input, at).offset
<1>1. tag \in Byte8 /\ tag = TagAt(input, at) /\ src \in Nat
  BY TagPlace DEF InBounds, TypeOK
<1>2. /\ extra_bytes = ExtraBytes(tag) /\ length = CopyLen(tag)
      /\ 256 * ((opword \div 256) % 8) = CopyOffset(tag, 0)
  BY <1>1, TableAssumption DEF opword, extra_bytes, length
<1>3. HeaderWhole(input, at) => trailer = CopyAt(input, at).offset
  <2> SUFFICES ASSUME HeaderWhole(input, at) PROVE trailer = CopyAt(input, at).offset
    OBVIOUS
  <2> DEFINE w == OperandAt(input, at)
  <2>1. get_unaligned_le(src + 1, extra_bytes) = w
    BY <1>2, OperandRead
  <2>2. w \in Int
    <3>1. ExtraBytes(tag) \in Nat
      BY <1>1, HeaderLength
    <3> QED
      BY <1>1, <1>2, <2>1, <3>1, LoadInt DEF InBounds
  <2>3. trailer = w + CopyOffset(tag, 0)
    BY <1>2, <2>1 DEF trailer
  <2> HIDE DEF w
  <2>4. CopyOffset(tag, w) = w + CopyOffset(tag, 0)
    BY <1>1, <2>2 DEF CopyOffset, Byte8
  <2> QED
    BY <1>1, <2>3, <2>4 DEF CopyAt, CopyElement, w
<1> QED
  BY <1>1, <1>2, <1>3, HeaderLength

(* And those of a literal. *)
LEMMA LiteralRead ==
    ASSUME InBounds, pc = "opcode", IsLiteral(tag)
    PROVE  /\ body = src + HeaderLen(tag)
           /\ HeaderWhole(input, at) => LengthAt(input, at) = full_length
           /\ n - BodyAt(input, at) = end - body
<1>1. /\ tag \in Byte8 /\ tag = TagAt(input, at) /\ src \in Nat /\ end \in Nat /\ n \in Nat
      /\ at = n - end + src /\ BodyAt(input, at) = at + HeaderLen(tag)
  BY TagPlace, LenProperties DEF InBounds, TypeOK, n
<1>2. tag \div 4 \in 0 .. 63 /\ short_length = tag \div 4 + 1
  BY <1>1 DEF short_length, Byte8
<1>3. /\ long => ExtraBytes(tag) = short_length - 60
      /\ ~long => ExtraBytes(tag) = 0
  BY <1>2 DEF ExtraBytes, IsLiteral, long
<1>4. HeaderLen(tag) = 1 + ExtraBytes(tag) /\ ExtraBytes(tag) \in 0 .. 4
  BY <1>1, HeaderLength
<1>5. body = src + HeaderLen(tag)
  BY <1>1, <1>2, <1>3, <1>4 DEF body
<1>6. HeaderWhole(input, at) => LengthAt(input, at) = full_length
  <2> SUFFICES ASSUME HeaderWhole(input, at) PROVE LengthAt(input, at) = full_length
    OBVIOUS
  <2>1. get_unaligned_le(src + 1, ExtraBytes(tag)) = OperandAt(input, at)
    BY OperandRead
  <2>2. CASE long
    <3>1. ~(tag \div 4 < 60)
      BY <1>2, <2>2 DEF long
    <3>2. full_length = Increment(OperandAt(input, at))
      BY <1>3, <2>1, <2>2 DEF full_length
    <3> QED
      BY <1>1, <3>1, <3>2 DEF LengthAt, LiteralLen
  <2>3. CASE ~long
    <3>1. tag \div 4 < 60
      BY <1>2, <2>3 DEF long
    <3> QED
      BY <1>1, <1>2, <2>3, <3>1 DEF full_length, LengthAt, LiteralLen
  <2> QED
    BY <2>2, <2>3
<1>7. n - BodyAt(input, at) = end - body
  BY <1>1, <1>4, <1>5
<1> QED
  BY <1>5, <1>6, <1>7

(* A literal that ends inside the memory being read is whole. *)
LEMMA LiteralFound ==
    ASSUME InBounds, pc = "opcode", IsLiteral(tag), full_length \in 0 .. end - body
    PROVE  /\ WholeLiteral(input, at)
           /\ Bytes(body, full_length) = LiteralAt(input, at).bytes
<1>1. /\ tag = TagAt(input, at) /\ src \in Nat /\ end \in Nat /\ n \in Nat /\ n = Len(input)
      /\ BodyAt(input, at) = at + HeaderLen(tag) /\ at = n - end + src
  BY TagPlace, LenProperties DEF InBounds, TypeOK, n
<1>2. body \in Nat /\ body = src + HeaderLen(tag)
  BY LiteralFields, LiteralRead DEF InBounds
<1>3. HeaderLen(tag) \in Nat
  BY TagPlace, HeaderLength
<1>4. BodyAt(input, at) = n - end + body /\ BodyAt(input, at) \in Int
  <2> DEFINE h == HeaderLen(tag)
  <2>1. /\ BodyAt(input, at) = at + h /\ at = n - end + src /\ body = src + h
        /\ src \in Nat /\ end \in Nat /\ n \in Nat /\ h \in Nat
    BY <1>1, <1>2, <1>3
  <2> HIDE DEF h
  <2> QED
    BY <2>1
<1>5. HeaderWhole(input, at)
  BY <1>1, <1>2, <1>4 DEF HeaderWhole
<1>6. LengthAt(input, at) = full_length
  BY <1>5, LiteralRead
<1>7. WholeLiteral(input, at)
  <2> DEFINE a == BodyAt(input, at)
  <2>1. Len(input) - a = end - body
    <3>1. /\ a = n - end + body /\ n = Len(input)
          /\ n \in Nat /\ end \in Nat /\ body \in Nat
      BY <1>1, <1>2, <1>4
    <3> HIDE DEF a
    <3> QED
      BY <3>1
  <2> QED
    BY <1>1, <1>5, <1>6, <2>1 DEF WholeLiteral
<1>8. full_length \in Nat /\ body + full_length <= end
  <2>1. \A b, e \in Nat : \A l \in 0 .. e - b : l \in Nat /\ b + l <= e
    OBVIOUS
  <2> QED
    BY <1>1, <1>2, <2>1
<1>9. Bytes(body, full_length)
        = SubSeq(input, n - end + body + 1, n - end + body + full_length)
  BY <1>2, <1>8, InputBytes
<1>10. Bytes(body, full_length) = LiteralAt(input, at).bytes
  BY <1>4, <1>6, <1>9 DEF LiteralAt, LiteralElement
<1> QED
  BY <1>7, <1>10

(* A literal that does not is not. *)
LEMMA LiteralTorn ==
    ASSUME InBounds, pc = "opcode", IsLiteral(tag), full_length \notin 0 .. end - body
    PROVE  ~WholeLiteral(input, at)
<1> SUFFICES ASSUME WholeLiteral(input, at) PROVE FALSE
  OBVIOUS
<1>1. LengthAt(input, at) = full_length /\ n - BodyAt(input, at) = end - body
  BY LiteralRead DEF WholeLiteral
<1> QED
  BY <1>1 DEF WholeLiteral, n

(* What is asked for when a copy has been taken apart. *)
LEMMA AskCopyAsks == InBounds /\ AskCopy => AsksForElement'
<1> SUFFICES ASSUME InBounds, AskCopy PROVE AsksForElement'
  OBVIOUS
<1>1. pc = "opcode" /\ ~IsLiteral(tag) /\ opcode' = tag
      /\ UNCHANGED <<input, where, end>>
      /\ pending' = CopyElement(Unsigned(trailer), length)
  BY DEF AskCopy
<1>2. pending' \in CopyCall
  BY <1>1, CopyFields DEF InBounds
<1>3. pending' # NoCall
  BY <1>2, NoCallAssumption
<1>4. src' = src + HeaderLen(tag)
  BY <1>1, CopyRead DEF AskCopy
<1>5. /\ at' = at /\ at' \in 0 .. n' - 1 /\ opcode' = TagAt(input', at')
      /\ n' - end' + src' = BodyAt(input', at')
  BY <1>1, <1>3, <1>4, PlaceKept
<1>6. /\ pending'.kind = "copy" /\ pending'.len = length
      /\ pending'.offset = Unsigned(trailer)
  BY <1>1 DEF CopyElement
<1>7. pending'.len = CopyLen(opcode')
  BY <1>1, <1>6, CopyRead
<1>8. WholeCopy(input', at') => pending'.offset = Unsigned(CopyAt(input', at').offset)
  <2> SUFFICES ASSUME WholeCopy(input, at)
               PROVE  pending'.offset = Unsigned(CopyAt(input, at).offset)
    BY <1>1, <1>5
  <2>1. trailer = CopyAt(input, at).offset
    BY <1>1, CopyRead DEF WholeCopy
  <2> QED
    BY <1>6, <2>1
<1> QED
  BY <1>1, <1>5, <1>6, <1>7, <1>8 DEF AsksForElement, Unsigned

(* What is asked for when a literal has been found. *)
LEMMA LiteralAsks ==
    ASSUME InBounds, pc = "opcode", IsLiteral(tag), full_length \in 0 .. end - body,
           src' = body, opcode' = tag, UNCHANGED <<input, where, end>>,
           pending' # NoCall, pending'.kind = "literal",
           pending'.bytes = Bytes(body, full_length)
    PROVE  AsksForElement'
<1>1. src' = src + HeaderLen(tag)
  BY LiteralRead
<1>2. /\ at' = at /\ at' \in 0 .. n' - 1 /\ opcode' = TagAt(input', at')
      /\ n' - end' + src' = BodyAt(input', at')
  BY <1>1, PlaceKept
<1>3. WholeLiteral(input, at) /\ pending'.bytes = LiteralAt(input, at).bytes
  BY LiteralFound
<1>4. WholeLiteral(input', at') /\ pending'.bytes = LiteralAt(input', at').bytes
  BY <1>2, <1>3
<1> QED
  BY <1>2, <1>4 DEF AsksForElement

LEMMA AskFastAsks == InBounds /\ AskFast => AsksForElement'
<1> SUFFICES ASSUME InBounds, AskFast PROVE AsksForElement'
  OBVIOUS
<1>1. pc = "opcode" /\ IsLiteral(tag) /\ opcode' = tag /\ src' = src + 1
      /\ UNCHANGED <<input, where, end>>
      /\ short_length <= 16 /\ end - (src + 1) >= 16
  BY DEF AskFast, Fast
<1>2. short_length \in 1 .. 16 /\ ~long
  BY <1>1, LiteralFields DEF InBounds, long
<1>3. full_length = short_length /\ body = src + 1
  BY <1>2 DEF full_length, body
<1>4. full_length \in 0 .. end - body
  BY <1>1, <1>2, <1>3, HeaderReadable
<1>5. pending' = [kind |-> "literal", bytes |-> Bytes(body, full_length),
                  ahead |-> Bytes(src + 1 + short_length, 16 - short_length),
                  fast |-> TRUE]
  BY <1>3 DEF AskFast, Ask
<1>6. pending' # NoCall
  <2>1. InBounds' /\ pc' = "append"
    BY AskFastInductive DEF AskFast
  <2> QED
    BY <2>1 DEF InBounds, TypeOK
<1> QED
  BY <1>1, <1>3, <1>4, <1>5, <1>6, LiteralAsks

LEMMA AskExactAsks == InBounds /\ AskExact => AsksForElement'
<1> SUFFICES ASSUME InBounds, AskExact PROVE AsksForElement'
  OBVIOUS
<1>1. pc = "opcode" /\ IsLiteral(tag) /\ opcode' = tag /\ src' = body
      /\ UNCHANGED <<input, where, end>>
      /\ full_length >= 0 /\ end - body >= full_length
  BY DEF AskExact, Enough
<1>2. full_length \in 0 .. end - body
  BY <1>1, LiteralFields, HeaderReadable DEF InBounds
<1>3. pending' = [kind |-> "literal", bytes |-> Bytes(body, full_length),
                  ahead |-> <<>>, fast |-> FALSE]
  BY DEF AskExact, Ask
<1>4. pending' # NoCall
  <2>1. InBounds' /\ pc' = "append"
    BY AskExactInductive DEF AskExact
  <2> QED
    BY <2>1 DEF InBounds, TypeOK
<1> QED
  BY <1>1, <1>2, <1>3, <1>4, LiteralAsks

(* While the writer is not asked, and when nothing changes. *)
LEMMA OtherAsks ==
    /\ pc' # "append" => AsksForElement'
    /\ AsksForElement /\ UNCHANGED nvars => AsksForElement'
<1>1. pc' # "append" => AsksForElement'
  BY DEF AsksForElement
<1>2. AsksForElement /\ UNCHANGED nvars => AsksForElement'
  BY DEF AsksForElement, nvars, n, at, Place
<1> QED
  BY <1>1, <1>2

LEMMA NextAsks == InBounds /\ AsksForElement /\ [Next]_nvars => AsksForElement'
<1> SUFFICES ASSUME InBounds, AsksForElement, [Next]_nvars PROVE AsksForElement'
  OBVIOUS
<1>1. CASE AskCopy \/ AskFast \/ AskExact
  BY <1>1, AskCopyAsks, AskFastAsks, AskExactAsks
<1>2. CASE Loop \/ LiteralMalformed \/ LiteralHuge \/ Appended \/ Refused
  <2>1. pc' # "append"
    BY <1>2 DEF Loop, InPlace, Refill, Out, LiteralMalformed, LiteralHuge, Appended,
       Refused, Return
  <2> QED
    BY <2>1, OtherAsks
<1>3. CASE Returned \/ UNCHANGED nvars
  BY <1>3, OtherAsks DEF Returned
<1> QED
  BY <1>1, <1>2, <1>3 DEF Next, Body

(* Only the end of the call gives an answer. *)
LEMMA NextAnswers ==
    ASSUME answer = "none" \/ pc = "returned", [Next]_nvars
    PROVE  (answer = "none" \/ pc = "returned")'
BY DEF Next, nvars, Loop, InPlace, Refill, Out, Body, AskCopy, AskFast, AskExact,
   LiteralMalformed, LiteralHuge, Appended, Refused, Return, Returned

LEMMA StepInductive == Inductive /\ [Next]_nvars => Inductive'
BY NextInductive, NextAsks, NextAnswers DEF Inductive

-----------------------------------------------------------------------------
(* csnappy_decompress_noheader: where src may be when a tag is read, and   *)
(* what scratch holds then, for every stream.                              *)
THEOREM BoundsInvariant == Spec => []InBounds
<1>1. Init => InBounds
  BY InitInductive
<1>2. InBounds /\ [Next]_nvars => InBounds'
  BY NextInductive
<1> QED
  BY <1>1, <1>2, PTL DEF Spec

(* csnappy_decompress_noheader: the table, the masks and the shifts take   *)
(* apart what the input holds at the place of the element, whether it is   *)
(* read there or in scratch.                                               *)
THEOREM InductiveInvariant == Spec => []Inductive
<1>1. Init => Inductive
  <2>1. Init => AsksForElement /\ answer = "none"
    BY DEF Init, AsksForElement
  <2> QED
    BY <2>1, InitInductive DEF Inductive
<1>2. Inductive /\ [Next]_nvars => Inductive'
  BY StepInductive
<1> QED
  BY <1>1, <1>2, PTL DEF Spec

(* The four-byte loads after a tag, the 16-byte moves of short literals    *)
(* and the bytes of long ones are inside the input or inside scratch.      *)
THEOREM ReadsStayInside == Spec => []ReadsInside
<1>1. InBounds => ReadsInside
  BY DEF InBounds
<1> QED
  BY <1>1, BoundsInvariant, PTL

(* However often LOOP_COND has moved what is left, scratch begins with the *)
(* end of the input when a tag is read from it.                            *)
THEOREM ScratchIsTail == Spec => []ScratchHoldsTail
<1>1. InBounds => ScratchHoldsTail
  BY DEF InBounds, ScratchHoldsTail
<1> QED
  BY <1>1, BoundsInvariant, PTL

(* The writer is never asked for a copy of length zero, nor told that a    *)
(* literal may be moved 16 bytes at a time when it may not: ArrayWriter is *)
(* only called as its proofs assume.                                       *)
THEOREM CallsAreLegal == Spec => []CallsLegal
<1>1. InBounds => CallsLegal
  BY DEF InBounds
<1> QED
  BY <1>1, BoundsInvariant, PTL
-----------------------------------------------------------------------------
(* The operators of the format, as StreamDecoder has them. *)
LEMMA SameFormat ==
    ASSUME NEW s, NEW p
    PROVE  /\ Decoder!TagAt(s, p) = TagAt(s, p)
           /\ Decoder!IsLiteral(Decoder!TagAt(s, p)) <=> IsLiteral(TagAt(s, p))
           /\ Decoder!CopyLen(Decoder!TagAt(s, p)) = CopyLen(TagAt(s, p))
           /\ Decoder!BodyAt(s, p) = BodyAt(s, p)
           /\ Decoder!HeaderWhole(s, p) <=> HeaderWhole(s, p)
           /\ Decoder!LengthAt(s, p) = LengthAt(s, p)
           /\ Decoder!WholeLiteral(s, p) <=> WholeLiteral(s, p)
           /\ Decoder!WholeCopy(s, p) <=> WholeCopy(s, p)
           /\ Decoder!LiteralAt(s, p) = LiteralAt(s, p)
           /\ Decoder!CopyAt(s, p) = CopyAt(s, p)
<1>1. Decoder!TagAt(s, p) = TagAt(s, p)
  BY DEF Decoder!TagAt, TagAt
<1>2. \A t : /\ Decoder!IsLiteral(t) <=> IsLiteral(t)
             /\ Decoder!CopyLen(t) = CopyLen(t)
             /\ Decoder!HeaderLen(t) = HeaderLen(t)
  BY DEF Decoder!IsLiteral, IsLiteral, Decoder!CopyLen, CopyLen,
     Decoder!HeaderLen, HeaderLen, Decoder!ExtraBytes, ExtraBytes
<1>3. \A w : Decoder!Increment(w) = Increment(w)
  BY DEF Decoder!Increment, Increment, Decoder!MaxInt32, MaxInt32
<1>4. \A t, w : Decoder!LiteralLen(t, w) = LiteralLen(t, w)
  BY <1>3 DEF Decoder!LiteralLen, LiteralLen
<1>5. \A t, w : Decoder!CopyOffset(t, w) = CopyOffset(t, w)
  BY DEF Decoder!CopyOffset, CopyOffset
<1>6. \A b : Decoder!LittleEndian(b) = LittleEndian(b)
  BY DEF Decoder!LittleEndian, LittleEndian
<1>7. Decoder!OperandAt(s, p) = OperandAt(s, p)
  BY <1>1, <1>2, <1>6 DEF Decoder!OperandAt, OperandAt
<1>8. Decoder!BodyAt(s, p) = BodyAt(s, p)
  BY <1>1, <1>2 DEF Decoder!BodyAt, BodyAt
<1>9. Decoder!LengthAt(s, p) = LengthAt(s, p)
  BY <1>1, <1>4, <1>7 DEF Decoder!LengthAt, LengthAt
<1>10. Decoder!HeaderWhole(s, p) <=> HeaderWhole(s, p)
  BY <1>8 DEF Decoder!HeaderWhole, HeaderWhole
<1>11. Decoder!WholeLiteral(s, p) <=> WholeLiteral(s, p)
  BY <1>1, <1>2, <1>8, <1>9, <1>10 DEF Decoder!WholeLiteral, WholeLiteral
<1>12. Decoder!WholeCopy(s, p) <=> WholeCopy(s, p)
  BY <1>1, <1>2, <1>10 DEF Decoder!WholeCopy, WholeCopy
<1>13. Decoder!LiteralAt(s, p) = LiteralAt(s, p)
  BY <1>8, <1>9 DEF Decoder!LiteralAt, LiteralAt, Decoder!LiteralElement, LiteralElement
<1>14. Decoder!CopyAt(s, p) = CopyAt(s, p)
  BY <1>1, <1>2, <1>5, <1>7 DEF Decoder!CopyAt, CopyAt, Decoder!CopyElement, CopyElement
<1> QED
  BY <1>1, <1>2, <1>8, <1>9, <1>10, <1>11, <1>12, <1>13, <1>14

(* And what an element means there. *)
LEMMA SameMeaning ==
    ASSUME NEW t, NEW e, NEW u
    PROVE  Decoder!Denotes(t, e, u) <=> Denotes(t, e, u)
BY DEF Decoder!Denotes, Denotes, Decoder!IsRepeat, IsRepeat

(* Remainders repeat with the period. *)
LEMMA Periodic ==
    ASSUME NEW o \in Nat \ {0}, NEW a \in Int
    PROVE  /\ (a - o) % o = a % o
           /\ a \in 0 .. o - 1 => a % o = a
<1> DEFINE q == a \div o
           r == a % o
<1>1. r \in 0 .. o - 1
  OBVIOUS
<1>2. a - r = o * q
  OBVIOUS
<1>3. q \in Int
  OBVIOUS
<1>4. a \in 0 .. o - 1 => a % o = a
  OBVIOUS
<1>5. (a - o) % o = r
  <2> HIDE DEF q, r
  <2> DEFINE p == q - 1
  <2>1. o * (q - 1) = o * q - o
    BY <1>3
  <2>2. p \in Int /\ a - o = o * p + r
    BY <1>1, <1>2, <1>3, <2>1
  <2> DEFINE c == a - o
  <2>3. c \in Int /\ c = o * p + r
    BY <2>2
  <2> HIDE DEF p, c
  <2>4. c % o = r
    BY <1>1, <2>2, <2>3
  <2> QED
    BY <2>4 DEF c
<1> QED
  BY <1>4, <1>5

(* Writing the last o bytes over and over is to repeat the byte o places   *)
(* before, one byte after the other.                                       *)
LEMMA RepeatRepeats ==
    ASSUME NEW t \in Seq(Byte8), NEW o \in 1 .. Len(t), NEW k \in Nat
    PROVE  IsRepeat(t, Repeat(t, o, k), o, k)
<1> DEFINE l == Len(t)
           w == [i \in 1 .. k |-> t[l - o + 1 + ((i - 1) % o)]]
           u == Repeat(t, o, k)
<1>1. l \in Nat /\ o \in Nat \ {0} /\ o <= l /\ l = Len(t)
  BY LenProperties
<1>2. u \in Seq(Byte8) /\ Len(u) = l + k
  BY RepeatShape
<1>3. u = t \o w
  BY DEF Repeat
<1>4. w \in Seq(Byte8) /\ Len(w) = k
  <2>1. \A i \in 1 .. k : t[l - o + 1 + ((i - 1) % o)] \in Byte8
    <3> SUFFICES ASSUME NEW i \in 1 .. k
                 PROVE  t[l - o + 1 + ((i - 1) % o)] \in Byte8
      OBVIOUS
    <3>1. (i - 1) % o \in 0 .. o - 1
      OBVIOUS
    <3>2. l - o + 1 + ((i - 1) % o) \in 1 .. Len(t)
      BY <1>1, <3>1
    <3> QED
      BY <3>2, ElementOfSeq
  <2>2. w \in [1 .. k -> Byte8]
    BY <2>1
  <2> QED
    BY <2>2
<1>5. \A i \in 1 .. k : w[i] = t[l - o + 1 + ((i - 1) % o)]
  OBVIOUS
<1> HIDE DEF w, u, l
<1>6. \A i \in 1 .. l + k : u[i] = IF i <= l THEN t[i] ELSE w[i - l]
  BY <1>1, <1>3, <1>4, ConcatProperties
<1>7. ASSUME NEW i \in 1 .. l + k, l < i
      PROVE  u[i] = u[i - o]
  <2> DEFINE j == i - l
  <2>1. j \in 1 .. k /\ i = l + j
    BY <1>1, <1>7
  <2> HIDE DEF j
  <2>2. u[i] = t[l - o + 1 + ((j - 1) % o)]
    <3>1. u[i] = w[i - l] /\ i - l = j
      BY <1>1, <1>6, <1>7, <2>1
    <3> QED
      BY <1>5, <2>1, <3>1
  <2>3. i - o \in 1 .. l + k
    BY <1>1, <1>7
  <2>4. CASE j <= o
    <3>1. (j - 1) % o = j - 1
      <4>1. j - 1 \in 0 .. o - 1 /\ j - 1 \in Int
        BY <2>1, <2>4, <1>1
      <4> QED
        BY <4>1, <1>1, Periodic
    <3>2. l - o + 1 + ((j - 1) % o) = i - o /\ i - o <= l
      BY <1>1, <2>1, <2>4, <3>1
    <3>3. u[i - o] = t[i - o]
      BY <1>6, <2>3, <3>2
    <3> QED
      BY <2>2, <3>2, <3>3
  <2>5. CASE ~(j <= o)
    <3>1. j - o \in 1 .. k /\ ~(i - o <= l) /\ (i - o) - l = j - o
      BY <1>1, <2>1, <2>5
    <3>2. u[i - o] = w[j - o]
      BY <1>6, <2>3, <3>1
    <3>3. w[j - o] = t[l - o + 1 + (((j - o) - 1) % o)]
      BY <1>5, <3>1
    <3>4. (j - o) - 1 = (j - 1) - o /\ j - 1 \in Int
      BY <1>1, <2>1
    <3>5. ((j - 1) - o) % o = (j - 1) % o
      BY <1>1, <3>4, Periodic
    <3> QED
      BY <2>2, <3>2, <3>3, <3>4, <3>5
  <2> QED
    BY <2>4, <2>5
<1>8. \A i \in 1 .. Len(u) : u[i] = IF i <= l THEN t[i] ELSE u[i - o]
  <2> SUFFICES ASSUME NEW i \in 1 .. l + k
               PROVE  u[i] = IF i <= l THEN t[i] ELSE u[i - o]
    BY <1>2
  <2>1. i <= l \/ l < i
    BY <1>1
  <2> QED
    BY <1>6, <1>7, <2>1
<1> QED
  BY <1>1, <1>2, <1>8 DEF IsRepeat, u, l

-----------------------------------------------------------------------------
(* Nothing is decoded by taking an element apart. *)
LEMMA AskStutters ==
    ASSUME InBounds, AskCopy \/ AskFast \/ AskExact
    PROVE  at' = at
<1>1. /\ pc = "opcode" /\ opcode' = tag /\ UNCHANGED <<input, where, end>>
      /\ pc' = "append"
  BY DEF AskCopy, AskFast, AskExact
<1>2. pending' # NoCall
  <2>1. InBounds'
    BY AskCopyInductive, AskFastInductive, AskExactInductive
  <2> QED
    BY <1>1, <2>1 DEF InBounds, TypeOK
<1>3. src' = src + HeaderLen(tag)
  <2>1. CASE AskCopy
    BY <1>1, <2>1, CopyRead DEF AskCopy
  <2>2. CASE AskFast
    <3>1. body = src + 1
      BY <1>1, <2>2, LiteralFields DEF AskFast, Fast, InBounds, body, long
    <3> QED
      BY <1>1, <2>2, <3>1, LiteralRead DEF AskFast
  <2>3. CASE AskExact
    BY <1>1, <2>3, LiteralRead DEF AskExact
  <2> QED
    BY <2>1, <2>2, <2>3
<1> QED
  BY <1>1, <1>2, <1>3, PlaceKept

(* Nor by moving what is left to scratch. *)
LEMMA LoopStutters ==
    ASSUME InBounds, InPlace \/ Refill
    PROVE  at' = at
<1>1. /\ n \in Nat /\ src \in Nat /\ end \in Nat /\ where \in {"input", "scratch"}
      /\ end <= n /\ (where = "input" => end = n)
  BY LenProperties DEF InBounds, TypeOK, n
<1>2. pending = NoCall /\ pending' = NoCall /\ n' = n
  BY DEF InBounds, InPlace, Refill, n
<1>3. CASE InPlace
  BY <1>2, <1>3 DEF InPlace, at, Place
<1>4. CASE Refill
  <2>1. src < end /\ at = n - end + src
    BY <1>1, <1>2, <1>4 DEF Refill, available, at, Place
  <2>2. where' = "scratch" /\ src' = 0 /\ end' = end - src
    BY <1>4 DEF Refill, MovedEnd, available
  <2>3. at' = IF n - end' + 0 > n THEN n ELSE n - end' + 0
    BY <1>2, <2>2 DEF at, Place
  <2> QED
    BY <1>1, <2>1, <2>2, <2>3
<1> QED
  BY <1>3, <1>4

(* Nothing is left: the call is over. *)
LEMMA OutFinishes == Inductive /\ Out => Decoder!Next
<1> SUFFICES ASSUME Inductive, Out PROVE Decoder!Next
  OBVIOUS
<1>1. /\ n \in Nat /\ src \in Nat /\ end \in Nat /\ where \in {"input", "scratch"}
      /\ end <= n /\ (where = "input" => end = n)
  BY LenProperties DEF Inductive, InBounds, TypeOK, n
<1>2. pending = NoCall /\ end - src <= 0 /\ answer = "none"
  BY DEF Out, available, Inductive, InBounds
<1>3. at = n
  BY <1>1, <1>2 DEF at, Place
<1>4. at' = at
  BY DEF Out, Return, at, Place, n
<1> QED
  BY <1>2, <1>3, <1>4 DEF Decoder!Next, Decoder!Finish, Out, Return, n

(* A literal that is cut off or too long to be there is refused. *)
LEMMA LiteralRefused ==
    Inductive /\ (LiteralMalformed \/ LiteralHuge) => Decoder!Next
<1> SUFFICES ASSUME Inductive, LiteralMalformed \/ LiteralHuge PROVE Decoder!Next
  OBVIOUS
<1>1. /\ pc = "opcode" /\ IsLiteral(tag)
      /\ UNCHANGED <<input, limit, where, src, end, opcode, pending, text>>
      /\ answer = "none"
  BY DEF LiteralMalformed, LiteralHuge, Inductive
<1>2. at' = at
  BY <1>1 DEF at, Place, n
<1>3. at < Len(input) /\ tag = TagAt(input, at)
  BY <1>1, TagPlace DEF Inductive, n
<1>4. full_length \in Int /\ body \in Int /\ end \in Int
  BY <1>1, LiteralFields DEF Inductive, InBounds, TypeOK
<1>5. ~WholeLiteral(input, at)
  <2>1. full_length \notin 0 .. end - body
    BY <1>4 DEF LiteralMalformed, LiteralHuge, Enough
  <2> QED
    BY <1>1, <2>1, LiteralTorn DEF Inductive
<1>6. \/ answer' = "malformed"
      \/ /\ answer' = "overrun"
         /\ ~HeaderWhole(input, at) \/ LengthAt(input, at) < 0
  <2>1. CASE LiteralMalformed
    BY <2>1 DEF LiteralMalformed, Return
  <2>2. CASE LiteralHuge
    <3>1. full_length < 0 /\ answer' = "overrun"
      BY <2>2 DEF LiteralHuge, Return
    <3>2. HeaderWhole(input, at) => LengthAt(input, at) = full_length
      BY <1>1, LiteralRead DEF Inductive
    <3> QED
      BY <3>1, <3>2
  <2> QED
    BY <2>1, <2>2
<1>7. Decoder!TornLiteral
  BY <1>1, <1>2, <1>3, <1>5, <1>6, SameFormat DEF Decoder!TornLiteral, Decoder!TooLongOrTorn
<1> QED
  BY <1>1, <1>3, <1>7 DEF Decoder!Next, Decoder!Element

-----------------------------------------------------------------------------
(* What is known of the element when the writer answers. *)
LEMMA Asked ==
    ASSUME Inductive, pc = "append"
    PROVE  /\ pending # NoCall /\ answer = "none"
           /\ at \in Nat /\ at < n /\ n = Len(input) /\ n \in Nat
           /\ input \in Seq(Byte8) /\ at \in 0 .. Len(input) - 1
           /\ text \in Seq(Byte8) /\ Len(text) \in Nat
           /\ limit \in 0 .. MaxInt32 - 1 /\ Len(text) <= limit
           /\ src \in Nat /\ end \in Nat /\ n - end + src = BodyAt(input, at)
           /\ where = "input" => end = n
           /\ where \in {"input", "scratch"}
<1>1. /\ n = Len(input) /\ n \in Nat /\ src \in Nat /\ end \in Nat
      /\ end <= n /\ where \in {"input", "scratch"} /\ (where = "input" => end = n)
      /\ pending # NoCall /\ answer = "none" /\ input \in Seq(Byte8)
      /\ text \in Seq(Byte8) /\ Len(text) \in Nat
      /\ limit \in 0 .. MaxInt32 - 1 /\ Len(text) <= limit
  BY LenProperties DEF Inductive, InBounds, TypeOK, n
<1>2. at \in 0 .. n - 1 /\ n - end + src = BodyAt(input, at)
  BY DEF Inductive, AsksForElement
<1> QED
  BY <1>1, <1>2

(* A number as large as this is best left unexpanded. *)
LEMMA MaxInt32Int == MaxInt32 \in Int
BY SMT DEF MaxInt32

(* An offset of 2^31 or more is beyond every text. *)
LEMMA UnsignedReach ==
    ASSUME NEW o \in Int, NEW l \in Nat, NEW room \in 0 .. MaxInt32 - 1, l <= room
    PROVE  /\ Unsigned(o) \in 1 .. l <=> o \in 1 .. l
           /\ o \in 1 .. l => Unsigned(o) = o
<1>1. MaxInt32 \in Int
  BY MaxInt32Int
<1>2. CASE o < 0
  <2>1. Unsigned(o) = MaxInt32
    BY <1>2 DEF Unsigned
  <2>2. ~(MaxInt32 <= l) /\ ~(1 <= o)
    BY <1>1, <1>2
  <2> QED
    BY <2>1, <2>2
<1>3. CASE ~(o < 0)
  BY <1>3 DEF Unsigned
<1> QED
  BY <1>2, <1>3

(* Where the body of an element starts. *)
LEMMA BodyAfterTag ==
    ASSUME NEW s \in Seq(Byte8), NEW p \in 0 .. Len(s) - 1
    PROVE  /\ TagAt(s, p) \in Byte8
           /\ p \in Nat /\ BodyAt(s, p) \in Nat /\ p < BodyAt(s, p)
<1>1. TagAt(s, p) \in Byte8
  BY ElementOfSeq DEF TagAt
<1> QED
  BY <1>1, HeaderLength DEF BodyAt

(* The offset of a copy is a number ... *)
LEMMA CopyOffsetInt ==
    ASSUME NEW t \in Byte8, NEW w \in Int PROVE CopyOffset(t, w) \in Int
BY DEF CopyOffset, Byte8

(* ... if all its bytes are there, as is every operand ... *)
LEMMA OperandInt ==
    ASSUME NEW s \in Seq(Byte8), NEW p \in 0 .. Len(s) - 1, HeaderWhole(s, p)
    PROVE  TagAt(s, p) \in Byte8 /\ OperandAt(s, p) \in Int
<1>1. /\ TagAt(s, p) \in Byte8 /\ p \in Nat /\ BodyAt(s, p) \in Nat
      /\ Len(s) \in Nat
  BY BodyAfterTag, LenProperties
<1> DEFINE m == p + 2
           k == p + HeaderLen(TagAt(s, p))
<1>2. m \in Int /\ k \in Int /\ \A i \in m .. k : s[i] \in Byte8
  <2>1. k <= Len(s) /\ k \in Int
    BY <1>1 DEF HeaderWhole, BodyAt
  <2> QED
    BY <1>1, <2>1, ElementOfSeq
<1>3. OperandAt(s, p) = LittleEndian(SubSeq(s, m, k))
  BY DEF OperandAt
<1> HIDE DEF m, k
<1>4. SubSeq(s, m, k) \in Seq(Byte8)
  BY <1>2, SubSeqProperties
<1>5. OperandAt(s, p) \in Int
  BY <1>3, <1>4, LittleEndianInt
<1> QED
  BY <1>1, <1>5

LEMMA OffsetInt ==
    ASSUME NEW s \in Seq(Byte8), NEW p \in 0 .. Len(s) - 1, HeaderWhole(s, p)
    PROVE  CopyAt(s, p).offset \in Int
<1>1. CopyOffset(TagAt(s, p), OperandAt(s, p)) \in Int
  BY OperandInt, CopyOffsetInt
<1> QED
  BY <1>1 DEF CopyAt, CopyElement

(* ... and the length of a literal. *)
LEMMA LengthInt ==
    ASSUME NEW s \in Seq(Byte8), NEW p \in 0 .. Len(s) - 1, HeaderWhole(s, p)
    PROVE  LengthAt(s, p) \in Int
<1>1. TagAt(s, p) \in 0 .. 255 /\ OperandAt(s, p) \in Int
  BY OperandInt DEF Byte8
<1>2. \A w \in Int : Increment(w) \in Int
  BY SMT DEF Increment, MaxInt32
<1>3. \A t \in 0 .. 255, w \in Int : LiteralLen(t, w) \in Int
  BY <1>2 DEF LiteralLen
<1> QED
  BY <1>1, <1>3 DEF LengthAt

(* A literal that is whole ends inside the input. *)
LEMMA LiteralEnds ==
    ASSUME NEW s \in Seq(Byte8), NEW p \in 0 .. Len(s) - 1, WholeLiteral(s, p)
    PROVE  /\ LiteralAt(s, p).bytes \in Seq(Byte8)
           /\ Len(LiteralAt(s, p).bytes) \in Nat
           /\ Len(LiteralAt(s, p).bytes) = LengthAt(s, p)
           /\ BodyAt(s, p) + Len(LiteralAt(s, p).bytes) <= Len(s)
<1> DEFINE b == BodyAt(s, p)
           l == LengthAt(s, p)
<1>1. b \in Nat /\ Len(s) \in Nat
  BY BodyAfterTag, LenProperties
<1>2. l \in Nat /\ b + l <= Len(s)
  <2>1. l \in 0 .. Len(s) - b
    BY DEF WholeLiteral
  <2> QED
    BY <1>1, <2>1
<1>3. LiteralAt(s, p).bytes = SubSeq(s, b + 1, b + l)
  BY DEF LiteralAt, LiteralElement
<1> HIDE DEF b, l
<1> DEFINE m == b + 1
           k == b + l
<1>4. \A i \in m .. k : s[i] \in Byte8
  BY <1>1, <1>2, ElementOfSeq
<1>5. m \in Int /\ k \in Int /\ k - m + 1 = l /\ (m <= k <=> l >= 1)
  BY <1>1, <1>2
<1>6. LiteralAt(s, p).bytes = SubSeq(s, m, k)
  BY <1>3
<1> HIDE DEF m, k
<1>7. /\ SubSeq(s, m, k) \in Seq(Byte8)
      /\ Len(SubSeq(s, m, k)) = IF m <= k THEN k - m + 1 ELSE 0
  BY <1>4, <1>5, SubSeqProperties
<1>8. Len(LiteralAt(s, p).bytes) = l
  BY <1>2, <1>5, <1>6, <1>7
<1> QED
  BY <1>2, <1>6, <1>7, <1>8 DEF b, l

(* The writer refuses the element for one of the reasons of the decoder. *)
LEMMA RefusedRefuses == Inductive /\ Refused => Decoder!Next
<1> SUFFICES ASSUME Inductive, Refused PROVE Decoder!Next
  OBVIOUS
<1>1. /\ pc = "append" /\ UNCHANGED <<input, limit, where, src, end, opcode, pending, text>>
      /\ \/ Writer!BadOffset(pending) /\ answer' = "malformed"
         \/ ~Writer!BadOffset(pending) /\ Writer!TooLong(pending) /\ answer' = "overrun"
  BY DEF Refused, Return
<1>2. at' = at
  BY <1>1 DEF at, Place, n
<1>3. /\ answer = "none" /\ at < Len(input) /\ Len(text) \in Nat
      /\ limit \in 0 .. MaxInt32 - 1 /\ Len(text) <= limit
      /\ input \in Seq(Byte8) /\ at \in 0 .. Len(input) - 1
  BY <1>1, Asked
<1>4. opcode = TagAt(input, at)
  BY <1>1 DEF Inductive, AsksForElement
<1>5. CASE IsLiteral(opcode)
  <2>1. /\ WholeLiteral(input, at) /\ pending.kind = "literal"
        /\ pending.bytes = LiteralAt(input, at).bytes
    BY <1>1, <1>5 DEF Inductive, AsksForElement
  <2>2. answer' = "overrun" /\ ~(Len(text) + Len(LiteralAt(input, at).bytes) <= limit)
    <3>1. Len(LiteralAt(input, at).bytes) \in Nat
      BY <1>3, <2>1, LiteralEnds
    <3>2. answer' = "overrun" /\ Len(text) + Len(LiteralAt(input, at).bytes) > limit
      BY <1>1, <2>1 DEF Writer!BadOffset, Writer!TooLong, Writer!ResultLen
    <3> QED
      BY <1>3, <3>1, <3>2
  <2>3. Decoder!Literal
    BY <1>1, <1>2, <2>1, <2>2, SameFormat DEF Decoder!Literal, Decoder!Fits
  <2> QED
    BY <1>1, <1>3, <2>3 DEF Decoder!Next, Decoder!Element
<1>6. CASE ~IsLiteral(opcode) /\ HeaderWhole(input, at)
  <2>1. /\ WholeCopy(input, at) /\ pending.kind = "copy" /\ pending.len = CopyLen(opcode)
        /\ pending.offset = Unsigned(CopyAt(input, at).offset)
    BY <1>1, <1>4, <1>6 DEF Inductive, AsksForElement, WholeCopy
  <2>2. CopyAt(input, at).offset \in Int /\ CopyAt(input, at).len = CopyLen(opcode)
    BY <1>3, <1>4, <1>6, OffsetInt DEF CopyAt, CopyElement
  <2>3. pending.offset \in 1 .. Len(text) <=> CopyAt(input, at).offset \in 1 .. Len(text)
    BY <1>3, <2>1, <2>2, UnsignedReach
  <2>4. CopyLen(opcode) \in Nat
    BY <1>1 DEF CopyLen, Byte8, Inductive, InBounds, TypeOK
  <2>5. \/ CopyAt(input, at).offset \notin 1 .. Len(text) /\ answer' = "malformed"
        \/ /\ CopyAt(input, at).offset \in 1 .. Len(text) /\ answer' = "overrun"
           /\ ~(Len(text) + CopyAt(input, at).len <= limit)
    <3>1. Writer!BadOffset(pending) <=> CopyAt(input, at).offset \notin 1 .. Len(text)
      BY <2>1, <2>3 DEF Writer!BadOffset
    <3>2. Writer!TooLong(pending) => ~(Len(text) + CopyAt(input, at).len <= limit)
      BY <1>3, <2>1, <2>2, <2>4 DEF Writer!TooLong, Writer!ResultLen
    <3> QED
      BY <1>1, <3>1, <3>2
  <2>6. Decoder!Copy
    BY <1>1, <1>2, <2>1, <2>5, SameFormat DEF Decoder!Copy, Decoder!Fits, Decoder!Reachable
  <2> QED
    BY <1>1, <1>3, <2>6 DEF Decoder!Next, Decoder!Element
<1>7. CASE ~IsLiteral(opcode) /\ ~HeaderWhole(input, at)
  <2>1. Decoder!TornCopy
    BY <1>1, <1>2, <1>4, <1>7, SameFormat DEF Decoder!TornCopy
  <2> QED
    BY <1>1, <1>3, <2>1 DEF Decoder!Next, Decoder!Element
<1> QED
  BY <1>5, <1>6, <1>7

(* The writer has appended what the element means. *)
LEMMA AppendedDecodes == Inductive /\ Appended => Decoder!Next
<1> SUFFICES ASSUME Inductive, Appended PROVE Decoder!Next
  OBVIOUS
<1>1. /\ pc = "append" /\ UNCHANGED <<input, limit, where, end, answer>>
      /\ ~Writer!BadOffset(pending) /\ ~Writer!TooLong(pending) /\ pending' = NoCall
  BY DEF Appended
<1>2. /\ answer = "none" /\ at < n /\ n = Len(input) /\ n \in Nat
      /\ input \in Seq(Byte8) /\ at \in 0 .. Len(input) - 1
      /\ text \in Seq(Byte8) /\ Len(text) \in Nat
      /\ limit \in 0 .. MaxInt32 - 1 /\ Len(text) <= limit
      /\ src \in Nat /\ end \in Nat /\ n - end + src = BodyAt(input, at)
      /\ (where = "input" => end = n) /\ where \in {"input", "scratch"}
  BY <1>1, Asked
<1>3. opcode = TagAt(input, at)
  BY <1>1 DEF Inductive, AsksForElement
<1>4. \A k \in Nat : src' = src + k =>
         at' = IF BodyAt(input, at) + k > n THEN n ELSE BodyAt(input, at) + k
  <2> SUFFICES ASSUME NEW k \in Nat, src' = src + k
               PROVE  at' = IF BodyAt(input, at) + k > n THEN n ELSE BodyAt(input, at) + k
    OBVIOUS
  <2>1. n' = n /\ where' = where /\ end' = end
    BY <1>1 DEF n
  <2>2. at' = LET q == IF where = "input" THEN src + k ELSE n - end + (src + k)
              IN  IF q > n THEN n ELSE q
    BY <1>1, <2>1 DEF at, Place
  <2> QED
    BY <1>2, <2>2
<1>5. CASE IsLiteral(opcode)
  <2>1. /\ WholeLiteral(input, at) /\ pending.kind = "literal"
        /\ pending.bytes = LiteralAt(input, at).bytes
    BY <1>1, <1>5 DEF Inductive, AsksForElement
  <2> DEFINE e == LiteralAt(input, at)
             k == Len(e.bytes)
  <2>2. k \in Nat /\ BodyAt(input, at) + k <= n
    BY <1>2, <2>1, LiteralEnds
  <2>3. text' = text \o e.bytes /\ src' = src + k
    BY <2>1 DEF Appended
  <2>4. e.kind = "literal"
    BY DEF LiteralAt, LiteralElement
  <2> HIDE DEF e
  <2>5. Denotes(text, e, text')
    BY <2>3, <2>4 DEF Denotes
  <2>6. at' = BodyAt(input, at) + k
    BY <1>2, <1>4, <2>2, <2>3
  <2>7. Len(text) + k <= limit
    BY <1>1, <1>2, <2>1, <2>2 DEF Writer!TooLong, Writer!ResultLen, e
  <2>8. Decoder!Literal
    BY <1>1, <2>1, <2>5, <2>6, <2>7, SameFormat, SameMeaning
       DEF Decoder!Literal, Decoder!Fits, e
  <2> QED
    BY <1>1, <1>2, <2>8 DEF Decoder!Next, Decoder!Element
<1>6. ASSUME ~IsLiteral(opcode)
      PROVE  /\ pending.offset \in 1 .. Len(text)
             /\ Denotes(text, CopyElement(pending.offset, CopyLen(opcode)), text')
             /\ Len(text) + CopyLen(opcode) <= limit
             /\ at' = IF BodyAt(input, at) > n THEN n ELSE BodyAt(input, at)
  <2>1. pending.kind = "copy" /\ pending.len = CopyLen(opcode)
    BY <1>1, <1>6 DEF Inductive, AsksForElement
  <2>2. CopyLen(opcode) \in Nat
    BY <1>1 DEF CopyLen, Byte8, Inductive, InBounds, TypeOK
  <2>3. pending.offset \in 1 .. Len(text)
    BY <1>1, <2>1 DEF Writer!BadOffset
  <2>4. Len(text) + CopyLen(opcode) <= limit
    BY <1>1, <1>2, <2>1, <2>2 DEF Writer!TooLong, Writer!ResultLen
  <2>5. text' = Repeat(text, pending.offset, CopyLen(opcode)) /\ src' = src
    BY <2>1 DEF Appended
  <2>6. IsRepeat(text, text', pending.offset, CopyLen(opcode))
    BY <1>2, <2>2, <2>3, <2>5, RepeatRepeats
  <2>7. Denotes(text, CopyElement(pending.offset, CopyLen(opcode)), text')
    BY <2>6 DEF Denotes, CopyElement
  <2>8. src' = src + 0 /\ BodyAt(input, at) + 0 = BodyAt(input, at)
    BY <1>2, <2>5
  <2>9. at' = IF BodyAt(input, at) > n THEN n ELSE BodyAt(input, at)
    BY <1>4, <2>8
  <2> QED
    BY <2>3, <2>4, <2>7, <2>9
<1>7. CASE ~IsLiteral(opcode) /\ HeaderWhole(input, at)
  <2>1. WholeCopy(input, at) /\ pending.offset = Unsigned(CopyAt(input, at).offset)
    BY <1>1, <1>3, <1>7 DEF Inductive, AsksForElement, WholeCopy
  <2>2. CopyAt(input, at).offset \in Int
    BY <1>2, <1>7, OffsetInt
  <2>3. CopyAt(input, at).offset = pending.offset
    BY <1>2, <1>6, <1>7, <2>1, <2>2, UnsignedReach
  <2>4. CopyAt(input, at) = CopyElement(pending.offset, CopyLen(opcode))
    BY <1>3, <2>3 DEF CopyAt, CopyElement
  <2>5. CopyAt(input, at).len = CopyLen(opcode)
    BY <2>4 DEF CopyElement
  <2>6. at' = BodyAt(input, at)
    BY <1>2, <1>6, <1>7 DEF HeaderWhole
  <2>7. Decoder!Copy
    <3>1. Denotes(text, CopyAt(input, at), text')
      BY <1>6, <1>7, <2>4
    <3>2. /\ CopyAt(input, at).offset \in 1 .. Len(text)
          /\ Len(text) + CopyAt(input, at).len <= limit
      BY <1>6, <1>7, <2>3, <2>5
    <3> QED
      BY <1>1, <2>1, <2>6, <3>1, <3>2, SameFormat, SameMeaning
         DEF Decoder!Copy, Decoder!Fits, Decoder!Reachable
  <2> QED
    BY <1>1, <1>2, <2>7 DEF Decoder!Next, Decoder!Element
<1>8. CASE ~IsLiteral(opcode) /\ ~HeaderWhole(input, at)
  <2>1. at' = Len(input)
    BY <1>2, <1>6, <1>8 DEF HeaderWhole
  <2>2. Decoder!Denotes(text, Decoder!CopyElement(pending.offset, CopyLen(opcode)), text')
    BY <1>6, <1>8, SameMeaning DEF Decoder!CopyElement, CopyElement
  <2>3. Decoder!TornCopy
    BY <1>1, <1>3, <1>6, <1>8, <2>1, <2>2, SameFormat DEF Decoder!TornCopy, Decoder!Fits
  <2> QED
    BY <1>1, <1>2, <2>3 DEF Decoder!Next, Decoder!Element
<1> QED
  BY <1>5, <1>7, <1>8

(* Every step of the loop decodes an element, ends the call or is none of  *)
(* the decoder's business.                                                 *)
LEMMA NextDecodes ==
    ASSUME Inductive, [Next]_nvars PROVE Decoder!Next \/ UNCHANGED Decoder!dvars
<1>1. CASE InPlace \/ Refill
  <2>1. UNCHANGED <<input, limit, text, answer>>
    BY <1>1 DEF InPlace, Refill
  <2> QED
    BY <1>1, <2>1, LoopStutters DEF Inductive, Decoder!dvars
<1>2. CASE AskCopy \/ AskFast \/ AskExact
  <2>1. UNCHANGED <<input, limit, text, answer>>
    BY <1>2 DEF AskCopy, AskFast, AskExact
  <2> QED
    BY <1>2, <2>1, AskStutters DEF Inductive, Decoder!dvars
<1>3. CASE Out \/ LiteralMalformed \/ LiteralHuge \/ Appended \/ Refused
  BY <1>3, OutFinishes, LiteralRefused, AppendedDecodes, RefusedRefuses
<1>4. CASE Returned \/ UNCHANGED nvars
  <2>1. UNCHANGED <<input, limit, text, answer>> /\ at' = at
    BY <1>4 DEF Returned, nvars, at, Place, n
  <2> QED
    BY <2>1 DEF Decoder!dvars
<1> QED
  BY <1>1, <1>2, <1>3, <1>4 DEF Next, Loop, Body

(* Through the table, the masks and the scratch buffer, the decoder takes  *)
(* every element for what the format says it is, for every stream and      *)
(* room, and refuses it for the reasons StreamDecoder gives.               *)
THEOREM Implements == Spec => DecodesStream
<1>1. Init => Decoder!Init
  <2> SUFFICES ASSUME Init PROVE Decoder!Init
    OBVIOUS
  <2>1. Inductive
    BY InitInductive DEF Init, Inductive, AsksForElement
  <2>2. input \in Seq(Byte8) /\ limit \in Nat
    <3>1. limit \in 0 .. MaxInt32 - 1
      BY <2>1 DEF Inductive, InBounds, TypeOK
    <3> QED
      BY <2>1, <3>1, MaxInt32Int DEF Inductive, InBounds, TypeOK
  <2>3. at = 0
    <3>1. n \in Nat
      BY <2>2, LenProperties DEF n
    <3> QED
      BY <3>1 DEF Init, at, Place
  <2>4. Decoder!Byte8 = Byte8
    BY DEF Decoder!Byte8, Byte8
  <2> QED
    BY <2>2, <2>3, <2>4 DEF Init, Decoder!Init
<1>2. Inductive /\ [Next]_nvars => [Decoder!Next]_Decoder!dvars
  BY NextDecodes
<1> QED
  BY <1>1, <1>2, InductiveInvariant, PTL DEF Spec, DecodesStream, Decoder!Spec

-----------------------------------------------------------------------------
(* csnappy_decompress: what it touches before it comes to the elements.    *)

(* A read that ends inside the input. *)
LEMMA TouchInput ==
    ASSUME CallInductive, pc # "astray", where = "input", input' = input,
           NEW p \in 0 .. n, Touch(p)
    PROVE  CallReads' /\ inHigh' \in Nat /\ scratchHigh' \in Nat
<1>1. n \in Nat /\ n' = n
  BY LenProperties DEF CallInductive, n
<1>2. ReadsInside
  BY DEF CallInductive, CallReads, AtLongLiteral
<1> QED
  BY <1>1, <1>2 DEF CallInductive, CallReads, ReadsInside, Touch, Higher

-----------------------------------------------------------------------------
(* The loop without scratch buffer and table.                              *)

(* The element that the next iteration looks at. *)
LEMMA IterationAt ==
    ASSUME CallInductive, pc = "while"
    PROVE  /\ n \in Nat /\ n = Len(input) /\ src \in 0 .. n /\ input \in Seq(Byte8)
           /\ where = "input" /\ pending = NoCall /\ answer = "none"
           /\ limit \in 0 .. MaxInt32 - 1 /\ text \in Seq(Byte8)
           /\ Len(text) \in Nat /\ Len(text) <= limit
           /\ at = src
<1>1. n \in Nat /\ n = Len(input) /\ input \in Seq(Byte8)
  BY LenProperties DEF CallInductive, n
<1>2. SimpleInductive
  BY DEF CallInductive, Started
<1>3. at = src
  BY <1>1, <1>2 DEF at, Place, SimpleInductive
<1> QED
  BY <1>1, <1>2, <1>3, LenProperties DEF SimpleInductive

(* What the element is, if it is whole. *)
LEMMA WholeElement ==
    ASSUME CallInductive, pc = "while", src < n, IsWhole(input, src)
    PROVE  LET e == ElementAt(input, src) IN
           \/ /\ IsLiteral(TagAt(input, src)) /\ WholeLiteral(input, src)
              /\ e = LiteralAt(input, src) /\ e.kind = "literal"
              /\ e.bytes \in Seq(Byte8)
              /\ BodyAt(input, src) + Len(e.bytes) <= n
           \/ /\ ~IsLiteral(TagAt(input, src)) /\ WholeCopy(input, src)
              /\ e = CopyAt(input, src) /\ e.kind = "copy"
              /\ e.offset \in Int /\ e.len \in Nat \ {0}
              /\ e = CopyElement(e.offset, e.len)
              /\ BodyAt(input, src) <= n
<1>1. n = Len(input) /\ input \in Seq(Byte8) /\ src \in 0 .. Len(input) - 1
  BY IterationAt
<1>2. TagAt(input, src) \in Byte8
  BY <1>1, BodyAfterTag
<1>3. CASE IsLiteral(TagAt(input, src))
  <2>1. WholeLiteral(input, src)
    BY <1>3 DEF IsWhole, WholeCopy
  <2>2. ElementAt(input, src) = LiteralAt(input, src)
    BY <1>3 DEF ElementAt
  <2>3. LiteralAt(input, src).kind = "literal"
    BY DEF LiteralAt, LiteralElement
  <2> QED
    BY <1>1, <1>3, <2>1, <2>2, <2>3, LiteralEnds
<1>4. CASE ~IsLiteral(TagAt(input, src))
  <2>1. WholeCopy(input, src)
    BY <1>4 DEF IsWhole, WholeLiteral
  <2>2. ElementAt(input, src) = CopyAt(input, src)
    BY <1>4 DEF ElementAt
  <2>3. /\ CopyAt(input, src).kind = "copy"
        /\ CopyAt(input, src).len = CopyLen(TagAt(input, src))
        /\ CopyAt(input, src) = CopyElement(CopyAt(input, src).offset, CopyAt(input, src).len)
    BY DEF CopyAt, CopyElement
  <2>4. CopyAt(input, src).offset \in Int
    BY <1>1, <2>1, OffsetInt DEF WholeCopy
  <2>5. CopyLen(TagAt(input, src)) \in Nat \ {0}
    BY <1>2 DEF CopyLen, Byte8
  <2>6. BodyAt(input, src) <= n
    BY <1>1, <2>1 DEF WholeCopy, HeaderWhole
  <2> QED
    BY <1>4, <2>1, <2>2, <2>3, <2>4, <2>5, <2>6
<1> QED
  BY <1>3, <1>4

(* An element that is not whole is cut off. *)
LEMMA TornIteration ==
    ASSUME Iteration, CallInductive, ~IsWhole(input, src)
    PROVE  \/ IsLiteral(TagAt(input, src)) /\ ~WholeLiteral(input, src)
           \/ ~IsLiteral(TagAt(input, src)) /\ ~HeaderWhole(input, src)
BY DEF IsWhole, WholeCopy

(* An element is decoded, ... *)
LEMMA SimpleAppendStep ==
    ASSUME CallInductive, SimpleAppend
    PROVE  Decoder!Next /\ SimpleInductive' /\ CallReads'
             /\ inHigh' \in Nat /\ scratchHigh' \in Nat /\ dstHigh' \in Nat
<1> DEFINE e == ElementAt(input, src)
<1>1. /\ pc = "while" /\ src < n /\ IsWhole(input, src) /\ pc' = pc
      /\ UNCHANGED <<input, limit, where, end, pending, answer>>
      /\ ~Writer!BadOffset(e) /\ ~Writer!TooLong(e)
      /\ src' = AfterElement(e) /\ Touch(src')
      /\ text' = IF e.kind = "literal" THEN text \o e.bytes ELSE Repeat(text, e.offset, e.len)
      /\ dstHigh' = Len(text')
  BY DEF SimpleAppend, Iteration, NoRoom
<1>2. /\ n \in Nat /\ n = Len(input) /\ src \in 0 .. n /\ input \in Seq(Byte8)
      /\ where = "input" /\ pending = NoCall /\ answer = "none" /\ n' = n
      /\ limit \in 0 .. MaxInt32 - 1 /\ text \in Seq(Byte8)
      /\ Len(text) \in Nat /\ Len(text) <= limit /\ at = src
      /\ BodyAt(input, src) \in Nat
  BY <1>1, IterationAt, BodyAfterTag DEF n
<1>3. /\ src' \in 0 .. n /\ text' \in Seq(Byte8) /\ Len(text') <= limit
      /\ Decoder!Literal \/ Decoder!Copy
  <2>1. CASE /\ IsLiteral(TagAt(input, src)) /\ WholeLiteral(input, src)
             /\ e = LiteralAt(input, src) /\ e.kind = "literal"
             /\ e.bytes \in Seq(Byte8)
             /\ BodyAt(input, src) + Len(e.bytes) <= n
    <3> HIDE DEF e
    <3>1. Len(e.bytes) \in Nat
      BY <2>1, LenProperties
    <3>2. src' = BodyAt(input, src) + Len(e.bytes) /\ src' \in 0 .. n
      BY <1>1, <1>2, <2>1, <3>1 DEF AfterElement
    <3>3. text' = text \o e.bytes
      BY <1>1, <2>1
    <3>4. Len(text) + Len(e.bytes) <= limit
      BY <1>1, <1>2, <2>1, <3>1 DEF Writer!TooLong, Writer!ResultLen
    <3>5. text' \in Seq(Byte8) /\ Len(text') <= limit
      BY <1>2, <2>1, <3>3, <3>4, ConcatProperties
    <3>6. at' = src'
      BY <1>1, <1>2, <3>2 DEF at, Place
    <3>7. Denotes(text, e, text')
      BY <2>1, <3>3 DEF Denotes
    <3>8. Decoder!Literal
      BY <1>1, <1>2, <2>1, <3>2, <3>4, <3>6, <3>7, SameFormat, SameMeaning
         DEF Decoder!Literal, Decoder!Fits
    <3> QED
      BY <3>2, <3>5, <3>8
  <2>2. CASE /\ ~IsLiteral(TagAt(input, src)) /\ WholeCopy(input, src)
             /\ e = CopyAt(input, src) /\ e.kind = "copy"
             /\ e.offset \in Int /\ e.len \in Nat \ {0}
             /\ e = CopyElement(e.offset, e.len)
             /\ BodyAt(input, src) <= n
    <3> HIDE DEF e
    <3>1. src' = BodyAt(input, src) /\ src' \in 0 .. n
      <4>1. src' = BodyAt(input, src) + 0
        BY <1>1, <2>2 DEF AfterElement
      <4> QED
        BY <1>2, <2>2, <4>1
    <3>2. text' = Repeat(text, e.offset, e.len)
      BY <1>1, <2>2
    <3>3. e.offset \in 1 .. Len(text) /\ Len(text) + e.len <= limit
      BY <1>1, <1>2, <2>2 DEF Writer!BadOffset, Writer!TooLong, Writer!ResultLen
    <3>4. text' \in Seq(Byte8) /\ Len(text') <= limit
      BY <1>2, <2>2, <3>2, <3>3, RepeatShape
    <3>5. at' = src'
      BY <1>1, <1>2, <3>1 DEF at, Place
    <3>6. Denotes(text, e, text')
      <4>1. IsRepeat(text, text', e.offset, e.len)
        BY <1>2, <2>2, <3>2, <3>3, RepeatRepeats
      <4> QED
        BY <2>2, <4>1 DEF Denotes
    <3>7. Decoder!Copy
      BY <1>1, <1>2, <2>2, <3>1, <3>3, <3>5, <3>6, SameFormat, SameMeaning
         DEF Decoder!Copy, Decoder!Fits, Decoder!Reachable
    <3> QED
      BY <3>1, <3>4, <3>7
  <2> QED
    BY <1>1, <2>1, <2>2, WholeElement
<1>4. Decoder!Next
  BY <1>1, <1>2, <1>3 DEF Decoder!Next, Decoder!Element
<1>5. SimpleInductive'
  <2>1. SimpleInductive
    BY <1>1 DEF CallInductive, Started
  <2> QED
    BY <1>1, <1>2, <1>3, <2>1 DEF SimpleInductive
<1>6. dstHigh' \in Nat
  BY <1>1, <1>3, LenProperties
<1> QED
  BY <1>1, <1>2, <1>3, <1>4, <1>5, <1>6, TouchInput

(* ... refused, ... *)
LEMMA SimpleRefuseStep ==
    ASSUME CallInductive, SimpleMalformed \/ SimpleOverrun
    PROVE  Decoder!Next /\ SimpleInductive' /\ CallReads'
             /\ inHigh' \in Nat /\ scratchHigh' \in Nat /\ dstHigh' \in Nat
<1> DEFINE e == ElementAt(input, src)
<1>1. /\ Iteration /\ pc = "while" /\ src < n /\ pc' = "while_over"
      /\ UNCHANGED <<input, limit, where, src, end, opcode, pending, text, dstHigh>>
      /\ answer' \in {"malformed", "overrun"}
  BY DEF SimpleMalformed, SimpleOverrun, SimpleReturn, Iteration
<1>2. /\ n \in Nat /\ n = Len(input) /\ src \in 0 .. n /\ input \in Seq(Byte8)
      /\ where = "input" /\ pending = NoCall /\ answer = "none" /\ n' = n
      /\ limit \in 0 .. MaxInt32 - 1 /\ Len(text) \in Nat /\ at = src
      /\ BodyAt(input, src) \in Nat
  BY <1>1, IterationAt, BodyAfterTag DEF n
<1>3. at' = at
  BY <1>1 DEF at, Place, n
<1>4. CallReads' /\ inHigh' \in Nat /\ scratchHigh' \in Nat
  <2> DEFINE p == IF HeaderWhole(input, src) THEN BodyAt(input, src) ELSE src + 1
  <2>1. p \in 0 .. n
    BY <1>1, <1>2 DEF HeaderWhole
  <2>2. Touch(p)
    <3>1. CASE SimpleMalformed
      BY <3>1 DEF SimpleMalformed
    <3>2. CASE SimpleOverrun
      <4>1. HeaderWhole(input, src)
        BY <3>2 DEF SimpleOverrun, IsWhole, WholeLiteral, WholeCopy, TornUnnoticed,
                    LongLiteral
      <4> QED
        BY <3>2, <4>1 DEF SimpleOverrun
    <3> QED
      BY <3>1, <3>2
  <2> HIDE DEF p
  <2> QED
    BY <1>1, <1>2, <2>1, <2>2, TouchInput
<1>5. ASSUME ~IsWhole(input, src) PROVE Decoder!Next
  <2>1. \/ answer' = "malformed"
        \/ /\ answer' = "overrun" /\ IsLiteral(TagAt(input, src))
           /\ LengthAt(input, src) \notin 1 .. limit - Len(text)
           /\ HeaderWhole(input, src) /\ LengthAt(input, src) # 0
    BY <1>5 DEF SimpleMalformed, SimpleOverrun, SimpleReturn, TornUnnoticed, LongLiteral,
                Exceeds, Wrapped
  <2>2. answer' = "overrun" => Decoder!TooLongOrTorn
    <3>1. SUFFICES ASSUME answer' = "overrun" PROVE Decoder!TooLongOrTorn
      OBVIOUS
    <3>2. LengthAt(input, src) \in Int
      BY <1>1, <1>2, <2>1, <3>1, LengthInt
    <3> QED
      BY <1>2, <2>1, <3>1, <3>2, MaxInt32Int, SameFormat DEF Decoder!TooLongOrTorn
  <2>3. Decoder!TornLiteral \/ Decoder!TornCopy
    BY <1>1, <1>2, <1>3, <1>5, <2>1, <2>2, TornIteration, SameFormat
       DEF Decoder!TornLiteral, Decoder!TornCopy
  <2> QED
    BY <1>1, <1>2, <2>3 DEF Decoder!Next, Decoder!Element
<1>6. ASSUME IsWhole(input, src) PROVE Decoder!Next
  <2>1. \/ Writer!BadOffset(e) /\ answer' = "malformed"
        \/ ~Writer!BadOffset(e) /\ Writer!TooLong(e) /\ answer' = "overrun"
    BY <1>6 DEF SimpleMalformed, SimpleOverrun, SimpleReturn, NoRoom, TornUnnoticed
  <2>2. CASE /\ IsLiteral(TagAt(input, src)) /\ WholeLiteral(input, src)
             /\ e = LiteralAt(input, src) /\ e.kind = "literal"
             /\ e.bytes \in Seq(Byte8)
    <3> HIDE DEF e
    <3>1. Len(e.bytes) \in Nat
      BY <2>2, LenProperties
    <3>2. answer' = "overrun" /\ ~(Len(text) + Len(e.bytes) <= limit)
      BY <1>2, <2>1, <2>2, <3>1 DEF Writer!BadOffset, Writer!TooLong, Writer!ResultLen
    <3>3. Decoder!Literal
      BY <1>1, <1>2, <1>3, <2>2, <3>2, SameFormat DEF Decoder!Literal, Decoder!Fits
    <3> QED
      BY <1>1, <1>2, <3>3 DEF Decoder!Next, Decoder!Element
  <2>3. CASE /\ ~IsLiteral(TagAt(input, src)) /\ WholeCopy(input, src)
             /\ e = CopyAt(input, src) /\ e.kind = "copy"
             /\ e.offset \in Int /\ e.len \in Nat \ {0}
    <3> HIDE DEF e
    <3>1. \/ e.offset \notin 1 .. Len(text) /\ answer' = "malformed"
          \/ /\ e.offset \in 1 .. Len(text) /\ answer' = "overrun"
             /\ ~(Len(text) + e.len <= limit)
      BY <1>2, <2>1, <2>3 DEF Writer!BadOffset, Writer!TooLong, Writer!ResultLen
    <3>2. Decoder!Copy
      BY <1>1, <1>2, <1>3, <2>3, <3>1, SameFormat
         DEF Decoder!Copy, Decoder!Fits, Decoder!Reachable
    <3> QED
      BY <1>1, <1>2, <3>2 DEF Decoder!Next, Decoder!Element
  <2> QED
    BY <1>1, <1>6, <2>2, <2>3, WholeElement
<1>7. SimpleInductive'
  <2>1. SimpleInductive
    BY <1>1 DEF CallInductive, Started
  <2> QED
    BY <1>1, <1>2, <2>1 DEF SimpleInductive
<1>8. dstHigh' \in Nat
  BY <1>1 DEF CallInductive
<1> QED
  BY <1>4, <1>5, <1>6, <1>7, <1>8

(* ... copied beyond the caller's memory, ... *)
LEMMA SimpleAstrayStep ==
    ASSUME CallInductive, SimpleAstray
    PROVE  /\ AtLongLiteral' /\ SimpleInductive'
           /\ inHigh' \in Nat /\ scratchHigh' \in Nat /\ dstHigh' \in Nat
<1>1. /\ pc = "while" /\ src < n /\ pc' = "astray"
      /\ Wrapped \/ LongLiteral
      /\ UNCHANGED <<input, limit, where, src, end, opcode, pending, text, answer>>
      /\ Touch(BodyAt(input, src) + Strayed) /\ dstHigh' = Len(text) + Strayed
  BY DEF SimpleAstray, Iteration, TornUnnoticed
<1>2. /\ n \in Nat /\ n = Len(input) /\ src \in 0 .. n /\ input \in Seq(Byte8)
      /\ where = "input" /\ answer = "none" /\ n' = n
      /\ limit \in 0 .. MaxInt32 - 1 /\ Len(text) \in Nat /\ Len(text) <= limit
      /\ BodyAt(input, src) \in Nat
  BY <1>1, IterationAt, BodyAfterTag DEF n
<1>3. Strayed \in Nat
  BY <1>2, MaxInt32Int DEF Strayed, Exceeds
<1>4. inHigh' \in Nat /\ scratchHigh' \in Nat /\ dstHigh' \in Nat
  BY <1>1, <1>2, <1>3 DEF CallInductive, Touch, Higher
<1>5. AtLongLiteral'
  BY <1>1 DEF AtLongLiteral, Wrapped, LongLiteral
<1>6. SimpleInductive'
  <2>1. SimpleInductive
    BY <1>1 DEF CallInductive, Started
  <2> QED
    BY <1>1, <1>2, <1>5, <2>1 DEF SimpleInductive
<1> QED
  BY <1>4, <1>5, <1>6

(* ... or there is none. *)
LEMMA SimpleOutStep ==
    ASSUME CallInductive, SimpleOut
    PROVE  Decoder!Next /\ SimpleInductive'
<1>1. /\ pc = "while"
      /\ UNCHANGED <<input, limit, where, src, end, opcode, pending, text, dstHigh>>
      /\ pc' = "while_over" /\ answer' = "ok" /\ src >= n
  BY DEF SimpleOut, SimpleReturn
<1>2. /\ n \in Nat /\ n = Len(input) /\ src \in 0 .. n /\ n' = n /\ at = src
      /\ answer = "none"
  BY <1>1, IterationAt DEF n
<1>3. at' = at
  BY <1>1 DEF at, Place, n
<1>4. Decoder!Next
  BY <1>1, <1>2, <1>3 DEF Decoder!Next, Decoder!Finish
<1>5. SimpleInductive'
  <2>1. SimpleInductive
    BY <1>1 DEF CallInductive, Started
  <2> QED
    BY <1>1, <1>2, <2>1 DEF SimpleInductive
<1> QED
  BY <1>4, <1>5

-----------------------------------------------------------------------------
(* The header.                                                             *)

(* A group of seven bits, or of four, is a number. *)
LEMMA GroupInt ==
    ASSUME NEW c \in Byte8, NEW s \in {0, 7, 14, 21, 28}
    PROVE  Group(c, s) \in Int
<1>1. c \in Int /\ c % 128 \in Int /\ c % 16 \in Int
  BY DEF Byte8
<1>2. 2^s \in Int /\ 2^28 \in Int
  <2>1. 2^0 = 1 /\ 2^7 = 128 /\ 2^14 = 16384 /\ 2^21 = 2097152 /\ 2^28 = 268435456
    BY SMT
  <2> QED
    BY <2>1, SMT
<1> DEFINE x == 2^s
           y == 2^28
<1>3. Group(c, s) = IF s < 28 THEN (c % 128) * x
                    ELSE (IF c % 16 < 8 THEN c % 16 ELSE (c % 16) - 16) * y
  BY DEF Group
<1>4. x \in Int /\ y \in Int
  BY <1>2
<1> HIDE DEF x, y
<1> QED
  BY <1>1, <1>3, <1>4

(* A byte of the header is read. *)
LEMMA HeaderByteStep == CallInductive /\ HeaderByte => CallInductive'
<1> SUFFICES ASSUME CallInductive, HeaderByte PROVE CallInductive'
  OBVIOUS
<1>1. /\ pc = "header" /\ ~TooManyBytes /\ src < n /\ Touch(src + 1) /\ src' = src + 1
      /\ olen' = olen + Group(Fetch(src), shift)
      /\ \/ Fetch(src) < 128 /\ pc' = "sized" /\ shift' = shift
         \/ ~(Fetch(src) < 128) /\ shift' = shift + 7 /\ pc' = pc
      /\ UNCHANGED <<input, limit, where, end, scratch, opcode, pending, text,
                     answer, dstHigh, dst_len>>
  BY DEF HeaderByte, BytesLeft
<1>2. /\ InHeader /\ n \in Nat /\ n' = n /\ n = Len(input) /\ input \in Seq(Byte8)
      /\ where = "input" /\ src \in 0 .. n /\ src <= 5 /\ shift = 7 * src
      /\ \A k \in 1 .. src : input[k] >= 128
      /\ olen = GroupRead(1) + GroupRead(2) + GroupRead(3) + GroupRead(4) + GroupRead(5)
  BY <1>1, LenProperties DEF CallInductive, HeaderSoFar, InHeader, n
<1>3. src \in 0 .. 4 /\ src' \in 1 .. 5 /\ src' \in 0 .. n
  BY <1>1, <1>2 DEF TooManyBytes
<1>4. Fetch(src) = input[src'] /\ input[src'] \in Byte8
  BY <1>1, <1>2, <1>3, ElementOfSeq DEF Fetch
<1>5. olen' = olen + Group(input[src'], 7 * src)
  BY <1>1, <1>2, <1>4
<1>6. Group(input[src'], 7 * src) \in Int
  BY <1>3, <1>4, GroupInt
<1>7. olen' = GroupRead(1)' + GroupRead(2)' + GroupRead(3)' + GroupRead(4)' + GroupRead(5)'
  <2>1. \A k \in 1 .. 5 :
          /\ k <= src => GroupRead(k)' = GroupRead(k)
          /\ k = src' => GroupRead(k)' = Group(input[src'], 7 * src) /\ GroupRead(k) = 0
          /\ k > src' => GroupRead(k)' = 0 /\ GroupRead(k) = 0
    <3> SUFFICES ASSUME NEW k \in 1 .. 5
                 PROVE  /\ k <= src => GroupRead(k)' = GroupRead(k)
                        /\ k = src' => GroupRead(k)' = Group(input[src'], 7 * src)
                                         /\ GroupRead(k) = 0
                        /\ k > src' => GroupRead(k)' = 0 /\ GroupRead(k) = 0
      OBVIOUS
    <3>1. GroupRead(k)' = IF k <= src' THEN Group(input[k], 7 * (k - 1)) ELSE 0
      BY <1>1 DEF GroupRead, Group
    <3>2. k = src' => k - 1 = src
      BY <1>1, <1>3
    <3> QED
      BY <1>1, <1>3, <3>1, <3>2 DEF GroupRead
  <2>2. \A k \in 1 .. 5 : GroupRead(k) \in Int
    <3> SUFFICES ASSUME NEW k \in 1 .. 5 PROVE GroupRead(k) \in Int
      OBVIOUS
    <3>1. CASE k <= src
      <4>1. input[k] \in Byte8 /\ 7 * (k - 1) \in {0, 7, 14, 21, 28}
        BY <1>2, <3>1, ElementOfSeq
      <4> QED
        BY <3>1, <4>1, GroupInt DEF GroupRead
    <3>2. CASE ~(k <= src)
      BY <3>2 DEF GroupRead
    <3> QED
      BY <3>1, <3>2
  <2> DEFINE g(k) == GroupRead(k)
             h(k) == GroupRead(k)'
             a == Group(input[src'], 7 * src)
  <2>3. /\ \A k \in 1 .. 5 : g(k) \in Int
        /\ \A k \in 1 .. 5 : /\ k <= src => h(k) = g(k)
                             /\ k = src' => h(k) = a /\ g(k) = 0
                             /\ k > src' => h(k) = 0 /\ g(k) = 0
        /\ olen' = g(1) + g(2) + g(3) + g(4) + g(5) + a /\ a \in Int
    BY <1>2, <1>5, <1>6, <2>1, <2>2
  <2> HIDE DEF g, h, a
  <2>4. olen' = h(1) + h(2) + h(3) + h(4) + h(5)
    <3>1. CASE src = 0
      BY <1>1, <2>3, <3>1
    <3>2. CASE src = 1
      BY <1>1, <2>3, <3>2
    <3>3. CASE src = 2
      BY <1>1, <2>3, <3>3
    <3>4. CASE src = 3
      BY <1>1, <2>3, <3>4
    <3>5. CASE src = 4
      BY <1>1, <2>3, <3>5
    <3> QED
      BY <1>3, <3>1, <3>2, <3>3, <3>4, <3>5
  <2> QED
    BY <2>4 DEF h
<1>8. \A k \in 1 .. src' : pc' = "header" \/ k < src' => input'[k] >= 128
  <2> SUFFICES ASSUME NEW k \in 1 .. src', pc' = "header" \/ k < src'
               PROVE  input[k] >= 128
    BY <1>1
  <2>1. CASE k < src'
    BY <1>1, <1>2, <1>3, <2>1
  <2>2. CASE k = src'
    <3>1. ~(input[k] < 128) /\ input[k] \in Byte8
      BY <1>1, <1>4, <2>2
    <3> QED
      BY <3>1 DEF Byte8
  <2> QED
    BY <1>3, <2>1, <2>2
<1>9. InHeader' /\ HeaderSoFar'
  <2>1. InHeader'
    BY <1>1 DEF InHeader
  <2>2. pc' = "header" => shift' = 7 * src'
    BY <1>1, <1>2, <1>3
  <2>3. pc' = "sized" => src' >= 1 /\ input'[src'] < 128
    BY <1>1, <1>3, <1>4
  <2> QED
    BY <1>1, <1>2, <1>3, <1>7, <1>8, <2>1, <2>2, <2>3 DEF CallInductive, HeaderSoFar
<1>10. olen' \in Int
  BY <1>5, <1>6 DEF CallInductive
<1>11. CallReads' /\ inHigh' \in Nat /\ scratchHigh' \in Nat
  BY <1>1, <1>2, <1>3, TouchInput DEF InHeader
<1>12. HeaderRefused' /\ WithinRoom' /\ Started'
  <2>1. answer' = "none" /\ pc' \in {"header", "sized"} /\ dstHigh' = 0
    BY <1>1, <1>2 DEF CallInductive, HeaderSoFar
  <2> QED
    BY <1>9, <2>1 DEF HeaderRefused, WithinRoom, Started, NotStarted
<1> QED
  BY <1>1, <1>2, <1>9, <1>10, <1>11, <1>12 DEF CallInductive, HeaderSoFar

(* The header does not end, or the text it announces does not fit. *)
LEMMA HeaderStopStep == CallInductive /\ (HeaderBad \/ OutputInsuf) => CallInductive'
<1> SUFFICES ASSUME CallInductive, HeaderBad \/ OutputInsuf PROVE CallInductive'
  OBVIOUS
<1>1. /\ InHeader /\ pc' = "returned" /\ answer' \in {"header_bad", "output_insuf"}
      /\ UNCHANGED <<input, limit, where, src, end, scratch, opcode, pending,
                     text, inHigh, scratchHigh, dstHigh, dst_len, olen, shift>>
  BY DEF HeaderBad, OutputInsuf, Return, InHeader
<1>2. n' = n /\ n = Len(input) /\ n \in Nat
  BY <1>1, LenProperties DEF CallInductive, n
<1>3. limit = 0 /\ text = <<>> /\ dstHigh = 0 /\ src \in 0 .. n /\ src <= 5
  BY <1>1 DEF CallInductive, HeaderSoFar
<1>4. HeaderRefused'
  <2> SUFFICES ASSUME HeaderBad
               PROVE  /\ n < 5 => \A i \in 1 .. n : input[i] >= 128
                      /\ n >= 5 => \A i \in 1 .. 5 : input[i] >= 128
    BY <1>1, <1>2 DEF HeaderRefused, OutputInsuf, Return
  <2>1. pc = "header" /\ (shift >= 32 \/ src = n)
    BY DEF HeaderBad, TooManyBytes
  <2>2. shift = 7 * src /\ \A k \in 1 .. src : input[k] >= 128
    BY <1>1, <2>1 DEF CallInductive, HeaderSoFar
  <2>3. (n < 5 /\ src = n) \/ (n >= 5 /\ src = 5)
    BY <1>2, <1>3, <2>1, <2>2
  <2> QED
    BY <1>2, <2>2, <2>3
<1>5. WithinRoom'
  <2>1. dst_len \in Nat
    BY MaxInt32Int DEF CallInductive
  <2>2. limit \in 0 .. dst_len /\ Len(text) <= dst_len
    BY <1>3, <2>1
  <2> QED
    BY <1>1, <1>3, <2>1, <2>2 DEF WithinRoom
<1>6. Started' /\ HeaderSoFar' /\ CallReads'
  BY <1>1, <1>2, <1>3
     DEF Started, NotStarted, HeaderSoFar, InHeader, CallReads, AtLongLiteral, ReadsInside,
         CallInductive
<1> QED
  BY <1>1, <1>2, <1>4, <1>5, <1>6 DEF CallInductive

(* The elements are about to be decoded. *)
LEMMA StartStep == CallInductive /\ Start => CallInductive'
<1> SUFFICES ASSUME CallInductive, Start PROVE CallInductive'
  OBVIOUS
<1>1. /\ pc = "sized" /\ pc' \in {"loop", "while"} /\ limit' = olen
      /\ ~(olen < 0) /\ ~(olen > dst_len)
      /\ UNCHANGED <<input, where, src, end, scratch, opcode, pending, text,
                     answer, inHigh, scratchHigh, dstHigh, dst_len, olen, shift>>
  BY DEF Start, Insufficient
<1>2. n' = n /\ n = Len(input) /\ n \in Nat
  BY <1>1, LenProperties DEF CallInductive, n
<1>3. /\ where = "input" /\ end = n /\ src \in 0 .. n /\ opcode = 0
      /\ pending = NoCall /\ text = <<>> /\ answer = "none" /\ dstHigh = 0
      /\ ReadsInside
  BY <1>1 DEF CallInductive, HeaderSoFar, InHeader, CallReads, AtLongLiteral
<1>4. limit' \in 0 .. dst_len /\ limit' \in 0 .. MaxInt32 - 1
  BY <1>1, MaxInt32Int DEF CallInductive
<1>5. text \in Seq(Byte8) /\ Len(text) = 0
  BY <1>3
<1>6. CASE pc' = "while"
  <2>1. SimpleInductive'
    BY <1>1, <1>2, <1>3, <1>4, <1>5, <1>6 DEF SimpleInductive
  <2> QED
    BY <1>1, <1>2, <1>3, <1>4, <1>5, <1>6, <2>1
       DEF CallInductive, Started, HeaderSoFar, InHeader, HeaderRefused, WithinRoom,
           CallReads, ReadsInside
<1>7. CASE pc' = "loop"
  <2>1. TypeOK'
    <3>1. opcode \in Byte8
      BY <1>3 DEF Byte8
    <3> QED
      BY <1>1, <1>2, <1>3, <1>4, <1>5, <1>7, <3>1 DEF TypeOK, CallInductive
  <2>2. CallsLegal' /\ ReadsInside'
    BY <1>1, <1>2, <1>3 DEF CallsLegal, ReadsInside, CallInductive
  <2>3. Inductive'
    BY <1>1, <1>2, <1>3, <1>7, <2>1, <2>2 DEF Inductive, InBounds, AsksForElement
  <2> QED
    BY <1>1, <1>2, <1>3, <1>4, <1>5, <1>7, <2>2, <2>3
       DEF CallInductive, Started, HeaderSoFar, InHeader, HeaderRefused, WithinRoom,
           CallReads
<1> QED
  BY <1>1, <1>6, <1>7

-----------------------------------------------------------------------------
(* The elements, by either version of the loop.                            *)

(* What is left to show once one of them has made its step. *)
LEMMA BodyKeeps ==
    ASSUME CallInductive, UNCHANGED <<input, limit, scratch, dst_len, olen>>,
           ~InHeader, SimpleInductive', pc' \in {"while", "while_over", "astray"},
           CallReads', inHigh' \in Nat, scratchHigh' \in Nat, dstHigh' \in Nat
    PROVE  CallInductive'
<1>1. n' = n
  BY DEF n
<1>2. limit' \in 0 .. dst_len' /\ Len(text') <= dst_len' /\ Len(text') \in Nat
  <2>1. limit \in 0 .. dst_len /\ dst_len \in 0 .. MaxInt32 - 1
    BY DEF CallInductive, WithinRoom
  <2>2. text' \in Seq(Byte8) /\ Len(text') <= limit' /\ Len(text') \in Nat
    BY LenProperties DEF SimpleInductive
  <2> QED
    BY <2>1, <2>2, MaxInt32Int
<1>3. /\ answer' \notin {"header_bad", "output_insuf"}
      /\ dstHigh' = Len(text') \/ AtLongLiteral'
  BY DEF SimpleInductive
<1>4. Started' /\ WithinRoom' /\ HeaderSoFar' /\ HeaderRefused'
  BY <1>2, <1>3 DEF Started, WithinRoom, HeaderSoFar, HeaderRefused, InHeader
<1> QED
  BY <1>1, <1>3, <1>4 DEF CallInductive

(* The version without scratch buffer and table. *)
LEMMA SimpleStep ==
    ASSUME CallInductive, SimpleNext, UNCHANGED <<dst_len, olen, shift>>, ~UNCHANGED cvars
    PROVE  CallInductive' /\ (Decoder!Next \/ AtLongLiteral')
<1>1. SimpleAppend \/ SimpleMalformed \/ SimpleOverrun \/ SimpleAstray \/ SimpleOut
  BY DEF SimpleNext, cvars
<1>2. /\ pc = "while" /\ ~InHeader /\ pc' \in {"while", "while_over", "astray"}
      /\ UNCHANGED <<input, limit, scratch>>
  BY <1>1 DEF SimpleAppend, SimpleMalformed, SimpleOverrun, SimpleAstray, SimpleOut,
     SimpleReturn, Iteration, InHeader
<1>3. CASE SimpleAppend \/ SimpleMalformed \/ SimpleOverrun
  BY <1>2, <1>3, BodyKeeps, SimpleAppendStep, SimpleRefuseStep
<1>4. CASE SimpleAstray
  BY <1>2, <1>4, BodyKeeps, SimpleAstrayStep DEF CallReads
<1>5. CASE SimpleOut
  <2>1. UNCHANGED <<inHigh, scratchHigh, dstHigh>>
    BY <1>5 DEF SimpleOut
  <2>2. CallReads' /\ inHigh' \in Nat /\ scratchHigh' \in Nat /\ dstHigh' \in Nat
    BY <1>2, <2>1 DEF CallInductive, CallReads, AtLongLiteral, ReadsInside, n
  <2> QED
    BY <1>2, <1>5, <2>2, BodyKeeps, SimpleOutStep
<1> QED
  BY <1>1, <1>3, <1>4, <1>5

(* The version with them. *)
LEMMA LoopStep ==
    ASSUME CallInductive, Next, UNCHANGED <<dstHigh, dst_len, olen, shift>>,
           ~UNCHANGED cvars
    PROVE  CallInductive' /\ (Decoder!Next \/ UNCHANGED Decoder!dvars)
<1>1. /\ pc \in {"loop", "opcode", "append"} /\ ~InHeader
      /\ UNCHANGED <<input, limit>>
  <2>1. Loop \/ Body
    BY DEF Next, Returned, cvars
  <2> QED
    BY <2>1 DEF Loop, InPlace, Refill, Out, Body, AskCopy, AskFast, AskExact,
       LiteralMalformed, LiteralHuge, Appended, Refused, Return, InHeader
<1>2. Inductive /\ dstHigh = 0
  BY <1>1 DEF CallInductive, Started, NotStarted
<1>3. Inductive'
  BY <1>2, StepInductive
<1>4. Decoder!Next \/ UNCHANGED Decoder!dvars
  BY <1>2, NextDecodes
<1>5. /\ pc' \in {"loop", "opcode", "append", "returned"} /\ n' = n
      /\ answer' \in {"none", "ok", "malformed", "overrun"}
      /\ scratch' \in [0 .. 4 -> Byte8] /\ inHigh' \in Nat /\ scratchHigh' \in Nat
      /\ ReadsInside' /\ text' \in Seq(Byte8) /\ Len(text') <= limit'
      /\ Len(text') \in Nat
  BY <1>1, <1>3, LenProperties DEF Inductive, InBounds, TypeOK, n
<1>6. limit' \in 0 .. dst_len' /\ Len(text') <= dst_len' /\ dstHigh' <= dst_len'
  <2>1. limit \in 0 .. dst_len /\ dst_len \in 0 .. MaxInt32 - 1
    BY <1>1 DEF CallInductive, WithinRoom
  <2> QED
    BY <1>1, <1>2, <1>5, <2>1, MaxInt32Int
<1>7. Started' /\ WithinRoom' /\ HeaderSoFar' /\ HeaderRefused'
  BY <1>2, <1>3, <1>5, <1>6 DEF Started, WithinRoom, HeaderSoFar, HeaderRefused, InHeader
<1> QED
  BY <1>1, <1>4, <1>5, <1>7 DEF CallInductive, CallReads

(* A step that changes nothing. *)
LEMMA CallStutter == CallInductive /\ UNCHANGED cvars => CallInductive'
<1> SUFFICES ASSUME CallInductive, UNCHANGED cvars PROVE CallInductive'
  OBVIOUS
<1>1. UNCHANGED <<input, limit, pc, where, src, end, scratch, opcode, pending, text,
                  answer, inHigh, scratchHigh, dstHigh, dst_len, olen, shift>>
      /\ UNCHANGED nvars /\ n' = n
  BY DEF cvars, nvars, n
<1>2. Inductive => Inductive'
  BY <1>1, StepInductive
<1>3. SimpleInductive => SimpleInductive'
  BY <1>1 DEF SimpleInductive, AtLongLiteral, Wrapped, LongLiteral
<1>4. HeaderSoFar => HeaderSoFar'
  BY <1>1 DEF HeaderSoFar, InHeader, GroupRead, Group
<1>5. Started'
  BY <1>1, <1>2, <1>3 DEF CallInductive, Started, NotStarted, InHeader
<1>6. HeaderRefused' /\ WithinRoom' /\ CallReads'
  BY <1>1 DEF CallInductive, HeaderRefused, WithinRoom, CallReads, ReadsInside, InHeader,
              AtLongLiteral, Wrapped, LongLiteral
<1> QED
  BY <1>1, <1>4, <1>5, <1>6 DEF CallInductive

(* Every step of the call. *)
LEMMA CallNextInductive == CallInductive /\ [CallNext]_cvars => CallInductive'
<1> SUFFICES ASSUME CallInductive, [CallNext]_cvars PROVE CallInductive'
  OBVIOUS
<1>1. CASE UNCHANGED cvars
  BY <1>1, CallStutter
<1>2. CASE Header
  BY <1>2, HeaderByteStep, HeaderStopStep, StartStep DEF Header
<1>3. CASE CallBody /\ ~UNCHANGED cvars
  BY <1>3, LoopStep, SimpleStep DEF CallBody
<1> QED
  BY <1>1, <1>2, <1>3 DEF CallNext

LEMMA CallInitInductive == CallInit => CallInductive
<1> SUFFICES ASSUME CallInit PROVE CallInductive
  OBVIOUS
<1>1. /\ input \in Seq(Byte8) /\ n < MaxInt32 /\ n \in Nat /\ n = Len(input)
      /\ scratch \in [0 .. 4 -> Byte8] /\ dst_len \in 0 .. MaxInt32 - 1
  BY StreamAssumption, LenProperties DEF CallInit, n
<1>2. HeaderSoFar
  BY <1>1 DEF CallInit, HeaderSoFar, GroupRead, n
<1>3. Started /\ HeaderRefused /\ WithinRoom /\ CallReads
  BY <1>1 DEF CallInit, Started, NotStarted, HeaderRefused, WithinRoom, InHeader, CallReads,
              ReadsInside
<1> QED
  BY <1>1, <1>2, <1>3 DEF CallInit, CallInductive

-----------------------------------------------------------------------------
(* What has been read of the header.                                       *)

(* Seven bits are split off a number. *)
LEMMA SplitDigit ==
    ASSUME NEW g \in 0 .. 127, NEW q \in Int
    PROVE  (g + 128 * q) % 128 = g /\ (g + 128 * q) \div 128 = q
OBVIOUS

(* The top four bits of a uint32_t, if they are those of the int32_t h. *)
TopBits(h) == IF h < 0 THEN h + 16 ELSE h

(* A length whose groups are g1 to g4 and, of the four bits that are left, *)
(* h, taken for signed, ...                                                *)
HasGroups(w, g1, g2, g3, g4, h) ==
    /\ g1 \in 0 .. 127 /\ g2 \in 0 .. 127 /\ g3 \in 0 .. 127 /\ g4 \in 0 .. 127
    /\ h \in -8 .. 7 /\ w \in Int
    /\ w = g1 + 128 * (g2 + 128 * (g3 + 128 * (g4 + 128 * h)))

(* ... and what encode_varint32 makes of it. *)
LEMMA Digits ==
    ASSUME NEW w, NEW g1, NEW g2, NEW g3, NEW g4, NEW h, HasGroups(w, g1, g2, g3, g4, h)
    PROVE  /\ w < 0 <=> h < 0
           /\ ShiftRight7(w) = g2 + 128 * (g3 + 128 * (g4 + 128 * TopBits(h)))
           /\ ShiftRight7(w) \div 128 = g3 + 128 * (g4 + 128 * TopBits(h))
           /\ (ShiftRight7(w) \div 128) \div 128 = g4 + 128 * TopBits(h)
           /\ ((ShiftRight7(w) \div 128) \div 128) \div 128 = TopBits(h)
<1> /\ g1 \in 0 .. 127 /\ g2 \in 0 .. 127 /\ g3 \in 0 .. 127 /\ g4 \in 0 .. 127
    /\ h \in -8 .. 7 /\ w \in Int
    /\ w = g1 + 128 * (g2 + 128 * (g3 + 128 * (g4 + 128 * h)))
  BY DEF HasGroups
<1> DEFINE top == IF h < 0 THEN h + 16 ELSE h
           q4 == g4 + 128 * h    q3 == g3 + 128 * q4    q2 == g2 + 128 * q3
           r4 == g4 + 128 * top  r3 == g3 + 128 * r4    r2 == g2 + 128 * r3
<1>1. top \in 0 .. 15 /\ q4 \in Int /\ q3 \in Int /\ q2 \in Int
      /\ r4 \in Int /\ r3 \in Int /\ r2 \in Int
  OBVIOUS
<1>2. w \div 128 = q2
  <2>1. w = g1 + 128 * q2
    OBVIOUS
  <2> HIDE DEF q2
  <2> QED
    BY <1>1, <2>1, SplitDigit
<1>3. w < 0 <=> h < 0
  <2>1. w = g1 + 128 * q2 /\ q2 = g2 + 128 * q3 /\ q3 = g3 + 128 * q4 /\ q4 = g4 + 128 * h
    OBVIOUS
  <2> HIDE DEF q2, q3, q4
  <2>2. h < 0 <=> q4 < 0
    BY <1>1, <2>1
  <2>3. q4 < 0 <=> q3 < 0
    BY <1>1, <2>1
  <2>4. q3 < 0 <=> q2 < 0
    BY <1>1, <2>1
  <2>5. q2 < 0 <=> w < 0
    BY <1>1, <2>1
  <2> QED
    BY <2>2, <2>3, <2>4, <2>5
<1>4. ShiftRight7(w) = r2
  <2>1. CASE h < 0
    <3>1. top = h + 16
      BY <2>1
    <3>2. r2 = q2 + 33554432
      BY <3>1, SMT
    <3> QED
      BY <1>2, <1>3, <2>1, <3>2, SMT DEF ShiftRight7
  <2>2. CASE ~(h < 0)
    <3>1. top = h
      BY <2>2
    <3>2. r2 = q2
      BY <3>1
    <3> QED
      BY <1>2, <1>3, <2>2, <3>2, SMT DEF ShiftRight7
  <2> QED
    BY <2>1, <2>2
<1>5. r2 \div 128 = r3 /\ r3 \div 128 = r4 /\ r4 \div 128 = top
  <2>1. r2 = g2 + 128 * r3 /\ r3 = g3 + 128 * r4 /\ r4 = g4 + 128 * top /\ top \in Int
    BY <1>1
  <2> HIDE DEF r2, r3, r4, top
  <2> QED
    BY <1>1, <2>1, SplitDigit
<1>6. r2 = g2 + 128 * (g3 + 128 * (g4 + 128 * top))
      /\ r3 = g3 + 128 * (g4 + 128 * top) /\ r4 = g4 + 128 * top
  OBVIOUS
<1>7. top = TopBits(h)
  BY DEF TopBits
<1> HIDE DEF r2, r3, r4, top
<1> QED
  BY <1>3, <1>4, <1>5, <1>6, <1>7

(* v is w and what encode_varint32 shifts it to, and the m-th of them has  *)
(* no more than seven bits.                                                *)
EndsAt(w, v, m) ==
    /\ w \in Int /\ v \in [1 .. 5 -> Int] /\ m \in 1 .. 5
    /\ v = <<w, ShiftRight7(w), ShiftRight7(w) \div 128,
             (ShiftRight7(w) \div 128) \div 128,
             ((ShiftRight7(w) \div 128) \div 128) \div 128>>
    /\ w < 0 => m = 5
    /\ v[m] < 128

(* The bytes it writes then. *)
LEMMA VarintDigits ==
    ASSUME NEW w, NEW v, NEW m, EndsAt(w, v, m)
    PROVE  \E k \in 1 .. m :
             Varint(w) = [i \in 1 .. k |-> IF i = k THEN v[i] % 128 ELSE 128 + (v[i] % 128)]
<1> /\ w \in Int /\ v \in [1 .. 5 -> Int] /\ m \in 1 .. 5
    /\ v = <<w, ShiftRight7(w), ShiftRight7(w) \div 128,
             (ShiftRight7(w) \div 128) \div 128,
             ((ShiftRight7(w) \div 128) \div 128) \div 128>>
    /\ w < 0 => m = 5
    /\ v[m] < 128
  BY DEF EndsAt
<1> DEFINE First(i) == v[i] < 128 /\ \A j \in 1 .. i - 1 : v[j] >= 128
           k == IF w < 0 THEN 5 ELSE CHOOSE i \in 1 .. 5 : First(i)
<1>1. Varint(w) = [i \in 1 .. k |-> IF i = k THEN v[i] % 128 ELSE 128 + (v[i] % 128)]
  BY DEF Varint
<1>2. \A i \in 1 .. 5 : v[i] \in Int
  OBVIOUS
<1>3. k \in 1 .. m
  <2>1. CASE w < 0
    BY <2>1
  <2>2. CASE ~(w < 0)
    <3>1. \E i \in 1 .. 5 : First(i)
      <4>1. \/ v[1] < 128
            \/ v[1] >= 128 /\ v[2] < 128
            \/ v[1] >= 128 /\ v[2] >= 128 /\ v[3] < 128
            \/ v[1] >= 128 /\ v[2] >= 128 /\ v[3] >= 128 /\ v[4] < 128
            \/ v[1] >= 128 /\ v[2] >= 128 /\ v[3] >= 128 /\ v[4] >= 128 /\ v[5] < 128
        BY <1>2
      <4> QED
        BY <4>1
    <3> DEFINE c == CHOOSE i \in 1 .. 5 : First(i)
    <3>2. c \in 1 .. 5 /\ First(c)
      BY <3>1
    <3>3. k = c
      BY <2>2
    <3> HIDE DEF c
    <3>4. ~(m \in 1 .. c - 1)
      BY <1>2, <3>2
    <3> HIDE DEF k, First
    <3> QED
      BY <3>2, <3>3, <3>4
  <2> QED
    BY <2>1, <2>2
<1> HIDE DEF k
<1> QED
  BY <1>1, <1>3

(* The value of the last of five bytes: four bits, of a uint32_t. *)
FifthGroup(c) == IF c % 16 < 8 THEN c % 16 ELSE (c % 16) - 16

(* The value of any other. *)
GroupAt(k) == IF k <= src THEN input[k] % 128 ELSE 0

(* The length read, by its groups. *)
LEMMA LengthRead ==
    ASSUME CallInductive, pc = "sized"
    PROVE  LET h == IF src = 5 THEN FifthGroup(input[5]) ELSE 0 IN
           /\ src \in 1 .. 5 /\ src <= Len(input)
           /\ \A k \in 1 .. src : input[k] \in Byte8
           /\ \A k \in 1 .. src : k < src => input[k] >= 128
           /\ input[src] < 128
           /\ \A k \in 1 .. 4 : GroupAt(k) \in 0 .. 127
           /\ h \in -8 .. 7
           /\ olen = GroupAt(1) + 128 * (GroupAt(2) + 128 * (GroupAt(3)
                        + 128 * (GroupAt(4) + 128 * h)))
<1> DEFINE h == IF src = 5 THEN FifthGroup(input[5]) ELSE 0
<1>1. /\ src \in 0 .. n /\ n = Len(input) /\ n \in Nat /\ input \in Seq(Byte8)
      /\ src <= 5 /\ src >= 1 /\ input[src] < 128
      /\ \A k \in 1 .. src : k < src => input[k] >= 128
      /\ olen = GroupRead(1) + GroupRead(2) + GroupRead(3) + GroupRead(4) + GroupRead(5)
  BY LenProperties DEF CallInductive, HeaderSoFar, InHeader, n
<1>2. src \in 1 .. 5 /\ src <= Len(input)
  BY <1>1
<1>3. \A k \in 1 .. src : input[k] \in Byte8
  BY <1>1, ElementOfSeq
<1>4. \A k \in 1 .. 4 : GroupAt(k) \in 0 .. 127
  <2>1. \A c \in Byte8 : c % 128 \in 0 .. 127
    BY DEF Byte8
  <2> SUFFICES ASSUME NEW k \in 1 .. 4 PROVE GroupAt(k) \in 0 .. 127
    OBVIOUS
  <2>2. CASE k <= src
    <3>1. input[k] \in Byte8
      BY <1>2, <1>3, <2>2
    <3> QED
      BY <2>1, <2>2, <3>1 DEF GroupAt
  <2>3. CASE ~(k <= src)
    BY <2>3 DEF GroupAt
  <2> QED
    BY <2>2, <2>3
<1>5. h \in -8 .. 7
  <2>1. \A c \in Byte8 : FifthGroup(c) \in -8 .. 7
    BY DEF Byte8, FifthGroup
  <2>2. src = 5 => input[5] \in Byte8
    BY <1>3
  <2> QED
    BY <2>1, <2>2
<1>6. /\ 2^0 = 1 /\ 2^7 = 128 /\ 2^14 = 128 * 128 /\ 2^21 = 128 * 128 * 128
      /\ 2^28 = 128 * 128 * 128 * 128
  BY SMT
<1>7. GroupRead(1) = GroupAt(1)
  <2>1. 7 * (1 - 1) = 0
    OBVIOUS
  <2>2. GroupRead(1) = GroupAt(1) * 2^0
    BY <1>2, <2>1 DEF GroupRead, Group, GroupAt
  <2> QED
    BY <1>4, <1>6, <2>2
<1>8. GroupRead(2) = 128 * GroupAt(2)
  <2>1. 7 * (2 - 1) = 7
    OBVIOUS
  <2>2. GroupRead(2) = IF 2 <= src THEN (input[2] % 128) * 2^7 ELSE 0
    BY <2>1 DEF GroupRead, Group
  <2>3. GroupAt(2) = IF 2 <= src THEN input[2] % 128 ELSE 0
    BY DEF GroupAt
  <2> QED
    BY <1>4, <1>6, <2>2, <2>3
<1>9. GroupRead(3) = 128 * 128 * GroupAt(3)
  <2>1. 7 * (3 - 1) = 14
    OBVIOUS
  <2>2. GroupRead(3) = IF 3 <= src THEN (input[3] % 128) * 2^14 ELSE 0
    BY <2>1 DEF GroupRead, Group
  <2>3. GroupAt(3) = IF 3 <= src THEN input[3] % 128 ELSE 0
    BY DEF GroupAt
  <2> QED
    BY <1>4, <1>6, <2>2, <2>3
<1>10. GroupRead(4) = 128 * 128 * 128 * GroupAt(4)
  <2>1. 7 * (4 - 1) = 21
    OBVIOUS
  <2>2. GroupRead(4) = IF 4 <= src THEN (input[4] % 128) * 2^21 ELSE 0
    BY <2>1 DEF GroupRead, Group
  <2>3. GroupAt(4) = IF 4 <= src THEN input[4] % 128 ELSE 0
    BY DEF GroupAt
  <2> QED
    BY <1>4, <1>6, <2>2, <2>3
<1>11. GroupRead(5) = 128 * 128 * 128 * 128 * h
  <2>1. 7 * (5 - 1) = 28 /\ ~(28 < 28)
    OBVIOUS
  <2>2. GroupRead(5) = IF 5 <= src THEN FifthGroup(input[5]) * 2^28 ELSE 0
    BY <2>1 DEF GroupRead, Group, FifthGroup
  <2>3. 5 <= src <=> src = 5
    BY <1>2
  <2> QED
    BY <1>5, <1>6, <2>2, <2>3
<1> DEFINE a == GroupAt(1)  b == GroupAt(2)  c == GroupAt(3)  d == GroupAt(4)
<1>12. /\ a \in Int /\ b \in Int /\ c \in Int /\ d \in Int /\ h \in Int
  <2>1. 1 \in 1 .. 4 /\ 2 \in 1 .. 4 /\ 3 \in 1 .. 4 /\ 4 \in 1 .. 4
    OBVIOUS
  <2>2. h \in Int
    BY <1>5
  <2> HIDE DEF h
  <2> QED
    BY <1>4, <2>1, <2>2
<1> HIDE DEF h
<1>13. /\ GroupRead(1) = a /\ GroupRead(2) = 128 * b /\ GroupRead(3) = 128 * 128 * c
       /\ GroupRead(4) = 128 * 128 * 128 * d /\ GroupRead(5) = 128 * 128 * 128 * 128 * h
       /\ olen = GroupRead(1) + GroupRead(2) + GroupRead(3) + GroupRead(4) + GroupRead(5)
  BY <1>1, <1>7, <1>8, <1>9, <1>10, <1>11
<1> HIDE DEF a, b, c, d
<1>14. olen = a + 128 * (b + 128 * (c + 128 * (d + 128 * h)))
  BY <1>12, <1>13, SMT
<1> QED
  BY <1>1, <1>2, <1>3, <1>4, <1>5, <1>14 DEF a, b, c, d, h

(* What encode_varint32 makes of the length read, digit by digit. *)
LEMMA DigitsRead ==
    ASSUME CallInductive, pc = "sized",
           NEW v, v = <<olen, ShiftRight7(olen), ShiftRight7(olen) \div 128,
                        (ShiftRight7(olen) \div 128) \div 128,
                        ((ShiftRight7(olen) \div 128) \div 128) \div 128>>
    PROVE  /\ v \in [1 .. 5 -> Int]
           /\ olen < 0 => src = 5
           /\ v[src] < 128
           /\ \A i \in 1 .. src : i < 5 => v[i] % 128 = input[i] % 128
           /\ src = 5 /\ input[5] < 16 => v[5] % 128 = input[5]
<1> DEFINE h == IF src = 5 THEN FifthGroup(input[5]) ELSE 0
           top == TopBits(h)
           a == GroupAt(1)  b == GroupAt(2)  c == GroupAt(3)  d == GroupAt(4)
<1>1. /\ src \in 1 .. 5 /\ \A k \in 1 .. src : input[k] \in Byte8
      /\ a \in 0 .. 127 /\ b \in 0 .. 127 /\ c \in 0 .. 127 /\ d \in 0 .. 127
      /\ h \in -8 .. 7 /\ olen \in Int
      /\ olen = a + 128 * (b + 128 * (c + 128 * (d + 128 * h)))
  <2>1. 1 \in 1 .. 4 /\ 2 \in 1 .. 4 /\ 3 \in 1 .. 4 /\ 4 \in 1 .. 4
    OBVIOUS
  <2>2. olen \in Int
    BY DEF CallInductive
  <2> QED
    BY <2>1, <2>2, LengthRead
<1>2. top \in 0 .. 15
  <2>1. h \in -8 .. 7
    BY <1>1
  <2> HIDE DEF h
  <2> QED
    BY <2>1 DEF TopBits
<1>3. /\ src < 2 => b = 0
      /\ src < 3 => c = 0
      /\ src < 4 => d = 0
      /\ src < 5 => h = 0 /\ top = 0
  BY <1>1 DEF GroupAt, TopBits
<1>4. /\ a = input[1] % 128
      /\ src >= 2 => b = input[2] % 128
      /\ src >= 3 => c = input[3] % 128
      /\ src >= 4 => d = input[4] % 128
  BY <1>1 DEF GroupAt
<1>5. src = 5 /\ input[5] < 16 => top = input[5]
  <2> SUFFICES ASSUME src = 5, input[5] < 16 PROVE top = input[5]
    OBVIOUS
  <2>1. input[5] \in 0 .. 15
    BY <1>1 DEF Byte8
  <2>2. h = IF input[5] < 8 THEN input[5] ELSE input[5] - 16
    BY <2>1 DEF FifthGroup
  <2> QED
    BY <2>1, <2>2 DEF TopBits
<1> HIDE DEF a, b, c, d, h
<1>6. /\ olen < 0 <=> h < 0
      /\ v[1] = a + 128 * (b + 128 * (c + 128 * (d + 128 * h)))
      /\ v[2] = b + 128 * (c + 128 * (d + 128 * top))
      /\ v[3] = c + 128 * (d + 128 * top)
      /\ v[4] = d + 128 * top
      /\ v[5] = top
  <2>1. /\ olen < 0 <=> h < 0
        /\ ShiftRight7(olen) = b + 128 * (c + 128 * (d + 128 * top))
        /\ ShiftRight7(olen) \div 128 = c + 128 * (d + 128 * top)
        /\ (ShiftRight7(olen) \div 128) \div 128 = d + 128 * top
        /\ ((ShiftRight7(olen) \div 128) \div 128) \div 128 = top
    <3>1. HasGroups(olen, a, b, c, d, h)
      BY <1>1 DEF HasGroups
    <3> QED
      BY <3>1, Digits
  <2> HIDE DEF top
  <2> QED
    BY <1>1, <2>1
<1> HIDE DEF top
<1>7. v \in [1 .. 5 -> Int]
  <2>1. v[1] \in Int /\ v[2] \in Int /\ v[3] \in Int /\ v[4] \in Int /\ v[5] \in Int
    BY <1>1, <1>2, <1>6
  <2>2. DOMAIN v = 1 .. 5 /\ v = [i \in 1 .. 5 |-> v[i]]
    OBVIOUS
  <2>3. \A i \in 1 .. 5 : v[i] \in Int
    BY <2>1
  <2> QED
    BY <2>2, <2>3
<1>8. /\ v[1] % 128 = a /\ v[2] % 128 = b /\ v[3] % 128 = c /\ v[4] % 128 = d
      /\ v[5] % 128 = top
  <2> DEFINE q4 == d + 128 * h    q3 == c + 128 * q4    q2 == b + 128 * q3
             r4 == d + 128 * top  r3 == c + 128 * r4
  <2>1. /\ q2 \in Int /\ r3 \in Int /\ r4 \in Int /\ top \in Int
        /\ v[1] = a + 128 * q2 /\ v[2] = b + 128 * r3 /\ v[3] = c + 128 * r4
        /\ v[4] = d + 128 * top /\ v[5] = top
    BY <1>1, <1>2, <1>6
  <2> HIDE DEF q2, r3, r4
  <2>0. a \in 0 .. 127 /\ b \in 0 .. 127 /\ c \in 0 .. 127 /\ d \in 0 .. 127
    BY <1>1
  <2>2. (a + 128 * q2) % 128 = a
    BY <2>0, <2>1, SplitDigit, Zenon
  <2>3. (b + 128 * r3) % 128 = b
    BY <2>0, <2>1, SplitDigit, Zenon
  <2>4. (c + 128 * r4) % 128 = c
    BY <2>0, <2>1, SplitDigit, Zenon
  <2>5. (d + 128 * top) % 128 = d
    BY <2>0, <2>1, SplitDigit, Zenon
  <2>6. v[5] % 128 = top
    BY <1>2, <2>1
  <2> QED
    BY <2>1, <2>2, <2>3, <2>4, <2>5, <2>6
<1>9. v[src] < 128
  <2>1. CASE src = 1
    BY <1>1, <1>3, <1>6, <2>1
  <2>2. CASE src = 2
    BY <1>1, <1>3, <1>6, <2>2
  <2>3. CASE src = 3
    BY <1>1, <1>3, <1>6, <2>3
  <2>4. CASE src = 4
    BY <1>1, <1>3, <1>6, <2>4
  <2>5. CASE src = 5
    BY <1>2, <1>6, <2>5
  <2> QED
    BY <1>1, <2>1, <2>2, <2>3, <2>4, <2>5
<1>10. olen < 0 => src = 5
  BY <1>1, <1>3, <1>6
<1>11. \A i \in 1 .. src : i < 5 => v[i] % 128 = input[i] % 128
  <2> SUFFICES ASSUME NEW i \in 1 .. src, i < 5 PROVE v[i] % 128 = input[i] % 128
    OBVIOUS
  <2>1. i = 1 \/ (i = 2 /\ src >= 2) \/ (i = 3 /\ src >= 3) \/ (i = 4 /\ src >= 4)
    BY <1>1
  <2> QED
    BY <1>4, <1>8, <2>1
<1>12. src = 5 /\ input[5] < 16 => v[5] % 128 = input[5]
  BY <1>5, <1>8
<1> QED
  BY <1>7, <1>9, <1>10, <1>11, <1>12

(* The header that was read is what encode_varint32 writes. *)
LEMMA HeaderRead == CallInductive => HeaderInverse
<1> SUFFICES ASSUME CallInductive, pc = "sized"
             PROVE  /\ src >= Len(Varint(olen))
                    /\ src = Len(Varint(olen)) /\ (src = 5 => input[5] < 16) =>
                         SubSeq(input, 1, src) = Varint(olen)
  BY DEF HeaderInverse
<1> DEFINE v == <<olen, ShiftRight7(olen), ShiftRight7(olen) \div 128,
                  (ShiftRight7(olen) \div 128) \div 128,
                  ((ShiftRight7(olen) \div 128) \div 128) \div 128>>
<1>1. /\ v \in [1 .. 5 -> Int]
      /\ olen < 0 => src = 5
      /\ v[src] < 128
      /\ \A i \in 1 .. src : i < 5 => v[i] % 128 = input[i] % 128
      /\ src = 5 /\ input[5] < 16 => v[5] % 128 = input[5]
  BY DigitsRead
<1>2. /\ src \in 1 .. 5 /\ src <= Len(input) /\ olen \in Int
      /\ \A k \in 1 .. src : input[k] \in Byte8
      /\ \A k \in 1 .. src : k < src => input[k] >= 128
      /\ input[src] < 128
  BY LengthRead DEF CallInductive
<1>3. v = <<olen, ShiftRight7(olen), ShiftRight7(olen) \div 128,
            (ShiftRight7(olen) \div 128) \div 128,
            ((ShiftRight7(olen) \div 128) \div 128) \div 128>>
  OBVIOUS
<1> HIDE DEF v
<1>4. \E k \in 1 .. src :
        Varint(olen) = [i \in 1 .. k |-> IF i = k THEN v[i] % 128 ELSE 128 + (v[i] % 128)]
  <2>1. EndsAt(olen, v, src)
    BY <1>1, <1>2, <1>3 DEF EndsAt
  <2> QED
    BY <2>1, VarintDigits
<1>5. PICK k \in 1 .. src :
        Varint(olen) = [i \in 1 .. k |-> IF i = k THEN v[i] % 128 ELSE 128 + (v[i] % 128)]
  BY <1>4
<1>6. \A i \in 1 .. k : (IF i = k THEN v[i] % 128 ELSE 128 + (v[i] % 128)) \in Int
  <2> SUFFICES ASSUME NEW i \in 1 .. k
               PROVE  (IF i = k THEN v[i] % 128 ELSE 128 + (v[i] % 128)) \in Int
    OBVIOUS
  <2>1. v[i] \in Int
    <3>1. i \in 1 .. 5
      BY <1>2
    <3> QED
      BY <1>1, <3>1
  <2>2. v[i] % 128 \in Int
    BY <2>1
  <2> QED
    BY <2>2
<1>7. /\ Varint(olen) \in Seq(Int) /\ Len(Varint(olen)) = k
      /\ \A i \in 1 .. k : Varint(olen)[i] = IF i = k THEN v[i] % 128 ELSE 128 + (v[i] % 128)
  <2>1. Varint(olen) \in [1 .. k -> Int]
    BY <1>5, <1>6
  <2>2. k \in Nat
    BY <1>2
  <2>3. Varint(olen) \in Seq(Int)
    BY <2>1, <2>2
  <2>4. Len(Varint(olen)) = k
    BY <2>1, <2>2, <2>3
  <2> QED
    BY <1>5, <2>3, <2>4
<1>8. ASSUME src = k, src = 5 => input[5] < 16
      PROVE  SubSeq(input, 1, src) = Varint(olen)
  <2>1. ASSUME NEW i \in 1 .. k PROVE Varint(olen)[i] = input[i]
    <3>1. input[i] \in 0 .. 255 /\ i \in 1 .. 5
      BY <1>2 DEF Byte8
    <3>2. CASE i = k /\ i = 5
      BY <1>1, <1>7, <1>8, <3>2
    <3>3. CASE i = k /\ i < 5
      <4>1. input[i] < 128 /\ v[i] % 128 = input[i] % 128
        BY <1>1, <1>2, <1>8, <3>3
      <4>2. input[i] % 128 = input[i]
        BY <3>1, <4>1
      <4> QED
        BY <1>7, <3>3, <4>1, <4>2
    <3>4. CASE i # k
      <4>1. i < src /\ i < 5
        BY <1>2, <1>8, <3>4
      <4>2. input[i] >= 128 /\ v[i] % 128 = input[i] % 128
        BY <1>1, <1>2, <4>1
      <4>3. 128 + (input[i] % 128) = input[i]
        BY <3>1, <4>2
      <4> QED
        BY <1>7, <3>4, <4>2, <4>3
    <3> QED
      BY <3>1, <3>2, <3>3, <3>4
  <2> DEFINE m == 1
             t == SubSeq(input, m, src)
  <2>2. m \in Int /\ src \in Int /\ m = 1
    BY <1>2
  <2>3. \A i \in m .. src : input[i] \in Int
    <3>1. Byte8 \subseteq Int
      BY DEF Byte8
    <3> QED
      BY <1>2, <3>1
  <2> HIDE DEF m
  <2>4. /\ t \in Seq(Int)
        /\ Len(t) = IF m <= src THEN src - m + 1 ELSE 0
        /\ \A i \in 1 .. src - m + 1 : t[i] = input[m + i - 1]
    BY <2>2, <2>3, SubSeqProperties
  <2>5. Len(t) = k /\ \A i \in 1 .. k : t[i] = input[i]
    <3>1. m <= src /\ src - m + 1 = k
      BY <1>2, <1>8, <2>2
    <3>2. \A i \in 1 .. k : m + i - 1 = i
      BY <1>2, <2>2
    <3> QED
      BY <2>4, <3>1, <3>2
  <2>6. \A i \in 1 .. Len(t) : t[i] = Varint(olen)[i]
    BY <2>1, <2>5
  <2>7. t = Varint(olen)
    BY <1>7, <2>4, <2>5, <2>6, SeqEqual
  <2> QED
    BY <2>2, <2>7
<1>9. src >= k
  BY <1>2
<1> QED
  BY <1>7, <1>8, <1>9

-----------------------------------------------------------------------------
(* csnappy_decompress: the header read so far, the room, and the invariant *)
(* of either version of csnappy_decompress_noheader once it has started,   *)
(* for every input, room and distance from the last address.  What it says *)
(* of reads and stores excepts the version for ARM at a literal of 2^32    *)
(* bytes, or one that can reach the last address.                          *)
THEOREM CallInvariant == CallSpec => []CallInductive
<1>1. CallInit => CallInductive
  BY CallInitInductive
<1>2. CallInductive /\ [CallNext]_cvars => CallInductive'
  BY CallNextInductive
<1> QED
  BY <1>1, <1>2, PTL DEF CallSpec

(* Neither the header nor a version of the loop reads outside the input    *)
(* and scratch, however the header ends, with the exception of CallReads.  *)
THEOREM CallReadsInside == CallSpec => []CallReads
<1>1. CallInductive => CallReads
  BY DEF CallInductive
<1> QED
  BY <1>1, CallInvariant, PTL

(* Without any exception, the version with scratch and table (whose pc is  *)
(* never one of the other's) reads inside the input and scratch.           *)
THEOREM FastReadsInside ==
    CallSpec => [](pc \notin {"while", "while_over", "astray"} => ReadsInside)
<1>1. CallInductive => (pc \notin {"while", "while_over", "astray"} => ReadsInside)
  BY DEF CallInductive, CallReads, AtLongLiteral
<1> QED
  BY <1>1, CallInvariant, PTL

(* What csnappy_get_uncompressed_length reads is the length that           *)
(* encode_varint32 writes with the same bytes, all 32 bits of it.          *)
THEOREM HeaderInverted == CallSpec => []HeaderInverse
BY HeaderRead, CallInvariant, PTL

(* csnappy_get_uncompressed_length refuses only headers that do not end    *)
(* within five bytes or within the input.                                  *)
THEOREM HeadersRefused == CallSpec => []HeaderRefused
<1>1. CallInductive => HeaderRefused
  BY DEF CallInductive
<1> QED
  BY <1>1, CallInvariant, PTL

(* Whatever length the header claims, csnappy_decompress writes no more    *)
(* than the caller's room; the version for ARM may do so only at a literal *)
(* of 2^32 bytes, or one that can reach the last address.                  *)
THEOREM StaysWithinRoom == CallSpec => []WithinRoom
<1>1. CallInductive => WithinRoom
  BY DEF CallInductive
<1> QED
  BY <1>1, CallInvariant, PTL

(* The version without tables accepts only elements that are all there.    *)
THEOREM SimpleDecodesWhole == CallSpec => []SimpleWhole
<1>1. CallInductive => SimpleWhole
  <2> SUFFICES ASSUME CallInductive, pc = "while_over", answer = "ok"
               PROVE  src = end /\ inHigh <= n
    BY DEF SimpleWhole
  <2>1. SimpleInductive
    BY DEF CallInductive, Started
  <2> QED
    BY <2>1 DEF SimpleInductive, CallInductive, CallReads, AtLongLiteral, ReadsInside
<1> QED
  BY <1>1, CallInvariant, PTL

(* Behind the header either version decodes the elements, or refuses them, *)
(* as StreamDecoder does; the version for ARM makes one step that is none  *)
(* of the decoder's, from which nothing follows, at a literal of 2^32      *)
(* bytes or one that can reach the last address.                           *)
THEOREM BodyDecoded == CallSpec => BodyDecodes
<1>1. CallInductive /\ [CallNext]_cvars =>
        [InHeader \/ Decoder!Next \/ AtLongLiteral']_<<Decoder!dvars, dstHigh>>
  <2> SUFFICES ASSUME CallInductive, [CallNext]_cvars
               PROVE  \/ InHeader \/ Decoder!Next \/ AtLongLiteral'
                      \/ UNCHANGED <<Decoder!dvars, dstHigh>>
    OBVIOUS
  <2>1. CASE UNCHANGED cvars
    BY <2>1 DEF cvars, nvars, Decoder!dvars, at, Place, n
  <2>2. CASE Header
    <3>1. InHeader
      BY <2>2 DEF Header, HeaderByte, HeaderBad, OutputInsuf, Start, InHeader
    <3> QED
      BY <3>1
  <2>3. CASE CallBody /\ ~UNCHANGED cvars
    BY <2>3, LoopStep, SimpleStep DEF CallBody
  <2> QED
    BY <2>1, <2>2, <2>3 DEF CallNext
<1> QED
  BY <1>1, CallInvariant, PTL DEF CallSpec, BodyDecodes

-----------------------------------------------------------------------------
(* The input is an encoding of a text.                                     *)

(* The input is the header for t and k elements that stand for t. *)
Parsed(t, k, starts, made) ==
    /\ t \in Seq(Byte8) /\ Len(t) \div 2 <= MaxInt32 /\ k \in Nat
    /\ starts \in [0 .. k -> Nat] /\ made \in [0 .. k -> Nat]
    /\ SubSeq(input, 1, starts[0]) = Varint(Len(t))
    /\ IsParse(input, t, k, starts, made)

(* The header in it. *)
LEMMA ParsedHeader ==
    ASSUME NEW t, NEW k, NEW starts, NEW made, Parsed(t, k, starts, made),
           input \in Seq(Byte8)
    PROVE  \E g : /\ IsVarint(Varint(Len(t)), Len(t), starts[0], g)
                  /\ starts[0] \in 1 .. 5 /\ starts[0] <= Len(input) /\ g \in [1 .. 5 -> 0 .. 127]
                  /\ \A j \in 1 .. starts[0] : input[j] = IF j = starts[0] THEN g[j] ELSE 128 + g[j]
<1> DEFINE w == Len(t)   h == starts[0]
<1>1. /\ w \in Nat /\ w \div 2 <= MaxInt32 /\ SubSeq(input, 1, h) = Varint(w)
      /\ h \in 0 .. Len(input)
  <2>1. t \in Seq(Byte8) /\ k \in Nat /\ starts \in [0 .. k -> 0 .. Len(input)]
    BY DEF Parsed, IsParse
  <2>2. 0 \in 0 .. k
    BY <2>1
  <2>. QED  BY <2>1, <2>2, LenProperties DEF Parsed
<1> HIDE DEF w, h
<1>2. PICK m, g : IsVarint(Varint(w), w, m, g)
  BY <1>1, VarintShape
<1>3. /\ Len(SubSeq(input, 1, h)) = h
      /\ \A j \in 1 .. h : SubSeq(input, 1, h)[j] = input[j]
  BY <1>1, Prefix
<1>4. /\ m \in 1 .. 5 /\ g \in [1 .. 5 -> 0 .. 127] /\ Len(Varint(w)) = m
      /\ \A j \in 1 .. m : Varint(w)[j] = IF j = m THEN g[j] ELSE 128 + g[j]
  BY <1>2 DEF IsVarint
<1>5. h = m
  BY <1>1, <1>3, <1>4
<1>6. h <= Len(input)
  BY <1>1
<1>7. \A j \in 1 .. h : input[j] = IF j = h THEN g[j] ELSE 128 + g[j]
  BY <1>1, <1>3, <1>4, <1>5
<1>8. IsVarint(Varint(w), w, h, g)
  BY <1>2, <1>5
<1>9. h \in 1 .. 5 /\ g \in [1 .. 5 -> 0 .. 127]
  BY <1>4, <1>5
<1>. QED  BY <1>6, <1>7, <1>8, <1>9, Zenon DEF w, h

(* The header is not refused: it does not end before its last byte. *)
LEMMA HeaderGoesOn ==
    ASSUME NEW t, NEW k, NEW starts, NEW made, Parsed(t, k, starts, made), CallInductive
    PROVE  ~HeaderBad
<1> SUFFICES ASSUME HeaderBad PROVE FALSE
  OBVIOUS
<1> DEFINE h == starts[0]
<1>1. /\ n \in Nat /\ n = Len(input) /\ input \in Seq(Byte8)
      /\ src \in 0 .. n /\ shift = 7 * src /\ \A j \in 1 .. src : input[j] >= 128
      /\ shift >= 32 \/ src = n
  BY LenProperties DEF CallInductive, HeaderSoFar, InHeader, HeaderBad, TooManyBytes, n
<1>0. \E g : /\ h \in 1 .. 5 /\ h <= Len(input) /\ g \in [1 .. 5 -> 0 .. 127]
            /\ \A j \in 1 .. h : input[j] = IF j = h THEN g[j] ELSE 128 + g[j]
  BY <1>1, ParsedHeader
<1> HIDE DEF h
<1>2. PICK g : /\ h \in 1 .. 5 /\ h <= Len(input) /\ g \in [1 .. 5 -> 0 .. 127]
               /\ \A j \in 1 .. h : input[j] = IF j = h THEN g[j] ELSE 128 + g[j]
  BY <1>0
<1>3. input[h] < 128 /\ ~(input[h] >= 128)
  <2>1. h \in 1 .. h
    BY <1>2
  <2>2. g[h] \in 0 .. 127
    BY <1>2
  <2>3. input[h] = IF h = h THEN g[h] ELSE 128 + g[h]
    BY <1>2, <2>1
  <2>. QED  BY <2>2, <2>3
<1>4. src < h
  BY <1>1, <1>2, <1>3
<1>. QED  BY <1>1, <1>2, <1>4

(* The length that was read is that of t. *)
LEMMA SizedRight ==
    ASSUME NEW t, NEW k, NEW starts, NEW made, Parsed(t, k, starts, made), CallInductive,
           pc = "sized"
    PROVE  src = starts[0] /\ (olen = Len(t) \/ (olen < 0 /\ Len(t) > MaxInt32))
<1> DEFINE w == Len(t)   h == starts[0]
           f == IF src = 5 THEN FifthGroup(input[5]) ELSE 0
           a == GroupAt(1)  b == GroupAt(2)  c == GroupAt(3)  d == GroupAt(4)
<1>1. /\ src \in 1 .. 5 /\ src <= Len(input)
      /\ \A j \in 1 .. src : j < src => input[j] >= 128
      /\ input[src] < 128
      /\ olen = a + 128 * (b + 128 * (c + 128 * (d + 128 * f)))
  BY LengthRead
<1>2. input \in Seq(Byte8) /\ olen \in Int
  BY DEF CallInductive
<1>0. \E g : /\ IsVarint(Varint(w), w, h, g)
            /\ h \in 1 .. 5 /\ h <= Len(input) /\ g \in [1 .. 5 -> 0 .. 127]
            /\ \A j \in 1 .. h : input[j] = IF j = h THEN g[j] ELSE 128 + g[j]
  BY <1>2, ParsedHeader
<1> HIDE DEF h, w
<1>3. PICK g : /\ IsVarint(Varint(w), w, h, g)
               /\ h \in 1 .. 5 /\ h <= Len(input) /\ g \in [1 .. 5 -> 0 .. 127]
               /\ \A j \in 1 .. h : input[j] = IF j = h THEN g[j] ELSE 128 + g[j]
  BY <1>0
<1>4. /\ \A j \in 1 .. 5 : j > h => g[j] = 0
      /\ g[5] <= 15
      /\ w = g[1] + 128 * (g[2] + 128 * (g[3] + 128 * (g[4] + 128 * g[5])))
  BY <1>3 DEF IsVarint
<1>5. \A j \in 1 .. 5 : g[j] \in 0 .. 127
  BY <1>3
<1>6. src = h
  <2>0. h \in 1 .. 5 /\ h \in 1 .. h /\ src \in 1 .. 5 /\ input[src] < 128
    BY <1>1, <1>3
  <2>1. \A j \in 1 .. h : j # h => ~(input[j] < 128)
    <3> SUFFICES ASSUME NEW j \in 1 .. h, j # h PROVE ~(input[j] < 128)
      OBVIOUS
    <3>1. input[j] = IF j = h THEN g[j] ELSE 128 + g[j]
      BY <1>3
    <3>2. j \in 1 .. 5
      BY <2>0
    <3>3. g[j] \in 0 .. 127
      BY <1>5, <3>2
    <3>. QED  BY <3>1, <3>3
  <2>2. ~(src < h)
    <3>1. src < h => src \in 1 .. h /\ src # h
      BY <2>0
    <3>. QED  BY <2>0, <2>1, <3>1
  <2>3. ~(h < src)
    <3>1. h < src => input[h] >= 128
      BY <1>1, <1>3
    <3>2. ~(input[h] >= 128)
      <4>1. input[h] = g[h] /\ g[h] \in 0 .. 127
        BY <1>3, <1>5
      <4>. QED  BY <4>1
    <3>. QED  BY <3>1, <3>2
  <2>. QED  BY <1>1, <1>3, <2>2, <2>3
<1>7. \A j \in 1 .. 5 : j <= src => input[j] % 128 = g[j]
  <2>1. \A x \in 0 .. 127 : x % 128 = x /\ (128 + x) % 128 = x
    OBVIOUS
  <2> SUFFICES ASSUME NEW j \in 1 .. 5, j <= src PROVE input[j] % 128 = g[j]
    OBVIOUS
  <2>2. g[j] \in 0 .. 127
    BY <1>5
  <2>4. j \in 1 .. h
    BY <1>6
  <2>3. input[j] = g[j] \/ input[j] = 128 + g[j]
    BY <1>3, <2>4
  <2>. QED  BY <2>1, <2>2, <2>3
<1>8. a = g[1] /\ b = g[2] /\ c = g[3] /\ d = g[4]
  <2>1. \A j \in 1 .. 5 : GroupAt(j) = g[j]
    <3> SUFFICES ASSUME NEW j \in 1 .. 5 PROVE GroupAt(j) = g[j]
      OBVIOUS
    <3>1. CASE j <= src
      BY <1>7, <3>1 DEF GroupAt
    <3>2. CASE ~(j <= src)
      BY <1>1, <1>4, <1>6, <3>2 DEF GroupAt
    <3>. QED  BY <3>1, <3>2
  <2>. QED  BY <2>1
<1>9. f = IF g[5] < 8 THEN g[5] ELSE g[5] - 16
  <2>1. g[5] \in 0 .. 15
    BY <1>4, <1>5
  <2>2. CASE src = 5
    <3>1. input[5] = g[5]
      BY <1>3, <1>6, <2>2
    <3>2. g[5] % 16 = g[5]
      BY <2>1
    <3>. QED  BY <2>2, <3>1, <3>2 DEF FifthGroup
  <2>3. CASE src # 5
    <3>1. g[5] = 0
      BY <1>1, <1>4, <1>6, <2>3
    <3>. QED  BY <2>3, <3>1
  <2>. QED  BY <2>2, <2>3
<1> HIDE DEF a, b, c, d, f
<1>10. olen = w \/ (olen < 0 /\ w > 2147483647)
  <2> DEFINE x == g[1]  y == g[2]  z == g[3]  u == g[4]  v == g[5]
  <2>1. /\ x \in 0 .. 127 /\ y \in 0 .. 127 /\ z \in 0 .. 127 /\ u \in 0 .. 127
        /\ v \in 0 .. 15
    BY <1>4, <1>5
  <2>2. /\ w = x + 128 * (y + 128 * (z + 128 * (u + 128 * v)))
        /\ olen = x + 128 * (y + 128 * (z + 128 * (u + 128 * (IF v < 8 THEN v ELSE v - 16))))
    BY <1>1, <1>4, <1>8, <1>9
  <2> HIDE DEF x, y, z, u, v
  <2>3. CASE v < 8
    BY <2>2, <2>3
  <2>4. CASE ~(v < 8)
    <3>1. v >= 8 /\ v - 16 <= -1
      BY <2>1, <2>4
    <3>2. olen = x + 128 * (y + 128 * (z + 128 * (u + 128 * (v - 16))))
      BY <2>2, <2>4
    <3>. QED  BY <2>1, <2>2, <3>1, <3>2, SMT
  <2>. QED  BY <2>3, <2>4
<1>11. olen = w \/ (olen < 0 /\ w > MaxInt32)
  BY <1>10, SMT DEF MaxInt32
<1>. QED  BY <1>6, <1>11 DEF w, h

(* The first i elements have been decoded. *)
DecodedTo(t, k, starts, made, i) ==
    /\ limit = Len(t) /\ i \in 0 .. k
    /\ at = starts[i] /\ text = SubSeq(t, 1, made[i])

(* How far the call has come: it is in the header, or has found that t does *)
(* not fit, or has decoded the first i elements.                           *)
Along(t, k, starts, made) ==
    \/ InHeader
    \/ ~InHeader /\ pc # "astray" /\ answer = "output_insuf" /\ dst_len < Len(t)
    \/ /\ ~InHeader /\ pc # "astray" /\ limit = Len(t)
       /\ \E i \in 0 .. k : /\ at = starts[i] /\ text = SubSeq(t, 1, made[i])
                            /\ answer = "none" \/ (answer = "ok" /\ i = k)

(* The next element, as the decoder finds it. *)
LEMMA NextFound ==
    ASSUME NEW t, NEW k, NEW starts, NEW made, Parsed(t, k, starts, made),
           input \in Seq(Byte8), limit = Len(t), NEW i \in 0 .. k,
           at = starts[i], text = SubSeq(t, 1, made[i]), at # Len(input) \/ i # k
    PROVE  /\ i + 1 \in 0 .. k /\ at \in 0 .. Len(input) - 1 /\ text \in Seq(Byte8)
           /\ SubSeq(t, 1, made[i + 1]) \in Seq(Byte8)
           /\ \E e \in Encodable :
                /\ FoundAt(input, at, starts[i + 1], e)
                /\ Denotes(text, e, SubSeq(t, 1, made[i + 1]))
                /\ e.kind = "literal" => /\ Len(e.bytes) \in Nat
                                         /\ Len(text) + Len(e.bytes) <= limit
                /\ e.kind = "copy" => /\ e.offset \in 1 .. Len(text)
                                      /\ Len(text) + e.len <= limit
<1>1. t \in Seq(Byte8) /\ k \in Nat /\ IsParse(input, t, k, starts, made)
  BY DEF Parsed
<1>2. /\ made[i] \in 0 .. Len(t) /\ at \in 0 .. Len(input)
      /\ i = k => at = Len(input)
      /\ i # k => /\ i + 1 \in 0 .. k /\ at < Len(input)
                  /\ \E e \in Encodable :
                       /\ FoundAt(input, at, starts[i + 1], e)
                       /\ Denotes(text, e, SubSeq(t, 1, made[i + 1]))
  BY <1>1, ParseStep
<1>3. i # k
  BY <1>2
<1> DEFINE j == i + 1   v == SubSeq(t, 1, made[j])
<1>4. j \in 0 .. k
  BY <1>2, <1>3
<1>5. made[j] \in 0 .. Len(t)
  <2> HIDE DEF j
  <2>. QED  BY <1>1, <1>4, ParseStep
<1>6. v \in Seq(Byte8) /\ Len(v) <= limit /\ Len(v) \in Nat
  <2>1. Len(t) \in Nat
    BY <1>1, LenProperties
  <2> DEFINE q == made[j]
  <2>2. q \in 0 .. Len(t)
    BY <1>5
  <2> HIDE DEF q
  <2>3. SubSeq(t, 1, q) \in Seq(Byte8) /\ Len(SubSeq(t, 1, q)) = q
    BY <1>1, <2>2, Prefix
  <2>. QED  BY <2>1, <2>2, <2>3 DEF q
<1>7. text \in Seq(Byte8) /\ Len(text) \in Nat
  BY <1>1, <1>2, Prefix, LenProperties
<1>8. PICK e \in Encodable : FoundAt(input, at, starts[i + 1], e) /\ Denotes(text, e, v)
  BY <1>2, <1>3
<1> HIDE DEF v
<1>9. ASSUME e.kind = "literal"
      PROVE  Len(e.bytes) \in Nat /\ Len(text) + Len(e.bytes) <= limit
  <2> DEFINE b == e.bytes
  <2>1. b \in Seq(Byte8)
    BY <1>8, <1>9, EncodableCases
  <2>2. v = text \o b
    BY <1>8, <1>9 DEF Denotes
  <2> HIDE DEF b
  <2>3. Len(b) \in Nat /\ Len(v) = Len(text) + Len(b)
    BY <1>7, <2>1, <2>2, ConcatProperties, LenProperties
  <2>. QED  BY <1>6, <2>3 DEF b
<1>10. ASSUME e.kind = "copy"
       PROVE  e.offset \in 1 .. Len(text) /\ Len(text) + e.len <= limit
  <2>1. IsRepeat(text, v, e.offset, e.len)
    BY <1>8, <1>10 DEF Denotes
  <2>. QED  BY <1>6, <2>1 DEF IsRepeat
<1>11. at \in 0 .. Len(input) - 1
  BY <1>2, <1>3, LenProperties
<1>. QED  BY <1>4, <1>6, <1>7, <1>8, <1>9, <1>10, <1>11 DEF v

(* A step of the decoder goes from one element to the next, or ends at the *)
(* last one.                                                               *)
LEMMA DecoderFollows ==
    ASSUME NEW t, NEW k, NEW starts, NEW made, Parsed(t, k, starts, made),
           input \in Seq(Byte8), text' \in Seq(Byte8), NEW i,
           DecodedTo(t, k, starts, made, i), Decoder!Next
    PROVE  /\ limit' = limit
           /\ \E j \in 0 .. k : /\ at' = starts[j] /\ text' = SubSeq(t, 1, made[j])
                                /\ answer' = "none" \/ (answer' = "ok" /\ j = k)
<1> i \in 0 .. k /\ limit = Len(t) /\ at = starts[i] /\ text = SubSeq(t, 1, made[i])
  BY DEF DecodedTo
<1>1. CASE Decoder!Finish
  <2>1. /\ at = Len(input) /\ answer' = "ok"
        /\ UNCHANGED <<limit, at, text>>
    BY <1>1 DEF Decoder!Finish
  <2>2. i = k
    <3> SUFFICES ASSUME i # k PROVE FALSE
      OBVIOUS
    <3>1. at \in 0 .. Len(input) - 1
      BY NextFound
    <3>. QED  BY <2>1, <3>1
  <2>. QED  BY <2>1, <2>2
<1>2. CASE Decoder!Element
  <2>1. /\ answer = "none" /\ at < Len(input) /\ limit' = limit
        /\ Decoder!Literal \/ Decoder!Copy \/ Decoder!TornLiteral \/ Decoder!TornCopy
    BY <1>2 DEF Decoder!Element
  <2> DEFINE j == i + 1   v == SubSeq(t, 1, made[j])   b == starts[j]
  <2>2. at # Len(input)
    <3>1. Len(input) \in Nat
      BY LenProperties
    <3>. QED  BY <2>1, <3>1
  <2>3. /\ j \in 0 .. k /\ text \in Seq(Byte8) /\ v \in Seq(Byte8)
        /\ \E e \in Encodable :
             /\ FoundAt(input, at, b, e) /\ Denotes(text, e, v)
             /\ e.kind = "literal" => Len(e.bytes) \in Nat /\ Len(text) + Len(e.bytes) <= limit
             /\ e.kind = "copy" => e.offset \in 1 .. Len(text) /\ Len(text) + e.len <= limit
    BY <2>2, NextFound
  <2> HIDE DEF v, b
  <2>4. PICK e \in Encodable :
             /\ FoundAt(input, at, b, e) /\ Denotes(text, e, v)
             /\ e.kind = "literal" => Len(e.bytes) \in Nat /\ Len(text) + Len(e.bytes) <= limit
             /\ e.kind = "copy" => e.offset \in 1 .. Len(text) /\ Len(text) + e.len <= limit
    BY <2>3
  <2>5. Denotes(text, e, text') /\ at' = b /\ answer' = answer
    <3>1. CASE /\ e.kind = "literal" /\ WholeLiteral(input, at) /\ LiteralAt(input, at) = e
               /\ LengthAt(input, at) = Len(e.bytes)
               /\ BodyAt(input, at) + LengthAt(input, at) = b
      <4>1. IsLiteral(TagAt(input, at)) /\ ~WholeCopy(input, at)
        BY <3>1 DEF WholeLiteral, WholeCopy
      <4>2. Decoder!Literal
        BY <2>1, <3>1, <4>1, SameFormat DEF Decoder!Copy, Decoder!TornLiteral, Decoder!TornCopy
      <4>3. Decoder!LiteralAt(input, at) = e /\ Decoder!BodyAt(input, at) = BodyAt(input, at)
        BY <3>1, SameFormat
      <4>4. Decoder!Fits(Len(e.bytes))
        BY <2>4, <3>1 DEF Decoder!Fits
      <4>5. /\ Decoder!Denotes(text, e, text') /\ answer' = answer
            /\ at' = BodyAt(input, at) + Len(e.bytes)
        BY <4>2, <4>3, <4>4 DEF Decoder!Literal
      <4>. QED  BY <3>1, <4>5, SameMeaning
    <3>2. CASE /\ e.kind = "copy" /\ WholeCopy(input, at) /\ CopyAt(input, at) = e
               /\ BodyAt(input, at) = b
      <4>1. ~IsLiteral(TagAt(input, at)) /\ HeaderWhole(input, at) /\ ~WholeLiteral(input, at)
        BY <3>2 DEF WholeLiteral, WholeCopy
      <4>2. Decoder!Copy
        BY <2>1, <3>2, <4>1, SameFormat
           DEF Decoder!Literal, Decoder!TornLiteral, Decoder!TornCopy
      <4>3. Decoder!CopyAt(input, at) = e /\ Decoder!BodyAt(input, at) = BodyAt(input, at)
        BY <3>2, SameFormat
      <4>4. Decoder!Reachable(e.offset) /\ Decoder!Fits(e.len)
        BY <2>4, <3>2 DEF Decoder!Fits, Decoder!Reachable
      <4>5. /\ Decoder!Denotes(text, e, text') /\ answer' = answer
            /\ at' = BodyAt(input, at)
        BY <4>2, <4>3, <4>4 DEF Decoder!Copy
      <4>. QED  BY <3>2, <4>5, SameMeaning
    <3>. QED  BY <2>4, <3>1, <3>2 DEF FoundAt
  <2>6. text' = v
    BY <2>3, <2>4, <2>5, DenotesUnique
  <2>7. at' = starts[j] /\ text' = SubSeq(t, 1, made[j])
    BY <2>5, <2>6 DEF v, b
  <2> HIDE DEF j
  <2>. QED  BY <2>1, <2>3, <2>5, <2>7
<1>. QED  BY <1>1, <1>2 DEF Decoder!Next

(* What either version of the loop leaves behind. *)
LEMMA BodyShape ==
    ASSUME CallInductive, CallBody, ~UNCHANGED cvars
    PROVE  /\ ~InHeader /\ ~InHeader' /\ pc # "returned" /\ text' \in Seq(Byte8)
           /\ pc' = "astray" => SimpleAstray
           /\ pc' = "astray" \/ Decoder!Next \/ UNCHANGED Decoder!dvars
<1>0. /\ (Next /\ UNCHANGED dstHigh) \/ SimpleNext
      /\ UNCHANGED <<dst_len, olen, shift>>
  BY DEF CallBody
<1>1. CASE Next /\ UNCHANGED dstHigh
  <2>1. /\ pc \in {"loop", "opcode", "append"}
        /\ pc' \in {"loop", "opcode", "append", "returned"}
    <3>1. Loop \/ Body
      BY <1>0, <1>1 DEF Next, Returned, cvars
    <3>. QED  BY <3>1 DEF Loop, InPlace, Refill, Out, Body, AskCopy, AskFast, AskExact,
       LiteralMalformed, LiteralHuge, Appended, Refused, Return
  <2>2. Inductive
    BY <2>1 DEF CallInductive, Started, NotStarted, InHeader
  <2>3. text' \in Seq(Byte8)
    BY <1>1, <2>2, StepInductive DEF Inductive, InBounds, TypeOK
  <2>. QED  BY <1>0, <1>1, <2>1, <2>3, LoopStep DEF InHeader
<1>2. CASE SimpleNext
  <2>1. SimpleAppend \/ SimpleMalformed \/ SimpleOverrun \/ SimpleAstray \/ SimpleOut
    BY <1>0, <1>2 DEF SimpleNext, cvars
  <2>2. /\ pc = "while" /\ pc' \in {"while", "while_over", "astray"}
        /\ pc' = "astray" => SimpleAstray
    BY <2>1 DEF SimpleAppend, SimpleMalformed, SimpleOverrun, SimpleAstray, SimpleOut,
       SimpleReturn, Iteration
  <2>3. SimpleInductive'
    BY <2>1, SimpleAppendStep, SimpleRefuseStep, SimpleAstrayStep, SimpleOutStep
  <2>4. text' \in Seq(Byte8)
    BY <2>3 DEF SimpleInductive
  <2>5. pc' = "astray" \/ Decoder!Next
    BY <1>0, <1>2, SimpleStep DEF AtLongLiteral
  <2>. QED  BY <2>2, <2>4, <2>5 DEF InHeader
<1>. QED  BY <1>0, <1>1, <1>2

(* The header has been read. *)
LEMMA SizedStep ==
    ASSUME NEW t, NEW k, NEW starts, NEW made, Parsed(t, k, starts, made), CallInductive,
           OutputInsuf \/ Start
    PROVE  Along(t, k, starts, made)'
<1>1. /\ pc = "sized" /\ InHeader /\ UNCHANGED <<input, where, src, end, pending, text>>
      /\ UNCHANGED dst_len
  BY DEF OutputInsuf, Start, InHeader
<1>2. src = starts[0] /\ (olen = Len(t) \/ (olen < 0 /\ Len(t) > MaxInt32))
  BY <1>1, SizedRight
<1>3. /\ t \in Seq(Byte8) /\ Len(t) \in Nat /\ k \in Nat /\ made[0] = 0
      /\ dst_len \in 0 .. MaxInt32 - 1
  BY LenProperties DEF Parsed, IsParse, CallInductive
<1>4. CASE OutputInsuf
  <2>1. pc' = "returned" /\ answer' = "output_insuf" /\ (olen < 0 \/ olen > dst_len)
    BY <1>4 DEF OutputInsuf, Return, Insufficient
  <2>2. dst_len < Len(t)
    BY <1>2, <1>3, <2>1, MaxInt32Int
  <2>. QED  BY <1>1, <2>1, <2>2 DEF Along, InHeader
<1>5. CASE Start
  <2>1. pc' \in {"loop", "while"} /\ limit' = olen /\ ~(olen < 0) /\ answer' = answer
    BY <1>5 DEF Start, Insufficient
  <2>2. limit' = Len(t)
    BY <1>2, <2>1
  <2>3. /\ where = "input" /\ src \in 0 .. n /\ pending = NoCall /\ text = <<>>
        /\ answer = "none" /\ n \in Nat
    BY <1>1, LenProperties DEF CallInductive, HeaderSoFar, n
  <2>4. at' = src
    BY <1>1, <2>3 DEF at, Place, n
  <2> DEFINE z == 0
  <2>5. z \in 0 .. Len(t) /\ z = 0
    BY <1>3
  <2> HIDE DEF z
  <2>6. SubSeq(t, 1, z) \in Seq(Byte8) /\ Len(SubSeq(t, 1, z)) = z
    BY <1>3, <2>5, Prefix
  <2>7. SubSeq(t, 1, made[0]) = <<>>
    BY <1>3, <2>5, <2>6, EmptySeq
  <2>8. 0 \in 0 .. k
    BY <1>3
  <2>9. at' = starts[0] /\ text' = SubSeq(t, 1, made[0]) /\ answer' = "none"
    BY <1>1, <1>2, <2>1, <2>3, <2>4, <2>7
  <2>. QED  BY <2>1, <2>2, <2>8, <2>9 DEF Along, InHeader
<1>. QED  BY <1>4, <1>5

(* An element is decoded, or none is left. *)
LEMMA BodyStep ==
    ASSUME NEW t, NEW k, NEW starts, NEW made, Parsed(t, k, starts, made), CallInductive,
           Along(t, k, starts, made), CallBody, ~UNCHANGED cvars
    PROVE  Along(t, k, starts, made)'
<1>1. /\ ~InHeader /\ ~InHeader' /\ pc # "returned" /\ text' \in Seq(Byte8)
      /\ pc' = "astray" => SimpleAstray
      /\ pc' = "astray" \/ Decoder!Next \/ UNCHANGED Decoder!dvars
  BY BodyShape
<1>2. input \in Seq(Byte8) /\ answer # "output_insuf"
  BY <1>1 DEF CallInductive
<1>3. limit = Len(t)
  BY <1>1, <1>2 DEF Along
<1>4. PICK i \in 0 .. k : /\ at = starts[i] /\ text = SubSeq(t, 1, made[i])
                          /\ answer = "none" \/ (answer = "ok" /\ i = k)
  BY <1>1, <1>2 DEF Along
<1>5. pc' # "astray"
  <2> SUFFICES ASSUME SimpleAstray PROVE FALSE
    BY <1>1
  <2>1. /\ pc = "while" /\ src < n /\ IsLiteral(TagAt(input, src))
        /\ \/ LengthAt(input, src) = 0 \/ ~IsWhole(input, src)
           \/ Writer!TooLong(ElementAt(input, src))
    BY DEF SimpleAstray, Iteration, Wrapped, TornUnnoticed, LongLiteral, NoRoom
  <2>2. at = src /\ n \in Nat /\ n = Len(input) /\ src \in 0 .. n
    BY <2>1, IterationAt
  <2>3. at # Len(input)
    BY <2>1, <2>2
  <2>4. PICK e \in Encodable :
            /\ FoundAt(input, at, starts[i + 1], e)
            /\ e.kind = "literal" => Len(text) + Len(e.bytes) <= limit
    BY <1>2, <1>3, <1>4, <2>3, NextFound
  <2>5. /\ e.kind = "literal" /\ WholeLiteral(input, src) /\ LiteralAt(input, src) = e
        /\ LengthAt(input, src) = Len(e.bytes)
    BY <2>1, <2>2, <2>4 DEF FoundAt, WholeCopy
  <2>6. IsWhole(input, src) /\ ElementAt(input, src) = e
    BY <2>1, <2>5 DEF IsWhole, ElementAt
  <2>7. Len(e.bytes) >= 1
    BY <2>5, EncodableCases
  <2>8. Len(text) + Len(e.bytes) > limit
    BY <2>1, <2>5, <2>6, <2>7 DEF Writer!TooLong, Writer!ResultLen
  <2>9. Len(text) \in Nat /\ Len(e.bytes) \in Nat /\ limit \in 0 .. MaxInt32 - 1
    BY <2>1, <2>5, IterationAt, EncodableCases, LenProperties
  <2>. QED  BY <2>4, <2>5, <2>8, <2>9, MaxInt32Int
<1>6. /\ limit' = limit
      /\ \E j \in 0 .. k : /\ at' = starts[j] /\ text' = SubSeq(t, 1, made[j])
                           /\ answer' = "none" \/ (answer' = "ok" /\ j = k)
  <2>1. CASE Decoder!Next
    <3>1. DecodedTo(t, k, starts, made, i)
      BY <1>3, <1>4 DEF DecodedTo
    <3>. QED  BY <1>1, <1>2, <2>1, <3>1, DecoderFollows, Zenon
  <2>2. CASE UNCHANGED Decoder!dvars
    <3>1. UNCHANGED <<limit, at, text, answer>>
      BY <2>2 DEF Decoder!dvars
    <3>. QED  BY <1>4, <3>1
  <2>. QED  BY <1>1, <1>5, <2>1, <2>2
<1>. QED  BY <1>1, <1>3, <1>5, <1>6 DEF Along

(* Every step of the call goes along. *)
LEMMA AlongStep ==
    ASSUME NEW t, NEW k, NEW starts, NEW made, Parsed(t, k, starts, made), CallInductive,
           Along(t, k, starts, made), [CallNext]_cvars
    PROVE  Along(t, k, starts, made)'
<1>1. CASE UNCHANGED cvars
  <2>1. UNCHANGED <<pc, answer, dst_len, limit, text, at>>
    BY <1>1 DEF cvars, nvars, at, Place, n
  <2>. QED  BY <2>1 DEF Along, InHeader
<1>2. CASE HeaderByte
  BY <1>2 DEF HeaderByte, Along, InHeader
<1>3. CASE HeaderBad
  BY <1>3, HeaderGoesOn
<1>4. CASE OutputInsuf \/ Start
  BY <1>4, SizedStep
<1>5. CASE CallBody /\ ~UNCHANGED cvars
  BY <1>5, BodyStep
<1>. QED  BY <1>1, <1>2, <1>3, <1>4, <1>5 DEF CallNext, Header

(* The invariant behind DecodesEncoded: however the input is taken apart   *)
(* into a header and elements that stand for a text, the call goes along.  *)
GoesAlong == \A t, k, starts, made : Parsed(t, k, starts, made) => Along(t, k, starts, made)

LEMMA AlongMeans == CallInductive /\ GoesAlong => DecodesEncoded
<1> SUFFICES ASSUME CallInductive, GoesAlong, NEW t \in Seq(Byte8),
                    Len(t) \div 2 <= MaxInt32, Encodes(input, Len(t), t)
             PROVE  /\ answer \in {"none", "ok", "output_insuf"} /\ pc # "astray"
                    /\ answer = "ok" => text = t
                    /\ answer = "output_insuf" => dst_len < Len(t)
  BY DEF DecodesEncoded
<1>1. PICK k \in Nat : \E starts \in [0 .. k -> Nat], made \in [0 .. k -> Nat] :
        /\ SubSeq(input, 1, starts[0]) = Varint(Len(t))
        /\ IsParse(input, t, k, starts, made)
  BY DEF Encodes
<1>2. PICK starts \in [0 .. k -> Nat], made \in [0 .. k -> Nat] :
        /\ SubSeq(input, 1, starts[0]) = Varint(Len(t))
        /\ IsParse(input, t, k, starts, made)
  BY <1>1
<1>3. Along(t, k, starts, made)
  BY <1>2 DEF GoesAlong, Parsed
<1>4. made[k] = Len(t)
  BY <1>2 DEF IsParse
<1>5. SubSeq(t, 1, Len(t)) = t
  BY WholePrefix
<1>6. CASE InHeader
  BY <1>6 DEF InHeader, CallInductive, HeaderSoFar
<1>7. CASE pc # "astray" /\ answer = "output_insuf" /\ dst_len < Len(t)
  BY <1>7
<1>8. CASE /\ pc # "astray"
           /\ \E i \in 0 .. k : /\ at = starts[i] /\ text = SubSeq(t, 1, made[i])
                                /\ answer = "none" \/ (answer = "ok" /\ i = k)
  BY <1>4, <1>5, <1>8
<1>. QED  BY <1>3, <1>6, <1>7, <1>8 DEF Along

(* What csnappy_decompress is given back is what was put into it: of an    *)
(* encoding of a text, of any length below 2^32 and taken apart in         *)
(* whatever way, it makes that text, or says that the room is too small    *)
(* for it when it is.  For every input, room and text, and both versions   *)
(* of csnappy_decompress_noheader.                                         *)
THEOREM EncodingIsDecoded == CallSpec => []DecodesEncoded
<1>1. CallInit => GoesAlong
  BY DEF CallInit, GoesAlong, Along, InHeader
<1>2. CallInductive /\ GoesAlong /\ [CallNext]_cvars => GoesAlong'
  <2> SUFFICES ASSUME CallInductive, GoesAlong, [CallNext]_cvars,
                      NEW t, NEW k, NEW starts, NEW made, Parsed(t, k, starts, made)'
               PROVE  Along(t, k, starts, made)'
    BY DEF GoesAlong
  <2>1. input' = input
    BY DEF CallNext, CallBody, cvars, nvars, Header, HeaderByte, HeaderBad, OutputInsuf, Start,
       Next, Loop, InPlace, Refill, Out, Body, AskCopy, AskFast, AskExact,
       LiteralMalformed, LiteralHuge, Appended, Refused, Returned,
       SimpleNext, SimpleAppend, SimpleMalformed, SimpleOverrun, SimpleAstray, SimpleOut
  <2>2. Parsed(t, k, starts, made)
    BY <2>1 DEF Parsed
  <2>. QED  BY <2>2, AlongStep DEF GoesAlong
<1>3. CallSpec => [](CallInductive /\ GoesAlong)
  BY <1>1, <1>2, CallInvariant, PTL DEF CallSpec
<1>. QED  BY <1>3, AlongMeans, PTL
============================================================================
