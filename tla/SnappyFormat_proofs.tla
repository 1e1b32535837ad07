------------------------ MODULE SnappyFormat_proofs ------------------------
(***************************************************************************)
(* Facts about the bytes of a stream: an element is read back from them as *)
(* it was written, and means one text only.  The proofs about the          *)
(* compressor and about the decompressor share them.                       *)
(***************************************************************************)
EXTENDS SnappyFormat, SequenceTheorems, WellFoundedInduction, TLAPS

-----------------------------------------------------------------------------
(* Numbers and sequences.                                                  *)

(* Of some natural numbers one is the least.                               *)
LEMMA LeastNumber ==
    ASSUME NEW S \in SUBSET Nat, S # {}
    PROVE  \E x \in S : \A y \in S : x <= y
<1> DEFINE R == { ss \in Nat \X Nat : ss[1] < ss[2] }
<1>1. IsWellFoundedOn(R, Nat)
  <2>1. R = OpToRel(<, Nat)
    BY DEF OpToRel
  <2>. QED  BY <2>1, NatLessThanWellFounded
<1> HIDE DEF R
<1>2. PICK x \in S : \A y \in S : ~(<<y, x>> \in R)
  BY <1>1, WFMin
<1>3. ASSUME NEW y \in S PROVE x <= y
  <2>1. x \in Nat /\ y \in Nat /\ ~(<<y, x>> \in R)
    BY <1>2
  <2>. QED  BY <2>1 DEF R
<1>. QED  BY <1>3

(* From a byte of a sequence to another. *)
LEMMA Slice ==
    ASSUME NEW S, NEW s \in Seq(S), NEW a \in Nat, NEW b \in Nat, a <= b, b <= Len(s)
    PROVE  /\ SubSeq(s, a + 1, b) \in Seq(S)
           /\ Len(SubSeq(s, a + 1, b)) = b - a
           /\ \A x \in 1 .. b - a : SubSeq(s, a + 1, b)[x] = s[a + x]
<1> DEFINE m == a + 1
<1>1. m \in Int /\ b \in Int /\ \A x \in m .. b : s[x] \in S
  BY ElementOfSeq, LenProperties
<1>2. m = a + 1
  OBVIOUS
<1> HIDE DEF m
<1>3. /\ SubSeq(s, m, b) \in Seq(S)
      /\ Len(SubSeq(s, m, b)) = IF m <= b THEN b - m + 1 ELSE 0
      /\ \A x \in 1 .. b - m + 1 : SubSeq(s, m, b)[x] = s[m + x - 1]
  BY <1>1, SubSeqProperties
<1>4. Len(SubSeq(s, m, b)) = b - a
  BY <1>2, <1>3
<1>5. \A x \in 1 .. b - a : SubSeq(s, m, b)[x] = s[a + x]
  <2>1. \A x \in 1 .. b - a : x \in 1 .. b - m + 1 /\ m + x - 1 = a + x
    BY <1>2
  <2>. QED  BY <1>3, <2>1
<1>. QED  BY <1>2, <1>3, <1>4, <1>5

(* The first p elements. *)
LEMMA Prefix ==
    ASSUME NEW S, NEW s \in Seq(S), NEW p \in 0 .. Len(s)
    PROVE  /\ SubSeq(s, 1, p) \in Seq(S)
           /\ Len(SubSeq(s, 1, p)) = p
           /\ \A x \in 1 .. p : SubSeq(s, 1, p)[x] = s[x]
<1> DEFINE a == 0
<1>1. a \in Nat /\ p \in Nat /\ a <= p /\ p <= Len(s) /\ a + 1 = 1 /\ p - a = p
      /\ \A x \in 1 .. p : a + x = x
  BY LenProperties
<1> HIDE DEF a
<1>2. /\ SubSeq(s, a + 1, p) \in Seq(S)
      /\ Len(SubSeq(s, a + 1, p)) = p - a
      /\ \A x \in 1 .. p - a : SubSeq(s, a + 1, p)[x] = s[a + x]
  BY <1>1, Slice
<1>. QED  BY <1>1, <1>2

-----------------------------------------------------------------------------
(* What an element means.                                                  *)

(* There is but one way to repeat the end of a text. *)
LEMMA RepeatUnique ==
    ASSUME NEW S, NEW t \in Seq(S), NEW u \in Seq(S), NEW v \in Seq(S),
           NEW o, NEW len, IsRepeat(t, u, o, len), IsRepeat(t, v, o, len)
    PROVE  u = v
<1>1. /\ Len(t) \in Nat /\ Len(u) \in Nat /\ o \in 1 .. Len(t) /\ Len(u) = Len(v)
      /\ \A i \in 1 .. Len(u) : u[i] = IF i <= Len(t) THEN t[i] ELSE u[i - o]
      /\ \A i \in 1 .. Len(u) : v[i] = IF i <= Len(t) THEN t[i] ELSE v[i - o]
  BY LenProperties DEF IsRepeat
<1> DEFINE D == { i \in 1 .. Len(u) : u[i] # v[i] }
<1>2. ASSUME D # {} PROVE FALSE
  <2>1. D \in SUBSET Nat
    BY <1>1
  <2>2. PICK x \in D : \A y \in D : x <= y
    <3> HIDE DEF D
    <3>. QED  BY <1>2, <2>1, LeastNumber
  <2>3. x \in 1 .. Len(u) /\ u[x] # v[x]
    OBVIOUS
  <2>4. x > Len(t)
    BY <1>1, <2>3
  <2>5. x - o \in 1 .. Len(u) /\ x - o < x
    BY <1>1, <2>3, <2>4
  <2>6. u[x - o] = v[x - o]
    BY <1>1, <2>2, <2>3, <2>5
  <2>. QED  BY <1>1, <2>3, <2>4, <2>6
<1>. QED  BY <1>1, <1>2, SeqEqual

(* An element has one meaning. *)
LEMMA DenotesUnique ==
    ASSUME NEW S, NEW t \in Seq(S), NEW u \in Seq(S), NEW v \in Seq(S),
           NEW e, Denotes(t, e, u), Denotes(t, e, v)
    PROVE  u = v
<1>1. CASE e.kind = "literal"
  BY <1>1 DEF Denotes
<1>2. CASE e.kind = "copy"
  <2>1. IsRepeat(t, u, e.offset, e.len) /\ IsRepeat(t, v, e.offset, e.len)
    BY <1>2 DEF Denotes
  <2>. QED  BY <2>1, RepeatUnique
<1>. QED  BY <1>1, <1>2 DEF Denotes

-----------------------------------------------------------------------------
(* Literals.                                                               *)

LEMMA SmallPowers == 256^0 = 1 /\ 256^1 = 256 /\ 256^2 = 65536 /\ 256^3 = 16777216
BY SMT

LEMMA MaxIsNat == MaxInt32 \in Nat
BY DEF MaxInt32

(* The bytes of a number, put together again. *)
LEMMA DigitSum ==
    ASSUME NEW m \in Nat, m < MaxInt32
    PROVE  /\ m < 256 => m % 256 = m
           /\ m < 65536 => (m % 256) + 256 * ((m \div 256) % 256) = m
           /\ m < 16777216 => (m % 256) + 256 * ((m \div 256) % 256)
                                + 65536 * ((m \div 65536) % 256) = m
           /\ (m \div 16777216) % 256 < 128
           /\ (m % 256) + 256 * ((m \div 256) % 256) + 65536 * ((m \div 65536) % 256)
                + 16777216 * ((m \div 16777216) % 256) = m
<1>1. m \in Nat /\ m <= 2147483646
  BY SMT DEF MaxInt32
<1>2. m < 256 => m % 256 = m
  BY <1>1
<1>3. (m \div 16777216) % 256 = m \div 16777216 /\ m \div 16777216 < 128
  BY <1>1
<1>4. m < 65536 => (m % 256) + 256 * ((m \div 256) % 256) = m
  BY <1>1
<1>5. m < 16777216 => (m % 256) + 256 * ((m \div 256) % 256)
                        + 65536 * ((m \div 65536) % 256) = m
  BY <1>1
<1>6. (m % 256) + 256 * ((m \div 256) % 256) + 65536 * ((m \div 65536) % 256)
        + 16777216 * (m \div 16777216) = m
  BY <1>1
<1>. QED  BY <1>2, <1>3, <1>4, <1>5, <1>6

(* The value of up to four bytes. *)
ValueOf(d, k) == IF k = 1 THEN d[1]
                 ELSE IF k = 2 THEN d[1] + 256 * d[2]
                 ELSE IF k = 3 THEN d[1] + 256 * d[2] + 65536 * d[3]
                 ELSE d[1] + 256 * d[2] + 65536 * d[3] + 16777216 * d[4]

LEMMA LittleEndianValue ==
    ASSUME NEW d, NEW k \in 1 .. 4, Len(d) = k,
           \A i \in 1 .. k : d[i] \in Nat /\ d[i] < 256,
           k = 4 => d[4] < 128
    PROVE  LittleEndian(d) = ValueOf(d, k)
<1> DEFINE digit(i) == IF i <= Len(d) THEN d[i] ELSE 0
           top == IF digit(4) < 128 THEN digit(4) ELSE digit(4) - 256
<1>1. LittleEndian(d) = digit(1) + 256 * digit(2) + 65536 * digit(3) + 16777216 * top
  BY DEF LittleEndian
<1>2. digit(1) = d[1] /\ digit(1) \in Nat
  OBVIOUS
<1>3. IF k >= 2 THEN digit(2) = d[2] /\ d[2] \in Nat ELSE digit(2) = 0
  OBVIOUS
<1>4. IF k >= 3 THEN digit(3) = d[3] /\ d[3] \in Nat ELSE digit(3) = 0
  OBVIOUS
<1>5. IF k = 4 THEN top = d[4] /\ d[4] \in Nat ELSE top = 0
  OBVIOUS
<1> HIDE DEF digit, top
<1>6. k = 1 \/ k = 2 \/ k = 3 \/ k = 4
  OBVIOUS
<1>7. CASE k = 1
  BY <1>1, <1>2, <1>3, <1>4, <1>5, <1>7 DEF ValueOf
<1>8. CASE k = 2
  BY <1>1, <1>2, <1>3, <1>4, <1>5, <1>8 DEF ValueOf
<1>9. CASE k = 3
  BY <1>1, <1>2, <1>3, <1>4, <1>5, <1>9 DEF ValueOf
<1>10. CASE k = 4
  BY <1>1, <1>2, <1>3, <1>4, <1>5, <1>10 DEF ValueOf
<1>. QED  BY <1>6, <1>7, <1>8, <1>9, <1>10

LEMMA PowersOf256 ==
    ASSUME NEW i \in 1 .. 4
    PROVE  256^(i - 1) \in Nat \ {0}
<1>2. i - 1 = 0 \/ i - 1 = 1 \/ i - 1 = 2 \/ i - 1 = 3
  OBVIOUS
<1> DEFINE j == i - 1
<1>3. j = 0 \/ j = 1 \/ j = 2 \/ j = 3
  BY <1>2
<1> HIDE DEF j
<1>4. \/ 256^j = 1 \/ 256^j = 256 \/ 256^j = 65536 \/ 256^j = 16777216
  <2>1. CASE j = 0
    BY SmallPowers, <2>1
  <2>2. CASE j = 1
    BY SmallPowers, <2>2
  <2>3. CASE j = 2
    BY SmallPowers, <2>3
  <2>4. CASE j = 3
    BY SmallPowers, <2>4
  <2>. QED  BY <1>3, <2>1, <2>2, <2>3, <2>4
<1>5. 256^j \in Nat \ {0}
  BY <1>4
<1>. QED  BY <1>5 DEF j

LEMMA PowerValues ==
    ASSUME NEW x \in 1 .. 4
    PROVE  256^(x - 1) = IF x = 1 THEN 1 ELSE IF x = 2 THEN 256
                         ELSE IF x = 3 THEN 65536 ELSE 16777216
<1> DEFINE j == x - 1
<1>1. (x = 1 /\ j = 0) \/ (x = 2 /\ j = 1) \/ (x = 3 /\ j = 2) \/ (x = 4 /\ j = 3)
  OBVIOUS
<1> HIDE DEF j
<1>2. 256^j = IF x = 1 THEN 1 ELSE IF x = 2 THEN 256
              ELSE IF x = 3 THEN 65536 ELSE 16777216
  <2>1. CASE x = 1 /\ j = 0
    BY SmallPowers, <2>1
  <2>2. CASE x = 2 /\ j = 1
    BY SmallPowers, <2>2
  <2>3. CASE x = 3 /\ j = 2
    BY SmallPowers, <2>3
  <2>4. CASE x = 4 /\ j = 3
    BY SmallPowers, <2>4
  <2>. QED  BY <1>1, <2>1, <2>2, <2>3, <2>4
<1>. QED  BY <1>2 DEF j

(* The tag, the length less one in k bytes, the text. *)
LEMMA LiteralBytes ==
    ASSUME NEW b \in Seq(Byte8), b # <<>>
    PROVE  LET k == LengthBytes(Len(b)) IN
           /\ EncodeLiteral(b) \in Seq(Byte8)
           /\ Len(EncodeLiteral(b)) = LiteralSize(Len(b))
           /\ k \in 0 .. 4 /\ LiteralSize(Len(b)) = 1 + k + Len(b)
           /\ EncodeLiteral(b)[1] = 4 * (IF k = 0 THEN Len(b) - 1 ELSE 59 + k)
           /\ \A x \in 1 .. k :
                EncodeLiteral(b)[1 + x] = ((Len(b) - 1) \div 256^(x - 1)) % 256
           /\ \A x \in 1 .. Len(b) : EncodeLiteral(b)[1 + k + x] = b[x]
<1> DEFINE k == LengthBytes(Len(b))
           tag == 4 * (IF k = 0 THEN Len(b) - 1 ELSE 59 + k)
           digits == [i \in 1 .. k |-> ((Len(b) - 1) \div 256^(i - 1)) % 256]
<1>1. Len(b) \in Nat /\ Len(b) >= 1
  BY LenProperties, EmptySeq
<1>2. k \in 0 .. 4 /\ (k = 0 => Len(b) <= 60)
  BY <1>1, SMT DEF LengthBytes
<1>3. EncodeLiteral(b) = <<tag>> \o digits \o b
  BY DEF EncodeLiteral
<1> HIDE DEF k
<1>4. <<tag>> \in Seq(Byte8) /\ Len(<<tag>>) = 1
  <2>1. tag \in 0 .. 255
    <3>1. CASE k = 0
      <4> DEFINE len == Len(b)
      <4>1. tag = 4 * (len - 1)
        BY <3>1
      <4>2. len \in Nat /\ len >= 1 /\ len <= 60
        BY <1>1, <1>2, <3>1, Zenon
      <4> HIDE DEF len, tag
      <4>. QED  BY <4>1, <4>2
    <3>2. CASE k # 0
      BY <1>2, <3>2
    <3>. QED  BY <3>1, <3>2
  <2> HIDE DEF tag
  <2>2. tag \in Byte8
    BY <2>1 DEF Byte8
  <2>. QED  BY <2>2
<1>5. digits \in Seq(Byte8) /\ Len(digits) = k
  <2>1. \A i \in 1 .. k : ((Len(b) - 1) \div 256^(i - 1)) % 256 \in Byte8
    <3> SUFFICES ASSUME NEW i \in 1 .. k
                 PROVE  ((Len(b) - 1) \div 256^(i - 1)) % 256 \in Byte8
      OBVIOUS
    <3> DEFINE d == 256^(i - 1)
    <3>1. d \in Nat \ {0}
      <4>1. i \in 1 .. 4
        BY <1>2
      <4>. QED  BY <4>1, PowersOf256
    <3> HIDE DEF d
    <3>2. (Len(b) - 1) \div d \in Int
      BY <1>1, <3>1
    <3>3. ((Len(b) - 1) \div d) % 256 \in Byte8
      <4> DEFINE q == (Len(b) - 1) \div d
      <4>1. q \in Int
        BY <3>2
      <4> HIDE DEF q
      <4>2. q % 256 \in 0 .. 255
        BY <4>1
      <4>3. q % 256 \in Byte8
        BY <4>2 DEF Byte8
      <4>. QED  BY <4>3 DEF q
    <3>. QED  BY <3>3 DEF d
  <2>2. digits \in [1 .. k -> Byte8]
    BY <2>1
  <2> HIDE DEF digits
  <2>. QED  BY <1>2, <2>2, SeqDef, LenProperties
<1>6. \A x \in 1 .. k : digits[x] = ((Len(b) - 1) \div 256^(x - 1)) % 256
  OBVIOUS
<1>7. <<tag>>[1] = tag /\ tag = 4 * (IF k = 0 THEN Len(b) - 1 ELSE 59 + k)
  OBVIOUS
<1> HIDE DEF tag, digits
<1> DEFINE head == <<tag>> \o digits
<1>8. /\ head \in Seq(Byte8) /\ Len(head) = 1 + k
      /\ head[1] = tag /\ \A x \in 1 .. k : head[1 + x] = digits[x]
  <2>1. /\ head \in Seq(Byte8) /\ Len(head) = 1 + k
        /\ \A x \in 1 .. 1 + k : head[x] = IF x <= 1 THEN <<tag>>[x] ELSE digits[x - 1]
    BY <1>4, <1>5, ConcatProperties
  <2>2. 1 \in 1 .. 1 + k /\ \A x \in 1 .. k : 1 + x \in 1 .. 1 + k /\ ~(1 + x <= 1) /\ (1 + x) - 1 = x
    BY <1>2
  <2>. QED  BY <1>7, <2>1, <2>2
<1> HIDE DEF head
<1>9. /\ head \o b \in Seq(Byte8) /\ Len(head \o b) = 1 + k + Len(b)
      /\ \A x \in 1 .. 1 + k : (head \o b)[x] = head[x]
      /\ \A x \in 1 .. Len(b) : (head \o b)[1 + k + x] = b[x]
  <2>1. /\ head \o b \in Seq(Byte8) /\ Len(head \o b) = 1 + k + Len(b)
        /\ \A x \in 1 .. 1 + k + Len(b) :
             (head \o b)[x] = IF x <= 1 + k THEN head[x] ELSE b[x - (1 + k)]
    <3>1. /\ head \o b \in Seq(Byte8) /\ Len(head \o b) = Len(head) + Len(b)
          /\ \A x \in 1 .. Len(head) + Len(b) :
               (head \o b)[x] = IF x <= Len(head) THEN head[x] ELSE b[x - Len(head)]
      BY <1>8, ConcatProperties
    <3>. QED  BY <1>8, <3>1
  <2>2. \A x \in 1 .. 1 + k : x \in 1 .. 1 + k + Len(b) /\ x <= 1 + k
    BY <1>1, <1>2
  <2>3. \A x \in 1 .. Len(b) : /\ 1 + k + x \in 1 .. 1 + k + Len(b)
                              /\ ~(1 + k + x <= 1 + k) /\ (1 + k + x) - (1 + k) = x
    BY <1>1, <1>2
  <2>. QED  BY <2>1, <2>2, <2>3
<1>10. LiteralSize(Len(b)) = 1 + k + Len(b)
  BY <1>1, <1>2 DEF LiteralSize, LiteralHeader, k
<1>11. EncodeLiteral(b) = head \o b
  BY <1>3 DEF head
<1>12. /\ (head \o b)[1] = tag
       /\ \A x \in 1 .. k : (head \o b)[1 + x] = digits[x]
  <2>1. 1 \in 1 .. 1 + k /\ \A x \in 1 .. k : 1 + x \in 1 .. 1 + k
    BY <1>2
  <2>. QED  BY <1>8, <1>9, <2>1
<1>13. EncodeLiteral(b)[1] = 4 * (IF k = 0 THEN Len(b) - 1 ELSE 59 + k)
  BY <1>7, <1>11, <1>12, Zenon
<1>14. \A x \in 1 .. k : EncodeLiteral(b)[1 + x] = ((Len(b) - 1) \div 256^(x - 1)) % 256
  <2> TAKE x \in 1 .. k
  <2>1. EncodeLiteral(b)[1 + x] = digits[x]
    BY <1>11, <1>12, Zenon
  <2>2. digits[x] = ((Len(b) - 1) \div 256^(x - 1)) % 256
    BY <1>6, Zenon
  <2>. QED  BY <2>1, <2>2, Zenon
<1>15. /\ EncodeLiteral(b) \in Seq(Byte8)
       /\ Len(EncodeLiteral(b)) = LiteralSize(Len(b))
       /\ \A x \in 1 .. Len(b) : EncodeLiteral(b)[1 + k + x] = b[x]
  BY <1>9, <1>10, <1>11, Zenon
<1>. QED  BY <1>2, <1>10, <1>13, <1>14, <1>15, Zenon DEF k

(* The length of a literal of more than 60 bytes, from the bytes after the *)
(* tag.                                                                    *)
LEMMA LengthBack ==
    ASSUME NEW len \in Nat, len >= 1, len <= MaxInt32, LengthBytes(len) # 0,
           NEW d, Len(d) = LengthBytes(len),
           \A x \in 1 .. LengthBytes(len) : d[x] = ((len - 1) \div 256^(x - 1)) % 256
    PROVE  LittleEndian(d) = len - 1
<1> DEFINE k == LengthBytes(len)
           m == len - 1
<1>1. /\ len > 60 /\ k \in 1 .. 4
      /\ k = 1 => len <= 256
      /\ k = 2 => len <= 65536
      /\ k = 3 => len <= 16777216
  BY SMT DEF LengthBytes
<1>2. m \in Nat /\ m < MaxInt32 /\ len - 1 = m
  BY SMT DEF MaxInt32
<1>3. /\ Len(d) = k /\ \A x \in 1 .. k : d[x] = (m \div 256^(x - 1)) % 256
      /\ k = 1 => m < 256
      /\ k = 2 => m < 65536
      /\ k = 3 => m < 16777216
  BY <1>1
<1> HIDE DEF k, m
<1>4. /\ d[1] = m % 256
      /\ k >= 2 => d[2] = (m \div 256) % 256
      /\ k >= 3 => d[3] = (m \div 65536) % 256
      /\ k = 4 => d[4] = (m \div 16777216) % 256
  <2> DEFINE P(x) == 256^(x - 1)
  <2>1. \A x \in 1 .. k : d[x] = (m \div P(x)) % 256
    BY <1>3
  <2>2. /\ P(1) = 1 /\ P(2) = 256 /\ P(3) = 65536 /\ P(4) = 16777216
    BY PowerValues
  <2>3. m \div 1 = m
    BY <1>2
  <2> HIDE DEF P
  <2>4. /\ 1 \in 1 .. k
        /\ k >= 2 => 2 \in 1 .. k
        /\ k >= 3 => 3 \in 1 .. k
        /\ k = 4 => 4 \in 1 .. k
    BY <1>1
  <2>. QED  BY <2>1, <2>2, <2>3, <2>4
<1>5. /\ m < 256 => m % 256 = m
      /\ m < 65536 => (m % 256) + 256 * ((m \div 256) % 256) = m
      /\ m < 16777216 => (m % 256) + 256 * ((m \div 256) % 256)
                           + 65536 * ((m \div 65536) % 256) = m
      /\ (m \div 16777216) % 256 < 128
      /\ (m % 256) + 256 * ((m \div 256) % 256) + 65536 * ((m \div 65536) % 256)
           + 16777216 * ((m \div 16777216) % 256) = m
  BY <1>2, DigitSum
<1>6. /\ \A i \in 1 .. k : d[i] \in Nat /\ d[i] < 256
      /\ k = 4 => d[4] < 128
  <2>1. \A q \in Nat : q % 256 \in Nat /\ q % 256 < 256
    OBVIOUS
  <2>2. m \in Nat /\ m \div 256 \in Nat /\ m \div 65536 \in Nat /\ m \div 16777216 \in Nat
    BY <1>2
  <2>3. \A i \in 1 .. k :
            i = 1 \/ (i = 2 /\ k >= 2) \/ (i = 3 /\ k >= 3) \/ (i = 4 /\ k = 4)
    BY <1>1
  <2> DEFINE q1 == m \div 256   q2 == m \div 65536   q3 == m \div 16777216
  <2>4. /\ m \in Nat /\ q1 \in Nat /\ q2 \in Nat /\ q3 \in Nat
        /\ d[1] = m % 256
        /\ k >= 2 => d[2] = q1 % 256
        /\ k >= 3 => d[3] = q2 % 256
        /\ k = 4 => d[4] = q3 % 256
        /\ q3 % 256 < 128
    BY <1>4, <1>5, <2>2
  <2> HIDE DEF q1, q2, q3
  <2>5. /\ m % 256 \in Nat /\ m % 256 < 256 /\ q1 % 256 \in Nat /\ q1 % 256 < 256
        /\ q2 % 256 \in Nat /\ q2 % 256 < 256 /\ q3 % 256 \in Nat /\ q3 % 256 < 256
    BY <2>1, <2>4
  <2>6. \A i \in 1 .. k : d[i] \in Nat /\ d[i] < 256
    <3> SUFFICES ASSUME NEW i \in 1 .. k PROVE d[i] \in Nat /\ d[i] < 256
      OBVIOUS
    <3>1. CASE i = 1
      BY <2>4, <2>5, <3>1
    <3>2. CASE i = 2 /\ k >= 2
      BY <2>4, <2>5, <3>2
    <3>3. CASE i = 3 /\ k >= 3
      BY <2>4, <2>5, <3>3
    <3>4. CASE i = 4 /\ k = 4
      BY <2>4, <2>5, <3>4
    <3>. QED  BY <2>3, <3>1, <3>2, <3>3, <3>4
  <2>. QED  BY <2>4, <2>6
<1>7. LittleEndian(d) = ValueOf(d, k)
  <2>1. /\ k \in 1 .. 4 /\ Len(d) = k
        /\ \A i \in 1 .. k : d[i] \in Nat /\ d[i] < 256
        /\ k = 4 => d[4] < 128
    BY <1>1, <1>3, <1>6
  <2>. QED  BY <2>1, LittleEndianValue, Zenon
<1>8. k = 1 \/ k = 2 \/ k = 3 \/ k = 4
  BY <1>1
<1>9. LittleEndian(d) = m
  <2>1. CASE k = 1
    BY <1>3, <1>4, <1>5, <1>7, <2>1 DEF ValueOf
  <2>2. CASE k = 2
    BY <1>3, <1>4, <1>5, <1>7, <2>2 DEF ValueOf
  <2>3. CASE k = 3
    BY <1>3, <1>4, <1>5, <1>7, <2>3 DEF ValueOf
  <2>4. CASE k = 4
    BY <1>3, <1>4, <1>5, <1>7, <2>4 DEF ValueOf
  <2>. QED  BY <1>8, <2>1, <2>2, <2>3, <2>4
<1>. QED  BY <1>2, <1>9

(* A literal is found in the stream as it was written. *)
LEMMA LiteralDecoded ==
    ASSUME NEW s \in Seq(Byte8), NEW i \in Nat, NEW j \in Nat, i <= j, j <= Len(s),
           NEW b \in Seq(Byte8), Len(b) \in 1 .. MaxInt32,
           SubSeq(s, i + 1, j) = EncodeLiteral(b)
    PROVE  /\ WholeLiteral(s, i) /\ LiteralAt(s, i) = LiteralElement(b)
           /\ BodyAt(s, i) + Len(b) = j /\ LengthAt(s, i) = Len(b) /\ i < j
<1> DEFINE len == Len(b)
           k == LengthBytes(len)
           tag == TagAt(s, i)
           digit(x) == ((len - 1) \div 256^(x - 1)) % 256
<1>1. /\ len \in Nat /\ len >= 1 /\ len <= MaxInt32 /\ b # <<>> /\ Len(s) \in Nat
  BY LenProperties, EmptySeq
<1>2. /\ k \in 0 .. 4 /\ Len(EncodeLiteral(b)) = 1 + k + len
      /\ EncodeLiteral(b)[1] = 4 * (IF k = 0 THEN len - 1 ELSE 59 + k)
      /\ \A x \in 1 .. k : EncodeLiteral(b)[1 + x] = digit(x)
      /\ \A x \in 1 .. len : EncodeLiteral(b)[1 + k + x] = b[x]
  BY <1>1, LiteralBytes
<1>3. k = 0 => len <= 60
  BY <1>1, SMT DEF LengthBytes
<1>4. k # 0 => \A d : /\ Len(d) = k
                      /\ \A x \in 1 .. k : d[x] = digit(x)
                      => LittleEndian(d) = len - 1
  BY <1>1, LengthBack
<1> HIDE DEF k, len, digit
<1>5. /\ j - i = 1 + k + len
      /\ \A x \in 1 .. j - i : EncodeLiteral(b)[x] = s[i + x]
  BY <1>2, Slice
<1>6. /\ tag = 4 * (IF k = 0 THEN len - 1 ELSE 59 + k)
      /\ \A x \in 1 .. k : s[i + 1 + x] = digit(x)
      /\ \A x \in 1 .. len : s[i + 1 + k + x] = b[x]
  <2>1. 1 \in 1 .. j - i
    BY <1>1, <1>2, <1>5
  <2>2. tag = EncodeLiteral(b)[1]
    BY <1>5, <2>1 DEF TagAt
  <2>3. \A x \in 1 .. k : 1 + x \in 1 .. j - i /\ i + (1 + x) = i + 1 + x
    BY <1>1, <1>2, <1>5
  <2>4. \A x \in 1 .. len : 1 + k + x \in 1 .. j - i /\ i + (1 + k + x) = i + 1 + k + x
    BY <1>1, <1>2, <1>5
  <2>5. ASSUME NEW x \in 1 .. k PROVE s[i + 1 + x] = digit(x)
    <3>1. EncodeLiteral(b)[1 + x] = s[i + (1 + x)]
      BY <1>5, <2>3
    <3>2. EncodeLiteral(b)[1 + x] = digit(x)
      BY <1>2
    <3>. QED  BY <2>3, <3>1, <3>2
  <2>6. ASSUME NEW x \in 1 .. len PROVE s[i + 1 + k + x] = b[x]
    <3>1. EncodeLiteral(b)[1 + k + x] = s[i + (1 + k + x)]
      BY <1>5, <2>4
    <3>2. EncodeLiteral(b)[1 + k + x] = b[x]
      BY <1>2
    <3>. QED  BY <2>4, <3>1, <3>2
  <2>7. tag = 4 * (IF k = 0 THEN len - 1 ELSE 59 + k)
    BY <1>2, <2>2
  <2>. QED  BY <2>5, <2>6, <2>7
<1>7. /\ tag % 4 = 0
      /\ tag \div 4 = IF k = 0 THEN len - 1 ELSE 59 + k
      /\ tag \in Int
  <2>1. (IF k = 0 THEN len - 1 ELSE 59 + k) \in Nat
    BY <1>1, <1>2
  <2>2. \A q \in Nat : (4 * q) % 4 = 0 /\ (4 * q) \div 4 = q /\ 4 * q \in Int
    OBVIOUS
  <2>. QED  BY <1>6, <2>1, <2>2
<1> HIDE DEF tag
<1>8. ExtraBytes(tag) = k /\ IsLiteral(tag)
  <2>1. ExtraBytes(tag) = IF tag \div 4 < 60 THEN 0 ELSE tag \div 4 - 59
    BY <1>7, SMT DEF ExtraBytes
  <2>. QED  BY <1>1, <1>2, <1>3, <1>7, <2>1 DEF IsLiteral
<1>9. HeaderLen(tag) = 1 + k /\ BodyAt(s, i) = i + 1 + k /\ BodyAt(s, i) + len = j
  BY <1>1, <1>2, <1>5, <1>8 DEF HeaderLen, BodyAt, tag
<1>10. k # 0 => OperandAt(s, i) = len - 1
  <2> SUFFICES ASSUME k # 0 PROVE OperandAt(s, i) = len - 1
    OBVIOUS
  <2> DEFINE a == i + 1
             z == i + 1 + k
  <2>1. a \in Nat /\ z \in Nat /\ a <= z /\ z <= Len(s) /\ z - a = k
        /\ a + 1 = i + 2 /\ i + (1 + k) = z
    BY <1>1, <1>2, <1>5
  <2>2. a = i + 1
    OBVIOUS
  <2> HIDE DEF a, z
  <2>3. /\ Len(SubSeq(s, a + 1, z)) = z - a
        /\ \A x \in 1 .. z - a : SubSeq(s, a + 1, z)[x] = s[a + x]
    BY <2>1, Slice
  <2>4. OperandAt(s, i) = LittleEndian(SubSeq(s, a + 1, z))
    BY <1>9, <2>1 DEF OperandAt, tag
  <2>. QED  BY <1>4, <1>6, <2>1, <2>2, <2>3, <2>4
<1>11. LengthAt(s, i) = len
  <2>1. CASE k = 0
    BY <1>1, <1>3, <1>7, <2>1 DEF LengthAt, LiteralLen, tag
  <2>2. CASE k # 0
    <3>1. LengthAt(s, i) = Increment(len - 1)
      BY <1>2, <1>7, <1>10, <2>2 DEF LengthAt, LiteralLen, tag
    <3>2. len - 1 # MaxInt32 /\ len - 1 + 1 = len
      BY <1>1, MaxIsNat, SMT
    <3>. QED  BY <3>1, <3>2 DEF Increment
  <2>. QED  BY <2>1, <2>2
<1>12. LiteralAt(s, i) = LiteralElement(b)
  <2> DEFINE a == BodyAt(s, i)
             u == SubSeq(s, a + 1, j)
  <2>1. a \in Nat /\ a <= j /\ j - a = len /\ a = i + 1 + k
    BY <1>1, <1>2, <1>9
  <2> HIDE DEF a
  <2>2. /\ u \in Seq(Byte8) /\ Len(u) = j - a
        /\ \A x \in 1 .. j - a : u[x] = s[a + x]
    BY <2>1, Slice, SMTT(30)
  <2> HIDE DEF u
  <2>3. Len(u) = Len(b) /\ \A x \in 1 .. Len(u) : u[x] = b[x]
    BY <1>6, <2>1, <2>2 DEF len
  <2>4. u = b
    BY <2>2, <2>3, SeqEqual
  <2>. QED  BY <1>9, <1>11, <2>4 DEF LiteralAt, a, u
<1>13. WholeLiteral(s, i)
  <2>1. HeaderWhole(s, i) /\ LengthAt(s, i) \in 0 .. Len(s) - BodyAt(s, i)
    BY <1>1, <1>2, <1>5, <1>9, <1>11 DEF HeaderWhole
  <2>. QED  BY <1>8, <2>1 DEF WholeLiteral, tag
<1>. QED  BY <1>1, <1>2, <1>5, <1>9, <1>11, <1>12, <1>13 DEF len
-----------------------------------------------------------------------------
(* Copies.                                                                 *)

LEMMA MaxOffsetFacts == MaxOffset \in Nat /\ MaxOffset <= 65535
BY SMT DEF MaxOffset

(* The tag and the offset in one byte or in two. *)
LEMMA EncodeCopyFacts ==
    ASSUME NEW o, NEW len, o \in 1 .. MaxOffset, len \in MinCopyLen .. MaxCopyLen
    PROVE  /\ EncodeCopy(o, len) \in Seq(Byte8)
           /\ Len(EncodeCopy(o, len)) = CopySize(o, len)
<1>0. len \in 4 .. 64
  BY DEF MinCopyLen, MaxCopyLen
<1>1. o \in Nat /\ 1 <= o /\ o <= 65535
  BY MaxOffsetFacts
<1>2. o % 256 \in 0 .. 255 /\ o \div 256 \in 0 .. 255
  BY <1>1
<1>3. CASE len < 12 /\ o < 2048
  <2> DEFINE tag == 1 + 4 * (len - 4) + 32 * (o \div 256)
  <2>1. o \div 256 \in 0 .. 7
    BY <1>1, <1>3
  <2>2. tag \in Byte8 /\ o % 256 \in Byte8
    <3> DEFINE q == o \div 256
    <3>1. q \in 0 .. 7 /\ len \in 4 .. 11
      BY <1>0, <1>3, <2>1
    <3> HIDE DEF q
    <3>2. 1 + 4 * (len - 4) + 32 * q \in 0 .. 255
      BY <3>1
    <3>. QED  BY <1>2, <3>2 DEF Byte8, q
  <2>3. EncodeCopy(o, len) = <<tag, o % 256>> /\ CopySize(o, len) = 2
    BY <1>3 DEF EncodeCopy, CopySize
  <2> HIDE DEF tag
  <2>. QED  BY <2>2, <2>3
<1>4. CASE ~(len < 12 /\ o < 2048)
  <2> DEFINE tag == 2 + 4 * (len - 1)
  <2>1. tag \in Byte8 /\ o % 256 \in Byte8 /\ o \div 256 \in Byte8
    BY <1>0, <1>2 DEF Byte8
  <2>2. EncodeCopy(o, len) = <<tag, o % 256, o \div 256>> /\ CopySize(o, len) = 3
    BY <1>4 DEF EncodeCopy, CopySize
  <2> HIDE DEF tag
  <2>. QED  BY <2>1, <2>2
<1>. QED  BY <1>3, <1>4

LEMMA BytesAreNumbers ==
    ASSUME NEW d \in Seq(Byte8)
    PROVE  \A x \in 1 .. Len(d) : d[x] \in Nat /\ d[x] < 256
<1> TAKE x \in 1 .. Len(d)
<1>1. d[x] \in Byte8
  BY ElementOfSeq
<1>2. \A b \in Byte8 : b \in Nat /\ b < 256
  BY DEF Byte8
<1> DEFINE e == d[x]
<1>3. e \in Byte8
  BY <1>1
<1> HIDE DEF e
<1>4. e \in Nat /\ e < 256
  BY <1>2, <1>3
<1>. QED  BY <1>4 DEF e

(* The operand, from the bytes after the tag. *)
LEMMA OperandValue ==
    ASSUME NEW s \in Seq(Byte8), NEW i \in Nat,
           NEW k \in 1 .. 4, ExtraBytes(TagAt(s, i)) = k, i + 1 + k <= Len(s),
           k = 4 => s[i + 5] < 128
    PROVE  \E d : /\ OperandAt(s, i) = ValueOf(d, k)
                  /\ \A x \in 1 .. k : d[x] = s[i + 1 + x]
<1> DEFINE a == i + 1
           z == i + 1 + k
           d == SubSeq(s, a + 1, z)
<1>1. /\ a \in Nat /\ z \in Nat /\ a <= z /\ z <= Len(s) /\ z - a = k
      /\ a + 1 = i + 2 /\ i + (1 + k) = z /\ a = i + 1 /\ Len(s) \in Nat
  BY LenProperties
<1>2. OperandAt(s, i) = LittleEndian(d)
  BY <1>1 DEF OperandAt, HeaderLen
<1> HIDE DEF a, z
<1>3. d \in Seq(Byte8) /\ Len(d) = z - a /\ \A x \in 1 .. z - a : d[x] = s[a + x]
  BY <1>1, Slice
<1> HIDE DEF d
<1>4. Len(d) = k /\ \A x \in 1 .. k : d[x] = s[i + 1 + x]
  <2>1. \A x \in 1 .. k : a + x = i + 1 + x
    BY <1>1
  <2>. QED  BY <1>1, <1>3, <2>1
<1>5. \A x \in 1 .. k : d[x] \in Nat /\ d[x] < 256
  <2>1. \A x \in 1 .. Len(d) : d[x] \in Nat /\ d[x] < 256
    BY <1>3, BytesAreNumbers
  <2>2. 1 .. Len(d) = 1 .. k
    BY <1>4
  <2>. QED  BY <2>1, <2>2
<1>6. k = 4 => d[4] < 128
  <2>1. k = 4 => 4 \in 1 .. k /\ i + 1 + 4 = i + 5
    OBVIOUS
  <2>. QED  BY <1>4, <2>1
<1>7. LittleEndian(d) = ValueOf(d, k)
  BY <1>4, <1>5, <1>6, LittleEndianValue, Zenon
<1>. QED  BY <1>2, <1>4, <1>7

(* Tags of copies, taken apart. *)
LEMMA CopyTags ==
    ASSUME NEW o \in Nat, o >= 1, o <= 65535, NEW len \in 4 .. 64
    PROVE  /\ len < 12 /\ o < 2048 =>
                LET tag == 1 + 4 * (len - 4) + 32 * (o \div 256) IN
                /\ tag % 4 = 1 /\ 4 + ((tag \div 4) % 8) = len
                /\ 256 * (tag \div 32) + (o % 256) = o
           /\ LET tag == 2 + 4 * (len - 1) IN
              /\ tag % 4 = 2 /\ 1 + tag \div 4 = len
           /\ (o % 256) + 256 * (o \div 256) = o
<1>1. (o % 256) + 256 * (o \div 256) = o
  OBVIOUS
<1>2. (2 + 4 * (len - 1)) % 4 = 2 /\ 1 + (2 + 4 * (len - 1)) \div 4 = len
  OBVIOUS
<1>3. ASSUME len < 12, o < 2048
      PROVE  LET tag == 1 + 4 * (len - 4) + 32 * (o \div 256) IN
             /\ tag % 4 = 1 /\ 4 + ((tag \div 4) % 8) = len
             /\ 256 * (tag \div 32) + (o % 256) = o
  <2> DEFINE q == o \div 256
             tag == 1 + 4 * (len - 4) + 32 * q
  <2>1. q \in 0 .. 7 /\ len - 4 \in 0 .. 7 /\ (o % 256) + 256 * q = o
    BY <1>1, <1>3
  <2> HIDE DEF q
  <2>2. tag % 4 = 1 /\ tag \div 4 = (len - 4) + 8 * q /\ tag \div 32 = q
    BY <2>1
  <2>3. ((len - 4) + 8 * q) % 8 = len - 4
    BY <2>1
  <2> HIDE DEF tag
  <2>4. tag % 4 = 1 /\ 4 + ((tag \div 4) % 8) = len /\ 256 * (tag \div 32) + (o % 256) = o
    BY <2>1, <2>2, <2>3
  <2>. QED  BY <2>4 DEF q, tag
<1>. QED  BY <1>1, <1>2, <1>3

(* A copy is found in the stream as it was written. *)
LEMMA CopyDecoded ==
    ASSUME NEW s \in Seq(Byte8), NEW i \in Nat, NEW j \in Nat, i <= j, j <= Len(s),
           NEW o, NEW len, o \in 1 .. MaxOffset, len \in MinCopyLen .. MaxCopyLen,
           SubSeq(s, i + 1, j) = EncodeCopy(o, len)
    PROVE  WholeCopy(s, i) /\ CopyAt(s, i) = CopyElement(o, len) /\ BodyAt(s, i) = j /\ i < j
<1>0. len \in 4 .. 64 /\ Len(s) \in Nat
  BY LenProperties DEF MinCopyLen, MaxCopyLen
<1>1. o \in Nat /\ o >= 1 /\ o <= 65535
  BY MaxOffsetFacts
<1>2. /\ len < 12 /\ o < 2048 =>
           LET tag == 1 + 4 * (len - 4) + 32 * (o \div 256) IN
           /\ tag % 4 = 1 /\ 4 + ((tag \div 4) % 8) = len
           /\ 256 * (tag \div 32) + (o % 256) = o
      /\ LET tag == 2 + 4 * (len - 1) IN
         /\ tag % 4 = 2 /\ 1 + tag \div 4 = len
      /\ (o % 256) + 256 * (o \div 256) = o
  BY <1>0, <1>1, CopyTags
<1>3. /\ Len(EncodeCopy(o, len)) = j - i
      /\ \A x \in 1 .. j - i : EncodeCopy(o, len)[x] = s[i + x]
  BY Slice
<1>4. CASE len < 12 /\ o < 2048
  <2> DEFINE tag == 1 + 4 * (len - 4) + 32 * (o \div 256)
             low == o % 256
  <2>1. tag % 4 = 1 /\ 4 + ((tag \div 4) % 8) = len /\ 256 * (tag \div 32) + low = o
    BY <1>2, <1>4
  <2>2. EncodeCopy(o, len) = <<tag, low>>
    BY <1>4 DEF EncodeCopy
  <2> HIDE DEF tag, low
  <2>3. j - i = 2 /\ s[i + 1] = tag /\ s[i + 2] = low
    BY <1>3, <2>2
  <2>4. ExtraBytes(tag) = 1 /\ ~IsLiteral(tag)
    BY <2>1, SMT DEF ExtraBytes, IsLiteral
  <2>5. TagAt(s, i) = tag
    BY <2>3 DEF TagAt
  <2>6. OperandAt(s, i) = low
    <3>1. i + 1 + 1 <= Len(s) /\ ExtraBytes(TagAt(s, i)) = 1 /\ 1 \in 1 .. 4
      BY <1>0, <2>3, <2>4, <2>5
    <3>2. PICK d : /\ OperandAt(s, i) = ValueOf(d, 1)
                   /\ \A x \in 1 .. 1 : d[x] = s[i + 1 + x]
      <4> DEFINE k == 1
      <4>1. k \in 1 .. 4 /\ i + 1 + k <= Len(s) /\ ExtraBytes(TagAt(s, i)) = k /\ k # 4
        BY <3>1
      <4> HIDE DEF k
      <4>2. \E d : /\ OperandAt(s, i) = ValueOf(d, k)
                   /\ \A x \in 1 .. k : d[x] = s[i + 1 + x]
        BY <4>1, OperandValue, Zenon
      <4>. QED  BY <4>2 DEF k
    <3>3. d[1] = s[i + 2]
      BY <3>2
    <3>. QED  BY <2>3, <3>2, <3>3 DEF ValueOf
  <2>7. BodyAt(s, i) = j
    BY <1>0, <2>3, <2>4, <2>5 DEF BodyAt, HeaderLen
  <2>8. CopyAt(s, i) = CopyElement(o, len)
    BY <2>1, <2>5, <2>6 DEF CopyAt, CopyOffset, CopyLen
  <2>. QED  BY <2>3, <2>4, <2>5, <2>7, <2>8 DEF WholeCopy, HeaderWhole
<1>5. CASE ~(len < 12 /\ o < 2048)
  <2> DEFINE tag == 2 + 4 * (len - 1)
             low == o % 256
             high == o \div 256
  <2>1. tag % 4 = 2 /\ 1 + tag \div 4 = len /\ low + 256 * high = o
    BY <1>2
  <2>2. EncodeCopy(o, len) = <<tag, low, high>>
    BY <1>5 DEF EncodeCopy
  <2> HIDE DEF tag, low, high
  <2>3. j - i = 3 /\ s[i + 1] = tag /\ s[i + 2] = low /\ s[i + 3] = high
    BY <1>3, <2>2
  <2>4. ExtraBytes(tag) = 2 /\ ~IsLiteral(tag)
    BY <2>1, SMT DEF ExtraBytes, IsLiteral
  <2>5. TagAt(s, i) = tag
    BY <2>3 DEF TagAt
  <2>6. OperandAt(s, i) = o
    <3>1. i + 1 + 2 <= Len(s) /\ ExtraBytes(TagAt(s, i)) = 2 /\ 2 \in 1 .. 4
      BY <1>0, <2>3, <2>4, <2>5
    <3>2. PICK d : /\ OperandAt(s, i) = ValueOf(d, 2)
                   /\ \A x \in 1 .. 2 : d[x] = s[i + 1 + x]
      <4> DEFINE k == 2
      <4>1. k \in 1 .. 4 /\ i + 1 + k <= Len(s) /\ ExtraBytes(TagAt(s, i)) = k /\ k # 4
        BY <3>1
      <4> HIDE DEF k
      <4>2. \E d : /\ OperandAt(s, i) = ValueOf(d, k)
                   /\ \A x \in 1 .. k : d[x] = s[i + 1 + x]
        BY <4>1, OperandValue, Zenon
      <4>. QED  BY <4>2 DEF k
    <3>3. d[1] = s[i + 2] /\ d[2] = s[i + 3]
      BY <3>2
    <3>. QED  BY <2>1, <2>3, <3>2, <3>3 DEF ValueOf
  <2>7. BodyAt(s, i) = j
    BY <1>0, <2>3, <2>4, <2>5 DEF BodyAt, HeaderLen
  <2>8. CopyAt(s, i) = CopyElement(o, len)
    BY <2>1, <2>5, <2>6 DEF CopyAt, CopyOffset, CopyLen
  <2>. QED  BY <2>3, <2>4, <2>5, <2>7, <2>8 DEF WholeCopy, HeaderWhole
<1>. QED  BY <1>4, <1>5

-----------------------------------------------------------------------------
(* Any element.                                                            *)

LEMMA EncodableCases ==
    ASSUME NEW e \in Encodable
    PROVE  \/ /\ e.kind = "literal" /\ e.bytes \in Seq(Byte8) /\ e.bytes # <<>>
              /\ Len(e.bytes) \in 1 .. MaxInt32
              /\ e = LiteralElement(e.bytes) /\ Encode(e) = EncodeLiteral(e.bytes)
           \/ /\ e.kind = "copy" /\ e.offset \in 1 .. MaxOffset
              /\ e.len \in MinCopyLen .. MaxCopyLen
              /\ e = CopyElement(e.offset, e.len)
              /\ Encode(e) = EncodeCopy(e.offset, e.len)
<1>1. CASE /\ e \in [kind : {"literal"}, bytes : Seq(Byte8)]
           /\ Len(e.bytes) \in 1 .. MaxInt32
  <2>1. e.kind = "literal" /\ e.bytes \in Seq(Byte8) /\ e = LiteralElement(e.bytes)
    BY <1>1 DEF LiteralElement
  <2>2. e.bytes # <<>>
    <3>1. Len(e.bytes) # 0
      BY <1>1
    <3>. QED  BY <3>1, EmptySeq
  <2>. QED  BY <1>1, <2>1, <2>2 DEF Encode
<1>2. CASE e \in [kind : {"copy"}, offset : 1 .. MaxOffset, len : MinCopyLen .. MaxCopyLen]
  <2>1. /\ e.kind = "copy" /\ e.offset \in 1 .. MaxOffset
        /\ e.len \in MinCopyLen .. MaxCopyLen /\ e = CopyElement(e.offset, e.len)
    BY <1>2 DEF CopyElement
  <2>. QED  BY <2>1 DEF Encode
<1>. QED  BY <1>1, <1>2 DEF Encodable

(* An element is written as bytes, as many as were counted for it. *)
LEMMA EncodeFacts ==
    ASSUME NEW e \in Encodable
    PROVE  /\ Encode(e) \in Seq(Byte8)
           /\ Len(Encode(e)) = ElementSize(e)
           /\ Len(Encode(e)) > 0
<1>1. CASE /\ e.kind = "literal" /\ e.bytes \in Seq(Byte8) /\ e.bytes # <<>>
           /\ Encode(e) = EncodeLiteral(e.bytes)
  <2> DEFINE b == e.bytes
  <2>1. b \in Seq(Byte8) /\ b # <<>>
    BY <1>1
  <2> HIDE DEF b
  <2>2. /\ EncodeLiteral(b) \in Seq(Byte8) /\ Len(EncodeLiteral(b)) = LiteralSize(Len(b))
        /\ LengthBytes(Len(b)) \in 0 .. 4 /\ LiteralSize(Len(b)) = 1 + LengthBytes(Len(b)) + Len(b)
    BY <2>1, LiteralBytes
  <2>3. Len(b) \in Nat
    BY <2>1, LenProperties
  <2>4. Len(EncodeLiteral(b)) > 0
    BY <2>2, <2>3
  <2>. QED  BY <1>1, <2>2, <2>4 DEF b, ElementSize
<1>2. CASE /\ e.kind = "copy" /\ e.offset \in 1 .. MaxOffset
           /\ e.len \in MinCopyLen .. MaxCopyLen
           /\ Encode(e) = EncodeCopy(e.offset, e.len)
  <2>1. /\ EncodeCopy(e.offset, e.len) \in Seq(Byte8)
        /\ Len(EncodeCopy(e.offset, e.len)) = CopySize(e.offset, e.len)
    BY <1>2, EncodeCopyFacts
  <2>2. CopySize(e.offset, e.len) > 0
    BY DEF CopySize
  <2>. QED  BY <1>2, <2>1, <2>2 DEF ElementSize
<1>. QED  BY <1>1, <1>2, EncodableCases

(* The decoder finds e at position i of s and goes on at j. *)
FoundAt(s, i, j, e) ==
    \/ /\ e.kind = "literal" /\ WholeLiteral(s, i) /\ LiteralAt(s, i) = e
       /\ LengthAt(s, i) = Len(e.bytes) /\ LengthAt(s, i) >= 1
       /\ BodyAt(s, i) + LengthAt(s, i) = j
    \/ /\ e.kind = "copy" /\ WholeCopy(s, i) /\ CopyAt(s, i) = e
       /\ BodyAt(s, i) = j

(* The decompressor takes apart what the compressor put together: where    *)
(* the bytes that EmitLiteral and EmitCopy write for an element lie in a   *)
(* stream, whatever lies around them, the tag, the operand and the length  *)
(* are read back as that element, and it ends where its bytes end.         *)
THEOREM ElementDecoded ==
    ASSUME NEW s \in Seq(Byte8), NEW i \in Nat, NEW j \in Nat, i <= j, j <= Len(s),
           NEW e \in Encodable, SubSeq(s, i + 1, j) = Encode(e)
    PROVE  FoundAt(s, i, j, e) /\ i < j
<1>1. CASE /\ e.kind = "literal" /\ e.bytes \in Seq(Byte8)
           /\ Len(e.bytes) \in 1 .. MaxInt32
           /\ e = LiteralElement(e.bytes) /\ Encode(e) = EncodeLiteral(e.bytes)
  <2> DEFINE b == e.bytes
  <2>1. b \in Seq(Byte8) /\ Len(b) \in 1 .. MaxInt32 /\ SubSeq(s, i + 1, j) = EncodeLiteral(b)
    BY <1>1
  <2>2. /\ WholeLiteral(s, i) /\ LiteralAt(s, i) = LiteralElement(b)
        /\ BodyAt(s, i) + Len(b) = j /\ LengthAt(s, i) = Len(b) /\ i < j
    <3> HIDE DEF b
    <3>. QED  BY <2>1, LiteralDecoded
  <2>3. Len(b) >= 1
    BY <2>1
  <2>. QED  BY <1>1, <2>2, <2>3 DEF FoundAt
<1>2. CASE /\ e.kind = "copy" /\ e.offset \in 1 .. MaxOffset
           /\ e.len \in MinCopyLen .. MaxCopyLen
           /\ e = CopyElement(e.offset, e.len)
           /\ Encode(e) = EncodeCopy(e.offset, e.len)
  <2>1. /\ WholeCopy(s, i) /\ CopyAt(s, i) = CopyElement(e.offset, e.len)
        /\ BodyAt(s, i) = j /\ i < j
    <3> DEFINE o == e.offset   len == e.len
    <3>1. /\ o \in 1 .. MaxOffset /\ len \in MinCopyLen .. MaxCopyLen
          /\ SubSeq(s, i + 1, j) = EncodeCopy(o, len)
      BY <1>2
    <3> HIDE DEF o, len
    <3>2. WholeCopy(s, i) /\ CopyAt(s, i) = CopyElement(o, len) /\ BodyAt(s, i) = j /\ i < j
      BY <3>1, CopyDecoded
    <3>. QED  BY <3>2 DEF o, len
  <2>. QED  BY <1>2, <2>1 DEF FoundAt
<1>. QED  BY <1>1, <1>2, EncodableCases

-----------------------------------------------------------------------------
(* Streams.                                                                *)

LEMMA SameSlice ==
    ASSUME NEW S, NEW s \in Seq(S), NEW u \in Seq(S), NEW a \in Nat, NEW b \in Nat,
           a <= b, b <= Len(s), b <= Len(u),
           \A x \in a + 1 .. b : s[x] = u[x]
    PROVE  SubSeq(s, a + 1, b) = SubSeq(u, a + 1, b)
<1> DEFINE f == SubSeq(s, a + 1, b)   g == SubSeq(u, a + 1, b)
<1>1. f \in Seq(S) /\ Len(f) = b - a /\ \A x \in 1 .. b - a : f[x] = s[a + x]
  BY Slice
<1>2. g \in Seq(S) /\ Len(g) = b - a /\ \A x \in 1 .. b - a : g[x] = u[a + x]
  BY Slice
<1>3. \A x \in 1 .. b - a : s[a + x] = u[a + x]
  <2>1. \A x \in 1 .. b - a : a + x \in a + 1 .. b
    OBVIOUS
  <2>. QED  BY <2>1
<1> HIDE DEF f, g
<1>4. f = g
  BY <1>1, <1>2, <1>3, SeqEqual
<1>. QED  BY <1>4 DEF f, g

LEMMA SamePrefix ==
    ASSUME NEW S, NEW s \in Seq(S), NEW u \in Seq(S), NEW p \in Nat,
           p <= Len(s), p <= Len(u), \A x \in 1 .. p : s[x] = u[x]
    PROVE  SubSeq(s, 1, p) = SubSeq(u, 1, p)
<1> DEFINE a == 0
<1>1. /\ a \in Nat /\ a <= p /\ a + 1 = 1
      /\ \A x \in a + 1 .. p : s[x] = u[x]
  OBVIOUS
<1> HIDE DEF a
<1>2. SubSeq(s, a + 1, p) = SubSeq(u, a + 1, p)
  BY <1>1, SameSlice
<1>. QED  BY <1>1, <1>2

LEMMA WholePrefix ==
    ASSUME NEW S, NEW s \in Seq(S)
    PROVE  SubSeq(s, 1, Len(s)) = s
<1> DEFINE f == SubSeq(s, 1, Len(s))   p == Len(s)
<1>1. p \in 0 .. Len(s) /\ p = Len(s)
  BY LenProperties
<1>2. f \in Seq(S) /\ Len(f) = p /\ \A x \in 1 .. p : f[x] = s[x]
  <2> HIDE DEF p
  <2>1. /\ SubSeq(s, 1, p) \in Seq(S) /\ Len(SubSeq(s, 1, p)) = p
        /\ \A x \in 1 .. p : SubSeq(s, 1, p)[x] = s[x]
    BY <1>1, Prefix
  <2>. QED  BY <2>1 DEF p
<1> HIDE DEF f
<1>3. f = s
  BY <1>2, SeqEqual
<1>. QED  BY <1>3 DEF f

(* What an element stands for comes after the text before it. *)
LEMMA DenotesLonger ==
    ASSUME NEW t \in Seq(Byte8), NEW e \in Encodable, NEW u \in Seq(Byte8), Denotes(t, e, u)
    PROVE  /\ Len(t) \in Nat /\ Len(u) \in Nat /\ Len(t) <= Len(u)
           /\ \A x \in 1 .. Len(t) : u[x] = t[x]
<1>1. Len(t) \in Nat /\ Len(u) \in Nat
  BY LenProperties
<1>2. CASE e.kind = "literal" /\ e.bytes \in Seq(Byte8)
  <2> DEFINE b == e.bytes
  <2>1. b \in Seq(Byte8) /\ u = t \o b
    BY <1>2 DEF Denotes
  <2> HIDE DEF b
  <2>2. /\ Len(b) \in Nat /\ Len(u) = Len(t) + Len(b)
        /\ \A x \in 1 .. Len(t) + Len(b) : u[x] = IF x <= Len(t) THEN t[x] ELSE b[x - Len(t)]
    BY <2>1, ConcatProperties, LenProperties
  <2>3. \A x \in 1 .. Len(t) : x \in 1 .. Len(t) + Len(b) /\ x <= Len(t)
    BY <1>1, <2>2
  <2>. QED  BY <1>1, <2>2, <2>3
<1>3. CASE e.kind = "copy" /\ e.len \in MinCopyLen .. MaxCopyLen
  <2> DEFINE o == e.offset   len == e.len
  <2>1. /\ len \in Nat /\ Len(u) = Len(t) + len
        /\ \A x \in 1 .. Len(u) : u[x] = IF x <= Len(t) THEN t[x] ELSE u[x - o]
    <3>1. IsRepeat(t, u, o, len)
      BY <1>3 DEF Denotes
    <3>2. len \in 4 .. 64
      BY <1>3 DEF MinCopyLen, MaxCopyLen
    <3> HIDE DEF o, len
    <3>. QED  BY <3>1, <3>2 DEF IsRepeat
  <2> HIDE DEF o, len
  <2>2. \A x \in 1 .. Len(t) : x \in 1 .. Len(u) /\ x <= Len(t)
    BY <1>1, <2>1
  <2>. QED  BY <1>1, <2>1, <2>2
<1>. QED  BY <1>2, <1>3, EncodableCases

(* A stream in the making, with one element more. *)
LEMMA EncodesMore ==
    ASSUME NEW s \in Seq(Byte8), NEW w, NEW t \in Seq(Byte8), NEW u \in Seq(Byte8),
           NEW e \in Encodable, Encodes(s, w, t), Denotes(t, e, u)
    PROVE  Encodes(s \o Encode(e), w, u)
<1> DEFINE z == s \o Encode(e)
<1>1. PICK k \in Nat : \E starts \in [0 .. k -> Nat], made \in [0 .. k -> Nat] :
        /\ SubSeq(s, 1, starts[0]) = Varint(w)
        /\ IsParse(s, t, k, starts, made)
  BY DEF Encodes
<1>2. PICK starts \in [0 .. k -> Nat], made \in [0 .. k -> Nat] :
        /\ SubSeq(s, 1, starts[0]) = Varint(w)
        /\ IsParse(s, t, k, starts, made)
  BY <1>1
<1>3. /\ Len(s) \in Nat /\ Len(t) \in Nat /\ Len(u) \in Nat /\ Len(t) <= Len(u)
      /\ \A x \in 1 .. Len(t) : t[x] = u[x]
  BY DenotesLonger, LenProperties
<1>4. /\ z \in Seq(Byte8) /\ Len(z) \in Nat /\ Len(s) < Len(z)
      /\ \A x \in 1 .. Len(s) : s[x] = z[x]
      /\ SubSeq(z, Len(s) + 1, Len(z)) = Encode(e)
  <2> DEFINE b == Encode(e)
  <2>1. b \in Seq(Byte8) /\ Len(b) \in Nat /\ Len(b) > 0
    BY EncodeFacts, LenProperties
  <2> HIDE DEF b
  <2>2. /\ s \o b \in Seq(Byte8) /\ Len(s \o b) = Len(s) + Len(b)
        /\ \A x \in 1 .. Len(s) + Len(b) :
             (s \o b)[x] = IF x <= Len(s) THEN s[x] ELSE b[x - Len(s)]
    BY <2>1, ConcatProperties
  <2> DEFINE y == s \o b
             a == Len(s)
             c == Len(y)
             v == SubSeq(y, a + 1, c)
  <2>3. /\ y \in Seq(Byte8) /\ a \in Nat /\ c \in Nat /\ a < c /\ c <= Len(y) /\ c - a = Len(b)
        /\ \A x \in 1 .. a : s[x] = y[x]
        /\ \A x \in 1 .. Len(b) : y[a + x] = b[x]
    <3>1. c = a + Len(b) /\ y \in Seq(Byte8) /\ a \in Nat
      BY <1>3, <2>2
    <3>2. \A x \in 1 .. a : x \in 1 .. Len(s) + Len(b) /\ x <= Len(s)
      BY <1>3, <2>1
    <3>3. \A x \in 1 .. Len(b) : /\ a + x \in 1 .. Len(s) + Len(b)
                                /\ ~(a + x <= Len(s)) /\ (a + x) - Len(s) = x
      BY <1>3, <2>1
    <3>. QED  BY <2>1, <2>2, <3>1, <3>2, <3>3
  <2> HIDE DEF y, a, c
  <2>4. v \in Seq(Byte8) /\ Len(v) = c - a /\ \A x \in 1 .. c - a : v[x] = y[a + x]
    <3>1. y \in Seq(Byte8) /\ a \in Nat /\ c \in Nat /\ a <= c /\ c <= Len(y)
      BY <2>3
    <3>. QED  BY <3>1, Slice, Zenon
  <2> HIDE DEF v
  <2>5. v = b
    BY <2>1, <2>3, <2>4, SeqEqual
  <2>. QED  BY <2>3, <2>5 DEF v, a, c, y, b
<1> DEFINE starts2 == [i \in 0 .. k + 1 |-> IF i = k + 1 THEN Len(z) ELSE starts[i]]
           made2 == [i \in 0 .. k + 1 |-> IF i = k + 1 THEN Len(u) ELSE made[i]]
<1> HIDE DEF z
<1>5. /\ starts \in [0 .. k -> 0 .. Len(s)] /\ made \in [0 .. k -> 0 .. Len(t)]
      /\ made[0] = 0 /\ starts[k] = Len(s) /\ made[k] = Len(t)
      /\ \A i \in 1 .. k : /\ starts[i - 1] < starts[i]
                           /\ Extends(s, starts[i - 1], starts[i], t, made[i - 1], made[i])
  BY <1>2 DEF IsParse
<1>6. \A p \in 0 .. Len(t) : SubSeq(t, 1, p) = SubSeq(u, 1, p)
  <2> TAKE p \in 0 .. Len(t)
  <2>1. p \in Nat /\ p <= Len(t) /\ p <= Len(u) /\ \A x \in 1 .. p : t[x] = u[x]
    BY <1>3
  <2>. QED  BY <2>1, SamePrefix
<1>7. /\ starts2 \in [0 .. k + 1 -> 0 .. Len(z)] /\ made2 \in [0 .. k + 1 -> 0 .. Len(u)]
      /\ starts2 \in [0 .. k + 1 -> Nat] /\ made2 \in [0 .. k + 1 -> Nat]
      /\ \A i \in 0 .. k : starts2[i] = starts[i] /\ made2[i] = made[i]
      /\ starts2[k + 1] = Len(z) /\ made2[k + 1] = Len(u)
  <2>1. \A i \in 0 .. k + 1 : i = k + 1 \/ i \in 0 .. k
    OBVIOUS
  <2>2. \A i \in 0 .. k : i # k + 1 /\ i \in 0 .. k + 1
    OBVIOUS
  <2>3. k + 1 \in 0 .. k + 1
    OBVIOUS
  <2>4. \A i \in 0 .. k : starts[i] \in 0 .. Len(z) /\ made[i] \in 0 .. Len(u)
    <3>1. \A i \in 0 .. k : starts[i] \in 0 .. Len(s) /\ made[i] \in 0 .. Len(t)
      BY <1>5
    <3>2. \A x \in 0 .. Len(s) : x \in 0 .. Len(z)
      BY <1>3, <1>4
    <3>3. \A x \in 0 .. Len(t) : x \in 0 .. Len(u)
      BY <1>3
    <3>. QED  BY <3>1, <3>2, <3>3
  <2>5. Len(z) \in 0 .. Len(z) /\ Len(u) \in 0 .. Len(u)
    BY <1>3, <1>4
  <2>6. starts2 \in [0 .. k + 1 -> 0 .. Len(z)] /\ made2 \in [0 .. k + 1 -> 0 .. Len(u)]
    BY <2>1, <2>4, <2>5
  <2>7. starts2 \in [0 .. k + 1 -> Nat] /\ made2 \in [0 .. k + 1 -> Nat]
    BY <2>6
  <2>. QED  BY <2>2, <2>3, <2>6, <2>7
<1>8. SubSeq(z, 1, starts2[0]) = Varint(w)
  <2> DEFINE p == starts[0]
  <2>1. 0 \in 0 .. k
    OBVIOUS
  <2>2. /\ p \in Nat /\ p <= Len(s) /\ p <= Len(z)
        /\ \A x \in 1 .. p : s[x] = z[x] /\ starts2[0] = p
    BY <1>3, <1>4, <1>5, <1>7, <2>1
  <2>3. starts2[0] = p
    BY <1>7, <2>1
  <2> HIDE DEF p, starts2
  <2>4. SubSeq(s, 1, p) = SubSeq(z, 1, p)
    BY <1>4, <2>2, SamePrefix
  <2>. QED  BY <1>2, <2>3, <2>4 DEF p
<1> HIDE DEF starts2, made2
<1>9. ASSUME NEW i \in 1 .. k + 1
      PROVE  /\ starts2[i - 1] < starts2[i]
             /\ Extends(z, starts2[i - 1], starts2[i], u, made2[i - 1], made2[i])
  <2>1. CASE i = k + 1
    <3>1. i - 1 = k /\ k \in 0 .. k
      BY <2>1
    <3>2. /\ starts2[i - 1] = Len(s) /\ made2[i - 1] = Len(t)
          /\ starts2[i] = Len(z) /\ made2[i] = Len(u)
      BY <1>5, <1>7, <2>1, <3>1
    <3>3. SubSeq(u, 1, Len(t)) = t /\ SubSeq(u, 1, Len(u)) = u
      <4>1. Len(t) \in 0 .. Len(t)
        BY <1>3
      <4>. QED  BY <1>6, <4>1, WholePrefix
    <3>4. Extends(z, Len(s), Len(z), u, Len(t), Len(u))
      BY <1>4, <3>3 DEF Extends
    <3>. QED  BY <1>4, <3>2, <3>4
  <2>2. CASE i \in 1 .. k
    <3> DEFINE a == starts[i - 1]   b == starts[i]   p == made[i - 1]   q == made[i]
    <3>1. i - 1 \in 0 .. k /\ i \in 0 .. k
      BY <2>2
    <3>2. /\ a \in Nat /\ b \in Nat /\ a < b /\ b <= Len(s) /\ b <= Len(z)
          /\ p \in 0 .. Len(t) /\ q \in 0 .. Len(t)
          /\ Extends(s, a, b, t, p, q)
      <4>1. a \in 0 .. Len(s) /\ b \in 0 .. Len(s) /\ p \in 0 .. Len(t) /\ q \in 0 .. Len(t)
        BY <1>5, <3>1
      <4>2. a < b /\ Extends(s, a, b, t, p, q)
        BY <1>5, <2>2
      <4> HIDE DEF a, b, p, q
      <4>. QED  BY <1>3, <1>4, <4>1, <4>2
    <3>3. starts2[i - 1] = a /\ made2[i - 1] = p /\ starts2[i] = b /\ made2[i] = q
      BY <1>7, <3>1
    <3> HIDE DEF a, b, p, q
    <3>4. SubSeq(s, a + 1, b) = SubSeq(z, a + 1, b)
      <4>1. a <= b /\ \A x \in a + 1 .. b : s[x] = z[x]
        <5>1. \A x \in a + 1 .. b : x \in 1 .. Len(s)
          BY <1>3, <3>2
        <5>2. \A x \in 1 .. Len(s) : s[x] = z[x]
          BY <1>4
        <5>3. a <= b
          BY <3>2
        <5>. QED  BY <5>1, <5>2, <5>3
      <4>2. z \in Seq(Byte8) /\ a \in Nat /\ b \in Nat /\ b <= Len(s) /\ b <= Len(z)
        BY <1>4, <3>2
      <4>. QED  BY <4>1, <4>2, SameSlice, SMT
    <3>5. SubSeq(t, 1, p) = SubSeq(u, 1, p) /\ SubSeq(t, 1, q) = SubSeq(u, 1, q)
      BY <1>6, <3>2
    <3>6. Extends(z, a, b, u, p, q)
      BY <3>2, <3>4, <3>5 DEF Extends
    <3>. QED  BY <3>2, <3>3, <3>6
  <2>3. i = k + 1 \/ i \in 1 .. k
    OBVIOUS
  <2>. QED  BY <2>1, <2>2, <2>3
<1>10. made2[0] = 0
  <2>1. 0 \in 0 .. k
    OBVIOUS
  <2>. QED  BY <1>5, <1>7, <2>1
<1>11. IsParse(z, u, k + 1, starts2, made2)
  <2>1. \A i \in 1 .. k + 1 : /\ starts2[i - 1] < starts2[i]
             /\ Extends(z, starts2[i - 1], starts2[i], u, made2[i - 1], made2[i])
    BY <1>9
  <2>. QED  BY <1>7, <1>10, <2>1 DEF IsParse
<1>12. k + 1 \in Nat
  OBVIOUS
<1>13. Encodes(z, w, u)
  BY <1>7, <1>8, <1>11, <1>12 DEF Encodes
<1>. QED  BY <1>13 DEF z

-----------------------------------------------------------------------------
(* The header.                                                             *)

(* Seven bits to a byte, low bits first, the top bit set in all but the     *)
(* last of k bytes.                                                        *)
IsVarint(s, w, k, g) ==
    /\ k \in 1 .. 5 /\ g \in [1 .. 5 -> 0 .. 127]
    /\ s \in Seq(Byte8) /\ Len(s) = k
    /\ \A i \in 1 .. k : s[i] = IF i = k THEN g[i] ELSE 128 + g[i]
    /\ \A i \in 1 .. 5 : i > k => g[i] = 0
    /\ g[5] <= 15
    /\ w = g[1] + 128 * (g[2] + 128 * (g[3] + 128 * (g[4] + 128 * g[5])))

(* A number and what is left of it after each seven bits. *)
LEMMA SevenBits ==
    ASSUME NEW w \in Nat, w \div 2 <= MaxInt32,
           NEW v, v = <<w, ShiftRight7(w), ShiftRight7(w) \div 128,
                        (ShiftRight7(w) \div 128) \div 128,
                        ((ShiftRight7(w) \div 128) \div 128) \div 128>>
    PROVE  /\ \A i \in 1 .. 5 : v[i] \in Nat
           /\ \A i \in 1 .. 4 : v[i] = (v[i] % 128) + 128 * v[i + 1]
           /\ \A i \in 1 .. 4 : v[i] < 128 => v[i + 1] = 0
           /\ v[5] <= 15
<1> DEFINE v1 == w \div 128    v2 == v1 \div 128
           v3 == v2 \div 128   v4 == v3 \div 128
<1>1. w \in Nat /\ w <= 4294967295
  <2>1. w \div 2 <= 2147483647
    BY DEF MaxInt32
  <2>. QED  BY <2>1
<1>2. ShiftRight7(w) = v1
  BY DEF ShiftRight7
<1>3. v[1] = w /\ v[2] = v1 /\ v[3] = v2 /\ v[4] = v3 /\ v[5] = v4
  BY <1>2
<1>4. v1 \in Nat /\ v1 <= 33554431 /\ w = (w % 128) + 128 * v1 /\ (w < 128 => v1 = 0)
  BY <1>1
<1> HIDE DEF v1
<1>5. v2 \in Nat /\ v2 <= 262143 /\ v1 = (v1 % 128) + 128 * v2 /\ (v1 < 128 => v2 = 0)
  BY <1>4
<1> HIDE DEF v2
<1>6. v3 \in Nat /\ v3 <= 2047 /\ v2 = (v2 % 128) + 128 * v3 /\ (v2 < 128 => v3 = 0)
  BY <1>5
<1> HIDE DEF v3
<1>7. v4 \in Nat /\ v4 <= 15 /\ v3 = (v3 % 128) + 128 * v4 /\ (v3 < 128 => v4 = 0)
  BY <1>6
<1> HIDE DEF v4
<1>8. \A i \in 1 .. 4 : \/ (i = 1 /\ i + 1 = 2) \/ (i = 2 /\ i + 1 = 3)
                        \/ (i = 3 /\ i + 1 = 4) \/ (i = 4 /\ i + 1 = 5)
  OBVIOUS
<1>9. \A i \in 1 .. 5 : i = 1 \/ i = 2 \/ i = 3 \/ i = 4 \/ i = 5
  OBVIOUS
<1>10. \A i \in 1 .. 5 : v[i] \in Nat
  BY <1>3, <1>4, <1>5, <1>6, <1>7, <1>9
<1>11. \A i \in 1 .. 4 : v[i] = (v[i] % 128) + 128 * v[i + 1]
  BY <1>3, <1>4, <1>5, <1>6, <1>7, <1>8
<1>12. \A i \in 1 .. 4 : v[i] < 128 => v[i + 1] = 0
  BY <1>3, <1>4, <1>5, <1>6, <1>7, <1>8
<1>. QED  BY <1>3, <1>7, <1>10, <1>11, <1>12

LEMMA VarintShape ==
    ASSUME NEW w \in Nat, w \div 2 <= MaxInt32
    PROVE  \E k, g : IsVarint(Varint(w), w, k, g)
<1> DEFINE v == <<w, ShiftRight7(w), ShiftRight7(w) \div 128,
                  (ShiftRight7(w) \div 128) \div 128,
                  ((ShiftRight7(w) \div 128) \div 128) \div 128>>
           First(i) == v[i] < 128 /\ \A j \in 1 .. i - 1 : v[j] >= 128
           k == IF w < 0 THEN 5 ELSE CHOOSE i \in 1 .. 5 : First(i)
           g == [i \in 1 .. 5 |-> v[i] % 128]
           s == [i \in 1 .. k |-> IF i = k THEN v[i] % 128 ELSE 128 + (v[i] % 128)]
<1>1. Varint(w) = s
  BY DEF Varint
<1>2. /\ \A i \in 1 .. 5 : v[i] \in Nat
      /\ \A i \in 1 .. 4 : v[i] = (v[i] % 128) + 128 * v[i + 1]
      /\ \A i \in 1 .. 4 : v[i] < 128 => v[i + 1] = 0
      /\ v[5] <= 15
  BY SevenBits
<1> HIDE DEF v
<1>3. k \in 1 .. 5 /\ First(k)
  <2>1. \E i \in 1 .. 5 : First(i)
    <3>1. \/ v[1] < 128
          \/ v[1] >= 128 /\ v[2] < 128
          \/ v[1] >= 128 /\ v[2] >= 128 /\ v[3] < 128
          \/ v[1] >= 128 /\ v[2] >= 128 /\ v[3] >= 128 /\ v[4] < 128
          \/ v[1] >= 128 /\ v[2] >= 128 /\ v[3] >= 128 /\ v[4] >= 128 /\ v[5] < 128
      BY <1>2
    <3>. QED  BY <3>1
  <2>2. k = CHOOSE i \in 1 .. 5 : First(i)
    OBVIOUS
  <2> HIDE DEF First, k
  <2>. QED  BY <2>1, <2>2
<1> HIDE DEF k
<1>4. \A i \in 1 .. 5 : g[i] = v[i] % 128 /\ g[i] \in 0 .. 127
  <2>1. \A x \in Nat : x % 128 \in 0 .. 127
    OBVIOUS
  <2>. QED  BY <1>2, <2>1
<1>5. g \in [1 .. 5 -> 0 .. 127]
  BY <1>4
<1>6. \A i \in 1 .. 5 : i > k => v[i] = 0
  <2>1. v[1] < 128 => v[2] = 0
    BY <1>2
  <2>2. v[2] < 128 => v[3] = 0
    BY <1>2
  <2>3. v[3] < 128 => v[4] = 0
    BY <1>2
  <2>4. v[4] < 128 => v[5] = 0
    BY <1>2
  <2>5. v[k] < 128
    BY <1>3
  <2>6. k = 1 \/ k = 2 \/ k = 3 \/ k = 4 \/ k = 5
    BY <1>3
  <2>7. \A i \in 1 .. 5 : i > k => \/ i = 2 /\ k = 1
                                   \/ i = 3 /\ k <= 2
                                   \/ i = 4 /\ k <= 3
                                   \/ i = 5 /\ k <= 4
    BY <1>3
  <2>. QED  BY <2>1, <2>2, <2>3, <2>4, <2>5, <2>6, <2>7
<1> HIDE DEF g
<1>7. \A i \in 1 .. 5 : i > k => g[i] = 0
  <2>1. 0 % 128 = 0
    OBVIOUS
  <2>. QED  BY <1>4, <1>6, <2>1
<1>8. g[5] = v[5] /\ g[5] <= 15
  <2>1. v[5] \in Nat /\ v[5] <= 15 /\ g[5] = v[5] % 128
    BY <1>2, <1>4
  <2>. QED  BY <2>1
<1>9. w = g[1] + 128 * (g[2] + 128 * (g[3] + 128 * (g[4] + 128 * g[5])))
  <2>1. v[1] = g[1] + 128 * v[2] /\ v[2] = g[2] + 128 * v[3]
        /\ v[3] = g[3] + 128 * v[4] /\ v[4] = g[4] + 128 * v[5]
    BY <1>2, <1>4
  <2>2. v[1] = w
    BY DEF v
  <2>. QED  BY <1>8, <2>1, <2>2
<1>10. \A i \in 1 .. k : s[i] = (IF i = k THEN g[i] ELSE 128 + g[i]) /\ s[i] \in Byte8
  <2> SUFFICES ASSUME NEW i \in 1 .. k
               PROVE  s[i] = (IF i = k THEN g[i] ELSE 128 + g[i]) /\ s[i] \in Byte8
    OBVIOUS
  <2>1. g[i] = v[i] % 128 /\ g[i] \in 0 .. 127
    BY <1>3, <1>4
  <2>2. s[i] = IF i = k THEN g[i] ELSE 128 + g[i]
    BY <2>1
  <2>3. (IF i = k THEN g[i] ELSE 128 + g[i]) \in Byte8
    BY <2>1 DEF Byte8
  <2>. QED  BY <2>2, <2>3
<1>11. s \in [1 .. k -> Byte8]
  BY <1>10
<1> HIDE DEF s
<1>12. s \in Seq(Byte8) /\ Len(s) = k
  BY <1>3, <1>11, SeqDef, LenProperties
<1>13. IsVarint(s, w, k, g)
  BY <1>3, <1>5, <1>7, <1>8, <1>9, <1>10, <1>12 DEF IsVarint
<1>. QED  BY <1>1, <1>13

(* At most five bytes. *)
LEMMA VarintFacts ==
    ASSUME NEW w \in Nat, w \div 2 <= MaxInt32
    PROVE  Varint(w) \in Seq(Byte8) /\ Len(Varint(w)) \in 1 .. 5
<1>1. PICK k, g : IsVarint(Varint(w), w, k, g)
  BY VarintShape
<1>. QED  BY <1>1 DEF IsVarint

(* A stream with no element. *)
LEMMA EncodesNothing ==
    ASSUME NEW w, Varint(w) \in Seq(Byte8)
    PROVE  Encodes(Varint(w), w, <<>>)
<1> DEFINE s == Varint(w)
           k == 0
           starts == [i \in 0 .. k |-> Len(s)]
           made == [i \in 0 .. k |-> 0]
<1>1. s \in Seq(Byte8) /\ Len(s) \in Nat /\ k \in Nat
  BY LenProperties
<1> DEFINE e == <<>>
<1>2. Len(e) = 0
  OBVIOUS
<1>3. SubSeq(s, 1, Len(s)) = s
  BY <1>1, WholePrefix
<1>4. \A i \in 1 .. k : FALSE
  OBVIOUS
<1>5. 0 \in 0 .. k /\ k \in 0 .. k
  OBVIOUS
<1> HIDE DEF s, k, e
<1>6. /\ starts \in [0 .. k -> 0 .. Len(s)] /\ made \in [0 .. k -> 0 .. Len(e)]
      /\ starts \in [0 .. k -> Nat] /\ made \in [0 .. k -> Nat]
      /\ made[0] = 0 /\ starts[k] = Len(s) /\ made[k] = Len(e) /\ starts[0] = Len(s)
  <2>1. Len(s) \in 0 .. Len(s) /\ 0 \in 0 .. Len(e) /\ 0 \in Nat
    BY <1>1, <1>2
  <2>. QED  BY <1>1, <1>2, <1>5, <2>1
<1> HIDE DEF starts, made
<1>7. IsParse(s, e, k, starts, made) /\ SubSeq(s, 1, starts[0]) = s
  BY <1>3, <1>4, <1>6 DEF IsParse
<1>8. \E a \in [0 .. k -> Nat], b \in [0 .. k -> Nat] :
        SubSeq(s, 1, a[0]) = s /\ IsParse(s, e, k, a, b)
  BY <1>6, <1>7
<1>9. Encodes(s, w, e)
  BY <1>1, <1>8 DEF Encodes, s
<1>. QED  BY <1>9 DEF s, e

(* Element i + 1 of a stream is found where it begins, and makes the next  *)
(* piece of the text.                                                      *)
LEMMA ParseStep ==
    ASSUME NEW s \in Seq(Byte8), NEW t \in Seq(Byte8), NEW k \in Nat,
           NEW starts, NEW made, IsParse(s, t, k, starts, made), NEW i \in 0 .. k
    PROVE  /\ starts[i] \in 0 .. Len(s) /\ made[i] \in 0 .. Len(t)
           /\ i = k => starts[i] = Len(s) /\ made[i] = Len(t)
           /\ i # k => /\ i + 1 \in 0 .. k /\ starts[i] < Len(s)
                       /\ \E e \in Encodable :
                            /\ FoundAt(s, starts[i], starts[i + 1], e)
                            /\ Denotes(SubSeq(t, 1, made[i]), e, SubSeq(t, 1, made[i + 1]))
<1>1. /\ starts \in [0 .. k -> 0 .. Len(s)] /\ made \in [0 .. k -> 0 .. Len(t)]
      /\ starts[k] = Len(s) /\ made[k] = Len(t)
      /\ \A j \in 1 .. k : /\ starts[j - 1] < starts[j]
                           /\ Extends(s, starts[j - 1], starts[j], t, made[j - 1], made[j])
  BY DEF IsParse
<1>2. Len(s) \in Nat
  BY LenProperties
<1>3. starts[i] \in 0 .. Len(s) /\ made[i] \in 0 .. Len(t)
  BY <1>1
<1>4. ASSUME i # k
      PROVE  /\ i + 1 \in 0 .. k /\ starts[i] < Len(s)
             /\ \E e \in Encodable :
                  /\ FoundAt(s, starts[i], starts[i + 1], e)
                  /\ Denotes(SubSeq(t, 1, made[i]), e, SubSeq(t, 1, made[i + 1]))
  <2> DEFINE a == starts[i]   b == starts[i + 1]   p == made[i]   q == made[i + 1]
  <2>1. i + 1 \in 1 .. k /\ i + 1 \in 0 .. k /\ (i + 1) - 1 = i
    BY <1>4
  <2>2. b \in 0 .. Len(s)
    BY <1>1, <2>1
  <2>3. a < b /\ Extends(s, a, b, t, p, q)
    <3>1. /\ starts[(i + 1) - 1] < starts[i + 1]
          /\ Extends(s, starts[(i + 1) - 1], starts[i + 1], t, made[(i + 1) - 1], made[i + 1])
      BY <1>1, <2>1
    <3>. QED  BY <2>1, <3>1
  <2>4. a \in 0 .. Len(s)
    BY <1>3
  <2> HIDE DEF a, b, p, q
  <2>5. PICK e \in Encodable : /\ SubSeq(s, a + 1, b) = Encode(e)
                               /\ Denotes(SubSeq(t, 1, p), e, SubSeq(t, 1, q))
    BY <2>3 DEF Extends
  <2>6. a \in Nat /\ b \in Nat /\ a <= b /\ b <= Len(s) /\ a < Len(s)
    BY <1>2, <2>2, <2>3, <2>4
  <2>7. FoundAt(s, a, b, e)
    BY <2>5, <2>6, ElementDecoded
  <2>. QED  BY <2>1, <2>5, <2>6, <2>7 DEF a, b, p, q
<1>. QED  BY <1>1, <1>3, <1>4
============================================================================
