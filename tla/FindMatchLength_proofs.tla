----------------------- MODULE FindMatchLength_proofs -----------------------
(***************************************************************************)
(* FindMatchLength returns the length of the longest match, whatever the   *)
(* bytes and whichever of its versions is built.                           *)
(***************************************************************************)
EXTENDS FindMatchLength, TLAPS

-----------------------------------------------------------------------------
(* While FindLSBSetNonZero halves, what is left of n has been shifted by   *)
(* 31 - rc and is not empty, and no bit of n lies so low that a shift by   *)
(* s or more would leave it in the word.                                   *)
Shifted(n, r, s) ==
    /\ r.rc \in 0 .. 31
    /\ r = [n |-> ShiftLeft(n, 31 - r.rc), rc |-> r.rc]
    /\ r.n # {}
    /\ \A k \in n : k + (31 - r.rc) >= 32 - s

(* Shifting twice is shifting by the sum.                                  *)
LEMMA ShiftTwice ==
    ASSUME NEW n \in SUBSET Nat, NEW s \in Nat, NEW t \in Nat
    PROVE  ShiftLeft(ShiftLeft(n, s), t) = ShiftLeft(n, s + t)
<1>1. ASSUME NEW x \in ShiftLeft(ShiftLeft(n, s), t)
      PROVE  x \in ShiftLeft(n, s + t)
  <2>1. PICK j \in ShiftLeft(n, s) : j + t <= 31 /\ x = j + t
    BY DEF ShiftLeft
  <2>2. PICK k \in n : k + s <= 31 /\ j = k + s
    BY DEF ShiftLeft
  <2> QED BY <2>1, <2>2 DEF ShiftLeft
<1>2. ASSUME NEW x \in ShiftLeft(n, s + t)
      PROVE  x \in ShiftLeft(ShiftLeft(n, s), t)
  <2>1. PICK k \in n : k + (s + t) <= 31 /\ x = k + (s + t)
    BY DEF ShiftLeft
  <2>2. k + s \in ShiftLeft(n, s)
    BY <2>1 DEF ShiftLeft
  <2>3. (k + s) + t <= 31 /\ x = (k + s) + t
    BY <2>1
  <2> QED BY <2>2, <2>3 DEF ShiftLeft
<1> QED BY <1>1, <1>2

(* One iteration halves the range in which the lowest bit may still be.    *)
LEMMA HalveStep ==
    ASSUME NEW n \in SUBSET (0 .. 31), NEW r, NEW t \in 1 .. 16, Shifted(n, r, 2 * t)
    PROVE  Shifted(n, Halve(r, t), t)
<1> DEFINE d == 31 - r.rc
<1>1. d \in 0 .. 31 /\ r.n = ShiftLeft(n, d)
  BY DEF Shifted
<1>2. ShiftLeft(r.n, t) = ShiftLeft(n, d + t)
  <2>1. n \in SUBSET Nat /\ d \in Nat /\ t \in Nat
    BY <1>1
  <2> HIDE DEF d
  <2> QED BY <1>1, <2>1, ShiftTwice
<1>3. CASE ShiftLeft(r.n, t) # {}
  <2>1. Halve(r, t) = [n |-> ShiftLeft(n, d + t), rc |-> r.rc - t]
    BY <1>2, <1>3 DEF Halve
  <2>2. \E k \in n : k + (d + t) <= 31
    BY <1>2, <1>3 DEF ShiftLeft
  <2>3. d + t <= 31
    BY <2>2, <1>1
  <2>4. r.rc - t \in 0 .. 31 /\ 31 - (r.rc - t) = d + t
    BY <2>3, <1>1 DEF Shifted
  <2>5. \A k \in n : k + (d + t) >= 32 - t
    BY <1>1 DEF Shifted
  <2> HIDE DEF d
  <2> QED BY <2>1, <2>4, <2>5, <1>2, <1>3 DEF Shifted
<1>4. CASE ShiftLeft(r.n, t) = {}
  <2>1. Halve(r, t) = r
    BY <1>4 DEF Halve
  <2>2. \A k \in n : ~(k + (d + t) <= 31)
    BY <1>2, <1>4 DEF ShiftLeft
  <2>3. \A k \in n : k + d >= 32 - t
    BY <2>2, <1>1
  <2> QED BY <2>1, <2>3 DEF Shifted
<1> QED BY <1>3, <1>4

(* FindLSBSetNonZero returns the lowest one bit of a word that has one.    *)
THEOREM LowestBit ==
    ASSUME NEW n \in SUBSET (0 .. 31), n # {}
    PROVE  /\ FindLSBSetNonZero(n) \in n
           /\ \A k \in n : FindLSBSetNonZero(n) <= k
<1> DEFINE r0 == [n |-> n, rc |-> 31]
           r1 == Halve(r0, 16)
           r2 == Halve(r1, 8)
           r3 == Halve(r2, 4)
           r4 == Halve(r3, 2)
           r5 == Halve(r4, 1)
<1>0. Shifted(n, r0, 32)
  <2>1. \A k \in n : k + 0 <= 31 /\ k + 0 = k
    OBVIOUS
  <2>2. ShiftLeft(n, 0) = n
    BY <2>1 DEF ShiftLeft
  <2> QED BY <2>2 DEF Shifted
<1>1. Shifted(n, r1, 16)
  <2> HIDE DEF r0
  <2> QED BY <1>0, HalveStep, 2 * 16 = 32
<1>2. Shifted(n, r2, 8)
  <2> HIDE DEF r1
  <2> QED BY <1>1, HalveStep, 2 * 8 = 16
<1>3. Shifted(n, r3, 4)
  <2> HIDE DEF r2
  <2> QED BY <1>2, HalveStep, 2 * 4 = 8
<1>4. Shifted(n, r4, 2)
  <2> HIDE DEF r3
  <2> QED BY <1>3, HalveStep, 2 * 2 = 4
<1>5. Shifted(n, r5, 1)
  <2> HIDE DEF r4
  <2> QED BY <1>4, HalveStep, 2 * 1 = 2
<1>6. FindLSBSetNonZero(n) = r5.rc
  BY DEF FindLSBSetNonZero
<1> HIDE DEF r5
<1>7. r5.rc \in 0 .. 31 /\ r5.n = ShiftLeft(n, 31 - r5.rc) /\ r5.n # {}
  BY <1>5 DEF Shifted
<1>8. PICK k \in n : k + (31 - r5.rc) <= 31
  BY <1>7 DEF ShiftLeft
<1>9. \A j \in n : j + (31 - r5.rc) >= 31
  BY <1>5 DEF Shifted
<1>10. k = r5.rc
  BY <1>7, <1>8, <1>9
<1>11. \A j \in n : r5.rc <= j
  BY <1>7, <1>9
<1> QED BY <1>6, <1>10, <1>11

(* The same for a word of 64 bits.                                         *)
LEMMA LowestBit64 ==
    ASSUME NEW n \in SUBSET (0 .. 63), n # {}
    PROVE  /\ FindLSBSetNonZero64(n) \in n
           /\ \A k \in n : FindLSBSetNonZero64(n) <= k
<1> DEFINE low  == n \cap 0 .. 31
           high32 == { k - 32 : k \in n }
<1>1. CASE low = {}
  <2>1. \A k \in n : k \in 32 .. 63
    BY <1>1
  <2>2. high32 \in SUBSET (0 .. 31) /\ high32 # {}
    BY <2>1
  <2>3. FindLSBSetNonZero64(n) = 32 + FindLSBSetNonZero(high32)
    BY <1>1 DEF FindLSBSetNonZero64
  <2>4. /\ FindLSBSetNonZero(high32) \in high32
        /\ \A k \in high32 : FindLSBSetNonZero(high32) <= k
    BY <2>2, LowestBit
  <2>5. PICK k \in n : FindLSBSetNonZero(high32) = k - 32
    BY <2>4
  <2>6. 32 + (k - 32) = k
    BY <2>1
  <2>7. \A j \in n : j - 32 \in high32
    OBVIOUS
  <2>8. \A j \in n : k - 32 <= j - 32
    BY <2>4, <2>5, <2>7
  <2>9. \A j \in n : k <= j
    BY <2>8, <2>1
  <2> QED BY <2>3, <2>5, <2>6, <2>9
<1>2. CASE low # {}
  <2>1. FindLSBSetNonZero64(n) = FindLSBSetNonZero(low)
    BY <1>2 DEF FindLSBSetNonZero64
  <2>2. low \in SUBSET (0 .. 31)
    OBVIOUS
  <2>3. /\ FindLSBSetNonZero(low) \in low
        /\ \A k \in low : FindLSBSetNonZero(low) <= k
    BY <2>2, <1>2, LowestBit
  <2>4. \A j \in n : j \in low \/ j > 31
    OBVIOUS
  <2>5. \A j \in n : FindLSBSetNonZero(low) <= j
    BY <2>3, <2>4
  <2> QED BY <2>1, <2>3, <2>5
<1> QED BY <1>1, <1>2

-----------------------------------------------------------------------------
(* Two strings that hold a word of w bytes at p.                           *)
Comparable(s, t, p, w) ==
    /\ Len(s) \in Nat /\ Len(t) \in Nat
    /\ p + w <= Len(s) /\ p + w <= Len(t)
    /\ \A i \in 1 .. Len(s) : s[i] \in SUBSET Bits
    /\ \A i \in 1 .. Len(t) : t[i] \in SUBSET Bits

(* Bit i of the xor of the words tells whether byte i \div 8 of the strings *)
(* differs in bit i % 8.                                                   *)
BitwiseXor(s, t, p, w) ==
    /\ Xor(Load(s, p, w), Load(t, p, w)) \in SUBSET (0 .. 8 * w - 1)
    /\ \A i \in 0 .. 8 * w - 1 :
          i \in Xor(Load(s, p, w), Load(t, p, w)) <=>
             ~(i % 8 \in s[p + i \div 8 + 1] <=> i % 8 \in t[p + i \div 8 + 1])

(* No bit of the first n bytes of the words differs.                       *)
NoneBelow(s, t, p, w, n) ==
    \A i \in 0 .. 8 * w - 1 :
       i \div 8 < n => i \notin Xor(Load(s, p, w), Load(t, p, w))

(* The bit at which two words differ first lies in the byte at which the   *)
(* strings do.                                                             *)
LEMMA WordBytes ==
    ASSUME NEW s, NEW t, NEW p \in Nat, NEW w \in {4, 8},
           Comparable(s, t, p, w)
    PROVE  BitwiseXor(s, t, p, w)
<1>1. \A i \in 0 .. 8 * w - 1 : i \div 8 \in 0 .. w - 1
  OBVIOUS
<1>2. \A i \in 0 .. 8 * w - 1 :
         /\ p + i \div 8 < Len(s) /\ p + i \div 8 < Len(t)
         /\ p + i \div 8 + 1 \in 1 .. Len(s)
         /\ p + i \div 8 + 1 \in 1 .. Len(t)
  BY <1>1 DEF Comparable
<1>3. \A i \in 0 .. 8 * w - 1 :
         /\ i \in Load(s, p, w) <=> i % 8 \in s[p + i \div 8 + 1]
         /\ i \in Load(t, p, w) <=> i % 8 \in t[p + i \div 8 + 1]
  BY <1>2 DEF Load, Fetch
<1>4. /\ Load(s, p, w) \in SUBSET (0 .. 8 * w - 1)
      /\ Load(t, p, w) \in SUBSET (0 .. 8 * w - 1)
  BY DEF Load
<1> QED BY <1>3, <1>4 DEF Xor, BitwiseXor

(* Bit j of byte k of a word.                                              *)
LEMMA BitOfByte ==
    ASSUME NEW w \in {4, 8}, NEW k \in 0 .. w - 1, NEW j \in Bits
    PROVE  /\ 8 * k + j \in 0 .. 8 * w - 1
           /\ (8 * k + j) \div 8 = k
           /\ (8 * k + j) % 8 = j
BY DEF Bits

(* Words without a differing bit are equal byte by byte.                   *)
LEMMA EqualWords ==
    ASSUME NEW s, NEW t, NEW p \in Nat, NEW w \in {4, 8},
           Comparable(s, t, p, w),
           NEW n \in 0 .. w,
           NoneBelow(s, t, p, w, n)
    PROVE  \A i \in p + 1 .. p + n : s[i] = t[i]
<1>0. BitwiseXor(s, t, p, w)
  BY WordBytes
<1> SUFFICES ASSUME NEW i \in p + 1 .. p + n
             PROVE  s[i] = t[i]
  OBVIOUS
<1> DEFINE k == i - p - 1
<1>1. k \in 0 .. w - 1 /\ k < n /\ p + k + 1 = i
  OBVIOUS
<1> HIDE DEF k
<1>2. ASSUME NEW j \in Bits
      PROVE  j \in s[i] <=> j \in t[i]
  <2>1. /\ 8 * k + j \in 0 .. 8 * w - 1
        /\ (8 * k + j) \div 8 = k
        /\ (8 * k + j) % 8 = j
    BY <1>1, BitOfByte
  <2>2. 8 * k + j \notin Xor(Load(s, p, w), Load(t, p, w))
    BY <2>1, <1>1 DEF NoneBelow
  <2> DEFINE c == 8 * k + j
  <2>3. c \in 0 .. 8 * w - 1 /\ c \div 8 = k /\ c % 8 = j
        /\ c \notin Xor(Load(s, p, w), Load(t, p, w))
    BY <2>1, <2>2
  <2> HIDE DEF c
  <2>4. c % 8 \in s[p + c \div 8 + 1] <=> c % 8 \in t[p + c \div 8 + 1]
    BY <2>3, <1>0 DEF BitwiseXor
  <2> QED BY <2>3, <2>4, <1>1
<1>3. s[i] \in SUBSET Bits /\ t[i] \in SUBSET Bits
  <2>1. i \in 1 .. Len(s) /\ i \in 1 .. Len(t)
    BY <1>1 DEF Comparable
  <2> QED BY <2>1 DEF Comparable
<1> QED BY <1>2, <1>3

(* The byte that holds the lowest differing bit is the first that differs. *)
LEMMA FirstDifferingByte ==
    ASSUME NEW s, NEW t, NEW p \in Nat, NEW w \in {4, 8},
           Comparable(s, t, p, w),
           NEW m \in Xor(Load(s, p, w), Load(t, p, w)),
           \A k \in Xor(Load(s, p, w), Load(t, p, w)) : m <= k
    PROVE  /\ m \div 8 \in 0 .. w - 1
           /\ \A i \in p + 1 .. p + m \div 8 : s[i] = t[i]
           /\ s[p + m \div 8 + 1] # t[p + m \div 8 + 1]
<1>0. BitwiseXor(s, t, p, w)
  BY WordBytes
<1>1. m \in 0 .. 8 * w - 1
  BY <1>0 DEF BitwiseXor
<1>2. m \div 8 \in 0 .. w - 1
  BY <1>1
<1>3. NoneBelow(s, t, p, w, m \div 8)
  <2>1. \A i \in 0 .. 8 * w - 1 : i \div 8 < m \div 8 => i < m
    BY <1>1
  <2> QED BY <2>1, <1>1 DEF NoneBelow
<1>4. \A i \in p + 1 .. p + m \div 8 : s[i] = t[i]
  <2> DEFINE n == m \div 8
  <2>1. n \in 0 .. w /\ NoneBelow(s, t, p, w, n)
    BY <1>2, <1>3
  <2> HIDE DEF n
  <2>2. \A i \in p + 1 .. p + n : s[i] = t[i]
    BY <2>1, EqualWords
  <2> QED BY <2>2 DEF n
<1>5. s[p + m \div 8 + 1] # t[p + m \div 8 + 1]
  <2> DEFINE q == p + m \div 8 + 1
  <2>1. ~(m % 8 \in s[q] <=> m % 8 \in t[q])
    BY <1>1, <1>0 DEF BitwiseXor
  <2> HIDE DEF q
  <2>2. s[q] # t[q]
    BY <2>1
  <2> QED BY <2>2 DEF q
<1> QED BY <1>2, <1>4, <1>5

-----------------------------------------------------------------------------
(* What the loads of a step see, in a state of the invariant.              *)
LEMMA WordInside ==
    ASSUME TypeOK, matched = s2, WordFits
    PROVE  /\ width \in {4, 8}
           /\ Comparable(a, b, matched, width)
           /\ Differing = Xor(Load(a, matched, width), Load(b, matched, width))
<1>1. width \in {4, 8}
  BY DEF TypeOK, Builds, width
<1>2. a \in Seq(SUBSET Bits) /\ b \in Seq(SUBSET Bits) /\ Len(a) = len /\ len \in Nat
  BY PairAssumption DEF TypeOK, len
<1>3. matched + width <= len
  BY <1>1, <1>2 DEF TypeOK, WordFits
<1> HIDE DEF width
<1>4. /\ \A i \in 1 .. Len(a) : a[i] \in SUBSET Bits
      /\ \A i \in 1 .. Len(b) : b[i] \in SUBSET Bits
  BY <1>2
<1> QED BY <1>1, <1>2, <1>3, <1>4 DEF Comparable, Differing, len

(* What has been counted is equal, nothing past the limit has been read,   *)
(* and the scan begins only where a bit differs: in every reachable state  *)
(* of every version of FindMatchLength (compress.c 239-328).               *)
THEOREM InductiveInvariant == Spec => []Inductive
<1>1. Init => Inductive
  <2> SUFFICES ASSUME Init PROVE Inductive
    OBVIOUS
  <2>1. TypeOK
    BY PairAssumption DEF Init, TypeOK, len
  <2> QED BY <2>1 DEF Init, Inductive, ReadsBelowLimit, LongestMatch, TypeOK, len
<1>2. Inductive /\ [Next \/ Returned]_fvars => Inductive'
  <2> SUFFICES ASSUME Inductive, [Next \/ Returned]_fvars
               PROVE  Inductive'
    OBVIOUS
  <2> USE DEF Inductive
  <2>0. /\ len \in Nat /\ width \in {4, 8} /\ Len(a) = len /\ Len(b) = len
        /\ s2 \in 0 .. len /\ matched \in Nat /\ high \in Nat
    BY DEF TypeOK, len, width, Builds
  <2>1. CASE WordsEqual
    <3>1. /\ matched = s2 /\ WordFits /\ Differing = {}
          /\ \A k \in 1 .. matched : a[k] = b[k]
      BY <2>1 DEF WordsEqual
    <3>2. matched + width <= len
      BY <2>0, <3>1 DEF WordFits
    <3>3. \A i \in matched + 1 .. matched + width : a[i] = b[i]
      <4>1. /\ Comparable(a, b, matched, width)
            /\ Differing = Xor(Load(a, matched, width), Load(b, matched, width))
        BY <3>1, WordInside
      <4>2. NoneBelow(a, b, matched, width, width)
        BY <3>1, <4>1 DEF NoneBelow
      <4>3. width \in 0 .. width
        BY <2>0
      <4> QED BY <2>0, <4>1, <4>2, <4>3, EqualWords
    <3>4. \A k \in 1 .. matched + width : a[k] = b[k]
      BY <2>0, <3>1, <3>3
    <3>5. TypeOK'
      BY <2>0, <2>1, <3>1, <3>2 DEF WordsEqual, TypeOK, Touch, len, width
    <3>6. ReadsBelowLimit'
      BY <2>0, <2>1, <3>1, <3>2 DEF WordsEqual, ReadsBelowLimit, Touch, len, width
    <3>7. pc' = "words" /\ matched' = s2' /\ matched' = matched + width /\ a' = a /\ b' = b
      BY <2>1, <3>1 DEF WordsEqual
    <3> QED BY <3>4, <3>5, <3>6, <3>7 DEF LongestMatch
  <2>2. CASE WordsDiffer
    <3>1. /\ matched = s2 /\ WordFits /\ Differing # {} /\ pc' \in {"scan", "bytes"}
          /\ \A k \in 1 .. matched : a[k] = b[k]
          /\ UNCHANGED <<a, b, build, s2, matched>>
      BY <2>2 DEF WordsDiffer
    <3>2. s2 + width <= len
      BY <2>0, <3>1 DEF WordFits
    <3>3. TypeOK'
      BY <2>0, <2>2, <3>1 DEF WordsDiffer, TypeOK, Touch, len, width
    <3>4. ReadsBelowLimit'
      BY <2>0, <2>2, <3>2 DEF WordsDiffer, ReadsBelowLimit, Touch, len, width
    <3>5. WordFits' /\ Differing' # {}
      BY <3>1 DEF WordFits, Differing, width, len
    <3> QED BY <3>1, <3>3, <3>4, <3>5 DEF LongestMatch
  <2>3. CASE NoWordLeft
    BY <2>3 DEF NoWordLeft, TypeOK, ReadsBelowLimit, LongestMatch, len
  <2>4. CASE Scan
    <3> DEFINE m == IF width = 8 THEN FindLSBSetNonZero64(Differing)
                                 ELSE FindLSBSetNonZero(Differing)
               n == m \div 8
    <3>1. /\ matched = s2 /\ WordFits /\ Differing # {}
          /\ \A k \in 1 .. matched : a[k] = b[k]
          /\ pc' = "done" /\ matched' = matched + n
          /\ UNCHANGED <<a, b, build, s2, high>>
      BY <2>4 DEF Scan
    <3>2. matched + width <= len
      BY <2>0, <3>1 DEF WordFits
    <3>3. /\ Comparable(a, b, matched, width)
          /\ Differing = Xor(Load(a, matched, width), Load(b, matched, width))
      BY <3>1, WordInside
    <3>4. Differing \in SUBSET (0 .. 8 * width - 1)
      <4>1. BitwiseXor(a, b, matched, width)
        BY <2>0, <3>3, WordBytes
      <4> QED BY <3>3, <4>1 DEF BitwiseXor
    <3>5. m \in Differing /\ \A k \in Differing : m <= k
      <4>1. CASE width = 8
        <5>1. Differing \in SUBSET (0 .. 63)
          BY <3>4, <4>1
        <5> QED BY <3>1, <4>1, <5>1, LowestBit64
      <4>2. CASE width = 4
        <5>1. Differing \in SUBSET (0 .. 31)
          BY <3>4, <4>2
        <5> QED BY <3>1, <4>2, <5>1, LowestBit
      <4> QED BY <2>0, <4>1, <4>2
    <3> HIDE DEF m
    <3>6. /\ n \in 0 .. width - 1
          /\ \A i \in matched + 1 .. matched + n : a[i] = b[i]
          /\ a[matched + n + 1] # b[matched + n + 1]
      BY <2>0, <3>3, <3>5, FirstDifferingByte
    <3> HIDE DEF n
    <3>7. matched' \in 0 .. len
      BY <2>0, <3>1, <3>2, <3>6
    <3>8. \A k \in 1 .. matched' : a[k] = b[k]
      BY <2>0, <3>1, <3>6
    <3>9. a[matched' + 1] # b[matched' + 1]
      BY <3>1, <3>6
    <3>10. TypeOK'
      BY <3>1, <3>7, <2>0 DEF TypeOK, len
    <3>11. ReadsBelowLimit'
      BY <3>1 DEF ReadsBelowLimit, len
    <3> QED BY <3>1, <3>7, <3>8, <3>9, <3>10, <3>11 DEF LongestMatch, len
  <2>5. CASE ByteEqual
    <3>1. /\ matched = s2 /\ s2 < len /\ a[s2 + 1] = b[s2 + 1]
          /\ \A k \in 1 .. matched : a[k] = b[k]
          /\ pc' = "bytes" /\ s2' = s2 + 1 /\ matched' = matched + 1
          /\ UNCHANGED <<a, b, build>>
      BY <2>0, <2>5 DEF ByteEqual, Fetch
    <3>2. \A k \in 1 .. matched' : a[k] = b[k]
      BY <2>0, <3>1
    <3>3. TypeOK'
      BY <2>0, <2>5, <3>1 DEF ByteEqual, TypeOK, Touch, len
    <3>4. ReadsBelowLimit'
      BY <2>0, <2>5, <3>1 DEF ByteEqual, ReadsBelowLimit, Touch, len
    <3> QED BY <3>1, <3>2, <3>3, <3>4 DEF LongestMatch
  <2>6. CASE ByteDiffers
    <3>1. /\ matched = s2 /\ s2 < len /\ a[s2 + 1] # b[s2 + 1]
          /\ \A k \in 1 .. matched : a[k] = b[k]
          /\ pc' = "done" /\ UNCHANGED <<a, b, build, s2, matched>>
      BY <2>0, <2>6 DEF ByteDiffers, Fetch
    <3>2. TypeOK'
      BY <2>0, <2>6, <3>1 DEF ByteDiffers, TypeOK, Touch, len
    <3>3. ReadsBelowLimit'
      BY <2>0, <2>6, <3>1 DEF ByteDiffers, ReadsBelowLimit, Touch, len
    <3>4. LongestMatch'
      BY <2>0, <3>1 DEF LongestMatch, len
    <3> QED BY <3>1, <3>2, <3>3, <3>4
  <2>7. CASE AtLimit
    <3>1. /\ matched = s2 /\ s2 = len
          /\ \A k \in 1 .. matched : a[k] = b[k]
          /\ pc' = "done" /\ UNCHANGED <<a, b, build, s2, matched, high>>
      BY <2>0, <2>7 DEF AtLimit
    <3>2. LongestMatch'
      BY <2>0, <3>1 DEF LongestMatch, len
    <3> QED BY <3>1, <3>2 DEF TypeOK, ReadsBelowLimit, len
  <2>8. CASE UNCHANGED fvars
    BY <2>8 DEF fvars, TypeOK, ReadsBelowLimit, LongestMatch, WordFits, Differing, len, width
  <2> QED BY <2>1, <2>2, <2>3, <2>4, <2>5, <2>6, <2>7, <2>8 DEF Next, Returned
<1> QED BY <1>1, <1>2, PTL DEF Spec

(* Every version returns the length of the longest match.                  *)
THEOREM LongestMatchFound == Spec => []LongestMatch
<1>1. Inductive => LongestMatch
  BY DEF Inductive
<1> QED BY <1>1, InductiveInvariant, PTL

(* No version reads at the limit or beyond.                                *)
THEOREM NothingReadBeyond == Spec => []ReadsBelowLimit
<1>1. Inductive => ReadsBelowLimit
  BY DEF Inductive
<1> QED BY <1>1, InductiveInvariant, PTL
============================================================================
