------------------------ MODULE OutputBuffer_proofs ------------------------
(***************************************************************************)
(* The invariant of the ring buffer, and that it keeps the window that     *)
(* WindowWriter promises.                                                  *)
(***************************************************************************)
EXTENDS OutputBuffer, SequenceTheorems, WellFoundedInduction, TLAPS

-----------------------------------------------------------------------------
(* Positions: page and offset, as bytes from the first page's start.       *)

Pos(page, offset) == page * PageSize + offset

Offsets == 0 .. PageSize - 1

(* A position is a number, and moves with its offset. *)
LEMMA Position ==
    ASSUME NEW k \in Int, NEW a \in Int
    PROVE  /\ Pos(k, a) \in Int
           /\ \A b \in Int : Pos(k, a + b) = Pos(k, a) + b
           /\ Pos(0, a) = a
           /\ Pos(k + 1, 0) = Pos(k, PageSize)
           /\ Pos(k + 1, a) = Pos(k, a) + PageSize
           /\ Pos(k - 1, a) = Pos(k, a) - PageSize
<1> DEFINE kp == k * PageSize
<1>1. PageSize \in Int /\ kp \in Int
  BY BufferAssumption
<1>2. (k + 1) * PageSize = kp + PageSize /\ (k - 1) * PageSize = kp - PageSize
  BY <1>1
<1>3. 0 * PageSize = 0
  BY <1>1
<1>4. Pos(k, a) = kp + a /\ Pos(k, PageSize) = kp + PageSize /\ Pos(0, a) = a
  BY <1>3, <1>1 DEF Pos
<1>5. \A b \in Int : Pos(k, a + b) = kp + (a + b)
  BY DEF Pos
<1>6. /\ Pos(k + 1, 0) = kp + PageSize + 0 /\ Pos(k + 1, a) = kp + PageSize + a
      /\ Pos(k - 1, a) = kp - PageSize + a
  BY <1>2 DEF Pos
<1> HIDE DEF kp
<1> QED
  BY <1>1, <1>4, <1>5, <1>6

(* Positions are ordered by page, then by offset. *)
LEMMA Order ==
    ASSUME NEW k \in Int, NEW j \in Int, NEW a \in Offsets, NEW b \in Offsets
    PROVE  /\ Pos(k, a) < Pos(j, b) <=> k < j \/ (k = j /\ a < b)
           /\ Pos(k, a) = Pos(j, b) <=> k = j /\ a = b
<1> DEFINE kp == k * PageSize
           jp == j * PageSize
<1>1. PageSize \in Nat \ {0} /\ kp \in Int /\ jp \in Int
  BY BufferAssumption
<1>2. k < j => jp >= kp + PageSize
  <2> HAVE k < j
  <2>1. (j - k) * PageSize = jp - kp
    BY <1>1
  <2>2. (j - k) * PageSize >= PageSize
    BY <1>1
  <2> QED
    BY <2>1, <2>2, <1>1
<1>3. j < k => kp >= jp + PageSize
  <2> HAVE j < k
  <2>1. (k - j) * PageSize = kp - jp
    BY <1>1
  <2>2. (k - j) * PageSize >= PageSize
    BY <1>1
  <2> QED
    BY <2>1, <2>2, <1>1
<1>4. k = j => kp = jp
  OBVIOUS
<1>5. Pos(k, a) = kp + a /\ Pos(j, b) = jp + b
  BY DEF Pos
<1>6. a \in 0 .. PageSize - 1 /\ b \in 0 .. PageSize - 1
  BY DEF Offsets
<1> HIDE DEF kp, jp
<1> QED
  BY <1>1, <1>2, <1>3, <1>4, <1>5, <1>6

(* Of some natural numbers one is the least.                               *)
LEMMA LeastNumber ==
    ASSUME NEW S \in SUBSET Nat, S # {}
    PROVE  \E x \in S : \A y \in S : x <= y
<1> DEFINE R == { ss \in Nat \X Nat : ss[1] < ss[2] }
<1>1. IsWellFoundedOn(R, Nat)
  <2>1. R = OpToRel(<, Nat)
    BY DEF OpToRel
  <2>. QED  BY <2>1, NatLessThanWellFounded
<1> HIDE DEF R
<1>2. PICK x \in S : \A y \in S : ~(<<y, x>> \in R)
  BY <1>1, WFMin
<1>3. ASSUME NEW y \in S PROVE x <= y
  <2>1. x \in Nat /\ y \in Nat /\ ~(<<y, x>> \in R)
    BY <1>2
  <2>. QED  BY <2>1 DEF R
<1>. QED  BY <1>3

(* Division by a variable. *)
LEMMA Quotient ==
    ASSUME NEW d \in Nat \ {0}, NEW a \in Int
    PROVE  /\ a \div d \in Int /\ a % d \in 0 .. d - 1
           /\ a = d * (a \div d) + (a % d)
<1>1. a - (a % d) = d * (a \div d)
  OBVIOUS
<1>2. a % d \in 0 .. d - 1 /\ a \div d \in Int
  OBVIOUS
<1> QED
  BY <1>1, <1>2

IsQuotient(a, d, q, r) == r \in 0 .. d - 1 /\ a = d * q + r

LEMMA QuotientIs ==
    ASSUME NEW d \in Nat \ {0}, NEW q \in Int, NEW r, NEW a \in Int, IsQuotient(a, d, q, r)
    PROVE  a \div d = q /\ a % d = r
<1>0. r \in 0 .. d - 1 /\ a = d * q + r
  BY DEF IsQuotient
<1> DEFINE p == a \div d
           s == a % d
<1>1. p \in Int /\ s \in 0 .. d - 1 /\ a = d * p + s
  BY Quotient
<1> HIDE DEF p, s
<1>2. d * (p - q) = d * p - d * q
  BY <1>1
<1>3. d * (p - q) = r - s
  BY <1>0, <1>1, <1>2
<1>4. p - q <= 0
  <2>1. ASSUME p - q >= 1 PROVE FALSE
    <3>1. d * (p - q) >= d
      BY <1>1, <2>1
    <3> QED
      BY <1>0, <1>1, <1>3, <3>1
  <2> QED
    BY <1>1, <2>1
<1>5. p - q >= 0
  <2>1. ASSUME p - q <= -1 PROVE FALSE
    <3>1. d * (p - q) <= -d
      BY <1>1, <2>1
    <3> QED
      BY <1>0, <1>1, <1>3, <3>1
  <2> QED
    BY <1>1, <2>1
<1>6. p = q
  BY <1>1, <1>4, <1>5
<1>7. s = r
  BY <1>0, <1>1, <1>6
<1> QED
  BY <1>6, <1>7 DEF p, s

(* The page and the offset of a position. *)
LEMMA PageOf ==
    ASSUME NEW k \in Int, NEW a \in Offsets
    PROVE  Pos(k, a) \div PageSize = k /\ Pos(k, a) % PageSize = a
<1>1. PageSize \in Nat \ {0} /\ Pos(k, a) \in Int
  BY BufferAssumption, Position DEF Offsets
<1>2. k * PageSize = PageSize * k
  BY <1>1
<1>3. IsQuotient(Pos(k, a), PageSize, k, a)
  BY <1>2 DEF IsQuotient, Pos, Offsets
<1> QED
  BY <1>1, <1>3, QuotientIs

(* Every number is a position. *)
LEMMA Located ==
    ASSUME NEW x \in Int
    PROVE  /\ x \div PageSize \in Int /\ x % PageSize \in Offsets
           /\ Pos(x \div PageSize, x % PageSize) = x
<1>1. PageSize \in Nat \ {0}
  BY BufferAssumption
<1> DEFINE q == x \div PageSize
           r == x % PageSize
<1>2. q \in Int /\ r \in 0 .. PageSize - 1 /\ x = PageSize * q + r
  BY <1>1, Quotient
<1> HIDE DEF q, r
<1>3. PageSize * q = q * PageSize
  BY <1>1, <1>2
<1>4. Pos(q, r) = x
  BY <1>2, <1>3 DEF Pos
<1> QED
  BY <1>2, <1>4 DEF q, r, Offsets

-----------------------------------------------------------------------------
(* The pages and the text they hold.                                       *)

ArePages(ps) ==
    ps \in Seq(Seq(Nat)) /\ Len(ps) = NumPages /\ \A k \in 1 .. NumPages : Len(ps[k]) = PageSize

(* t is what was written to the file f and then num bytes of the pages. *)
IsText(t, ps, f, num) ==
    /\ t \in Seq(Nat) /\ Len(t) = Len(f) + num
    /\ \A i \in 1 .. Len(f) : t[i] = f[i]
    /\ \A k \in 0 .. NumPages - 1, o \in Offsets :
         Pos(k, o) < num => t[Len(f) + Pos(k, o) + 1] = ps[k + 1][o + 1]

(* The first bytes of the pages, and the text: Stored and buffered say so  *)
(* of the variables.                                                       *)
FirstBytes(ps, n) == [i \in 1 .. n |-> ps[(i - 1) \div PageSize + 1][((i - 1) % PageSize) + 1]]

TextOf(ps, f, n) == f \o FirstBytes(ps, n)

(* A byte of a page. *)
LEMMA PageByte ==
    ASSUME NEW ps, ArePages(ps), NEW k \in 1 .. NumPages
    PROVE  /\ ps[k] \in Seq(Nat) /\ Len(ps[k]) = PageSize
           /\ \A o \in 1 .. PageSize : ps[k][o] \in Nat
<1>1. ps[k] \in Seq(Nat) /\ Len(ps[k]) = PageSize
  BY ElementOfSeq, BufferAssumption DEF ArePages
<1>2. \A o \in 1 .. PageSize : ps[k][o] \in Nat
  BY <1>1, ElementOfSeq
<1> QED
  BY <1>1, <1>2

(* The place of a byte that was put. *)
LEMMA Placed ==
    ASSUME NEW top \in 0 .. NumPages - 1, NEW off \in Offsets,
           NEW x \in 0 .. Pos(top, off) - 1
    PROVE  /\ x \div PageSize \in 0 .. top /\ x % PageSize \in Offsets
           /\ Pos(x \div PageSize, x % PageSize) = x
<1> DEFINE q == x \div PageSize
           r == x % PageSize
<1>1. top \in Int /\ off \in Int /\ Pos(top, off) \in Int /\ PageSize \in Nat \ {0} /\ NumPages \in Nat
  BY BufferAssumption, Position DEF Offsets
<1>2. q \in Int /\ r \in Offsets /\ Pos(q, r) = x
  BY <1>1, Located
<1> HIDE DEF q, r
<1>3. Pos(q, r) < Pos(top, off)
  BY <1>1, <1>2
<1>4. q <= top
  BY <1>1, <1>2, <1>3, Order
<1>5. Pos(0, 0) = 0 /\ 0 \in Offsets
  BY <1>1, Position DEF Offsets
<1>6. ~(Pos(q, r) < Pos(0, 0))
  BY <1>1, <1>2, <1>5
<1>7. q >= 0
  BY <1>2, <1>5, <1>6, Order
<1> QED
  BY <1>1, <1>2, <1>4, <1>7 DEF q, r

(* The text is one, and it is the file and the bytes in the pages. *)
LEMMA TheText ==
    ASSUME NEW ps, ArePages(ps), NEW f \in Seq(Nat),
           NEW top \in 0 .. NumPages - 1, NEW off \in Offsets
    PROVE  /\ Pos(top, off) \in Nat
           /\ IsText(TextOf(ps, f, Pos(top, off)), ps, f, Pos(top, off))
           /\ \A t : IsText(t, ps, f, Pos(top, off)) => t = TextOf(ps, f, Pos(top, off))
<1> DEFINE num == Pos(top, off)
           b == FirstBytes(ps, num)
           at(x) == ps[x \div PageSize + 1][(x % PageSize) + 1]
<1>1. top \in Int /\ off \in Int /\ num \in Int /\ PageSize \in Nat \ {0} /\ NumPages \in Nat \ {0, 1}
  BY BufferAssumption, Position DEF Offsets
<1>2. num \in Nat
  <2>1. Pos(0, 0) = 0 /\ 0 \in Offsets
    BY <1>1, Position DEF Offsets
  <2>2. ~(Pos(top, off) < Pos(0, 0))
    BY <1>1, <2>1, Order DEF Offsets
  <2> QED
    BY <1>1, <2>1, <2>2
<1> HIDE DEF num
<1>3. \A x \in 0 .. num - 1 : /\ x \div PageSize \in 0 .. top /\ x % PageSize \in Offsets
                              /\ Pos(x \div PageSize, x % PageSize) = x
  BY Placed DEF num
<1>4. \A x \in 0 .. num - 1 : at(x) \in Nat
  <2> TAKE x \in 0 .. num - 1
  <2> DEFINE q == x \div PageSize
             r == x % PageSize
  <2>1. q \in 0 .. top /\ r \in Offsets
    BY <1>3
  <2> HIDE DEF q, r
  <2>2. q + 1 \in 1 .. NumPages /\ r + 1 \in 1 .. PageSize
    BY <1>1, <2>1 DEF Offsets
  <2>3. ps[q + 1][r + 1] \in Nat
    BY <2>2, PageByte
  <2> QED
    BY <2>3 DEF q, r
<1>5. b \in Seq(Nat) /\ Len(b) = num /\ \A i \in 1 .. num : b[i] = at(i - 1)
  <2>1. \A i \in 1 .. num : i - 1 \in 0 .. num - 1
    BY <1>2
  <2>2. \A i \in 1 .. num : at(i - 1) \in Nat
    BY <2>1, <1>4
  <2>3. b = [i \in 1 .. num |-> at(i - 1)]
    BY DEF FirstBytes
  <2> HIDE DEF b, at
  <2>4. b \in [1 .. num -> Nat]
    BY <2>2, <2>3
  <2>5. b \in Seq(Nat) /\ Len(b) = num
    BY <2>4, <1>2, SeqDef, LenProperties
  <2> QED
    BY <2>3, <2>5
<1> HIDE DEF b
<1> DEFINE w == f \o b
<1>6. /\ w \in Seq(Nat) /\ Len(w) = Len(f) + num
      /\ \A i \in 1 .. Len(f) : w[i] = f[i]
      /\ \A i \in 1 .. num : w[Len(f) + i] = b[i]
  <2>1. Len(f) \in Nat /\ Len(b) = num
    BY <1>5, LenProperties
  <2>2. w \in Seq(Nat) /\ Len(w) = Len(f) + num
    BY <1>5, ConcatProperties
  <2>3. \A i \in 1 .. Len(f) + Len(b) : w[i] = IF i <= Len(f) THEN f[i] ELSE b[i - Len(f)]
    BY <1>5, ConcatProperties
  <2> HIDE DEF w
  <2>4. \A i \in 1 .. num : Len(f) + i \in 1 .. Len(f) + Len(b) /\ ~(Len(f) + i <= Len(f)) /\ Len(f) + i - Len(f) = i
    BY <2>1, <1>2
  <2>5. \A i \in 1 .. Len(f) : i \in 1 .. Len(f) + Len(b) /\ i <= Len(f)
    BY <2>1, <1>2
  <2>6. \A i \in 1 .. Len(f) : w[i] = f[i]
    BY <2>3, <2>5
  <2>7. \A i \in 1 .. num : w[Len(f) + i] = b[i]
    BY <2>3, <2>4
  <2> QED
    BY <2>2, <2>6, <2>7
<1> HIDE DEF w
<1>7. IsText(w, ps, f, num)
  <2> SUFFICES ASSUME NEW k \in 0 .. NumPages - 1, NEW o \in Offsets, Pos(k, o) < num
               PROVE  w[Len(f) + Pos(k, o) + 1] = ps[k + 1][o + 1]
    BY <1>6 DEF IsText
  <2>1. Pos(k, o) \in Int /\ k \in Int /\ Pos(0, 0) = 0 /\ 0 \in Offsets
    BY <1>1, Position DEF Offsets
  <2>2. ~(Pos(k, o) < Pos(0, 0))
    BY <2>1, <1>1, Order DEF Offsets
  <2>3. Pos(k, o) + 1 \in 1 .. num /\ (Pos(k, o) + 1) - 1 = Pos(k, o)
    BY <2>1, <2>2, <1>2
  <2>4. w[Len(f) + (Pos(k, o) + 1)] = at(Pos(k, o))
    BY <2>3, <1>5, <1>6
  <2>5. at(Pos(k, o)) = ps[k + 1][o + 1]
    BY <2>1, PageOf
  <2>6. Len(f) + (Pos(k, o) + 1) = Len(f) + Pos(k, o) + 1
    BY <2>1, LenProperties
  <2> QED
    BY <2>4, <2>5, <2>6
<1>8. ASSUME NEW t, IsText(t, ps, f, num) PROVE t = w
  <2>1. t \in Seq(Nat) /\ Len(t) = Len(w)
    BY <1>8, <1>6 DEF IsText
  <2>2. \A i \in 1 .. Len(t) : t[i] = w[i]
    <3> SUFFICES ASSUME NEW i \in 1 .. Len(f) + num PROVE t[i] = w[i]
      BY <1>6, <2>1
    <3>0. Len(f) \in Nat
      BY LenProperties
    <3>1. CASE i <= Len(f)
      BY <3>0, <3>1, <1>6, <1>8 DEF IsText
    <3>2. CASE i > Len(f)
      <4> DEFINE x == i - Len(f) - 1
                 q == x \div PageSize
                 r == x % PageSize
      <4>1. x \in 0 .. num - 1 /\ i = Len(f) + x + 1
        BY <3>0, <3>2, <1>2
      <4>2. q \in 0 .. top /\ r \in Offsets /\ Pos(q, r) = x
        BY <4>1, <1>3
      <4> HIDE DEF x, q, r
      <4>3. q \in 0 .. NumPages - 1 /\ Pos(q, r) < num
        BY <4>1, <4>2, <1>1
      <4>4. t[Len(f) + Pos(q, r) + 1] = ps[q + 1][r + 1]
        BY <4>2, <4>3, <1>8 DEF IsText
      <4>5. w[Len(f) + Pos(q, r) + 1] = ps[q + 1][r + 1]
        BY <4>2, <4>3, <1>7 DEF IsText
      <4> QED
        BY <4>1, <4>2, <4>4, <4>5
    <3> QED
      BY <3>0, <3>1, <3>2
  <2> QED
    BY <2>1, <2>2, <1>6, SeqEqual
<1> QED
  BY <1>2, <1>7, <1>8 DEF w, b, TextOf, num

-----------------------------------------------------------------------------
(* What StoreAndMaybeFlush does to the pages and to the text.              *)

(* s lies in the page from offset at on, and the rest of it is as before. *)
LEMMA Overwritten ==
    ASSUME NEW p \in Seq(Nat), NEW s \in Seq(Nat), NEW at \in Nat, at + Len(s) <= Len(p)
    PROVE  /\ Over(p, at, s) \in Seq(Nat) /\ Len(Over(p, at, s)) = Len(p)
           /\ \A i \in 1 .. Len(p) :
                Over(p, at, s)[i] = IF i \in at + 1 .. at + Len(s) THEN s[i - at] ELSE p[i]
<1> DEFINE m == Len(p)
           l == Len(s)
           val(i) == IF i \in at + 1 .. at + l THEN s[i - at] ELSE p[i]
           r == Over(p, at, s)
<1>1. m \in Nat /\ l \in Nat
  BY LenProperties
<1>2. (\A i \in 1 .. m : p[i] \in Nat) /\ (\A i \in 1 .. l : s[i] \in Nat)
  BY ElementOfSeq
<1>3. r = [i \in 1 .. m |-> val(i)]
  BY DEF Over
<1> HIDE DEF m, l
<1>4. \A i \in 1 .. m : val(i) \in Nat
  <2> TAKE i \in 1 .. m
  <2>1. i \in at + 1 .. at + l => i - at \in 1 .. l
    BY <1>1
  <2> QED
    BY <1>2, <2>1
<1> HIDE DEF r
<1>5. r \in [1 .. m -> Nat] /\ \A i \in 1 .. m : r[i] = val(i)
  BY <1>3, <1>4
<1>6. r \in Seq(Nat) /\ Len(r) = m
  BY <1>1, <1>5, SeqDef, LenProperties
<1> QED
  BY <1>5, <1>6 DEF m, l, r

PagesWith(s) == [pages EXCEPT ![top_page_index + 1] = Over(pages[top_page_index + 1], top_offset, s)]

(* A state in which bytes may be put, and some that fit into the page. *)
Fits(s) == /\ ArePages(pages) /\ top_page_index \in 0 .. NumPages - 1 /\ top_offset \in Offsets
           /\ file \in Seq(Nat) /\ isize = Len(file)
           /\ s \in Seq(Nat) /\ Len(s) \in 1 .. PageSize - top_offset

(* The bytes are behind the text in the pages. *)
IsBehind(s, t) ==
    /\ ArePages(PagesWith(s)) /\ t \o s \in Seq(Nat)
    /\ Len(t \o s) = Len(file) + num_bufferred_bytes + Len(s)
    /\ \A i \in 1 .. Len(t) : (t \o s)[i] = t[i]
    /\ \A i \in 1 .. Len(s) : (t \o s)[Len(t) + i] = s[i]
    /\ \A k \in 0 .. NumPages - 1, o \in Offsets :
         Pos(k, o) < num_bufferred_bytes + Len(s) =>
           (t \o s)[Len(file) + Pos(k, o) + 1] = PagesWith(s)[k + 1][o + 1]

LEMMA Written ==
    ASSUME NEW s, Fits(s), NEW t, IsText(t, pages, file, num_bufferred_bytes)
    PROVE  IsBehind(s, t)
<1> DEFINE top == top_page_index
           off == top_offset
           num == num_bufferred_bytes
           n == Len(s)
           w == t \o s
           op == PagesWith(s)
           page == Over(pages[top + 1], off, s)
<1>1. /\ top \in 0 .. NumPages - 1 /\ off \in 0 .. PageSize - 1 /\ n \in 1 .. PageSize - off
      /\ PageSize \in Nat \ {0} /\ NumPages \in Nat \ {0, 1} /\ Len(file) \in Nat
      /\ ArePages(pages) /\ s \in Seq(Nat)
  BY BufferAssumption, LenProperties DEF Fits, Offsets
<1>2. num = Pos(top, off)
  BY DEF num_bufferred_bytes, Pos
<1>3. num \in Int
  BY <1>1, <1>2, Position
<1>4. t \in Seq(Nat) /\ Len(t) = Len(file) + num
  BY DEF IsText
<1>5. /\ w \in Seq(Nat) /\ Len(w) = Len(file) + num + n
      /\ \A i \in 1 .. Len(t) : w[i] = t[i]
      /\ \A i \in 1 .. n : w[Len(t) + i] = s[i]
  <2>1. Len(t) \in Nat /\ n \in Nat
    BY <1>1, <1>4, LenProperties
  <2>2. w \in Seq(Nat) /\ Len(w) = Len(t) + n
    BY <1>1, <1>4, ConcatProperties
  <2>3. \A i \in 1 .. Len(t) + n : w[i] = IF i <= Len(t) THEN t[i] ELSE s[i - Len(t)]
    BY <1>1, <1>4, ConcatProperties
  <2> HIDE DEF w, n
  <2>4. \A i \in 1 .. n : Len(t) + i \in 1 .. Len(t) + n /\ ~(Len(t) + i <= Len(t)) /\ Len(t) + i - Len(t) = i
    BY <2>1
  <2>5. \A i \in 1 .. Len(t) : i \in 1 .. Len(t) + n /\ i <= Len(t)
    BY <2>1
  <2>6. \A i \in 1 .. Len(t) : w[i] = t[i]
    BY <2>3, <2>5
  <2>7. \A i \in 1 .. n : w[Len(t) + i] = s[i]
    BY <2>3, <2>4
  <2> QED
    BY <2>2, <2>6, <2>7, <1>4
<1>6. pages[top + 1] \in Seq(Nat) /\ Len(pages[top + 1]) = PageSize /\ top + 1 \in 1 .. NumPages
  <2>1. top + 1 \in 1 .. NumPages
    BY <1>1
  <2> QED
    BY <2>1, <1>1, PageByte
<1>7. /\ page \in Seq(Nat) /\ Len(page) = PageSize
      /\ \A i \in 1 .. PageSize :
           page[i] = IF i \in off + 1 .. off + n THEN s[i - off] ELSE pages[top + 1][i]
  <2> DEFINE p == pages[top + 1]
  <2>1. off \in Nat /\ off + n <= PageSize
    BY <1>1
  <2>2. p \in Seq(Nat) /\ Len(p) = PageSize /\ s \in Seq(Nat)
    BY <1>1, <1>6
  <2>3. page = Over(p, off, s)
    OBVIOUS
  <2> HIDE DEF p, page, off
  <2>4. /\ Over(p, off, s) \in Seq(Nat) /\ Len(Over(p, off, s)) = Len(p)
        /\ \A i \in 1 .. Len(p) :
             Over(p, off, s)[i] = IF i \in off + 1 .. off + Len(s) THEN s[i - off] ELSE p[i]
    BY <2>1, <2>2, Overwritten
  <2> QED
    BY <2>2, <2>3, <2>4 DEF p
<1> HIDE DEF page
<1>8. op = [pages EXCEPT ![top + 1] = page]
  BY DEF PagesWith, page
<1>9. /\ ArePages(op) /\ op[top + 1] = page
      /\ \A k \in 1 .. NumPages : k # top + 1 => op[k] = pages[k]
  <2>1. pages \in Seq(Seq(Nat)) /\ Len(pages) = NumPages /\ top + 1 \in 1 .. Len(pages)
    BY <1>1, <1>6 DEF ArePages
  <2>2. DOMAIN pages = 1 .. NumPages
    BY <2>1, LenProperties
  <2>3. op \in Seq(Seq(Nat)) /\ Len(op) = NumPages
    BY <2>1, <1>7, <1>8, ExceptSeq
  <2>4. op[top + 1] = page /\ \A k \in 1 .. NumPages : k # top + 1 => op[k] = pages[k]
    BY <2>2, <1>6, <1>8
  <2>5. \A k \in 1 .. NumPages : Len(op[k]) = PageSize
    BY <2>4, <1>1, <1>7 DEF ArePages
  <2> QED
    BY <2>3, <2>4, <2>5 DEF ArePages
<1> HIDE DEF op, w, n, top, off, num
<1>10. ASSUME NEW k \in 0 .. NumPages - 1, NEW o \in Offsets, Pos(k, o) < num + n
       PROVE  w[Len(file) + Pos(k, o) + 1] = op[k + 1][o + 1]
  <2>1. k \in Int /\ o \in 0 .. PageSize - 1 /\ Pos(k, o) \in Int /\ top \in Int /\ off \in Offsets
    BY <1>1, Position DEF Offsets
  <2>2. o + 1 \in 1 .. PageSize /\ k + 1 \in 1 .. NumPages
    BY <2>1, <1>1
  <2>3. CASE Pos(k, o) < num
    <3>1. k < top \/ (k = top /\ o < off)
      BY <2>1, <2>3, <1>2, Order
    <3>2. t[Len(file) + Pos(k, o) + 1] = pages[k + 1][o + 1]
      BY <2>3 DEF IsText, num
    <3>3. Len(file) + Pos(k, o) + 1 \in 1 .. Len(t)
      <4>1. Pos(0, 0) = 0 /\ 0 \in Offsets
        BY <1>1, Position DEF Offsets
      <4>2. ~(Pos(k, o) < Pos(0, 0))
        BY <2>1, <4>1, Order DEF Offsets
      <4> QED
        BY <4>1, <4>2, <2>1, <2>3, <1>1, <1>3, <1>4 DEF num
    <3>4. w[Len(file) + Pos(k, o) + 1] = pages[k + 1][o + 1]
      BY <3>2, <3>3, <1>5
    <3>5. CASE k # top
      <4>1. k + 1 # top + 1
        BY <3>5, <2>1
      <4> QED
        BY <4>1, <3>4, <2>2, <1>9
    <3>6. CASE k = top
      <4>1. ~(o + 1 \in off + 1 .. off + n)
        BY <3>1, <3>6, <2>1, <1>1
      <4>2. page[o + 1] = pages[top + 1][o + 1]
        BY <4>1, <2>2, <1>7
      <4> QED
        BY <4>2, <3>4, <3>6, <1>9
    <3> QED
      BY <3>5, <3>6
  <2>4. CASE ~(Pos(k, o) < num)
    <3>1. ~(k < top) /\ ~(k = top /\ o < off)
      BY <2>1, <2>4, <1>2, Order
    <3>2. num + n = Pos(top, off + n)
      BY <1>1, <1>2, Position
    <3>3. k = top
      <4> SUFFICES ASSUME k > top PROVE FALSE
        BY <3>1, <2>1
      <4>0. top + 1 \in Int /\ 0 \in Int /\ 0 \in Offsets
        BY <1>1 DEF Offsets
      <4>1. Pos(top + 1, 0) = Pos(top, PageSize) /\ Pos(top + 1, 0) \in Int
        BY <4>0, <2>1, Position
      <4>2. ~(Pos(k, o) < Pos(top + 1, 0))
        BY <4>0, <4>1, <2>1, <1>1, Order DEF Offsets
      <4>3. Pos(top, PageSize) = Pos(top, off) + (PageSize - off)
        <5>1. PageSize = off + (PageSize - off) /\ PageSize - off \in Int
          BY <1>1
        <5> QED
          BY <5>1, <1>1, Position
      <4> QED
        BY <4>1, <4>2, <4>3, <1>10, <1>1, <1>2, <1>3, <2>1
    <3>4. Pos(k, o) = num + (o - off)
      <4>1. o = off + (o - off) /\ o - off \in Int
        BY <2>1, <1>1
      <4> QED
        BY <4>1, <3>3, <1>1, <1>2, Position
    <3>5. o - off \in 0 .. n - 1
      BY <3>4, <2>1, <2>4, <1>10, <1>1, <1>3
    <3> DEFINE i == o + 1
               j == o - off + 1
    <3>6. i \in 1 .. PageSize /\ j \in 1 .. n /\ i \in off + 1 .. off + n /\ i - off = j
      BY <3>5, <2>1, <1>1
    <3>7. Len(file) + Pos(k, o) + 1 = Len(t) + j
      BY <3>4, <1>1, <1>3, <1>4, <2>1 DEF num
    <3> HIDE DEF i, j
    <3>8. page[i] = s[j]
      BY <3>6, <1>7
    <3>9. w[Len(file) + Pos(k, o) + 1] = page[i]
      BY <3>6, <3>7, <3>8, <1>5
    <3>10. page = op[k + 1]
      BY <3>3, <1>9
    <3> QED
      BY <3>9, <3>10 DEF i
  <2> QED
    BY <2>3, <2>4
<1> QED
  BY <1>5, <1>9, <1>10 DEF op, w, n, num, IsBehind

(* The pages from the one after the m-th on, and then the first m. *)
LEMMA Rotation ==
    ASSUME ArePages(pages), NEW m \in 0 .. NumPages - 1
    PROVE  /\ ArePages(Rotated(m))
           /\ \A k \in 1 .. NumPages :
                Rotated(m)[k] = IF k <= NumPages - m THEN pages[k + m] ELSE pages[k - (NumPages - m)]
<1> DEFINE a == SubSeq(pages, m + 1, NumPages)
           b == SubSeq(pages, 1, m)
           r == Rotated(m)
<1>1. /\ pages \in Seq(Seq(Nat)) /\ Len(pages) = NumPages /\ NumPages \in Nat \ {0, 1}
      /\ \A k \in 1 .. NumPages : Len(pages[k]) = PageSize
  BY BufferAssumption DEF ArePages
<1>2. \A k \in 1 .. NumPages : pages[k] \in Seq(Nat)
  BY <1>1, ElementOfSeq
<1>3. /\ a \in Seq(Seq(Nat)) /\ Len(a) = NumPages - m
      /\ \A k \in 1 .. NumPages - m : a[k] = pages[k + m]
  <2> DEFINE f == m + 1
  <2>1. f \in Int /\ f <= NumPages /\ NumPages - f + 1 = NumPages - m
    BY <1>1
  <2>2. \A k \in f .. NumPages : pages[k] \in Seq(Nat)
    BY <1>1, <1>2
  <2>3. \A k \in 1 .. NumPages - m : k + m = f + k - 1
    BY <1>1
  <2> HIDE DEF f
  <2>4. /\ SubSeq(pages, f, NumPages) \in Seq(Seq(Nat))
        /\ Len(SubSeq(pages, f, NumPages)) = IF f <= NumPages THEN NumPages - f + 1 ELSE 0
        /\ \A k \in 1 .. NumPages - f + 1 : SubSeq(pages, f, NumPages)[k] = pages[f + k - 1]
    BY <1>1, <2>1, <2>2, SubSeqProperties
  <2>5. \A k \in 1 .. NumPages - m : SubSeq(pages, f, NumPages)[k] = pages[k + m]
    BY <2>1, <2>3, <2>4
  <2> QED
    BY <2>1, <2>4, <2>5 DEF f
<1>4. b \in Seq(Seq(Nat)) /\ Len(b) = m /\ \A k \in 1 .. m : b[k] = pages[k]
  <2>1. \A k \in 1 .. m : pages[k] \in Seq(Nat) /\ 1 + k - 1 = k
    BY <1>1, <1>2
  <2>2. m \in Int /\ m - 1 + 1 = m /\ (IF 1 <= m THEN m - 1 + 1 ELSE 0) = m
    BY <1>1
  <2>3. /\ SubSeq(pages, 1, m) \in Seq(Seq(Nat))
        /\ Len(SubSeq(pages, 1, m)) = IF 1 <= m THEN m - 1 + 1 ELSE 0
        /\ \A k \in 1 .. m - 1 + 1 : SubSeq(pages, 1, m)[k] = pages[1 + k - 1]
    BY <2>1, <2>2, SubSeqProperties
  <2> QED
    BY <2>1, <2>2, <2>3
<1> HIDE DEF a, b
<1>5. r = a \o b
  BY DEF Rotated, a, b
<1>6. /\ r \in Seq(Seq(Nat)) /\ Len(r) = (NumPages - m) + m
      /\ \A k \in 1 .. (NumPages - m) + m :
           r[k] = IF k <= NumPages - m THEN a[k] ELSE b[k - (NumPages - m)]
  <2>1. /\ a \o b \in Seq(Seq(Nat)) /\ Len(a \o b) = Len(a) + Len(b)
        /\ \A k \in 1 .. Len(a) + Len(b) :
             (a \o b)[k] = IF k <= Len(a) THEN a[k] ELSE b[k - Len(a)]
    BY <1>3, <1>4, ConcatProperties
  <2>2. Len(a) = NumPages - m /\ Len(b) = m
    BY <1>3, <1>4
  <2> QED
    BY <2>1, <2>2, <1>5, Zenon
<1> HIDE DEF r
<1>7. (NumPages - m) + m = NumPages
  BY <1>1
<1>8. ASSUME NEW k \in 1 .. NumPages
      PROVE  r[k] = IF k <= NumPages - m THEN pages[k + m] ELSE pages[k - (NumPages - m)]
  <2>1. r[k] = IF k <= NumPages - m THEN a[k] ELSE b[k - (NumPages - m)]
    BY <1>6, <1>7
  <2>2. CASE k <= NumPages - m
    <3>1. k \in 1 .. NumPages - m
      BY <1>1, <2>2
    <3>2. a[k] = pages[k + m]
      BY <3>1, <1>3
    <3> QED
      BY <2>1, <2>2, <3>2
  <2>3. CASE ~(k <= NumPages - m)
    <3> DEFINE j == k - (NumPages - m)
    <3>1. j \in 1 .. m
      BY <1>1, <2>3
    <3> HIDE DEF j
    <3>2. b[j] = pages[j]
      BY <3>1, <1>4
    <3> QED
      BY <2>1, <2>3, <3>2 DEF j
  <2> QED
    BY <2>2, <2>3
<1>9. ASSUME NEW k \in 1 .. NumPages PROVE Len(r[k]) = PageSize
  <2>1. CASE k <= NumPages - m
    <3>1. k + m \in 1 .. NumPages
      BY <1>1, <2>1
    <3> QED
      BY <1>1, <1>8, <2>1, <3>1
  <2>2. CASE ~(k <= NumPages - m)
    <3>1. k - (NumPages - m) \in 1 .. NumPages
      BY <1>1, <2>2
    <3> QED
      BY <1>1, <1>8, <2>2, <3>1
  <2> QED
    BY <2>1, <2>2
<1> QED
  BY <1>6, <1>7, <1>8, <1>9 DEF ArePages, r

(* What was stored, when a page was flushed and when none was. *)
StoredHere(s) ==
    /\ file' = file /\ isize' = isize /\ pages' = PagesWith(s)
    /\ num_bufferred_bytes' = num_bufferred_bytes + Len(s)
    /\ IF top_offset + Len(s) = PageSize THEN top_page_index' = top_page_index + 1 /\ top_offset' = 0
                                         ELSE /\ top_page_index' = top_page_index
                                              /\ top_offset' = top_offset + Len(s)

StoredAndFlushed(s) ==
    /\ file' = file \o pages[1] /\ isize' = isize + PageSize
    /\ ArePages(pages') /\ pages'[NumPages] = pages[1]
    /\ \A k \in 1 .. NumPages - 1 : pages'[k] = PagesWith(s)[k + 1]
    /\ top_page_index = NumPages - 1 /\ top_page_index' = NumPages - 1 /\ top_offset' = 0
    /\ num_bufferred_bytes' = num_bufferred_bytes + Len(s) - PageSize

LEMMA Stores ==
    ASSUME NEW s, Fits(s), StoreAndMaybeFlush(s), ArePages(PagesWith(s))
    PROVE  /\ IF FlushesPage(Len(s)) THEN StoredAndFlushed(s) ELSE StoredHere(s)
           /\ top_page_index' \in 0 .. NumPages - 1 /\ top_offset' \in Offsets
<1> DEFINE top == top_page_index
           off == top_offset
           n == Len(s)
           op == PagesWith(s)
           page == Over(pages[top + 1], off, s)
<1>1. /\ top \in 0 .. NumPages - 1 /\ off \in 0 .. PageSize - 1 /\ n \in 1 .. PageSize - off
      /\ PageSize \in Nat \ {0} /\ NumPages \in Nat \ {0, 1} /\ ArePages(pages)
  BY BufferAssumption DEF Fits, Offsets
<1>2. page = Over(PageAt(top), off, s)
  BY <1>1 DEF PageAt
<1>3. num_bufferred_bytes = Pos(top, off) /\ num_bufferred_bytes' = Pos(top', off')
  BY DEF num_bufferred_bytes, Pos
<1>4. Pos(top, off + n) = Pos(top, off) + n /\ Pos(top, off) \in Int
  <2>1. top \in Int /\ off \in Int /\ n \in Int
    BY <1>1
  <2> HIDE DEF n
  <2> QED
    BY <2>1, Position
<1>5. off' = IF off + n = PageSize THEN 0 ELSE off + n
  BY DEF StoreAndMaybeFlush
<1>6. CASE FlushesPage(n)
  <2>1. /\ file' = file \o pages[1] /\ isize' = isize + PageSize
        /\ pages' = [Rotated(1) EXCEPT ![NumPages - 1] = page] /\ top' = top
        /\ top = NumPages - 1 /\ off + n = PageSize
    BY <1>2, <1>6 DEF StoreAndMaybeFlush, FlushesPage
  <2>2. ArePages(Rotated(1)) /\ \A k \in 1 .. NumPages :
          Rotated(1)[k] = IF k <= NumPages - 1 THEN pages[k + 1] ELSE pages[k - (NumPages - 1)]
    BY <1>1, Rotation
  <2>3. op = [pages EXCEPT ![NumPages] = page] /\ op[NumPages] = page
    <3>1. NumPages \in DOMAIN pages /\ top + 1 = NumPages
      BY <1>1, <2>1 DEF ArePages
    <3> QED
      BY <3>1 DEF PagesWith
  <2> HIDE DEF op, page
  <2>4. pages' \in Seq(Seq(Nat)) /\ Len(pages') = NumPages
    <3>1. page \in Seq(Nat)
      <4>1. NumPages \in 1 .. NumPages
        BY <1>1
      <4> QED
        BY <4>1, <2>3, PageByte DEF op
    <3>2. Rotated(1) \in Seq(Seq(Nat)) /\ Len(Rotated(1)) = NumPages /\ NumPages - 1 \in 1 .. Len(Rotated(1))
      BY <1>1, <2>2 DEF ArePages
    <3> QED
      BY <2>1, <3>1, <3>2, ExceptSeq
  <2>5. DOMAIN Rotated(1) = 1 .. NumPages
    BY <2>2 DEF ArePages
  <2>6. \A k \in 1 .. NumPages - 2 : pages'[k] = op[k + 1]
    <3> TAKE k \in 1 .. NumPages - 2
    <3>1. k \in 1 .. NumPages /\ k # NumPages - 1 /\ k <= NumPages - 1 /\ k + 1 \in 1 .. NumPages /\ k + 1 # NumPages
      BY <1>1
    <3>2. pages'[k] = Rotated(1)[k]
      BY <2>1, <2>5, <3>1
    <3>3. op[k + 1] = pages[k + 1]
      BY <2>3, <3>1, <1>1 DEF ArePages
    <3> QED
      BY <3>1, <3>2, <3>3, <2>2
  <2>7. pages'[NumPages - 1] = op[NumPages]
    <3>1. NumPages - 1 \in 1 .. NumPages
      BY <1>1
    <3> QED
      BY <2>1, <2>5, <2>3, <3>1
  <2>8. pages'[NumPages] = pages[1]
    <3>1. NumPages \in 1 .. NumPages /\ NumPages # NumPages - 1 /\ ~(NumPages <= NumPages - 1) /\ NumPages - (NumPages - 1) = 1
      BY <1>1
    <3>2. pages'[NumPages] = Rotated(1)[NumPages]
      BY <2>1, <2>5, <3>1
    <3> QED
      BY <2>2, <3>1, <3>2
  <2>9. \A k \in 1 .. NumPages - 1 : pages'[k] = op[k + 1]
    <3> TAKE k \in 1 .. NumPages - 1
    <3>1. CASE k = NumPages - 1
      <4>1. k + 1 = NumPages
        BY <1>1, <3>1
      <4> QED
        BY <4>1, <3>1, <2>7
    <3>2. CASE k # NumPages - 1
      <4>1. k \in 1 .. NumPages - 2
        BY <1>1, <3>2
      <4> QED
        BY <4>1, <2>6
    <3> QED
      BY <3>1, <3>2
  <2>10. \A k \in 1 .. NumPages : Len(pages'[k]) = PageSize
    <3> TAKE k \in 1 .. NumPages
    <3>1. CASE k = NumPages
      <4>1. 1 \in 1 .. NumPages
        BY <1>1
      <4> QED
        BY <4>1, <3>1, <2>8, <1>1 DEF ArePages
    <3>2. CASE k # NumPages
      <4>1. k \in 1 .. NumPages - 1 /\ k + 1 \in 1 .. NumPages
        BY <1>1, <3>2
      <4> QED
        BY <4>1, <2>9 DEF ArePages, op
    <3> QED
      BY <3>1, <3>2
  <2>11. ArePages(pages')
    BY <2>4, <2>10 DEF ArePages
  <2>12. off' = 0 /\ num_bufferred_bytes' = Pos(top, 0)
    BY <1>3, <1>5, <2>1
  <2>13. Pos(top, off) + n = Pos(top, PageSize) /\ Pos(top, PageSize) = Pos(top, 0) + PageSize /\ Pos(top, 0) \in Int
    <3>1. 0 + PageSize = PageSize /\ 0 \in Int /\ top \in Int /\ PageSize \in Int
      BY <1>1
    <3>2. Pos(top, 0 + PageSize) = Pos(top, 0) + PageSize /\ Pos(top, 0) \in Int
      BY <3>1, Position
    <3> QED
      BY <3>1, <3>2, <1>4, <2>1
  <2>14. num_bufferred_bytes' = num_bufferred_bytes + n - PageSize
    <3> DEFINE x == Pos(top, off)
               y == Pos(top, 0)
               z == Pos(top, PageSize)
    <3>1. x + n = z /\ z = y + PageSize /\ y \in Int /\ x \in Int /\ n \in Int /\ PageSize \in Int
      BY <2>13, <1>1, <1>4
    <3>2. num_bufferred_bytes = x /\ num_bufferred_bytes' = y
      BY <2>12, <1>3
    <3> HIDE DEF x, y, z, n
    <3>3. y = x + n - PageSize
      BY <3>1
    <3> QED
      BY <3>2, <3>3
  <2>15. 0 \in Offsets /\ NumPages - 1 \in 0 .. NumPages - 1
    BY <1>1 DEF Offsets
  <2> QED
    BY <1>6, <2>1, <2>8, <2>9, <2>11, <2>12, <2>14, <2>15 DEF StoredAndFlushed, op
<1>7. CASE ~FlushesPage(n)
  <2>1. /\ file' = file /\ isize' = isize /\ pages' = op
        /\ top' = IF off + n = PageSize THEN top + 1 ELSE top
    BY <1>2, <1>7 DEF StoreAndMaybeFlush, PagesWith
  <2>2. CASE off + n = PageSize
    <3>1. top' = top + 1 /\ off' = 0 /\ top + 1 \in 0 .. NumPages - 1 /\ 0 \in Offsets
      BY <1>1, <1>5, <1>7, <2>1, <2>2 DEF FlushesPage, Offsets
    <3>2. Pos(top + 1, 0) = Pos(top, PageSize)
      <4>1. top \in Int /\ 0 \in Int
        BY <1>1
      <4> QED
        BY <4>1, Position
    <3>3. num_bufferred_bytes' = num_bufferred_bytes + n
      BY <3>1, <3>2, <1>3, <1>4, <2>2
    <3> QED
      BY <1>7, <2>1, <2>2, <3>1, <3>3 DEF StoredHere
  <2>3. CASE off + n # PageSize
    <3>1. top' = top /\ off' = off + n /\ off + n \in Offsets
      BY <1>1, <1>5, <2>1, <2>3 DEF Offsets
    <3>2. num_bufferred_bytes' = num_bufferred_bytes + n
      BY <3>1, <1>3, <1>4
    <3> QED
      BY <1>1, <1>7, <2>1, <2>3, <3>1, <3>2 DEF StoredHere
  <2> QED
    BY <2>2, <2>3
<1> QED
  BY <1>6, <1>7

(* The text goes on with the bytes that were stored. *)
LEMMA TextGoesOn ==
    ASSUME NEW s, Fits(s), StoreAndMaybeFlush(s), NEW t, IsText(t, pages, file, num_bufferred_bytes)
    PROVE  /\ IsText(t \o s, pages', file', num_bufferred_bytes')
           /\ ArePages(pages') /\ file' \in Seq(Nat) /\ isize' = Len(file')
           /\ top_page_index' \in 0 .. NumPages - 1 /\ top_offset' \in Offsets
           /\ FlushesPage(Len(s)) => Len(file') = Len(file) + PageSize
           /\ (file # <<>> => top_page_index = NumPages - 1)
                => (file' # <<>> => top_page_index' = NumPages - 1)
<1> DEFINE num == num_bufferred_bytes
           n == Len(s)
           w == t \o s
           op == PagesWith(s)
           lf == Len(file)
<1>1. /\ PageSize \in Nat \ {0} /\ NumPages \in Nat \ {0, 1} /\ lf \in Nat /\ n \in Nat
      /\ ArePages(pages) /\ file \in Seq(Nat) /\ isize = lf
      /\ top_page_index \in 0 .. NumPages - 1 /\ top_offset \in Offsets
      /\ n \in 1 .. PageSize - top_offset
  BY BufferAssumption, LenProperties DEF Fits
<1>2. /\ ArePages(op) /\ w \in Seq(Nat) /\ Len(w) = lf + num + n
      /\ \A i \in 1 .. Len(t) : w[i] = t[i]
      /\ \A k \in 0 .. NumPages - 1, o \in Offsets :
           Pos(k, o) < num + n => w[lf + Pos(k, o) + 1] = op[k + 1][o + 1]
  <2>1. IsBehind(s, t)
    BY Written
  <2> QED
    BY <2>1 DEF IsBehind
<1>3. /\ IF FlushesPage(n) THEN StoredAndFlushed(s) ELSE StoredHere(s)
      /\ top_page_index' \in 0 .. NumPages - 1 /\ top_offset' \in Offsets
  BY <1>2, Stores
<1>4. num \in Nat
  <2>1. num = Pos(top_page_index, top_offset)
    BY DEF num_bufferred_bytes, Pos
  <2> QED
    BY <2>1, <1>1, TheText
<1>5. t \in Seq(Nat) /\ Len(t) = lf + num /\ \A i \in 1 .. lf : t[i] = file[i]
  BY DEF IsText
<1>6. \A i \in 1 .. lf : w[i] = file[i]
  <2> TAKE i \in 1 .. lf
  <2>1. i \in 1 .. Len(t)
    BY <1>1, <1>4, <1>5
  <2> QED
    BY <2>1, <1>2, <1>5
<1>7. CASE ~FlushesPage(n)
  <2>1. /\ file' = file /\ isize' = isize /\ pages' = op /\ num' = num + n
        /\ IF top_offset + n = PageSize THEN top_page_index' = top_page_index + 1
                                        ELSE top_page_index' = top_page_index
    BY <1>3, <1>7 DEF StoredHere
  <2>2. (file # <<>> => top_page_index = NumPages - 1) => (file' # <<>> => top_page_index' = NumPages - 1)
    BY <2>1, <1>1, <1>3
  <2> HIDE DEF op, w, n
  <2>3. Len(w) = lf + (num + n)
    BY <1>1, <1>2, <1>4
  <2>4. IsText(w, op, file, num + n)
    BY <2>3, <1>2, <1>6 DEF IsText
  <2> QED
    BY <2>1, <2>2, <2>4, <1>1, <1>2, <1>3, <1>7 DEF op, w, n
<1>8. CASE FlushesPage(n)
  <2>1. /\ file' = file \o pages[1] /\ isize' = isize + PageSize /\ ArePages(pages')
        /\ \A k \in 1 .. NumPages - 1 : pages'[k] = op[k + 1]
        /\ top_page_index = NumPages - 1 /\ top_page_index' = NumPages - 1 /\ top_offset' = 0
        /\ num' = num + n - PageSize
    BY <1>3, <1>8 DEF StoredAndFlushed
  <2>2. top_page_index + 1 # 1 /\ 1 \in 1 .. NumPages
    BY <1>1, <2>1
  <2>3. op[1] = pages[1] /\ pages[1] \in Seq(Nat) /\ Len(pages[1]) = PageSize
    <3>1. op[1] = pages[1]
      BY <2>2, <1>1 DEF PagesWith, ArePages
    <3> QED
      BY <3>1, <2>2, <1>1, PageByte
  <2> HIDE DEF op, w, n
  <2>4. /\ file' \in Seq(Nat) /\ Len(file') = lf + PageSize
        /\ \A i \in 1 .. lf + PageSize : file'[i] = IF i <= lf THEN file[i] ELSE pages[1][i - lf]
    <3> DEFINE p == pages[1]
    <3>1. p \in Seq(Nat) /\ Len(p) = PageSize /\ file' = file \o p
      BY <2>1, <2>3
    <3> HIDE DEF p
    <3>2. /\ file \o p \in Seq(Nat) /\ Len(file \o p) = lf + Len(p)
          /\ \A i \in 1 .. lf + Len(p) : (file \o p)[i] = IF i <= lf THEN file[i] ELSE p[i - lf]
      BY <3>1, <1>1, ConcatProperties
    <3> QED
      BY <3>1, <3>2 DEF p
  <2>5. num' = Pos(NumPages - 1, 0) /\ 0 \in Offsets /\ NumPages - 1 \in Int
    BY <2>1, <1>1 DEF num_bufferred_bytes, Pos, Offsets
  <2>6. num + n = Pos(NumPages, 0) /\ Pos(NumPages, 0) \in Int /\ NumPages \in Int /\ 0 \in Int
    <3>1. NumPages \in Int /\ 0 \in Int
      BY <1>1
    <3>2. Pos(NumPages - 1, 0) = Pos(NumPages, 0) - PageSize /\ Pos(NumPages, 0) \in Int
      BY <3>1, Position
    <3> DEFINE y == Pos(NumPages, 0)
               z == Pos(NumPages - 1, 0)
    <3>3. z = y - PageSize /\ y \in Int /\ z = num + n - PageSize /\ PageSize \in Int /\ num \in Int /\ n \in Int
      BY <3>2, <2>5, <2>1, <1>1, <1>4 DEF n
    <3> HIDE DEF y, z, num
    <3>4. num + n = y
      BY <3>3
    <3> QED
      BY <3>1, <3>2, <3>4 DEF y
  <2>7. ASSUME NEW k \in 0 .. NumPages - 2, NEW o \in Offsets
        PROVE  w[lf + PageSize + Pos(k, o) + 1] = pages'[k + 1][o + 1]
    <3>1. k \in Int /\ o \in Int /\ k + 1 < NumPages /\ k + 1 \in 0 .. NumPages - 1 /\ k + 1 \in 1 .. NumPages - 1
      BY <1>1 DEF Offsets
    <3>2. Pos(k + 1, o) = Pos(k, o) + PageSize /\ Pos(k, o) \in Int
      BY <3>1, Position
    <3>3. Pos(k + 1, o) < Pos(NumPages, 0)
      <4>1. k + 1 \in Int
        BY <3>1
      <4> QED
        BY <3>1, <4>1, <2>5, <2>6, Order
    <3>4. w[lf + Pos(k + 1, o) + 1] = op[(k + 1) + 1][o + 1]
      BY <3>1, <3>3, <2>6, <1>2
    <3>5. lf + Pos(k + 1, o) + 1 = lf + PageSize + Pos(k, o) + 1
      <4> DEFINE y == Pos(k, o)
                 z == Pos(k + 1, o)
      <4>1. y \in Int /\ z = y + PageSize /\ PageSize \in Int /\ lf \in Int
        BY <3>2, <1>1
      <4> HIDE DEF y, z, lf
      <4>2. lf + z + 1 = lf + PageSize + y + 1
        BY <4>1
      <4> QED
        BY <4>2 DEF y, z
    <3> QED
      BY <3>1, <3>4, <3>5, <2>1
  <2>8. ASSUME NEW k \in 0 .. NumPages - 1, NEW o \in Offsets, Pos(k, o) < num'
        PROVE  k \in 0 .. NumPages - 2
    <3>1. Pos(k, o) < Pos(NumPages - 1, 0) /\ k \in Int
      BY <2>5, <2>8
    <3>2. k < NumPages - 1 \/ (k = NumPages - 1 /\ o < 0)
      BY <3>1, <2>5, Order
    <3> QED
      BY <3>2, <1>1 DEF Offsets
  <2>9. \A i \in 1 .. lf + PageSize : w[i] = file'[i]
    <3> TAKE i \in 1 .. lf + PageSize
    <3>1. CASE i <= lf
      BY <3>1, <2>4, <1>6, <1>1
    <3>2. CASE ~(i <= lf)
      <4> DEFINE o == i - lf - 1
      <4>1. o \in Int /\ o \in Offsets /\ lf + o + 1 = i /\ o + 1 = i - lf
        BY <3>2, <1>1 DEF Offsets
      <4> HIDE DEF o
      <4>2. Pos(0, o) = o /\ 0 < NumPages /\ 0 \in 0 .. NumPages - 1 /\ 0 + 1 = 1
        BY <4>1, <1>1, Position
      <4>3. Pos(0, o) < num + n
        BY <4>1, <4>2, <2>5, <2>6, Order
      <4>4. w[lf + Pos(0, o) + 1] = op[0 + 1][o + 1]
        BY <4>1, <4>2, <4>3, <1>2
      <4>5. w[i] = pages[1][i - lf]
        BY <4>1, <4>2, <4>4, <2>3
      <4> QED
        BY <4>5, <3>2, <2>4
    <3> QED
      BY <3>1, <3>2
  <2>10. Len(w) = Len(file') + num'
    BY <2>1, <2>4, <1>1, <1>2, <1>4 DEF n
  <2>11. \A k \in 0 .. NumPages - 1, o \in Offsets :
           Pos(k, o) < num' => w[Len(file') + Pos(k, o) + 1] = pages'[k + 1][o + 1]
    BY <2>4, <2>7, <2>8
  <2>12. IsText(w, pages', file', num')
    BY <2>4, <2>9, <2>10, <2>11, <1>2 DEF IsText
  <2>13. isize' = Len(file')
    BY <2>1, <2>4, <1>1
  <2> QED
    BY <2>1, <2>4, <2>12, <2>13, <1>3 DEF w
<1> QED
  BY <1>7, <1>8

-----------------------------------------------------------------------------
(* What a repeat reads.                                                    *)

(* A repeat being done, and the text before it. *)
Repeating(t) == Inductive /\ pc = "repeat" /\ IsText(t, pages, file, num_bufferred_bytes)

(* The source is distance_back behind the end of the text. *)
IsSource(t) ==
    /\ PageAt(input_page_index) \in Seq(Nat) /\ Len(PageAt(input_page_index)) = PageSize
    /\ input_page_index = top_page_index => input_offset = top_offset - distance_back
    /\ \A k \in 0 .. PageSize - input_offset - 1 :
         /\ input_page_index # top_page_index => k < distance_back
         /\ k < distance_back =>
              /\ Len(t) + (k + 1) - distance_back \in 1 .. Len(t)
              /\ t[Len(t) + (k + 1) - distance_back] = PageAt(input_page_index)[input_offset + k + 1]

LEMMA SourceBytes ==
    ASSUME NEW t, Repeating(t)
    PROVE  IsSource(t)
<1> DEFINE ip == input_page_index
           io == input_offset
           top == top_page_index
           off == top_offset
           d == distance_back
           num == num_bufferred_bytes
           lf == Len(file)
           lt == Len(t)
<1>1. /\ PageSize \in Nat \ {0} /\ NumPages \in Nat \ {0, 1} /\ lf \in Nat
      /\ ArePages(pages) /\ file \in Seq(Nat) /\ d \in Nat
      /\ top \in 0 .. NumPages - 1 /\ off \in Offsets /\ io \in Offsets
      /\ off \in 0 .. PageSize - 1 /\ io \in 0 .. PageSize - 1
  BY BufferAssumption, LenProperties DEF Repeating, Inductive, TypeOK, RingFills, ArePages, Offsets
<1>2. /\ ip \in Int /\ ip >= -1 /\ ip <= top
      /\ ip = -1 => /\ top = NumPages - 1 /\ off = 0 /\ io > 0 /\ lf >= PageSize
                    /\ \A o \in 1 .. PageSize : pages[NumPages][o] = file[lf - PageSize + o]
  BY DEF Repeating, Inductive, TypeOK, SourceInside
<1>3. Pos(ip, io) = num - d /\ num = Pos(top, off)
  BY DEF Repeating, Inductive, SourceInside, Pos, num_bufferred_bytes
<1>4. num \in Nat
  BY <1>1, <1>3, TheText
<1>5. /\ t \in Seq(Nat) /\ lt = lf + num /\ \A i \in 1 .. lf : t[i] = file[i]
      /\ \A k \in 0 .. NumPages - 1, o \in Offsets :
           Pos(k, o) < num => t[lf + Pos(k, o) + 1] = pages[k + 1][o + 1]
  BY DEF Repeating, IsText
<1>6. PageAt(ip) = pages[IF ip = -1 THEN NumPages ELSE ip + 1]
  <2>1. ip < 0 <=> ip = -1
    BY <1>2
  <2>2. ip = -1 => NumPages + ip + 1 = NumPages
    BY <1>1
  <2> QED
    BY <2>1, <2>2 DEF PageAt
<1>7. PageAt(ip) \in Seq(Nat) /\ Len(PageAt(ip)) = PageSize
  <2>1. (IF ip = -1 THEN NumPages ELSE ip + 1) \in 1 .. NumPages
    BY <1>1, <1>2
  <2> QED
    BY <2>1, <1>1, <1>6, PageByte
<1> HIDE DEF ip, io, top, off, d, num, lf, lt
<1>8. ip = top => io = off - d
  <2> HAVE ip = top
  <2>1. Pos(top, off + (io - off)) = Pos(top, off) + (io - off) /\ off + (io - off) = io
    BY <1>1, Position
  <2> DEFINE x == Pos(top, off)
  <2>2. num = x /\ x + (io - off) = num - d
    BY <2>1, <1>3
  <2> HIDE DEF x
  <2> QED
    BY <2>2, <1>1, <1>4
<1>9. ASSUME NEW k \in 0 .. PageSize - io - 1
      PROVE  /\ ip # top => k < d
             /\ k < d => lt + (k + 1) - d \in 1 .. lt /\ t[lt + (k + 1) - d] = PageAt(ip)[io + k + 1]
  <2> DEFINE o == io + k
             x == Pos(ip, o)
  <2>1. o \in Offsets /\ o \in Int /\ o + 1 \in 1 .. PageSize /\ o + 1 = io + k + 1
    BY <1>1 DEF Offsets
  <2>2. x \in Int /\ x = num - d + k
    <3>1. io \in Int /\ k \in Int /\ ip \in Int
      BY <1>1, <1>2
    <3>2. Pos(ip, io + k) = Pos(ip, io) + k /\ Pos(ip, io) \in Int
      BY <3>1, Position
    <3> QED
      BY <3>1, <3>2, <1>1, <1>3, <1>4
  <2> HIDE DEF o
  <2>3. ip = -1 => x = o - PageSize
    <3>1. Pos(0 - 1, o) = Pos(0, o) - PageSize /\ Pos(0, o) = o /\ 0 - 1 = -1
      BY <2>1, Position
    <3> QED
      BY <3>1
  <2>4. ip # top => x < num
    <3> HAVE ip # top
    <3>1. ip < top
      BY <1>1, <1>2
    <3> QED
      BY <3>1, <1>1, <1>2, <1>3, <2>1, Order
  <2>5. ip # -1 => x >= 0
    <3> HAVE ip # -1
    <3>1. Pos(0, 0) = 0 /\ 0 \in Offsets /\ ip >= 0
      BY <1>1, <1>2, Position DEF Offsets
    <3>2. ~(Pos(ip, o) < Pos(0, 0))
      BY <3>1, <1>2, <2>1, Order DEF Offsets
    <3> QED
      BY <3>1, <3>2, <2>2
  <2> HIDE DEF x
  <2>6. lt + (k + 1) - d = lf + x + 1
    BY <2>2, <1>1, <1>4, <1>5
  <2>7. ip # top => k < d
    BY <2>2, <2>4, <1>1, <1>4
  <2>8. ASSUME k < d
        PROVE  lf + x + 1 \in 1 .. lt /\ t[lf + x + 1] = PageAt(ip)[o + 1]
    <3>1. x < num
      BY <2>2, <2>8, <1>1, <1>4
    <3>2. CASE ip = -1
      <4>1. lf + x + 1 = lf - PageSize + (o + 1) /\ lf + x + 1 \in 1 .. lf /\ lf + x + 1 \in 1 .. lt
        BY <3>2, <2>1, <2>3, <1>1, <1>2, <1>4, <1>5
      <4>2. t[lf + x + 1] = file[lf + x + 1]
        BY <4>1, <1>5
      <4>3. pages[NumPages][o + 1] = file[lf - PageSize + (o + 1)]
        BY <3>2, <2>1, <1>2
      <4> QED
        BY <4>1, <4>2, <4>3, <3>2, <1>6
    <3>3. CASE ip # -1
      <4>1. ip \in 0 .. NumPages - 1 /\ x >= 0 /\ lf + x + 1 \in 1 .. lt
        BY <3>1, <3>3, <2>2, <2>5, <1>1, <1>2, <1>4, <1>5
      <4>2. t[lf + x + 1] = pages[ip + 1][o + 1]
        BY <4>1, <3>1, <2>1, <1>5 DEF x
      <4> QED
        BY <4>1, <4>2, <3>3, <1>6
    <3> QED
      BY <3>2, <3>3
  <2> QED
    BY <2>1, <2>6, <2>7, <2>8
<1> QED
  BY <1>7, <1>8, <1>9 DEF IsSource, ip, io, top, d, lt, off

(* The bytes of a chunk: each is the source's, or repeats the one          *)
(* distance_back before it in the chunk.                                   *)
IsRepeated(s, n) ==
    \A j \in 1 .. n :
      s[j] = IF distance_back = 0 \/ j <= distance_back
               THEN PageAt(input_page_index)[input_offset + j]
               ELSE s[j - distance_back]

(* One of the bytes read before is read again exactly when the source has  *)
(* reached what this call has stored.                                      *)
LEMMA Overlap ==
    ASSUME NEW t, Repeating(t), NEW k \in 0 .. PageSize - input_offset - 1
    PROVE  LET again == /\ (input_page_index - top_page_index) % NumPages = 0
                        /\ input_offset + k \in top_offset .. top_offset + k - 1
           IN  /\ again <=> distance_back > 0 /\ k >= distance_back
               /\ again => input_offset + k - top_offset = k - distance_back
<1> DEFINE ip == input_page_index
           io == input_offset
           top == top_page_index
           off == top_offset
           d == distance_back
           same == (ip - top) % NumPages = 0
<1>1. /\ PageSize \in Nat \ {0} /\ NumPages \in Nat \ {0, 1} /\ d \in Nat
      /\ top \in 0 .. NumPages - 1
      /\ off \in 0 .. PageSize - 1 /\ io \in 0 .. PageSize - 1
  BY BufferAssumption DEF Repeating, Inductive, TypeOK, RingFills
<1>2. /\ ip \in Int /\ ip >= -1 /\ ip <= top
      /\ ip = -1 => off = 0 /\ io > 0
  BY DEF Repeating, Inductive, TypeOK, SourceInside
<1>3. /\ ip = top => io = off - d
      /\ ip # top => k < d
  BY SourceBytes DEF IsSource
<1> HIDE DEF ip, io, top, off, d
<1>4. CASE ip = top
  <2>1. ip - top = 0 * NumPages
    BY <1>1, <1>2, <1>4
  <2>2. same
    <3>1. ip - top = NumPages * 0 + 0 /\ 0 \in 0 .. NumPages - 1
      BY <1>1, <1>2, <1>4
    <3>2. IsQuotient(ip - top, NumPages, 0, 0)
      BY <3>1 DEF IsQuotient
    <3>3. ip - top \in Int /\ NumPages \in Nat \ {0} /\ 0 \in Int
      BY <1>1, <1>2
    <3> QED
      BY <3>2, <3>3, QuotientIs
  <2> HIDE DEF same
  <2> QED
    BY <2>2, <1>1, <1>3, <1>4 DEF ip, io, top, off, d, same
<1>5. CASE ip # top /\ ip # -1
  <2>1. ip - top \in Int /\ ip - top < 0 /\ ip - top > -NumPages
    BY <1>1, <1>2, <1>5
  <2>2. ~same
    <3>1. IsQuotient(ip - top, NumPages, -1, ip - top + NumPages)
      BY <2>1, <1>1 DEF IsQuotient
    <3>2. NumPages \in Nat \ {0} /\ -1 \in Int
      BY <1>1
    <3>3. (ip - top) % NumPages = ip - top + NumPages
      BY <3>1, <3>2, <2>1, QuotientIs
    <3> QED
      BY <3>3, <2>1, <1>1
  <2> HIDE DEF same
  <2> QED
    BY <2>2, <1>1, <1>3, <1>5 DEF ip, io, top, off, d, same
<1>6. CASE ip = -1
  <2>1. ip # top /\ off = 0 /\ io > 0 /\ k < d
    BY <1>1, <1>2, <1>3, <1>6
  <2>2. ~(io + k \in off .. off + k - 1)
    BY <2>1, <1>1
  <2> QED
    BY <2>1, <2>2, <1>1 DEF ip, io, top, off, d
<1> QED
  BY <1>4, <1>5, <1>6

LEMMA ChunkReads ==
    ASSUME NEW t, Repeating(t), NEW n \in 1 .. PageSize - input_offset
    PROVE  ChunkRead(n) \in Seq(Nat) /\ Len(ChunkRead(n)) = n /\ IsRepeated(ChunkRead(n), n)
<1> DEFINE io == input_offset
           d == distance_back
           in == PageAt(input_page_index)
           again(k) == /\ (input_page_index - top_page_index) % NumPages = 0
                       /\ io + k \in top_offset .. top_offset + k - 1
           F(read) == [k \in 0 .. n - 1 |->
                         IF again(k) THEN read[io + k - top_offset] ELSE in[io + k + 1]]
           s == ChunkRead(n)
<1>1. PageSize \in Nat \ {0} /\ d \in Nat /\ io \in 0 .. PageSize - 1 /\ n \in 1 .. PageSize - io /\ top_offset \in Nat
  BY BufferAssumption DEF Repeating, Inductive, TypeOK
<1>2. in \in Seq(Nat) /\ Len(in) = PageSize /\ \A i \in 1 .. PageSize : in[i] \in Nat
  <2>1. in \in Seq(Nat) /\ Len(in) = PageSize
    BY SourceBytes DEF IsSource
  <2> QED
    BY <2>1, ElementOfSeq
<1>3. \A k \in 0 .. n - 1 : /\ again(k) <=> d > 0 /\ k >= d
                            /\ again(k) => io + k - top_offset = k - d
  <2> TAKE k \in 0 .. n - 1
  <2>1. k \in 0 .. PageSize - io - 1
    BY <1>1
  <2> QED
    BY <2>1, Overlap
<1>4. IsRepeated(s, n) /\ \E g : s = [k \in 1 .. n |-> g[k - 1]]
  <2>1. CASE d = 1
    <3> DEFINE c == in[io + 1]
    <3>1. s = [k \in 1 .. n |-> c]
      BY <2>1 DEF ChunkRead
    <3>2. [k \in 1 .. n |-> c] = [k \in 1 .. n |-> [x \in 0 .. n - 1 |-> c][k - 1]]
      BY <1>1
    <3> HIDE DEF c, s
    <3>3. \A j \in 1 .. n : s[j] = c /\ (j <= d => j = 1) /\ (j > d => j - d \in 1 .. n)
      BY <3>1, <2>1, <1>1
    <3>4. \A j \in 1 .. n : s[j] = IF d = 0 \/ j <= d THEN in[io + j] ELSE s[j - d]
      BY <3>3, <2>1, <1>1 DEF c
    <3>5. \E g : s = [k \in 1 .. n |-> g[k - 1]]
      BY <3>1, <3>2, Zenon
    <3> QED
      BY <3>4, <3>5 DEF IsRepeated
  <2>2. CASE d # 1
    <3> DEFINE from(k) == IF d > 0 /\ again(k) THEN k % d ELSE k
               g == [k \in 0 .. n - 1 |-> in[io + from(k) + 1]]
    <3>1. \A k \in 0 .. n - 1 : again(k) => k - d \in 0 .. n - 1 /\ from(k) = from(k - d)
      <4> SUFFICES ASSUME NEW k \in 0 .. n - 1, again(k)
                   PROVE  k - d \in 0 .. n - 1 /\ from(k) = from(k - d)
        OBVIOUS
      <4>1. d > 0 /\ k >= d /\ d \in Nat \ {0}
        BY <1>1, <1>3
      <4>2. k - d \in 0 .. n - 1 /\ k - d \in Int
        BY <4>1, <1>1
      <4>3. again(k - d) <=> k - d >= d
        BY <4>1, <4>2, <1>3
      <4> DEFINE q == k \div d
                 r == k % d
      <4>4. q \in Int /\ r \in 0 .. d - 1 /\ k = d * q + r
        BY <4>1, Quotient
      <4> HIDE DEF q, r
      <4>5. k - d = d * (q - 1) + r /\ q - 1 \in Int
        <5>1. d * (q - 1) = d * q - d
          BY <4>1, <4>4
        <5> QED
          BY <5>1, <4>1, <4>4
      <4>6. IsQuotient(k - d, d, q - 1, r)
        BY <4>4, <4>5 DEF IsQuotient
      <4>7. (k - d) % d = r
        BY <4>1, <4>2, <4>5, <4>6, QuotientIs
      <4>8. k - d < d => r = k - d
        <5> HAVE k - d < d
        <5>1. k - d = d * 0 + (k - d) /\ k - d \in 0 .. d - 1
          BY <4>1, <4>2
        <5>2. IsQuotient(k - d, d, 0, k - d)
          BY <5>1 DEF IsQuotient
        <5> QED
          BY <5>2, <4>1, <4>2, <4>7, QuotientIs
      <4>9. from(k) = r /\ from(k - d) = r
        <5>1. from(k) = r
          BY <4>1, <4>4 DEF r
        <5>2. CASE again(k - d)
          BY <5>1, <5>2, <4>1, <4>7
        <5>3. CASE ~again(k - d)
          <6>1. r = k - d
            BY <5>3, <4>1, <4>2, <4>3, <4>8
          <6> QED
            BY <5>1, <6>1, <5>3
        <5> QED
          BY <5>1, <5>2, <5>3
      <4> QED
        BY <4>2, <4>9
    <3>2. g = F(g)
      <4>1. \A k \in 0 .. n - 1 :
              in[io + from(k) + 1] = IF again(k) THEN g[io + k - top_offset] ELSE in[io + k + 1]
        <5> TAKE k \in 0 .. n - 1
        <5>1. CASE again(k)
          <6>1. g[k - d] = in[io + from(k - d) + 1]
            BY <5>1, <3>1
          <6> QED
            BY <6>1, <5>1, <3>1, <1>3
        <5>2. CASE ~again(k)
          BY <5>2
        <5> QED
          BY <5>1, <5>2
      <4> HIDE DEF from, again
      <4> QED
        BY <4>1
    <3> DEFINE r == CHOOSE read : read = F(read)
    <3> HIDE DEF g
    <3>3. r = F(r)
      BY <3>2, Zenon
    <3>4. s = [k \in 1 .. n |-> r[k - 1]]
      <4>1. s = IF d = 1 THEN [k \in 1 .. n |-> in[io + 1]] ELSE [k \in 1 .. n |-> r[k - 1]]
        BY Zenon DEF ChunkRead
      <4> HIDE DEF s, r
      <4> QED
        BY <4>1, <2>2
    <3> HIDE DEF r, s
    <3>5. \A k \in 0 .. n - 1 : r[k] = IF again(k) THEN r[io + k - top_offset] ELSE in[io + k + 1]
      <4> HIDE DEF again
      <4> QED
        BY <3>3
    <3> HIDE DEF again, F
    <3>6. \A k \in 0 .. n - 1 : r[k] = IF d > 0 /\ k >= d THEN r[k - d] ELSE in[io + k + 1]
      BY <3>5, <1>3
    <3>7. \A j \in 1 .. n : s[j] = IF d = 0 \/ j <= d THEN in[io + j] ELSE s[j - d]
      <4> TAKE j \in 1 .. n
      <4>1. j - 1 \in 0 .. n - 1 /\ s[j] = r[j - 1] /\ io + (j - 1) + 1 = io + j
        BY <3>4, <1>1
      <4>2. r[j - 1] = IF d > 0 /\ j - 1 >= d THEN r[j - 1 - d] ELSE in[io + j]
        BY <4>1, <3>6
      <4>3. CASE d = 0 \/ j <= d
        BY <4>1, <4>2, <4>3, <1>1
      <4>4. CASE ~(d = 0 \/ j <= d)
        <5>1. j - d \in 1 .. n /\ j - d - 1 = j - 1 - d /\ d > 0 /\ j - 1 >= d
          BY <4>4, <1>1
        <5>2. s[j - d] = r[j - d - 1]
          BY <5>1, <3>4
        <5> QED
          BY <4>1, <4>2, <4>4, <5>1, <5>2
      <4> QED
        BY <4>3, <4>4
    <3> QED
      BY <3>4, <3>7 DEF IsRepeated
  <2> QED
    BY <2>1, <2>2
<1> HIDE DEF s, in, again, F
<1>5. \A j \in 1 .. n : s[j] = IF d = 0 \/ j <= d THEN in[io + j] ELSE s[j - d]
  BY <1>4 DEF IsRepeated, in
<1>6. \A j \in 1 .. n : s[j] \in Nat
  <2> DEFINE bad == { j \in 1 .. n : s[j] \notin Nat }
  <2>1. ASSUME bad # {} PROVE FALSE
    <3>1. bad \in SUBSET Nat
      BY <1>1
    <3>2. PICK j \in bad : \A x \in bad : j <= x
      BY <2>1, <3>1, LeastNumber
    <3>3. j \in 1 .. n /\ s[j] \notin Nat
      BY <3>2
    <3>4. CASE d = 0 \/ j <= d
      <4>1. io + j \in 1 .. PageSize
        BY <3>3, <1>1
      <4> QED
        BY <4>1, <3>3, <3>4, <1>2, <1>5
    <3>5. CASE ~(d = 0 \/ j <= d)
      <4>1. j - d \in 1 .. n /\ j - d < j
        BY <3>3, <3>5, <1>1
      <4>2. s[j - d] \notin Nat
        BY <3>3, <3>5, <1>5
      <4>3. j - d \in bad
        BY <4>1, <4>2
      <4> QED
        BY <4>1, <4>3, <3>2, <3>3
    <3> QED
      BY <3>4, <3>5
  <2> QED
    BY <2>1
<1>7. s \in Seq(Nat) /\ Len(s) = n
  <2>1. PICK g : s = [k \in 1 .. n |-> g[k - 1]]
    BY <1>4
  <2>2. s \in [1 .. n -> Nat] /\ n \in Nat
    BY <2>1, <1>1, <1>6
  <2> QED
    BY <2>2, SeqDef, LenProperties
<1> QED
  BY <1>4, <1>7 DEF s

(* Each byte that is read equals the one distance_back before it. *)
LEMMA ReadsBack ==
    ASSUME NEW t, Repeating(t), NEW n \in 1 .. PageSize - input_offset, distance_back > 0
    PROVE  \A j \in 1 .. n :
             LET w == t \o ChunkRead(n)
             IN  /\ Len(t) + j - distance_back >= 1
                 /\ w[Len(t) + j] = w[Len(t) + j - distance_back]
<1> DEFINE io == input_offset
           d == distance_back
           in == PageAt(input_page_index)
           s == ChunkRead(n)
           w == t \o s
           lt == Len(t)
<1>1. PageSize \in Nat \ {0} /\ d \in Nat \ {0} /\ io \in 0 .. PageSize - 1 /\ n \in 1 .. PageSize - io
  BY BufferAssumption DEF Repeating, Inductive, TypeOK
<1>2. s \in Seq(Nat) /\ Len(s) = n /\ \A j \in 1 .. n : s[j] = IF d = 0 \/ j <= d THEN in[io + j] ELSE s[j - d]
  BY ChunkReads DEF IsRepeated
<1>3. t \in Seq(Nat) /\ lt \in Nat
  BY LenProperties DEF Repeating, IsText
<1>4. \A k \in 0 .. PageSize - io - 1 :
         /\ input_page_index # top_page_index => k < d
         /\ k < d => /\ lt + (k + 1) - d \in 1 .. lt
                     /\ t[lt + (k + 1) - d] = in[io + k + 1]
  BY SourceBytes DEF IsSource
<1> HIDE DEF s, in, io, d, lt
<1>5. \A i \in 1 .. lt + n : w[i] = IF i <= lt THEN t[i] ELSE s[i - lt]
  BY <1>2, <1>3, ConcatProperties DEF lt
<1> HIDE DEF w
<1>6. ASSUME NEW j \in 1 .. n
      PROVE  lt + j - d >= 1 /\ w[lt + j] = w[lt + j - d]
  <2>1. w[lt + j] = s[j]
    <3> DEFINE i == lt + j
    <3>1. i \in 1 .. lt + n /\ ~(i <= lt) /\ i - lt = j
      BY <1>1, <1>3
    <3> HIDE DEF i
    <3>2. w[i] = s[j]
      BY <3>1, <1>5
    <3> QED
      BY <3>2 DEF i
  <2>2. CASE j <= d
    <3> DEFINE k == j - 1
    <3>1. k \in 0 .. PageSize - io - 1 /\ k < d /\ k + 1 = j /\ io + k + 1 = io + j
      BY <2>2, <1>1
    <3>2. lt + j - d \in 1 .. lt /\ t[lt + j - d] = in[io + j]
      BY <3>1, <1>4
    <3>3. w[lt + j - d] = t[lt + j - d]
      BY <3>2, <1>1, <1>3, <1>5
    <3> QED
      BY <3>2, <3>3, <2>1, <2>2, <1>2, <1>3
  <2>3. CASE ~(j <= d)
    <3> DEFINE i == lt + j - d
    <3>1. i \in 1 .. lt + n /\ ~(i <= lt) /\ i - lt = j - d /\ i >= 1 /\ d # 0
      BY <2>3, <1>1, <1>3
    <3>2. w[i] = s[j - d]
      BY <3>1, <1>5
    <3> QED
      BY <3>1, <3>2, <2>1, <2>3, <1>2
  <2> QED
    BY <2>2, <2>3
<1> QED
  BY <1>6 DEF w, s, lt, d

(* How much one iteration copies. *)
LEMMA Copies ==
    ASSUME NEW t, Repeating(t)
    PROVE  /\ ToCopy \in 1 .. length /\ ToCopy <= PageSize - top_offset
           /\ ToCopy <= PageSize - input_offset
           /\ ToCopy \in {length, PageSize - top_offset, PageSize - input_offset}
<1> DEFINE a == PageSize - top_offset
           b == PageSize - input_offset
           S == {length, a, b}
<1>1. a \in Nat \ {0} /\ b \in Nat \ {0} /\ length \in Nat \ {0}
  BY BufferAssumption DEF Repeating, Inductive, TypeOK, OneCall
<1> HIDE DEF a, b
<1>2. \E x \in S : \A y \in S : x <= y
  <2>1. CASE length <= a /\ length <= b
    BY <1>1, <2>1
  <2>2. CASE a <= length /\ a <= b
    BY <1>1, <2>2
  <2>3. CASE b <= length /\ b <= a
    BY <1>1, <2>3
  <2> QED
    BY <1>1, <2>1, <2>2, <2>3
<1>3. ToCopy = CHOOSE x \in S : \A y \in S : x <= y
  BY DEF ToCopy, Min, a, b
<1> HIDE DEF S
<1>4. ToCopy \in S /\ \A y \in S : ToCopy <= y
  BY <1>2, <1>3, Zenon
<1> QED
  BY <1>1, <1>4 DEF S, a, b

(* The source goes on behind what was read. *)
LEMMA SourceGoesOn ==
    ASSUME NEW t, Repeating(t), RepeatChunk
    PROVE  SourceInside' /\ input_page_index' \in Int /\ input_offset' \in 0 .. PageSize - 1
<1> DEFINE ip == input_page_index
           io == input_offset
           top == top_page_index
           off == top_offset
           d == distance_back
           num == num_bufferred_bytes
           n == ToCopy
           s == ChunkRead(n)
           c == IF io + n = PageSize THEN 1 ELSE 0
           f == IF FlushesPage(n) THEN 1 ELSE 0
<1>1. /\ PageSize \in Nat \ {0} /\ NumPages \in Nat \ {0, 1} /\ d \in Nat /\ length \in Nat
      /\ top \in 0 .. NumPages - 1 /\ off \in 0 .. PageSize - 1 /\ io \in 0 .. PageSize - 1
  BY BufferAssumption DEF Repeating, Inductive, TypeOK, RingFills
<1>2. /\ ip \in Int /\ ip >= -1 /\ ip <= top
      /\ ip = -1 => top = NumPages - 1 /\ off = 0 /\ io > 0
  BY DEF Repeating, Inductive, TypeOK, SourceInside
<1>3. ip = top => io = off - d
  BY SourceBytes DEF IsSource
<1>4. n \in 1 .. length /\ n <= PageSize - off /\ n <= PageSize - io /\ n \in {length, PageSize - off, PageSize - io}
  BY Copies
<1>5. s \in Seq(Nat) /\ Len(s) = n
  <2>1. n \in 1 .. PageSize - io
    BY <1>1, <1>4
  <2> QED
    BY <2>1, ChunkReads
<1>6. /\ StoreAndMaybeFlush(s) /\ distance_back' = d /\ length' = length - n
      /\ io' = (io + n) % PageSize /\ ip' = ip + (io + n) \div PageSize - f
      /\ pc' = IF length' = 0 THEN "open" ELSE "repeat"
  <2>1. SourcePage(n) = ip + (io + n) \div PageSize - f
    BY DEF SourcePage
  <2> QED
    BY <2>1 DEF RepeatChunk
<1>7. Fits(s) /\ IsText(t, pages, file, num)
  BY <1>1, <1>4, <1>5 DEF Repeating, Fits, Inductive, TypeOK, RingFills, ArePages, Offsets
<1>8. ArePages(PagesWith(s))
  <2>1. IsBehind(s, t)
    BY <1>7, Written
  <2> QED
    BY <2>1 DEF IsBehind
<1>9. IF FlushesPage(n) THEN StoredAndFlushed(s) ELSE StoredHere(s)
  BY <1>5, <1>6, <1>7, <1>8, Stores
<1> HIDE DEF s, n, c, f
<1>10. num' = num + n - f * PageSize
  BY <1>1, <1>4, <1>5, <1>9 DEF StoredAndFlushed, StoredHere, f
<1>11. (io + n) \div PageSize = c /\ (io + n) % PageSize = io + n - c * PageSize
  <2>1. IsQuotient(io + n, PageSize, c, io + n - c * PageSize)
    BY <1>1, <1>4 DEF IsQuotient, c
  <2>2. c \in Int /\ io + n \in Int
    BY <1>1, <1>4 DEF c
  <2> QED
    BY <2>1, <2>2, <1>1, QuotientIs
<1>12. io' = io + n - c * PageSize /\ ip' = ip + c - f /\ io' \in 0 .. PageSize - 1 /\ ip' \in Int
  BY <1>1, <1>2, <1>4, <1>6, <1>11 DEF c, f
<1>13. ip' * PageSize + io' = num' - d
  <2> DEFINE p == ip * PageSize
  <2>1. p + io = num - d /\ p \in Int
    BY <1>1, <1>2 DEF Repeating, Inductive, SourceInside
  <2>2. (ip + c - f) * PageSize = p + c * PageSize - f * PageSize
    BY <1>1, <1>2 DEF c, f
  <2>3. num \in Int
    BY <1>1 DEF num_bufferred_bytes
  <2> HIDE DEF p, num
  <2>4. c * PageSize \in Int /\ f * PageSize \in Int
    BY <1>1 DEF c, f
  <2>5. (p + c * PageSize - f * PageSize) + (io + n - c * PageSize) = (num + n - f * PageSize) - d
    <3> DEFINE x == c * PageSize
               y == f * PageSize
    <3>1. x \in Int /\ y \in Int
      BY <2>4
    <3> HIDE DEF x, y
    <3>2. (p + x - y) + (io + n - x) = (num + n - y) - d
      BY <3>1, <2>1, <2>3, <1>1, <1>4
    <3> QED
      BY <3>2 DEF x, y
  <2> QED
    BY <2>2, <2>5, <1>10, <1>12
<1>14. ASSUME length' # 0, ip = -1
       PROVE  c = 1 /\ f = 0
  <2>1. n # length
    BY <1>14, <1>4, <1>6, <1>1
  <2>2. io + n = PageSize
    BY <2>1, <1>1, <1>2, <1>4, <1>14
  <2>3. off + n # PageSize
    BY <2>2, <1>1, <1>2, <1>4, <1>14
  <2> QED
    BY <2>2, <2>3 DEF c, f, FlushesPage
<1>15. ASSUME length' # 0
       PROVE  ip' >= -1 /\ ip' <= top'
  <2>1. CASE ip = -1
    <3>1. ip' = 0 /\ top' = top
      BY <2>1, <1>1, <1>2, <1>4, <1>5, <1>9, <1>12, <1>14, <1>15 DEF f, StoredHere, FlushesPage
    <3> QED
      BY <3>1, <1>1
  <2>2. CASE ip # -1 /\ FlushesPage(n)
    <3>1. f = 1 /\ c \in {0, 1} /\ top' = top
      BY <2>2, <1>9 DEF f, c, StoredAndFlushed
    <3> QED
      BY <3>1, <2>2, <1>1, <1>2, <1>12
  <2>3. CASE ip # -1 /\ ~FlushesPage(n)
    <3>1. f = 0 /\ c \in {0, 1} /\ top' = IF off + n = PageSize THEN top + 1 ELSE top
      BY <2>3, <1>5, <1>9 DEF f, c, StoredHere
    <3>2. ip = top => io <= off
      BY <1>1, <1>3
    <3>3. CASE ip = top /\ off + n # PageSize
      <4>1. io + n # PageSize
        BY <3>2, <3>3, <1>1, <1>4
      <4> QED
        BY <4>1, <3>1, <3>3, <1>1, <1>2, <1>12 DEF c
    <3>4. CASE ip < top \/ off + n = PageSize
      BY <3>1, <3>4, <2>3, <1>1, <1>2, <1>12
    <3> QED
      BY <3>3, <3>4, <1>1, <1>2
  <2> QED
    BY <2>1, <2>2, <2>3
<1>16. ASSUME length' # 0, ip' = -1
       PROVE  /\ top' = NumPages - 1 /\ off' = 0 /\ io' > 0 /\ Len(file') >= PageSize
              /\ \A o \in 1 .. PageSize : pages'[NumPages][o] = file'[Len(file') - PageSize + o]
  <2>1. f = 1 /\ c = 0 /\ FlushesPage(n)
    <3>1. ip # -1
      BY <1>12, <1>14, <1>16
    <3>2. f \in {0, 1} /\ c \in {0, 1} /\ (f = 1 => FlushesPage(n))
      BY DEF f, c
    <3> QED
      BY <3>1, <3>2, <1>2, <1>12, <1>16
  <2>2. StoredAndFlushed(s)
    BY <2>1, <1>9
  <2>3. top' = NumPages - 1 /\ off' = 0 /\ file' = file \o pages[1] /\ pages'[NumPages] = pages[1]
    BY <2>2 DEF StoredAndFlushed
  <2>4. io' > 0
    BY <2>1, <1>1, <1>4, <1>12
  <2> DEFINE p == pages[1]
             lf == Len(file)
  <2>5. p \in Seq(Nat) /\ Len(p) = PageSize /\ file \in Seq(Nat) /\ lf \in Nat
    <3>1. 1 \in 1 .. NumPages /\ ArePages(pages) /\ file \in Seq(Nat)
      BY <1>1, <1>7 DEF Fits
    <3> QED
      BY <3>1, PageByte, LenProperties
  <2>6. file' = file \o p
    BY <2>3
  <2> HIDE DEF p
  <2>7. /\ Len(file \o p) = lf + PageSize
        /\ \A i \in 1 .. lf + PageSize : (file \o p)[i] = IF i <= lf THEN file[i] ELSE p[i - lf]
    BY <2>5, ConcatProperties
  <2> HIDE DEF lf
  <2>8. Len(file') = lf + PageSize /\ \A o \in 1 .. PageSize : file'[lf + o] = p[o]
    <3>1. ASSUME NEW o \in 1 .. PageSize PROVE (file \o p)[lf + o] = p[o]
      <4> DEFINE i == lf + o
      <4>1. i \in 1 .. lf + PageSize /\ ~(i <= lf) /\ i - lf = o
        BY <2>5, <1>1
      <4> HIDE DEF i
      <4>2. (file \o p)[i] = p[o]
        BY <4>1, <2>7
      <4> QED
        BY <4>2 DEF i
    <3> QED
      BY <3>1, <2>6, <2>7, Zenon
  <2>9. Len(file') >= PageSize /\ Len(file') - PageSize = lf
    BY <2>5, <2>8, <1>1
  <2> QED
    BY <2>3, <2>4, <2>8, <2>9 DEF p
<1>17. pc' = "repeat" => length' # 0
  BY <1>6
<1> QED
  BY <1>6, <1>12, <1>13, <1>15, <1>16, <1>17 DEF SourceInside

-----------------------------------------------------------------------------
(* The invariant.                                                          *)

(* What the text is in a state that has not been flushed. *)
LEMMA HasText ==
    ASSUME Inductive, pc # "flushed"
    PROVE  /\ IsText(file \o buffered, pages, file, num_bufferred_bytes)
           /\ num_bufferred_bytes \in Nat
           /\ \A t : IsText(t, pages, file, num_bufferred_bytes) => t = file \o buffered
<1>1. /\ ArePages(pages) /\ file \in Seq(Nat)
      /\ top_page_index \in 0 .. NumPages - 1 /\ top_offset \in Offsets
  BY BufferAssumption DEF Inductive, TypeOK, RingFills, ArePages, Offsets
<1>2. num_bufferred_bytes = Pos(top_page_index, top_offset)
  BY DEF num_bufferred_bytes, Pos
<1>3. file \o buffered = TextOf(pages, file, num_bufferred_bytes)
  BY DEF TextOf, FirstBytes, buffered, Stored
<1> HIDE DEF num_bufferred_bytes
<1> QED
  BY <1>1, <1>2, <1>3, TheText

(* The object, until it is flushed. *)
ObjectOK ==
    /\ ArePages(pages) /\ top_page_index \in 0 .. NumPages - 1 /\ top_offset \in Offsets
    /\ file \in Seq(Nat) /\ isize = Len(file)
    /\ file # <<>> => top_page_index = NumPages - 1

(* Bytes that are stored are appended to the text. *)
LEMMA Appends ==
    ASSUME Inductive, pc # "flushed", NEW s \in Seq(Nat), Len(s) \in 1 .. PageSize - top_offset,
           StoreAndMaybeFlush(s)
    PROVE  ObjectOK' /\ (file \o buffered)' = (file \o buffered) \o s
<1> DEFINE t == file \o buffered
           w == t \o s
<1>1. IsText(t, pages, file, num_bufferred_bytes)
  BY HasText
<1>2. Fits(s) /\ (file # <<>> => top_page_index = NumPages - 1)
  BY BufferAssumption DEF Fits, Inductive, TypeOK, RingFills, ArePages, Offsets
<1> HIDE DEF t
<1>3. /\ IsText(w, pages', file', num_bufferred_bytes')
      /\ ArePages(pages') /\ file' \in Seq(Nat) /\ isize' = Len(file')
      /\ top_page_index' \in 0 .. NumPages - 1 /\ top_offset' \in Offsets
      /\ (file' # <<>> => top_page_index' = NumPages - 1)
  BY <1>1, <1>2, TextGoesOn
<1>4. num_bufferred_bytes' = Pos(top_page_index', top_offset')
  BY DEF num_bufferred_bytes, Pos
<1> HIDE DEF w
<1>5. w = TextOf(pages', file', num_bufferred_bytes')
  BY <1>3, <1>4, TheText
<1>6. (file \o buffered)' = TextOf(pages', file', num_bufferred_bytes')
  BY DEF TextOf, FirstBytes, buffered, Stored
<1>7. ObjectOK'
  BY <1>3 DEF ObjectOK
<1> QED
  BY <1>5, <1>6, <1>7 DEF w, t

(* The invariant of the object does for the invariant's part about it. *)
LEMMA FromObject ==
    ASSUME Inductive, ObjectOK',
           pc' \in {"open", "put", "repeat", "raised"}, bytes' \in Seq(Nat), length' \in Nat,
           distance_back' \in Nat, input_page_index' \in Int, input_offset' \in 0 .. PageSize - 1,
           used' \in Nat
    PROVE  TypeOK' /\ RingFills'
<1>1. Len(file') \in Nat /\ NumPages \in Nat
  BY LenProperties, BufferAssumption DEF ObjectOK
<1>2. isize' \in Nat /\ top_page_index' \in -1 .. NumPages - 1 /\ top_page_index' >= 0
  BY <1>1 DEF ObjectOK
<1>3. TypeOK'
  BY <1>2 DEF TypeOK, ObjectOK, ArePages, Offsets
<1>4. RingFills'
  BY <1>2 DEF RingFills, ObjectOK
<1> QED
  BY <1>3, <1>4

(* A call that leaves the object alone. *)
LEMMA ObjectKept ==
    ASSUME Inductive, pc # "flushed", UNCHANGED object
    PROVE  ObjectOK' /\ (file \o buffered)' = file \o buffered
<1>1. ObjectOK
  BY BufferAssumption DEF ObjectOK, Inductive, TypeOK, RingFills, ArePages, Offsets
<1>2. ObjectOK'
  BY <1>1 DEF ObjectOK, object
<1>3. (file \o buffered)' = file \o buffered
  BY DEF buffered, Stored, num_bufferred_bytes, object
<1> QED
  BY <1>2, <1>3

(* The bytes from the first to the m-th, and from there on. *)
LEMMA Parts ==
    ASSUME NEW s \in Seq(Nat), NEW m \in 0 .. Len(s)
    PROVE  /\ SubSeq(s, 1, m) \in Seq(Nat) /\ Len(SubSeq(s, 1, m)) = m
           /\ \A i \in 1 .. m : SubSeq(s, 1, m)[i] = s[i]
           /\ SubSeq(s, m + 1, Len(s)) \in Seq(Nat)
           /\ Len(SubSeq(s, m + 1, Len(s))) = Len(s) - m
<1> DEFINE l == Len(s)
           f == m + 1
<1>1. l \in Nat /\ \A i \in 1 .. l : s[i] \in Nat
  BY LenProperties, ElementOfSeq
<1> HIDE DEF l
<1>2. m \in 0 .. l
  BY DEF l
<1>3. f \in Int /\ l \in Int /\ (\A i \in f .. l : s[i] \in Nat) /\ (IF f <= l THEN l - f + 1 ELSE 0) = l - m
  BY <1>1, <1>2
<1> HIDE DEF f
<1>4. SubSeq(s, f, l) \in Seq(Nat) /\ Len(SubSeq(s, f, l)) = IF f <= l THEN l - f + 1 ELSE 0
  BY <1>3, SubSeqProperties
<1>5. /\ m \in Int /\ (\A i \in 1 .. m : s[i] \in Nat) /\ (IF 1 <= m THEN m - 1 + 1 ELSE 0) = m
      /\ m - 1 + 1 = m /\ \A i \in 1 .. m : 1 + i - 1 = i
  BY <1>1, <1>2
<1>6. /\ SubSeq(s, 1, m) \in Seq(Nat) /\ Len(SubSeq(s, 1, m)) = IF 1 <= m THEN m - 1 + 1 ELSE 0
      /\ \A i \in 1 .. m - 1 + 1 : SubSeq(s, 1, m)[i] = s[1 + i - 1]
  BY <1>5, SubSeqProperties
<1> QED
  BY <1>3, <1>4, <1>5, <1>6 DEF f, l

(* What PutChunk takes of the bytes. *)
TakesOf == Min({PageSize - top_offset, Len(bytes)})

LEMMA Takes ==
    ASSUME Inductive, pc = "put"
    PROVE  TakesOf \in 1 .. Len(bytes) /\ TakesOf \in 1 .. PageSize - top_offset
<1> DEFINE a == PageSize - top_offset
           b == Len(bytes)
           S == {a, b}
<1>1. a \in Nat \ {0} /\ b \in Nat \ {0}
  <2>1. bytes \in Seq(Nat) /\ bytes # <<>>
    BY DEF Inductive, TypeOK, OneCall
  <2>2. b \in Nat \ {0}
    BY <2>1, LenProperties, EmptySeq
  <2>3. a \in Nat \ {0}
    BY BufferAssumption DEF Inductive, TypeOK
  <2> QED
    BY <2>2, <2>3
<1> HIDE DEF a, b
<1>2. \E x \in S : \A y \in S : x <= y
  <2>1. CASE a <= b
    BY <1>1, <2>1
  <2>2. CASE b <= a
    BY <1>1, <2>2
  <2> QED
    BY <1>1, <2>1, <2>2
<1>3. TakesOf = CHOOSE x \in S : \A y \in S : x <= y
  BY DEF TakesOf, Min, a, b
<1> HIDE DEF S
<1>4. TakesOf \in S /\ \A y \in S : TakesOf <= y
  BY <1>2, <1>3, Zenon
<1> QED
  BY <1>1, <1>4 DEF S, a, b

(* Each call, and each step of one, keeps the invariant. *)
LEMMA PutByteKeeps ==
    ASSUME Inductive, put_byte
    PROVE  Inductive' /\ \E b \in Nat : (file \o buffered)' = (file \o buffered) \o <<b>>
<1> DEFINE b == Source[used + 1]
<1>1. /\ pc = "open" /\ used \in Nat /\ used < Len(Source) /\ StoreAndMaybeFlush(<<b>>) /\ used' = used + 1
      /\ UNCHANGED <<pc, bytes, source>>
  BY DEF put_byte, Called, Inductive, TypeOK
<1>2. b \in Nat
  <2>1. Source \in Seq(Nat) /\ Len(Source) \in Nat
    BY BufferAssumption, LenProperties
  <2>2. used + 1 \in 1 .. Len(Source)
    BY <1>1, <2>1
  <2> QED
    BY <2>1, <2>2, ElementOfSeq
<1> HIDE DEF b
<1>3. <<b>> \in Seq(Nat) /\ Len(<<b>>) \in 1 .. PageSize - top_offset /\ pc # "flushed"
  BY <1>1, <1>2, BufferAssumption DEF Inductive, TypeOK
<1>4. ObjectOK' /\ (file \o buffered)' = (file \o buffered) \o <<b>>
  BY <1>1, <1>3, Appends
<1>5. TypeOK' /\ RingFills'
  BY <1>1, <1>4, FromObject DEF Inductive, TypeOK, source
<1>6. OneCall' /\ SourceInside'
  BY <1>1 DEF Inductive, OneCall, SourceInside, source
<1> QED
  BY <1>2, <1>4, <1>5, <1>6 DEF Inductive

LEMMA PutBytesKeeps ==
    ASSUME Inductive, put_bytes
    PROVE  Inductive' /\ (file \o buffered)' = file \o buffered /\ bytes' # <<>>
<1>1. PICK n \in Lengths : /\ used + n <= Len(Source)
                           /\ bytes' = SubSeq(Source, used + 1, used + n) /\ used' = used + n
  BY DEF put_bytes
<1>2. pc = "open" /\ pc' = "put" /\ UNCHANGED <<object, source>>
  BY DEF put_bytes, Called
<1>3. n \in Nat \ {0} /\ used \in Nat /\ Source \in Seq(Nat) /\ Len(Source) \in Nat
  BY BufferAssumption, LenProperties DEF Inductive, TypeOK
<1>4. bytes' \in Seq(Nat) /\ bytes' # <<>>
  <2> DEFINE m == used + 1
             e == used + n
  <2>1. m \in Int /\ e \in Int /\ m <= e /\ \A i \in m .. e : i \in 1 .. Len(Source)
    BY <1>1, <1>3
  <2> HIDE DEF m, e
  <2>2. \A i \in m .. e : Source[i] \in Nat
    BY <1>3, <2>1, ElementOfSeq
  <2>3. SubSeq(Source, m, e) \in Seq(Nat) /\ Len(SubSeq(Source, m, e)) = IF m <= e THEN e - m + 1 ELSE 0
    BY <2>1, <2>2, SubSeqProperties
  <2>4. Len(SubSeq(Source, m, e)) # 0
    BY <2>1, <2>3
  <2>5. SubSeq(Source, m, e) # <<>>
    BY <2>3, <2>4, EmptySeq
  <2> QED
    BY <2>3, <2>5, <1>1 DEF m, e
<1>5. ObjectOK' /\ (file \o buffered)' = file \o buffered
  <2>1. pc # "flushed" /\ UNCHANGED object
    BY <1>2
  <2> QED
    BY <2>1, ObjectKept
<1>6. used' \in Nat
  BY <1>1, <1>3
<1>7. TypeOK' /\ RingFills'
  BY <1>2, <1>4, <1>5, <1>6, FromObject DEF Inductive, TypeOK, source
<1>8. OneCall' /\ SourceInside'
  BY <1>2, <1>4 DEF Inductive, OneCall, SourceInside, source
<1> QED
  BY <1>4, <1>5, <1>7, <1>8 DEF Inductive

LEMMA PutChunkKeeps ==
    ASSUME Inductive, PutChunk
    PROVE  /\ Inductive'
           /\ TakesOf \in 1 .. Len(bytes)
           /\ (file \o buffered)' = (file \o buffered) \o SubSeq(bytes, 1, TakesOf)
           /\ bytes' = SubSeq(bytes, TakesOf + 1, Len(bytes))
<1> DEFINE n == TakesOf
<1>1. /\ pc = "put" /\ StoreAndMaybeFlush(SubSeq(bytes, 1, n)) /\ bytes' = SubSeq(bytes, n + 1, Len(bytes))
      /\ pc' = (IF n = Len(bytes) THEN "open" ELSE "put") /\ UNCHANGED <<source, used, calls>>
  BY DEF PutChunk, TakesOf
<1>2. n \in 1 .. Len(bytes) /\ n \in 1 .. PageSize - top_offset
  BY <1>1, Takes
<1> HIDE DEF n
<1>3. bytes \in Seq(Nat) /\ n \in 0 .. Len(bytes) /\ Len(bytes) \in Nat
  BY <1>2, LenProperties DEF Inductive, TypeOK
<1>4. /\ SubSeq(bytes, 1, n) \in Seq(Nat) /\ Len(SubSeq(bytes, 1, n)) = n
      /\ bytes' \in Seq(Nat) /\ Len(bytes') = Len(bytes) - n
  BY <1>1, <1>3, Parts
<1>5. ObjectOK' /\ (file \o buffered)' = (file \o buffered) \o SubSeq(bytes, 1, n)
  <2>1. pc # "flushed" /\ Len(SubSeq(bytes, 1, n)) \in 1 .. PageSize - top_offset
    BY <1>1, <1>2, <1>4
  <2> QED
    BY <2>1, <1>1, <1>4, Appends
<1>6. TypeOK' /\ RingFills'
  BY <1>1, <1>4, <1>5, FromObject DEF Inductive, TypeOK, source
<1>7. bytes' # <<>> <=> n # Len(bytes)
  BY <1>3, <1>4, EmptySeq
<1>8. OneCall' /\ SourceInside'
  BY <1>1, <1>7 DEF Inductive, OneCall, SourceInside, source
<1> QED
  BY <1>1, <1>2, <1>5, <1>6, <1>8 DEF Inductive, n

LEMMA RepeatCallKeeps ==
    ASSUME Inductive, repeat_chunk
    PROVE  /\ Inductive' /\ (file \o buffered)' = file \o buffered
           /\ length' > 0 /\ distance_back' <= num_bufferred_bytes
<1> DEFINE num == num_bufferred_bytes
<1>1. PICK l \in Lengths, d \in Distances :
         /\ num - d >= 0 /\ length' = l /\ distance_back' = d
         /\ input_page_index' = (num - d) \div PageSize /\ input_offset' = (num - d) % PageSize
  BY DEF repeat_chunk
<1>2. pc = "open" /\ pc' = "repeat" /\ UNCHANGED <<object, bytes, used>>
  BY DEF repeat_chunk, Called
<1>3. l \in Nat \ {0} /\ d \in Nat
  BY BufferAssumption
<1>4. /\ top_page_index \in 0 .. NumPages - 1 /\ top_page_index \in Int /\ top_offset \in Offsets
      /\ PageSize \in Nat \ {0} /\ NumPages \in Nat
  BY <1>2, BufferAssumption DEF Inductive, TypeOK, RingFills, Offsets
<1>5. num = Pos(top_page_index, top_offset) /\ num' = num
  BY <1>2 DEF num_bufferred_bytes, Pos, object
<1>6. num \in Nat
  <2>1. pc # "flushed"
    BY <1>2
  <2> QED
    BY <2>1, HasText
<1> HIDE DEF num
<1> DEFINE x == num - d
           ip == x \div PageSize
           io == x % PageSize
<1>7. x \in Int /\ x >= 0 /\ x <= num /\ d <= num
  BY <1>1, <1>3, <1>6
<1>8. ip \in Int /\ io \in Offsets /\ Pos(ip, io) = x
  BY <1>7, Located
<1>9. input_page_index' = ip /\ input_offset' = io
  BY <1>1
<1> HIDE DEF x, ip, io
<1>10. ip >= 0 /\ ip <= top_page_index
  <2>1. Pos(0, 0) = 0 /\ 0 \in Offsets /\ 0 \in Int
    BY <1>4, Position DEF Offsets
  <2>2. ~(Pos(ip, io) < Pos(0, 0))
    BY <1>7, <1>8, <2>1
  <2>3. ip >= 0
    BY <1>8, <2>1, <2>2, Order
  <2>4. ~(Pos(top_page_index, top_offset) < Pos(ip, io))
    BY <1>5, <1>6, <1>7, <1>8
  <2>5. ip <= top_page_index
    BY <1>4, <1>8, <2>4, Order
  <2> QED
    BY <2>3, <2>5
<1>11. ObjectOK' /\ (file \o buffered)' = file \o buffered
  <2>1. pc # "flushed" /\ UNCHANGED object
    BY <1>2
  <2> QED
    BY <2>1, ObjectKept
<1>12. io \in 0 .. PageSize - 1
  BY <1>8 DEF Offsets
<1>13. TypeOK' /\ RingFills'
  <2>1. length' \in Nat /\ distance_back' \in Nat /\ input_page_index' \in Int /\ input_offset' \in 0 .. PageSize - 1
    BY <1>1, <1>3, <1>8, <1>9, <1>12
  <2> QED
    BY <2>1, <1>2, <1>11, FromObject DEF Inductive, TypeOK
<1>14. OneCall'
  BY <1>1, <1>2, <1>3 DEF Inductive, OneCall
<1>15. SourceInside'
  <2>1. input_page_index' * PageSize + input_offset' = num' - distance_back'
    BY <1>1, <1>5, <1>8, <1>9 DEF Pos, x
  <2>2. top_page_index' = top_page_index
    BY <1>2 DEF object
  <2>3. input_page_index' >= -1 /\ input_page_index' <= top_page_index' /\ input_page_index' # -1
    BY <1>8, <1>9, <1>10, <2>2
  <2> QED
    BY <2>1, <2>3 DEF SourceInside, num
<1> QED
  BY <1>1, <1>3, <1>7, <1>11, <1>13, <1>14, <1>15 DEF Inductive, num

LEMMA TooBigKeeps ==
    ASSUME Inductive, TooBig
    PROVE  /\ Inductive' /\ (file \o buffered)' = file \o buffered
           /\ distance_back' \in Nat /\ distance_back' > num_bufferred_bytes
<1>1. PICK d \in Distances : num_bufferred_bytes - d < 0 /\ distance_back' = d
  BY DEF TooBig
<1>2. pc = "open" /\ pc' = "raised" /\ UNCHANGED <<object, bytes, length, input_page_index, input_offset, used>>
  BY DEF TooBig, Called
<1>3. d \in Nat /\ pc # "flushed"
  BY <1>2, BufferAssumption
<1>4. num_bufferred_bytes \in Nat
  BY <1>3, HasText
<1>5. distance_back' \in Nat /\ distance_back' > num_bufferred_bytes
  <2> HIDE DEF num_bufferred_bytes
  <2> QED
    BY <1>1, <1>3, <1>4
<1>6. ObjectOK' /\ (file \o buffered)' = file \o buffered
  <2>1. UNCHANGED object
    BY <1>2
  <2> QED
    BY <2>1, <1>3, ObjectKept
<1>7. TypeOK' /\ RingFills'
  BY <1>2, <1>5, <1>6, FromObject DEF Inductive, TypeOK
<1>8. OneCall' /\ SourceInside'
  BY <1>2 DEF Inductive, OneCall, SourceInside
<1> QED
  BY <1>5, <1>6, <1>7, <1>8 DEF Inductive

LEMMA RepeatChunkKeeps ==
    ASSUME Inductive, RepeatChunk
    PROVE  /\ Inductive' /\ ToCopy \in 1 .. length
           /\ (file \o buffered)' = (file \o buffered) \o ChunkRead(ToCopy)
           /\ ChunkRead(ToCopy) \in Seq(Nat) /\ Len(ChunkRead(ToCopy)) = ToCopy
           /\ distance_back > 0 => \A j \in 1 .. ToCopy :
                LET w == (file \o buffered) \o ChunkRead(ToCopy)
                    e == Len(file \o buffered)
                IN  e + j - distance_back >= 1 /\ w[e + j] = w[e + j - distance_back]
<1> DEFINE t == file \o buffered
           n == ToCopy
           s == ChunkRead(n)
<1>1. /\ pc = "repeat" /\ StoreAndMaybeFlush(s) /\ length' = length - n
      /\ pc' = (IF length' = 0 THEN "open" ELSE "repeat")
      /\ UNCHANGED <<bytes, distance_back, used, calls>>
  BY DEF RepeatChunk
<1>2. Repeating(t)
  <2>1. pc # "flushed"
    BY <1>1
  <2> QED
    BY <2>1, <1>1, HasText DEF Repeating
<1> HIDE DEF t
<1>3. n \in 1 .. length /\ n <= PageSize - top_offset /\ n <= PageSize - input_offset
  BY <1>2, Copies
<1>4. /\ length \in Nat /\ PageSize \in Nat \ {0} /\ input_offset \in 0 .. PageSize - 1
      /\ top_offset \in 0 .. PageSize - 1
  BY BufferAssumption DEF Inductive, TypeOK
<1> HIDE DEF n
<1>5. n \in 1 .. PageSize - input_offset /\ n \in 1 .. PageSize - top_offset
  BY <1>3, <1>4
<1>6. s \in Seq(Nat) /\ Len(s) = n
  BY <1>2, <1>5, ChunkReads
<1>7. ObjectOK' /\ (file \o buffered)' = (file \o buffered) \o s
  <2>1. pc # "flushed" /\ Len(s) \in 1 .. PageSize - top_offset
    BY <1>1, <1>5, <1>6
  <2> HIDE DEF s
  <2> QED
    BY <2>1, <1>1, <1>6, Appends
<1>8. SourceInside' /\ input_page_index' \in Int /\ input_offset' \in 0 .. PageSize - 1
  BY <1>2, SourceGoesOn
<1>9. length' \in Nat
  BY <1>1, <1>3, <1>4
<1>10. TypeOK' /\ RingFills'
  <2>1. pc' \in {"open", "put", "repeat", "raised"} /\ bytes' \in Seq(Nat) /\ distance_back' \in Nat /\ used' \in Nat
    BY <1>1 DEF Inductive, TypeOK
  <2> QED
    BY <2>1, <1>7, <1>8, <1>9, FromObject
<1>11. OneCall'
  BY <1>1, <1>9 DEF Inductive, OneCall
<1>12. distance_back > 0 => \A j \in 1 .. n :
          Len(t) + j - distance_back >= 1 /\ (t \o s)[Len(t) + j] = (t \o s)[Len(t) + j - distance_back]
  BY <1>2, <1>5, ReadsBack
<1> QED
  BY <1>3, <1>6, <1>7, <1>8, <1>10, <1>11, <1>12 DEF Inductive, n, t

(* The first bytes, up to a page and up to an offset in it. *)
LEMMA FirstBytesAre ==
    ASSUME NEW ps, ArePages(ps), NEW p \in 0 .. NumPages - 1, NEW o \in Offsets
    PROVE  /\ Pos(p, o) \in Nat
           /\ FirstBytes(ps, Pos(p, o)) \in Seq(Nat) /\ Len(FirstBytes(ps, Pos(p, o))) = Pos(p, o)
<1> DEFINE b == FirstBytes(ps, Pos(p, o))
<1>1. <<>> \in Seq(Nat)
  BY EmptySeq
<1>2. Pos(p, o) \in Nat
  BY <1>1, TheText
<1>3. b \in Seq(Nat) /\ Len(b) = Pos(p, o)
  <2> DEFINE n == Pos(p, o)
             g(i) == ps[(i - 1) \div PageSize + 1][((i - 1) % PageSize) + 1]
  <2>1. n \in Nat /\ b = [i \in 1 .. n |-> g(i)]
    BY <1>2 DEF FirstBytes
  <2>2. \A i \in 1 .. n : g(i) \in Nat
    <3> SUFFICES ASSUME NEW i \in 1 .. n PROVE g(i) \in Nat
      OBVIOUS
    <3> DEFINE x == i - 1
               q == x \div PageSize
               r == x % PageSize
    <3>1. x \in 0 .. Pos(p, o) - 1
      BY <2>1
    <3>2. q \in 0 .. p /\ r \in Offsets
      BY <3>1, Placed
    <3> HIDE DEF x
    <3> HIDE DEF q, r
    <3>3. q + 1 \in 1 .. NumPages /\ r + 1 \in 1 .. PageSize
      BY <3>2, BufferAssumption DEF Offsets
    <3>4. ps[q + 1][r + 1] \in Nat
      BY <3>3, PageByte
    <3> QED
      BY <3>4 DEF q, r, x
  <2> HIDE DEF n, g, b
  <2>3. b \in [1 .. n -> Nat]
    BY <2>1, <2>2
  <2>4. b \in Seq(Nat) /\ Len(b) = n
    BY <2>1, <2>3, SeqDef, LenProperties
  <2> QED
    BY <2>4 DEF n
<1> QED
  BY <1>2, <1>3

(* The bytes before a place of a page, and that page's own. *)
LEMMA FirstBytesSplit ==
    ASSUME NEW ps, ArePages(ps), NEW p \in 0 .. NumPages - 1, NEW o \in Offsets
    PROVE  FirstBytes(ps, Pos(p, o + 1)) = FirstBytes(ps, Pos(p, 0)) \o SubSeq(ps[p + 1], 1, o + 1)
<1> DEFINE base == Pos(p, 0)
           n == Pos(p, o + 1)
           a == FirstBytes(ps, base)
           page == ps[p + 1]
           m == o + 1
           b == SubSeq(page, 1, m)
           g(i) == ps[(i - 1) \div PageSize + 1][((i - 1) % PageSize) + 1]
<1>1. /\ PageSize \in Nat \ {0} /\ NumPages \in Nat \ {0, 1} /\ o \in 0 .. PageSize - 1 /\ p \in Int
      /\ 0 \in Offsets /\ 0 \in Int /\ m \in 1 .. PageSize
  BY BufferAssumption DEF Offsets
<1>2. base \in Nat /\ a \in Seq(Nat) /\ Len(a) = base
  BY <1>1, FirstBytesAre
<1>3. page \in Seq(Nat) /\ Len(page) = PageSize
  <2>1. p + 1 \in 1 .. NumPages
    BY <1>1
  <2> QED
    BY <2>1, PageByte
<1>4. b \in Seq(Nat) /\ Len(b) = m /\ \A i \in 1 .. m : b[i] = page[i]
  <2> HIDE DEF page, m
  <2>1. m \in 0 .. Len(page)
    BY <1>1, <1>3
  <2> QED
    BY <2>1, <1>3, Parts
<1>5. n = base + m
  <2>1. Pos(p, 0 + m) = Pos(p, 0) + m /\ 0 + m = m
    <3>1. m \in Int
      BY <1>1
    <3> HIDE DEF m
    <3> QED
      BY <3>1, <1>1, Position
  <2> QED
    BY <2>1
<1>6. a = [i \in 1 .. base |-> g(i)]
  BY DEF FirstBytes
<1>7. FirstBytes(ps, n) = [i \in 1 .. n |-> g(i)]
  BY DEF FirstBytes
<1>8. \A j \in 1 .. m : g(base + j) = page[j]
  <2> SUFFICES ASSUME NEW j \in 1 .. m PROVE g(base + j) = page[j]
    OBVIOUS
  <2> DEFINE x == base + j - 1
             k == j - 1
  <2>1. x = Pos(p, 0) + k /\ k \in Offsets /\ k \in Int /\ 0 + k = k /\ k + 1 = j /\ (base + j) - 1 = x
    BY <1>1, <1>2 DEF Offsets
  <2> HIDE DEF k, x
  <2>2. x = Pos(p, k)
    BY <2>1, <1>1, Position
  <2>3. x \div PageSize = p /\ x % PageSize = k
    BY <2>1, <2>2, <1>1, PageOf
  <2>4. g(base + j) = ps[x \div PageSize + 1][(x % PageSize) + 1]
    <3> HIDE DEF base
    <3> QED
      BY <2>1, Zenon
  <2> QED
    BY <2>1, <2>3, <2>4
<1> HIDE DEF a, b, n, base, page, m, g
<1>9. /\ a \o b \in Seq(Nat) /\ Len(a \o b) = base + m
      /\ \A i \in 1 .. base + m : (a \o b)[i] = IF i <= base THEN a[i] ELSE b[i - base]
  <2>1. /\ a \o b \in Seq(Nat) /\ Len(a \o b) = Len(a) + Len(b)
        /\ \A i \in 1 .. Len(a) + Len(b) : (a \o b)[i] = IF i <= Len(a) THEN a[i] ELSE b[i - Len(a)]
    BY <1>2, <1>4, ConcatProperties
  <2>2. Len(a) = base /\ Len(b) = m
    BY <1>2, <1>4
  <2> QED
    BY <2>1, <2>2, Zenon
<1>10. m \in Nat /\ base + m \in Nat
  BY <1>1, <1>2
<1>11. \A i \in 1 .. base + m : (a \o b)[i] = g(i)
  <2> SUFFICES ASSUME NEW i \in 1 .. base + m PROVE (a \o b)[i] = g(i)
    OBVIOUS
  <2>1. CASE i <= base
    <3>1. i \in 1 .. base
      BY <2>1, <1>2, <1>10
    <3> QED
      BY <3>1, <2>1, <1>6, <1>9
  <2>2. CASE ~(i <= base)
    <3> DEFINE j == i - base
    <3>1. j \in 1 .. m /\ base + j = i
      BY <2>2, <1>2, <1>10
    <3>2. (a \o b)[i] = b[j]
      BY <2>2, <1>9
    <3> HIDE DEF j
    <3>3. b[j] = g(base + j)
      BY <3>1, <1>4, <1>8
    <3> QED
      BY <3>1, <3>2, <3>3
  <2> QED
    BY <2>1, <2>2
<1>12. a \o b = [i \in 1 .. base + m |-> (a \o b)[i]]
  BY <1>9, <1>10, LenProperties
<1>13. a \o b = FirstBytes(ps, n)
  BY <1>5, <1>7, <1>11, <1>12
<1> QED
  BY <1>13 DEF a, b, n, base, page, m

(* Nothing put, nothing buffered. *)
LEMMA NothingBuffered ==
    ASSUME top_page_index = 0, top_offset = 0
    PROVE  buffered = <<>>
<1>1. num_bufferred_bytes = 0
  <2>1. Pos(0, 0) = 0
    BY Position
  <2> QED
    BY <2>1 DEF num_bufferred_bytes, Pos
<1>2. buffered = [i \in 1 .. 0 |-> pages[(i - 1) \div PageSize + 1][((i - 1) % PageSize) + 1]]
  BY <1>1 DEF buffered, Stored
<1>3. buffered \in [1 .. 0 -> Nat]
  BY <1>2
<1> HIDE DEF buffered
<1>4. buffered \in Seq(Nat) /\ Len(buffered) = 0
  BY <1>3, SeqDef, LenProperties
<1> QED
  BY <1>4, EmptySeq

(* Sequences are put together in any order. *)
LEMMA Associative ==
    ASSUME NEW r \in Seq(Nat), NEW s \in Seq(Nat), NEW u \in Seq(Nat)
    PROVE  (r \o s) \o u = r \o (s \o u)
  OBVIOUS

(* A flush writes out what the pages hold. *)
LEMMA FlushKeeps ==
    ASSUME Inductive, flush
    PROVE  /\ Inductive' /\ pc' = "flushed"
           /\ file \o buffered # <<>> => file' = file \o buffered
<1> DEFINE lp == LastByte.page
           lo == LastByte.offset
           whole == IF lp > 0 THEN lp ELSE 0
           top == top_page_index
           off == top_offset
           num == num_bufferred_bytes
           a == Stored(whole * PageSize)
           page == PageAt(lp)
           m == lo + 1
           b == SubSeq(page, 1, m)
<1>1. /\ pc = "open" /\ pc' = "flushed" /\ UNCHANGED <<bytes, source, used, calls>>
      /\ file' = file \o a \o b /\ isize' = isize + whole * PageSize + m
      /\ pages' = Rotated(whole) /\ top' = lp - whole /\ off' = lo
  <2>1. isize' = isize + whole * PageSize + lo + 1
    BY DEF flush
  <2>2. isize \in Int /\ whole * PageSize \in Int /\ lo \in Int
    BY BufferAssumption DEF Inductive, TypeOK, LastByte
  <2>3. isize' = isize + whole * PageSize + m
    <3> DEFINE x == whole * PageSize
    <3>1. isize' = isize + x + lo + 1 /\ isize \in Int /\ x \in Int /\ lo \in Int
      BY <2>1, <2>2
    <3> HIDE DEF x, lo
    <3>2. isize' = isize + x + (lo + 1)
      BY <3>1
    <3> QED
      BY <3>2 DEF x
  <2> HIDE DEF a
  <2> QED
    BY <2>3 DEF flush, a
<1>2. /\ PageSize \in Nat \ {0} /\ NumPages \in Nat \ {0, 1} /\ ArePages(pages) /\ file \in Seq(Nat)
      /\ isize = Len(file) /\ Len(file) \in Nat
      /\ top \in 0 .. NumPages - 1 /\ off \in 0 .. PageSize - 1
      /\ file # <<>> => top = NumPages - 1
  BY <1>1, BufferAssumption, LenProperties DEF Inductive, TypeOK, RingFills, ArePages
<1>3. /\ lo \in 0 .. PageSize - 1 /\ lp \in -1 .. NumPages - 1
      /\ lp = (IF off = 0 THEN top - 1 ELSE top) /\ lo = (IF off = 0 THEN PageSize - 1 ELSE off - 1)
  BY <1>2 DEF LastByte
<1>4. whole \in 0 .. NumPages - 1 /\ lp - whole \in -1 .. 0 /\ (lp >= 0 => whole = lp)
  BY <1>2, <1>3
<1> HIDE DEF lp, lo, whole
<1>5. whole * PageSize = Pos(whole, 0) /\ Pos(whole, 0) \in Nat
      /\ a \in Seq(Nat) /\ Len(a) = Pos(whole, 0) /\ a = FirstBytes(pages, Pos(whole, 0))
  <2>1. 0 \in Offsets
    BY <1>2 DEF Offsets
  <2>2. /\ Pos(whole, 0) \in Nat /\ FirstBytes(pages, Pos(whole, 0)) \in Seq(Nat)
        /\ Len(FirstBytes(pages, Pos(whole, 0))) = Pos(whole, 0)
    BY <2>1, <1>2, <1>4, FirstBytesAre
  <2>3. whole * PageSize = Pos(whole, 0)
    BY <1>2, <1>4 DEF Pos
  <2>4. a = FirstBytes(pages, Pos(whole, 0))
    BY <2>3 DEF FirstBytes, Stored
  <2> QED
    BY <2>2, <2>3, <2>4
<1> HIDE DEF a
<1>6. /\ page \in Seq(Nat) /\ Len(page) = PageSize /\ m \in 1 .. PageSize
      /\ b \in Seq(Nat) /\ Len(b) = m
  <2>1. page \in Seq(Nat) /\ Len(page) = PageSize
    <3>1. (IF lp < 0 THEN NumPages + lp + 1 ELSE lp + 1) \in 1 .. NumPages
      BY <1>2, <1>3
    <3> QED
      BY <3>1, <1>2, PageByte DEF PageAt
  <2>2. m \in 1 .. PageSize
    BY <1>2, <1>3
  <2> HIDE DEF page, m
  <2>3. m \in 0 .. Len(page)
    BY <2>1, <2>2
  <2> QED
    BY <2>1, <2>2, <2>3, Parts
<1> HIDE DEF page, m, b
<1>7. file' \in Seq(Nat) /\ isize' = Len(file')
  <2>1. file \o a \in Seq(Nat) /\ Len(file \o a) = Len(file) + Len(a)
    BY <1>2, <1>5, ConcatProperties
  <2>2. (file \o a) \o b \in Seq(Nat) /\ Len((file \o a) \o b) = Len(file \o a) + Len(b)
    BY <2>1, <1>6, ConcatProperties
  <2>3. Len(file') = (Len(file) + Pos(whole, 0)) + m /\ isize' = Len(file) + Pos(whole, 0) + m
    BY <2>1, <2>2, <1>1, <1>2, <1>5, <1>6
  <2> QED
    BY <2>2, <2>3, <1>1, <1>2, <1>5, <1>6
<1>8. Inductive'
  <2>1. ArePages(pages')
    BY <1>1, <1>2, <1>4, Rotation
  <2>2. isize' \in Nat
    BY <1>7, LenProperties
  <2>3. top' \in -1 .. NumPages - 1 /\ off' \in 0 .. PageSize - 1
    BY <1>1, <1>2, <1>3, <1>4
  <2>4. TypeOK'
    BY <2>1, <2>2, <2>3, <1>1, <1>7 DEF Inductive, TypeOK, ArePages, source
  <2>5. OneCall' /\ SourceInside' /\ RingFills'
    BY <1>1, <1>7 DEF Inductive, OneCall, SourceInside, RingFills, source
  <2> QED
    BY <2>4, <2>5 DEF Inductive
<1>9. num = Pos(top, off)
  BY DEF num_bufferred_bytes, Pos
<1>10. CASE lp >= 0
  <2>1. whole = lp /\ lp \in 0 .. NumPages - 1 /\ lo \in Offsets /\ page = pages[lp + 1]
    <3>1. ~(lp < 0)
      BY <1>3, <1>10
    <3>2. page = pages[lp + 1]
      BY <3>1 DEF page, PageAt
    <3> QED
      BY <3>2, <1>3, <1>4, <1>10 DEF Offsets
  <2>2. Pos(lp, m) = num
    <3>1. CASE off = 0
      <4>1. lp + 1 = top /\ lp \in Int /\ m = PageSize /\ 0 \in Int
        BY <3>1, <1>2, <1>3 DEF m
      <4>2. Pos(lp + 1, 0) = Pos(lp, PageSize)
        BY <4>1, Position
      <4> QED
        BY <4>1, <4>2, <3>1, <1>9
    <3>2. CASE off # 0
      <4>1. lp = top /\ m = off
        BY <3>2, <1>2, <1>3 DEF m
      <4> QED
        BY <4>1, <1>9
    <3> QED
      BY <3>1, <3>2
  <2>3. FirstBytes(pages, num) = a \o b
    <3>1. FirstBytes(pages, Pos(lp, lo + 1)) = FirstBytes(pages, Pos(lp, 0)) \o SubSeq(pages[lp + 1], 1, lo + 1)
      BY <2>1, <1>2, FirstBytesSplit
    <3> QED
      BY <3>1, <2>1, <2>2, <1>5 DEF b, m
  <2>4. buffered = a \o b
    BY <2>3 DEF buffered, Stored, FirstBytes
  <2>5. (file \o a) \o b = file \o (a \o b)
    <3>1. file \in Seq(Nat) /\ a \in Seq(Nat) /\ b \in Seq(Nat)
      BY <1>2, <1>5, <1>6
    <3> QED
      BY <3>1, Associative
  <2>6. file' = file \o buffered
    BY <2>4, <2>5, <1>1
  <2> QED
    BY <2>6, <1>1, <1>8
<1>11. CASE lp < 0
  <2>1. top = 0 /\ off = 0 /\ NumPages - 1 # 0
    BY <1>2, <1>3, <1>11
  <2>2. file = <<>>
    BY <2>1, <1>2
  <2>3. buffered = <<>>
    BY <2>1, NothingBuffered
  <2>4. file \o buffered = <<>>
    <3>1. <<>> \in Seq(Nat)
      BY EmptySeq
    <3> QED
      BY <3>1, <2>2, <2>3, ConcatEmptySeq
  <2> QED
    BY <2>4, <1>1, <1>8
<1> QED
  BY <1>3, <1>10, <1>11

(* The invariant holds at first. *)
LEMMA InitInductive ==
    ASSUME Init
    PROVE  Inductive
<1>1. PageSize \in Nat \ {0} /\ NumPages \in Nat \ {0, 1}
  BY BufferAssumption
<1>2. <<>> \in Seq(Nat) /\ Len(<<>>) = 0
  BY EmptySeq
<1> DEFINE page == [i \in 1 .. PageSize |-> 0]
<1>3. page \in Seq(Nat) /\ Len(page) = PageSize
  <2>1. page \in [1 .. PageSize -> Nat] /\ PageSize \in Nat
    BY <1>1
  <2> HIDE DEF page
  <2> QED
    BY <2>1, SeqDef, LenProperties
<1>4. pages = [k \in 1 .. NumPages |-> page]
  BY DEF Init
<1> HIDE DEF page
<1>5. /\ pages \in Seq(Seq(Nat)) /\ Len(pages) = NumPages
      /\ \A k \in 1 .. NumPages : Len(pages[k]) = PageSize
  <2>1. pages \in [1 .. NumPages -> Seq(Nat)] /\ NumPages \in Nat
    BY <1>1, <1>3, <1>4
  <2>2. pages \in Seq(Seq(Nat)) /\ Len(pages) = NumPages
    BY <2>1, SeqDef, LenProperties
  <2> QED
    BY <2>2, <1>3, <1>4
<1>6. TypeOK
  BY <1>1, <1>2, <1>5 DEF TypeOK, Init
<1>7. OneCall /\ RingFills /\ SourceInside
  BY <1>2 DEF Init, OneCall, RingFills, SourceInside
<1> QED
  BY <1>6, <1>7 DEF Inductive

(* Every step keeps it. *)
LEMMA NextInductive ==
    ASSUME Inductive, [Next]_bvars
    PROVE  Inductive'
<1>1. CASE put_byte
  BY <1>1, PutByteKeeps
<1>2. CASE put_bytes
  BY <1>2, PutBytesKeeps
<1>3. CASE PutChunk
  BY <1>3, PutChunkKeeps
<1>4. CASE repeat_chunk
  BY <1>4, RepeatCallKeeps
<1>5. CASE TooBig
  BY <1>5, TooBigKeeps
<1>6. CASE RepeatChunk
  BY <1>6, RepeatChunkKeeps
<1>7. CASE flush
  BY <1>7, FlushKeeps
<1>8. CASE UNCHANGED bvars
  <2>1. /\ UNCHANGED <<pages, top_page_index, top_offset, isize, file, pc, bytes, used>>
        /\ UNCHANGED <<length, distance_back, input_page_index, input_offset>>
    BY <1>8 DEF bvars, object, source
  <2> QED
    BY <2>1 DEF Inductive, TypeOK, OneCall, RingFills, SourceInside, num_bufferred_bytes
<1> QED
  BY <1>1, <1>2, <1>3, <1>4, <1>5, <1>6, <1>7, <1>8 DEF Next

(* The invariant: until flush the top page is one of the pages, and the    *)
(* last one from the first page flushed on; isize counts what is in the    *)
(* file; and the source of a repeat in progress lies distance_back behind  *)
(* the next byte, in the pages, or in the page just flushed, whose bytes   *)
(* the last page still has (python/OutputBuffer.py, lines 58-94).          *)
THEOREM InductiveInvariant == Spec => []Inductive
<1>1. Init => Inductive
  BY InitInductive
<1>2. Inductive /\ [Next]_bvars => Inductive'
  BY NextInductive
<1> QED
  BY <1>1, <1>2, PTL DEF Spec

(* What SourceFollows says follows from it. *)
LEMMA FollowsFromInductive ==
    ASSUME Inductive
    PROVE  SourceFollows
<1> SUFFICES ASSUME pc = "repeat"
             PROVE  /\ input_page_index * PageSize + input_offset = num_bufferred_bytes - distance_back
                    /\ input_page_index = -1 =>
                         /\ input_offset > top_offset \/ top_page_index < NumPages - 1
                         /\ SubSeq(PageAt(-1), input_offset + 1, PageSize)
                              = SubSeq(file, Len(file) - PageSize + input_offset + 1, Len(file))
  BY DEF SourceFollows
<1>1. input_page_index * PageSize + input_offset = num_bufferred_bytes - distance_back
  BY DEF Inductive, SourceInside
<1>2. ASSUME input_page_index = -1
      PROVE  /\ input_offset > top_offset
             /\ SubSeq(PageAt(-1), input_offset + 1, PageSize)
                  = SubSeq(file, Len(file) - PageSize + input_offset + 1, Len(file))
  <2> DEFINE io == input_offset
             lf == Len(file)
             page == PageAt(-1)
             f == io + 1
             e == lf - PageSize + io + 1
             x == SubSeq(page, f, PageSize)
             y == SubSeq(file, e, lf)
  <2>1. /\ top_offset = 0 /\ io > 0 /\ lf >= PageSize /\ io \in 0 .. PageSize - 1
        /\ \A o \in 1 .. PageSize : pages[NumPages][o] = file[lf - PageSize + o]
        /\ PageSize \in Nat \ {0} /\ NumPages \in Nat \ {0, 1} /\ lf \in Nat /\ file \in Seq(Nat)
        /\ ArePages(pages)
    BY <1>2, BufferAssumption, LenProperties DEF Inductive, SourceInside, TypeOK, ArePages
  <2>2. page = pages[NumPages] /\ page \in Seq(Nat) /\ Len(page) = PageSize
    <3>1. NumPages + (-1) + 1 = NumPages /\ NumPages \in 1 .. NumPages /\ -1 < 0
      BY <2>1
    <3>2. page = pages[NumPages]
      BY <3>1 DEF PageAt
    <3> QED
      BY <3>1, <3>2, <2>1, PageByte
  <2>3. (\A i \in 1 .. PageSize : page[i] \in Nat) /\ (\A i \in 1 .. lf : file[i] \in Nat)
    BY <2>1, <2>2, ElementOfSeq
  <2> HIDE DEF io, lf, page
  <2>4. /\ f \in Int /\ e \in Int /\ PageSize \in Int /\ lf \in Int /\ f <= PageSize /\ e <= lf
        /\ PageSize - f + 1 = PageSize - io /\ lf - e + 1 = PageSize - io /\ f >= 1 /\ e >= 1
        /\ \A i \in 1 .. PageSize - io : /\ f + i - 1 = io + i /\ io + i \in 1 .. PageSize
                                         /\ e + i - 1 = lf - PageSize + (io + i)
    BY <2>1
  <2> HIDE DEF f, e
  <2>5. (\A i \in f .. PageSize : page[i] \in Nat) /\ (\A i \in e .. lf : file[i] \in Nat)
    BY <2>3, <2>4
  <2>6. /\ x \in Seq(Nat) /\ Len(x) = PageSize - f + 1
        /\ \A i \in 1 .. PageSize - f + 1 : x[i] = page[f + i - 1]
    BY <2>4, <2>5, SubSeqProperties
  <2>7. /\ y \in Seq(Nat) /\ Len(y) = lf - e + 1
        /\ \A i \in 1 .. lf - e + 1 : y[i] = file[e + i - 1]
    BY <2>4, <2>5, SubSeqProperties
  <2> HIDE DEF x, y
  <2>8. \A i \in 1 .. PageSize - io : x[i] = y[i]
    <3> TAKE i \in 1 .. PageSize - io
    <3>1. x[i] = page[io + i] /\ y[i] = file[lf - PageSize + (io + i)]
      BY <2>4, <2>6, <2>7
    <3>2. pages[NumPages][io + i] = file[lf - PageSize + (io + i)]
      BY <2>1, <2>4 DEF lf
    <3> QED
      BY <3>1, <3>2, <2>2
  <2>9. Len(x) = PageSize - io /\ Len(y) = PageSize - io
    BY <2>4, <2>6, <2>7
  <2>10. x = y
    BY <2>6, <2>7, <2>8, <2>9, SeqEqual
  <2> QED
    BY <2>1, <2>10 DEF x, y, f, e, io, lf, page
<1> QED
  BY <1>1, <1>2

(* While a repeat is being done its source lies distance_back behind the   *)
(* next byte, however often the pages have moved, and if that is behind    *)
(* the pages, then in the last page, which holds what was written out last *)
(* (python/OutputBuffer.py, repeat_chunk).                                 *)
THEOREM SourceFollowed == Spec => []SourceFollows
<1>1. Inductive => SourceFollows
  BY FollowsFromInductive
<1> QED
  BY <1>1, InductiveInvariant, PTL

-----------------------------------------------------------------------------
(* The promise.                                                            *)

PromisedText == IF pc = "flushed" THEN file ELSE file \o buffered

PromisedRepeat == [distance |-> distance_back, left |-> length]

PromisedMode == IF pc \in {"raised", "flushed"} THEN pc ELSE "open"

(* A sequence is a prefix of itself with more behind it. *)
LEMMA PrefixOf ==
    ASSUME NEW s \in Seq(Nat), NEW u \in Seq(Nat)
    PROVE  Promise!IsPrefix(s, s \o u) /\ Len(s \o u) = Len(s) + Len(u)
<1> DEFINE w == s \o u
           l == Len(s)
<1>1. l \in Nat /\ Len(u) \in Nat
  BY LenProperties
<1>2. w \in Seq(Nat) /\ Len(w) = l + Len(u) /\ \A i \in 1 .. l + Len(u) : w[i] = IF i <= l THEN s[i] ELSE u[i - l]
  BY ConcatProperties
<1> HIDE DEF w, l
<1>3. l \in 0 .. Len(s) /\ l \in 0 .. Len(w) /\ l <= Len(w)
  BY <1>1, <1>2 DEF l
<1>4. SubSeq(s, 1, l) \in Seq(Nat) /\ Len(SubSeq(s, 1, l)) = l /\ \A i \in 1 .. l : SubSeq(s, 1, l)[i] = s[i]
  BY <1>3, Parts
<1>5. SubSeq(w, 1, l) \in Seq(Nat) /\ Len(SubSeq(w, 1, l)) = l /\ \A i \in 1 .. l : SubSeq(w, 1, l)[i] = w[i]
  BY <1>2, <1>3, Parts
<1>6. \A i \in 1 .. l : w[i] = s[i]
  BY <1>1, <1>2
<1>7. SubSeq(s, 1, l) = SubSeq(w, 1, l)
  BY <1>4, <1>5, <1>6, SeqEqual
<1> QED
  BY <1>2, <1>3, <1>7 DEF Promise!IsPrefix, w, l

(* Between two calls the buffer is idle. *)
LEMMA IsIdle ==
    ASSUME Inductive, pc = "open"
    PROVE  Promise!Idle
<1>1. bytes = <<>> /\ length = 0
  BY DEF Inductive, OneCall, TypeOK
<1> QED
  BY <1>1 DEF Promise!Idle

(* The initial states map to an initial state. *)
LEMMA InitPromised ==
    ASSUME Init
    PROVE  Promise!Init
<1>1. buffered = <<>> /\ file = <<>>
  BY NothingBuffered DEF Init
<1>2. file \o buffered = <<>>
  <2>1. <<>> \in Seq(Nat)
    BY EmptySeq
  <2> QED
    BY <2>1, <1>1, ConcatEmptySeq
<1> QED
  BY <1>2 DEF Init, Promise!Init

(* Each step maps to one of the promise. *)
LEMMA PutBytePromised ==
    ASSUME Inductive, put_byte
    PROVE  Promise!PutOne
<1>1. pc = "open" /\ pc' = pc /\ UNCHANGED <<bytes, length, distance_back>>
  BY DEF put_byte, Called, source
<1>2. PICK b \in Nat : (file \o buffered)' = (file \o buffered) \o <<b>>
  BY PutByteKeeps
<1>3. file \o buffered \in Seq(Nat)
  <2>1. pc # "flushed"
    BY <1>1
  <2> QED
    BY <2>1, HasText DEF IsText
<1> DEFINE t == file \o buffered
           w == t \o <<b>>
<1>4. Promise!IsPrefix(t, w) /\ Len(w) = Len(t) + 1
  <2> HIDE DEF t
  <2>1. t \in Seq(Nat) /\ <<b>> \in Seq(Nat) /\ Len(<<b>>) = 1
    BY <1>3 DEF t
  <2> QED
    BY <2>1, PrefixOf
<1>5. PromisedText = t /\ PromisedText' = w
  BY <1>1, <1>2 DEF PromisedText
<1>6. Promise!Idle
  BY <1>1, IsIdle
<1> HIDE DEF t, w
<1>7. Promise!IsPrefix(PromisedText, PromisedText') /\ Len(PromisedText') = Len(PromisedText) + 1
  BY <1>4, <1>5
<1>8. UNCHANGED <<bytes, PromisedRepeat, PromisedMode>>
  BY <1>1 DEF PromisedRepeat, PromisedMode
<1> QED
  BY <1>6, <1>7, <1>8 DEF Promise!PutOne, PromisedText, PromisedRepeat, PromisedMode

LEMMA PutBytesPromised ==
    ASSUME Inductive, put_bytes
    PROVE  Promise!Put
<1>1. pc = "open" /\ pc' = "put" /\ UNCHANGED <<length, distance_back>>
  BY DEF put_bytes, Called, source
<1>2. (file \o buffered)' = file \o buffered /\ bytes' # <<>>
  BY PutBytesKeeps
<1>3. Promise!Idle
  BY <1>1, IsIdle
<1>4. UNCHANGED <<PromisedText, PromisedRepeat, PromisedMode>>
  BY <1>1, <1>2 DEF PromisedText, PromisedRepeat, PromisedMode
<1> QED
  BY <1>2, <1>3, <1>4 DEF Promise!Put, PromisedText, PromisedRepeat, PromisedMode

LEMMA PutChunkPromised ==
    ASSUME Inductive, PutChunk
    PROVE  Promise!AppendSome
<1>1. pc = "put" /\ pc' \in {"put", "open"} /\ UNCHANGED <<length, distance_back>>
  BY DEF PutChunk, source
<1>2. bytes # <<>>
  BY <1>1 DEF Inductive, OneCall
<1>3. /\ TakesOf \in 1 .. Len(bytes)
      /\ (file \o buffered)' = (file \o buffered) \o SubSeq(bytes, 1, TakesOf)
      /\ bytes' = SubSeq(bytes, TakesOf + 1, Len(bytes))
  BY PutChunkKeeps
<1>4. PromisedText = file \o buffered /\ PromisedText' = (file \o buffered)'
  BY <1>1 DEF PromisedText
<1>5. \E n \in 1 .. Len(bytes) : /\ PromisedText' = PromisedText \o SubSeq(bytes, 1, n)
                                 /\ bytes' = SubSeq(bytes, n + 1, Len(bytes))
  BY <1>3, <1>4, Zenon
<1>6. UNCHANGED <<PromisedRepeat, PromisedMode>>
  BY <1>1 DEF PromisedRepeat, PromisedMode
<1> QED
  BY <1>2, <1>5, <1>6 DEF Promise!AppendSome, PromisedText, PromisedRepeat, PromisedMode

LEMMA RepeatCallPromised ==
    ASSUME Inductive, repeat_chunk
    PROVE  Promise!Repeat
<1>1. pc = "open" /\ pc' = "repeat" /\ UNCHANGED bytes
  BY DEF repeat_chunk, Called
<1>2. (file \o buffered)' = file \o buffered /\ length' > 0 /\ distance_back' <= num_bufferred_bytes
  BY RepeatCallKeeps
<1>3. PromisedText = file \o buffered /\ UNCHANGED <<PromisedText, PromisedMode>>
  BY <1>1, <1>2 DEF PromisedText, PromisedMode
<1>4. Len(PromisedText) = Len(file) + num_bufferred_bytes /\ num_bufferred_bytes \in Nat /\ Len(file) \in Nat
  <2>1. pc # "flushed"
    BY <1>1
  <2>2. file \in Seq(Nat)
    BY DEF Inductive, TypeOK
  <2> HIDE DEF num_bufferred_bytes
  <2> QED
    BY <2>1, <2>2, <1>3, HasText, LenProperties DEF IsText
<1>5. distance_back' \in Nat
  BY RepeatCallKeeps DEF Inductive, TypeOK
<1>6. distance_back' <= Len(PromisedText)
  <2> HIDE DEF num_bufferred_bytes, PromisedText
  <2> QED
    BY <1>2, <1>4, <1>5
<1>7. Promise!Idle
  BY <1>1, IsIdle
<1>8. PromisedRepeat'.left > 0 /\ PromisedRepeat'.distance <= Len(PromisedText)
  BY <1>2, <1>6 DEF PromisedRepeat
<1> QED
  BY <1>1, <1>3, <1>7, <1>8 DEF Promise!Repeat, PromisedText, PromisedRepeat, PromisedMode

LEMMA RepeatChunkPromised ==
    ASSUME Inductive, RepeatChunk
    PROVE  Promise!RepeatSome
<1> DEFINE t == file \o buffered
           n == ToCopy
           s == ChunkRead(n)
           w == t \o s
<1>1. /\ pc = "repeat" /\ pc' \in {"repeat", "open"} /\ length' = length - n
      /\ UNCHANGED <<bytes, distance_back>>
  BY DEF RepeatChunk
<1>2. /\ n \in 1 .. length /\ t' = w /\ s \in Seq(Nat) /\ Len(s) = n
      /\ distance_back > 0 => \A j \in 1 .. n : /\ Len(t) + j - distance_back >= 1
                                                /\ w[Len(t) + j] = w[Len(t) + j - distance_back]
  BY RepeatChunkKeeps
<1>3. t \in Seq(Nat) /\ Len(t) \in Nat
  <2>1. pc # "flushed"
    BY <1>1
  <2>2. t \in Seq(Nat)
    BY <2>1, HasText DEF IsText
  <2> QED
    BY <2>2, LenProperties
<1>4. length \in Nat \ {0} /\ distance_back \in Nat
  BY <1>1 DEF Inductive, OneCall, TypeOK
<1>5. PromisedText = t /\ PromisedText' = w
  BY <1>1, <1>2 DEF PromisedText
<1> HIDE DEF s, n, t
<1>6. Promise!IsPrefix(t, w) /\ Len(w) = Len(t) + n
  BY <1>2, <1>3, PrefixOf
<1> HIDE DEF w
<1>7. distance_back > 0 => \A i \in Len(t) + 1 .. Len(w) : w[i] = w[i - distance_back]
  <2> SUFFICES ASSUME distance_back > 0, NEW i \in Len(t) + 1 .. Len(w)
               PROVE  w[i] = w[i - distance_back]
    OBVIOUS
  <2> DEFINE j == i - Len(t)
  <2>1. j \in 1 .. n /\ Len(t) + j = i
    BY <1>2, <1>3, <1>4, <1>6
  <2> HIDE DEF j
  <2>2. w[Len(t) + j] = w[Len(t) + j - distance_back]
    BY <2>1, <1>2
  <2>3. Len(t) + j - distance_back = i - distance_back
    BY <2>1, <1>3, <1>4
  <2> QED
    BY <2>1, <2>2, <2>3
<1>8. Promise!Repeats(PromisedText, PromisedText', PromisedRepeat.distance)
  <2>1. PromisedRepeat.distance = distance_back
    BY DEF PromisedRepeat
  <2> HIDE DEF PromisedText, PromisedRepeat
  <2> QED
    BY <2>1, <1>5, <1>6, <1>7 DEF Promise!Repeats
<1>9. PromisedRepeat' = [PromisedRepeat EXCEPT !.left = @ - n]
  BY <1>1 DEF PromisedRepeat
<1>10. \E k \in 1 .. PromisedRepeat.left : /\ Len(PromisedText') = Len(PromisedText) + k
                                           /\ PromisedRepeat' = [PromisedRepeat EXCEPT !.left = @ - k]
  <2>1. PromisedRepeat.left = length
    BY DEF PromisedRepeat
  <2> HIDE DEF PromisedText, PromisedRepeat
  <2> QED
    BY <2>1, <1>2, <1>5, <1>6, <1>9
<1>11. PromisedRepeat.left > 0 /\ PromisedMode = "open" /\ UNCHANGED <<bytes, PromisedMode>>
  BY <1>1, <1>4 DEF PromisedRepeat, PromisedMode
<1> QED
  BY <1>8, <1>10, <1>11 DEF Promise!RepeatSome, PromisedText, PromisedRepeat, PromisedMode

LEMMA TooBigPromised ==
    ASSUME Inductive, TooBig
    PROVE  Promise!Refuse
<1>1. pc = "open" /\ pc' = "raised" /\ UNCHANGED bytes
  BY DEF TooBig, Called
<1>2. (file \o buffered)' = file \o buffered /\ distance_back' \in Nat /\ distance_back' > num_bufferred_bytes
  BY TooBigKeeps
<1>3. PromisedText = file \o buffered /\ UNCHANGED PromisedText /\ PromisedMode' = "raised"
  BY <1>1, <1>2 DEF PromisedText, PromisedMode
<1>4. /\ Len(PromisedText) = Len(file) + num_bufferred_bytes /\ num_bufferred_bytes \in Nat
      /\ file \in Seq(Nat)
  <2>1. pc # "flushed"
    BY <1>1
  <2>2. file \in Seq(Nat)
    BY DEF Inductive, TypeOK
  <2> HIDE DEF num_bufferred_bytes
  <2> QED
    BY <2>1, <2>2, <1>3, HasText DEF IsText
<1>5. distance_back' > (NumPages - 1) * PageSize \/ distance_back' > Len(PromisedText)
  <2>1. CASE file = <<>>
    <3>1. Len(file) = 0
      BY <2>1, EmptySeq
    <3> HIDE DEF num_bufferred_bytes, PromisedText
    <3> QED
      BY <3>1, <1>2, <1>4
  <2>2. CASE file # <<>>
    <3>1. top_page_index = NumPages - 1 /\ top_offset \in Nat
      BY <2>2, <1>1 DEF Inductive, RingFills, TypeOK
    <3> DEFINE x == (NumPages - 1) * PageSize
    <3>2. num_bufferred_bytes = x + top_offset /\ x \in Int
      BY <3>1, BufferAssumption DEF num_bufferred_bytes
    <3> HIDE DEF x, num_bufferred_bytes
    <3>3. distance_back' > x
      BY <3>1, <3>2, <1>2
    <3> QED
      BY <3>3 DEF x
  <2> QED
    BY <2>1, <2>2
<1>6. Promise!Idle
  BY <1>1, IsIdle
<1>7. PromisedRepeat'.distance = distance_back'
  BY DEF PromisedRepeat
<1>8. PromisedRepeat'.distance > (NumPages - 1) * PageSize \/ PromisedRepeat'.distance > Len(PromisedText)
  BY <1>5, <1>7
<1> QED
  BY <1>1, <1>3, <1>6, <1>8 DEF Promise!Refuse, PromisedText, PromisedRepeat, PromisedMode

LEMMA FlushPromised ==
    ASSUME Inductive, flush
    PROVE  Promise!Flush
<1>1. pc = "open" /\ pc' = "flushed" /\ UNCHANGED <<bytes, length, distance_back>>
  BY DEF flush, source
<1>2. file \o buffered # <<>> => file' = file \o buffered
  BY FlushKeeps
<1>3. PromisedText = file \o buffered /\ PromisedText' = file' /\ PromisedMode' = "flushed"
  BY <1>1 DEF PromisedText, PromisedMode
<1>4. PromisedText # <<>> => PromisedText' = PromisedText
  BY <1>2, <1>3
<1>5. Promise!Idle
  BY <1>1, IsIdle
<1>6. UNCHANGED PromisedRepeat
  BY <1>1 DEF PromisedRepeat
<1> QED
  BY <1>1, <1>3, <1>4, <1>5, <1>6 DEF Promise!Flush, PromisedText, PromisedRepeat, PromisedMode

(* The ring buffer keeps what WindowWriter promises: what is put and what  *)
(* is repeated is appended to one text, although the pages move; a repeat  *)
(* is refused only if it reaches further back than the text or eight       *)
(* pages; and flush leaves the text in the file (python/OutputBuffer.py,   *)
(* "A ring buffer that holds 32K of the last output").                     *)
THEOREM WindowKept == Spec => KeepsWindow
<1>1. Init => Promise!Init
  BY InitPromised
<1>2. Inductive /\ [Next]_bvars
        => [Promise!Next]_<<PromisedText, bytes, PromisedRepeat, PromisedMode>>
  <2> SUFFICES ASSUME Inductive, [Next]_bvars
               PROVE  Promise!Next \/ UNCHANGED <<PromisedText, bytes, PromisedRepeat, PromisedMode>>
    OBVIOUS
  <2>1. CASE put_byte
    BY <2>1, PutBytePromised DEF Promise!Next
  <2>2. CASE put_bytes
    BY <2>2, PutBytesPromised DEF Promise!Next
  <2>3. CASE PutChunk
    BY <2>3, PutChunkPromised DEF Promise!Next
  <2>4. CASE repeat_chunk
    BY <2>4, RepeatCallPromised DEF Promise!Next
  <2>5. CASE TooBig
    BY <2>5, TooBigPromised DEF Promise!Next
  <2>6. CASE RepeatChunk
    BY <2>6, RepeatChunkPromised DEF Promise!Next
  <2>7. CASE flush
    BY <2>7, FlushPromised DEF Promise!Next
  <2>8. CASE UNCHANGED bvars
    BY <2>8 DEF bvars, object, source, PromisedText, PromisedRepeat, PromisedMode, buffered,
                Stored, num_bufferred_bytes
  <2> QED
    BY <2>1, <2>2, <2>3, <2>4, <2>5, <2>6, <2>7, <2>8 DEF Next
<1>3. Spec => Promise!Init /\ [][Promise!Next]_<<PromisedText, bytes, PromisedRepeat, PromisedMode>>
  BY <1>1, <1>2, InductiveInvariant, PTL DEF Spec
<1> QED
  BY <1>3 DEF KeepsWindow, Promise!Spec, PromisedText, PromisedRepeat, PromisedMode
============================================================================
