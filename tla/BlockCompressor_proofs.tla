---------------------- MODULE BlockCompressor_proofs ----------------------
(***************************************************************************)
(* Proofs about the container of block_compressor.c: through the index and *)
(* the sizes before it, do_decompress reads for every page what            *)
(* do_compress stored for it, and what it writes is the file as far as the *)
(* pages tell how they are stored.                                         *)
(***************************************************************************)
EXTENDS BlockCompressor, SequenceTheorems, TLAPS

(* The kinds of cells. *)
LEMMA CellIn ==
    ASSUME NEW kind \in {"word", "raw", "packed"}, NEW page \in Nat, NEW m \in Nat
    PROVE  /\ Cell(kind, page, m) \in Cells
           /\ Cell(kind, page, m).kind = kind
           /\ Cell(kind, page, m).page = page
           /\ Cell(kind, page, m).n = m
BY DEF Cell, Cells

(* A word is four cells, ... *)
LEMMA WordShape ==
    ASSUME NEW m \in Nat
    PROVE  /\ Word(m) \in Seq(Cells) /\ Len(Word(m)) = 4
           /\ \A k \in 1 .. 4 : Word(m)[k] = Cell("word", 0, m)
<1>1. Cell("word", 0, m) \in Cells
  BY CellIn
<1> QED
  BY <1>1 DEF Word

(* ... and a page is one for each of its bytes. *)
LEMMA RawShape ==
    ASSUME NEW p \in Nat, NEW l \in Nat
    PROVE  /\ Raw(p, l) \in Seq(Cells) /\ Len(Raw(p, l)) = l
           /\ \A k \in 1 .. l : Raw(p, l)[k] = Cell("raw", p, k)
<1>1. \A k \in 1 .. l : Cell("raw", p, k) \in Cells
  BY CellIn
<1> QED
  BY <1>1 DEF Raw

LEMMA PackedShape ==
    ASSUME NEW p \in Nat, NEW l \in Nat
    PROVE  /\ Packed(p, l) \in Seq(Cells) /\ Len(Packed(p, l)) = l
           /\ \A k \in 1 .. l : Packed(p, l)[k] = Cell("packed", p, k)
<1>1. \A k \in 1 .. l : Cell("packed", p, k) \in Cells
  BY CellIn
<1> QED
  BY <1>1 DEF Packed

(* A write changes the cells it covers and nothing else, and makes the     *)
(* file at most as long as it has to be.                                   *)
IsWritten(g, f, at, s) ==
    /\ g \in Seq(Cells)
    /\ Len(g) = IF at + Len(s) > Len(f) THEN at + Len(s) ELSE Len(f)
    /\ \A k \in 1 .. Len(g) : g[k] = IF k \in at + 1 .. at + Len(s) THEN s[k - at]
                                     ELSE IF k <= Len(f) THEN f[k] ELSE Hole

LEMMA WriteAtShape ==
    ASSUME NEW f \in Seq(Cells), NEW s \in Seq(Cells), NEW at \in Nat
    PROVE  IsWritten(WriteAt(f, at, s), f, at, s)
<1> DEFINE size == IF at + Len(s) > Len(f) THEN at + Len(s) ELSE Len(f)
           val(k) == IF k \in at + 1 .. at + Len(s) THEN s[k - at]
                     ELSE IF k <= Len(f) THEN f[k] ELSE Hole
<1>1. Len(s) \in Nat /\ Len(f) \in Nat
  BY LenProperties
<1>2. size \in Nat
  BY <1>1
<1>3. Hole \in Cells
  BY CellIn DEF Hole
<1>4. \A k \in 1 .. size : val(k) \in Cells
  <2> TAKE k \in 1 .. size
  <2>1. CASE k \in at + 1 .. at + Len(s)
    <3>1. k - at \in 1 .. Len(s)
      BY <1>1, <2>1
    <3> QED
      BY <2>1, <3>1, ElementOfSeq
  <2>2. CASE k \notin at + 1 .. at + Len(s) /\ k <= Len(f)
    <3>1. k \in 1 .. Len(f)
      BY <1>1, <1>2, <2>2
    <3> QED
      BY <2>2, <3>1, ElementOfSeq
  <2>3. CASE k \notin at + 1 .. at + Len(s) /\ ~(k <= Len(f))
    BY <1>3, <2>3
  <2> QED
    BY <2>1, <2>2, <2>3
<1>5. WriteAt(f, at, s) = [k \in 1 .. size |-> val(k)]
  BY DEF WriteAt
<1> HIDE DEF size, val
<1>6. /\ WriteAt(f, at, s) \in Seq(Cells) /\ Len(WriteAt(f, at, s)) = size
      /\ \A k \in 1 .. size : WriteAt(f, at, s)[k] = val(k)
  BY <1>2, <1>4, <1>5
<1> QED
  BY <1>6 DEF size, val, IsWritten

-----------------------------------------------------------------------------
(* Division by a variable. *)
LEMMA Quotient ==
    ASSUME NEW d \in Nat \ {0}, NEW a \in Int
    PROVE  /\ a \div d \in Int /\ a % d \in 0 .. d - 1
           /\ a = d * (a \div d) + (a % d)
<1>1. a - (a % d) = d * (a \div d)
  OBVIOUS
<1>2. a % d \in 0 .. d - 1 /\ a \div d \in Int
  OBVIOUS
<1> QED
  BY <1>1, <1>2

IsQuotient(a, d, q, r) == r \in 0 .. d - 1 /\ a = d * q + r

LEMMA QuotientIs ==
    ASSUME NEW d \in Nat \ {0}, NEW q \in Int, NEW r, NEW a \in Int, IsQuotient(a, d, q, r)
    PROVE  a \div d = q /\ a % d = r
<1>0. r \in 0 .. d - 1 /\ a = d * q + r
  BY DEF IsQuotient
<1> DEFINE p == a \div d
           s == a % d
<1>1. p \in Int /\ s \in 0 .. d - 1 /\ a = d * p + s
  BY Quotient
<1> HIDE DEF p, s
<1>2. d * (p - q) = d * p - d * q
  BY <1>1
<1>3. d * (p - q) = r - s
  BY <1>0, <1>1, <1>2
<1>4. p - q <= 0
  <2>1. ASSUME p - q >= 1 PROVE FALSE
    <3>1. d * (p - q) >= d
      BY <1>1, <2>1
    <3> QED
      BY <1>0, <1>1, <1>3, <3>1
  <2> QED
    BY <1>1, <2>1
<1>5. p - q >= 0
  <2>1. ASSUME p - q <= -1 PROVE FALSE
    <3>1. d * (p - q) <= -d
      BY <1>1, <2>1
    <3> QED
      BY <1>0, <1>1, <1>3, <3>1
  <2> QED
    BY <1>1, <2>1
<1>6. p = q
  BY <1>1, <1>4, <1>5
<1>7. s = r
  BY <1>0, <1>1, <1>6
<1> QED
  BY <1>6, <1>7 DEF p, s

(* The pages cover the file, and none of them is empty. *)
LEMMA PageCount ==
    ASSUME NEW d \in Nat \ {0}, NEW size \in Nat
    PROVE  LET m == DIV_ROUND_UP(size, d) IN
           /\ m \in Nat /\ size <= m * d
           /\ \A p \in Nat : p < m => p * d < size
<1> DEFINE a == size + d - 1
           m == a \div d
           r == a % d
<1>0. a \in Nat
  OBVIOUS
<1>1. m \in Int /\ r \in 0 .. d - 1 /\ a = d * m + r
  <2> HIDE DEF a
  <2> QED
    BY <1>0, Quotient
<1>2. DIV_ROUND_UP(size, d) = m
  BY DEF DIV_ROUND_UP
<1>3. a = size + d - 1
  OBVIOUS
<1> HIDE DEF a, m, r
<1>4. d * m = m * d
  BY <1>1
<1>5. size <= m * d
  BY <1>0, <1>1, <1>3, <1>4
<1>6. m \in Nat
  <2>1. ASSUME m <= -1 PROVE FALSE
    <3>1. d * m <= -d
      BY <1>1, <2>1
    <3> QED
      BY <1>0, <1>1, <3>1
  <2> QED
    BY <1>1, <2>1
<1>7. ASSUME NEW p \in Nat, p < m PROVE p * d < size
  <2>1. (m - p) * d >= d
    BY <1>1, <1>7
  <2>2. (m - p) * d = m * d - p * d
    BY <1>1
  <2>3. m * d \in Int /\ p * d \in Int
    BY <1>1
  <2>4. m * d <= size + d - 1
    BY <1>0, <1>1, <1>3, <1>4
  <2> QED
    BY <2>1, <2>2, <2>3, <2>4
<1> QED
  BY <1>2, <1>5, <1>6, <1>7
-----------------------------------------------------------------------------
(* What fread returns for the pages of the file: PAGE_SIZE bytes for all   *)
(* but the last one, which has at least one.                               *)
LEMMA PageFacts ==
    ASSUME TypeOK, nr_pages = DIV_ROUND_UP(input_length, PAGE_SIZE),
           NEW p \in Nat, p < nr_pages
    PROVE  /\ p * PAGE_SIZE \in Nat /\ p * PAGE_SIZE < input_length
           /\ PageLength(p) \in 1 .. PAGE_SIZE
           /\ p + 1 < nr_pages => PageLength(p) = PAGE_SIZE
           /\ p * PAGE_SIZE + PageLength(p) =
                IF (p + 1) * PAGE_SIZE <= input_length THEN (p + 1) * PAGE_SIZE
                                                       ELSE input_length
<1>1. PAGE_SIZE \in Nat \ {0} /\ input_length \in Nat /\ nr_pages \in Nat
  BY PageAssumption DEF TypeOK
<1>2. \A q \in Nat : q < nr_pages => q * PAGE_SIZE < input_length
  BY <1>1, PageCount
<1>3. p * PAGE_SIZE \in Nat /\ p * PAGE_SIZE < input_length
  BY <1>1, <1>2
<1>4. (p + 1) * PAGE_SIZE = p * PAGE_SIZE + PAGE_SIZE
  BY <1>1
<1>5. p + 1 < nr_pages => (p + 1) * PAGE_SIZE < input_length
  BY <1>2
<1> QED
  BY <1>1, <1>3, <1>4, <1>5 DEF PageLength

(* The file is its pages one behind the other. *)
LEMMA PagesShape ==
    ASSUME TypeOK, NEW m \in Nat
    PROVE  LET size == IF m * PAGE_SIZE <= input_length THEN m * PAGE_SIZE ELSE input_length
           IN  /\ size \in Nat
               /\ Pages(m) \in Seq(Cells) /\ Len(Pages(m)) = size
               /\ \A k \in 1 .. size :
                    Pages(m)[k] = Cell("raw", (k - 1) \div PAGE_SIZE, 1 + ((k - 1) % PAGE_SIZE))
<1> DEFINE size == IF m * PAGE_SIZE <= input_length THEN m * PAGE_SIZE ELSE input_length
           val(k) == Cell("raw", (k - 1) \div PAGE_SIZE, 1 + ((k - 1) % PAGE_SIZE))
<1>1. PAGE_SIZE \in Nat \ {0} /\ input_length \in Nat
  BY PageAssumption DEF TypeOK
<1>2. size \in Nat
  BY <1>1
<1>3. Pages(m) = [k \in 1 .. size |-> val(k)]
  BY DEF Pages
<1>4. ASSUME NEW k \in 1 .. size PROVE val(k) \in Cells
  <2> HIDE DEF size
  <2> DEFINE a == k - 1
             q == a \div PAGE_SIZE
             r == a % PAGE_SIZE
  <2>1. a \in Nat
    BY <1>2
  <2> HIDE DEF a
  <2>2. q \in Int /\ r \in 0 .. PAGE_SIZE - 1 /\ a = PAGE_SIZE * q + r
    BY <1>1, <2>1, Quotient
  <2> HIDE DEF q, r
  <2>3. q \in Nat
    <3>1. ASSUME q <= -1 PROVE FALSE
      <4>1. PAGE_SIZE * q <= -PAGE_SIZE
        BY <1>1, <2>2, <3>1
      <4> QED
        BY <1>1, <2>1, <2>2, <4>1
    <3> QED
      BY <2>2, <3>1
  <2>4. 1 + r \in Nat
    BY <1>1, <2>2
  <2>5. Cell("raw", q, 1 + r) \in Cells
    BY <2>3, <2>4, CellIn
  <2> QED
    BY <2>5 DEF a, q, r
<1> HIDE DEF size, val
<1>5. /\ Pages(m) \in Seq(Cells) /\ Len(Pages(m)) = size
      /\ \A k \in 1 .. size : Pages(m)[k] = val(k)
  BY <1>2, <1>3, <1>4
<1> QED
  BY <1>2, <1>5 DEF size, val

LEMMA PagesNext ==
    ASSUME TypeOK, nr_pages = DIV_ROUND_UP(input_length, PAGE_SIZE),
           NEW p \in Nat, p < nr_pages
    PROVE  Pages(p + 1) = Pages(p) \o Whole(p)
<1> DEFINE low == p * PAGE_SIZE
           l == PageLength(p)
<1>1. PAGE_SIZE \in Nat \ {0} /\ input_length \in Nat
  BY PageAssumption DEF TypeOK
<1>2. /\ low \in Nat /\ low < input_length /\ l \in 1 .. PAGE_SIZE
      /\ low + l = IF (p + 1) * PAGE_SIZE <= input_length THEN (p + 1) * PAGE_SIZE
                                                          ELSE input_length
  BY PageFacts
<1>3. /\ Pages(p) \in Seq(Cells) /\ Len(Pages(p)) = low
      /\ \A k \in 1 .. low :
           Pages(p)[k] = Cell("raw", (k - 1) \div PAGE_SIZE, 1 + ((k - 1) % PAGE_SIZE))
  BY <1>1, <1>2, PagesShape
<1>4. /\ Pages(p + 1) \in Seq(Cells) /\ Len(Pages(p + 1)) = low + l
      /\ \A k \in 1 .. low + l :
           Pages(p + 1)[k] = Cell("raw", (k - 1) \div PAGE_SIZE, 1 + ((k - 1) % PAGE_SIZE))
  <2>1. p + 1 \in Nat
    OBVIOUS
  <2> QED
    BY <1>2, <2>1, PagesShape
<1>5. /\ Whole(p) \in Seq(Cells) /\ Len(Whole(p)) = l
      /\ \A k \in 1 .. l : Whole(p)[k] = Cell("raw", p, k)
  <2>1. l \in Nat
    BY <1>1, <1>2
  <2> QED
    BY <2>1, RawShape DEF Whole
<1>6. low = PAGE_SIZE * p
  BY <1>1
<1> HIDE DEF low, l
<1>7. /\ Pages(p) \o Whole(p) \in Seq(Cells)
      /\ Len(Pages(p) \o Whole(p)) = low + l
      /\ \A k \in 1 .. low + l : (Pages(p) \o Whole(p))[k] =
            IF k <= low THEN Pages(p)[k] ELSE Whole(p)[k - low]
  BY <1>3, <1>5, ConcatProperties
<1>8. ASSUME NEW k \in 1 .. low + l
      PROVE  Pages(p + 1)[k] = (Pages(p) \o Whole(p))[k]
  <2>1. CASE k <= low
    <3>1. k \in 1 .. low
      BY <1>2, <2>1
    <3> QED
      BY <1>3, <1>4, <1>7, <2>1, <3>1
  <2>2. CASE ~(k <= low)
    <3> DEFINE j == k - low
               a == k - 1
               r == j - 1
    <3>1. j \in 1 .. l /\ r \in 0 .. PAGE_SIZE - 1 /\ a \in Int /\ a = PAGE_SIZE * p + r
      BY <1>1, <1>2, <1>6, <2>2
    <3>2. 1 + r = j
      BY <1>2
    <3> HIDE DEF j, a, r
    <3>3. a \div PAGE_SIZE = p /\ a % PAGE_SIZE = r
      <4>1. IsQuotient(a, PAGE_SIZE, p, r)
        BY <3>1 DEF IsQuotient
      <4> QED
        BY <1>1, <3>1, <4>1, QuotientIs
    <3>4. Pages(p + 1)[k] = Cell("raw", a \div PAGE_SIZE, 1 + (a % PAGE_SIZE))
      BY <1>4 DEF a
    <3>5. (Pages(p) \o Whole(p))[k] = Whole(p)[j]
      BY <1>7, <2>2 DEF j
    <3> QED
      BY <1>5, <3>1, <3>2, <3>3, <3>4, <3>5
  <2> QED
    BY <2>1, <2>2
<1> QED
  BY <1>4, <1>7, <1>8, SeqEqual

-----------------------------------------------------------------------------
(* What is known of a page that is stored. *)
LEMMA StoredPage ==
    ASSUME Inductive, pc # "open", NEW p \in 1 .. Len(stored)
    PROVE  /\ p \in 1 .. nr_pages /\ p - 1 \in Nat /\ p - 1 < nr_pages
           /\ PageLength(p - 1) \in 1 .. PAGE_SIZE
           /\ StoredAt(p) /\ stored[p] \in Seq(Cells) /\ Len(stored[p]) \in 1 .. PAGE_SIZE
           /\ stored[p] = Raw(p - 1, PageLength(p - 1))
                \/ \E l \in 1 .. PageLength(p - 1) - 1 : stored[p] = Packed(p - 1, l)
           /\ placed[p] \in Nat
           /\ Len(stored[p]) = PAGE_SIZE => stored[p] = Whole(p - 1)
           /\ ~IsPacked(stored[p]) => stored[p] = Whole(p - 1)
           /\ IsPacked(stored[p]) => stored[p][1].page = p - 1
           /\ \A cells : cells = stored[p] /\ ~IsPacked(cells) => cells = Whole(p - 1)
<1>1. /\ nr_pages \in Nat /\ PAGE_SIZE \in Nat \ {0} /\ i \in Nat /\ i <= nr_pages
      /\ Len(stored) = (IF pc = "compress" THEN i ELSE nr_pages)
      /\ Len(placed) = Len(stored) /\ nr_pages = DIV_ROUND_UP(input_length, PAGE_SIZE)
      /\ TypeOK
  BY PageAssumption DEF Inductive, TypeOK, FileSoFar
<1>2. p \in 1 .. nr_pages /\ p - 1 \in Nat /\ p - 1 < nr_pages
  BY <1>1
<1>3. PageLength(p - 1) \in 1 .. PAGE_SIZE
  BY <1>1, <1>2, PageFacts
<1>4. StoredAt(p)
  BY DEF Inductive, FileSoFar
<1>5. placed[p] \in Nat
  BY <1>1, ElementOfSeq DEF TypeOK
<1>6. CASE stored[p] = Raw(p - 1, PageLength(p - 1))
  <2>1. PageLength(p - 1) \in Nat
    BY <1>1, <1>3
  <2>2. /\ stored[p] \in Seq(Cells) /\ Len(stored[p]) = PageLength(p - 1)
        /\ stored[p][1] = Cell("raw", p - 1, 1)
    <3> DEFINE l == PageLength(p - 1)
    <3>1. l \in Nat /\ 1 \in 1 .. l
      BY <1>1, <1>3, <2>1
    <3> HIDE DEF l
    <3>2. /\ Raw(p - 1, l) \in Seq(Cells) /\ Len(Raw(p - 1, l)) = l
          /\ Raw(p - 1, l)[1] = Cell("raw", p - 1, 1)
      BY <1>2, <3>1, RawShape
    <3> QED
      BY <1>6, <3>2 DEF l
  <2>3. stored[p][1].kind = "raw"
    BY <1>2, <2>2, CellIn
  <2>4. ~IsPacked(stored[p])
    BY <2>3 DEF IsPacked
  <2> QED
    BY <1>2, <1>3, <1>4, <1>5, <1>6, <2>2, <2>4 DEF Whole
<1>7. ASSUME NEW l \in 1 .. PageLength(p - 1) - 1, stored[p] = Packed(p - 1, l)
      PROVE  /\ stored[p] \in Seq(Cells) /\ Len(stored[p]) = l /\ Len(stored[p]) < PAGE_SIZE
             /\ stored[p][1].page = p - 1 /\ IsPacked(stored[p])
             /\ Len(stored[p]) \in 1 .. PAGE_SIZE
  <2>1. l \in Nat /\ 1 \in 1 .. l /\ l < PAGE_SIZE /\ l \in 1 .. PAGE_SIZE
    BY <1>1, <1>3, <1>7
  <2>2. /\ stored[p] \in Seq(Cells) /\ Len(stored[p]) = l
        /\ stored[p][1] = Cell("packed", p - 1, 1)
    BY <1>2, <1>7, <2>1, PackedShape
  <2>3. stored[p][1].kind = "packed" /\ stored[p][1].page = p - 1
    BY <1>2, <2>2, CellIn
  <2>4. p \in DOMAIN stored
    BY <1>1, LenProperties DEF TypeOK
  <2>5. IsPacked(stored[p])
    BY <2>3, <2>4 DEF IsPacked
  <2> QED
    BY <2>1, <2>2, <2>3, <2>5
<1>8. CASE \E l \in 1 .. PageLength(p - 1) - 1 : stored[p] = Packed(p - 1, l)
  <2>1. PICK l \in 1 .. PageLength(p - 1) - 1 : stored[p] = Packed(p - 1, l)
    BY <1>8
  <2>2. /\ stored[p] \in Seq(Cells) /\ Len(stored[p]) < PAGE_SIZE
        /\ stored[p][1].page = p - 1 /\ IsPacked(stored[p])
        /\ Len(stored[p]) \in 1 .. PAGE_SIZE
    BY <1>7, <2>1
  <2>3. Len(stored[p]) # PAGE_SIZE
    BY <1>1, <2>2
  <2> QED
    BY <1>2, <1>3, <1>4, <1>5, <1>8, <2>2, <2>3
<1> QED
  BY <1>4, <1>6, <1>8 DEF StoredAt

(* Where the file ends. *)
LEMMA FileEnds ==
    ASSUME Inductive, pc # "open"
    PROVE  /\ Len(ofile) \in Nat /\ DataStart(nr_pages) <= Len(ofile)
           /\ DataStart(nr_pages) = 4 * nr_pages + 4
<1>1. nr_pages \in Nat /\ Len(ofile) \in Nat /\ Len(stored) \in Nat
  BY LenProperties DEF Inductive, TypeOK
<1>2. DataStart(nr_pages) = 4 * nr_pages + 4
  BY <1>1 DEF DataStart
<1>3. CASE stored = <<>>
  BY <1>1, <1>2, <1>3 DEF Inductive, FileSoFar
<1>4. CASE stored # <<>>
  <2>1. Len(stored) \in 1 .. Len(stored)
    BY <1>1, <1>4, EmptySeq DEF Inductive, TypeOK
  <2>2. StoredAt(Len(stored)) /\ Len(stored[Len(stored)]) \in Nat /\ placed[Len(stored)] \in Nat
    BY <2>1, StoredPage
  <2>3. Len(ofile) = placed[Len(stored)] + Len(stored[Len(stored)])
    BY <1>4 DEF Inductive, FileSoFar
  <2>4. placed[Len(stored)] >= DataStart(nr_pages)
    BY <2>2 DEF StoredAt
  <2> QED
    BY <1>1, <1>2, <2>2, <2>3, <2>4
<1> QED
  BY <1>3, <1>4

(* What the index says of a page is its size, and what is read from where  *)
(* it was written is the page.                                             *)
LEMMA PageIsRead ==
    ASSUME Inductive, Unread
    PROVE  /\ i + 1 \in 1 .. Len(stored) /\ Len(stored) = nr_pages
           /\ ilen = Len(stored[i + 1]) /\ ibuf = stored[i + 1]
           /\ ipos = placed[i + 1]
<1>1. pc = "decompress" /\ i < nr_pages
  BY DEF Unread
<1>2. i \in Nat /\ nr_pages \in Nat /\ Len(stored) = nr_pages /\ i + 1 \in 1 .. Len(stored)
      /\ ipos = placed[i + 1]
  BY <1>1 DEF Inductive, TypeOK, FileSoFar, ReadSoFar
<1>3. /\ StoredAt(i + 1) /\ stored[i + 1] \in Seq(Cells) /\ placed[i + 1] \in Nat
  BY <1>1, <1>2, StoredPage
<1>4. Len(stored[i + 1]) \in Nat
  BY <1>3, LenProperties
<1>5. ilen = Len(stored[i + 1])
  <2>1. ofile[(i + 1) * 4 + 1] = Cell("word", 0, Len(stored[i + 1]))
    BY <1>3 DEF StoredAt
  <2> QED
    BY <1>4, <2>1, CellIn DEF ilen
<1>6. /\ placed[i + 1] + Len(stored[i + 1]) <= Len(ofile)
      /\ \A k \in 1 .. Len(stored[i + 1]) : ofile[placed[i + 1] + k] = stored[i + 1][k]
  BY <1>3 DEF StoredAt
<1>7. ofile \in Seq(Cells) /\ Len(ofile) \in Nat
  BY LenProperties DEF Inductive, TypeOK
<1> DEFINE a == placed[i + 1]
           l == Len(stored[i + 1])
<1>8. ibuf = SubSeq(ofile, a + 1, a + l)
  BY <1>2, <1>5 DEF ibuf, ReadAt
<1>9. a \in Nat /\ l \in Nat /\ a + l <= Len(ofile)
  BY <1>3, <1>4, <1>6
<1>10. \A k \in 1 .. l : ofile[a + k] = stored[i + 1][k]
  BY <1>6
<1> HIDE DEF a
<1>11. \A k \in a + 1 .. a + l : ofile[k] \in Cells
  <2> TAKE k \in a + 1 .. a + l
  <2> HIDE DEF l
  <2>1. k \in 1 .. Len(ofile)
    BY <1>7, <1>9
  <2> QED
    BY <1>7, <2>1, ElementOfSeq
<1>12. /\ ibuf \in Seq(Cells) /\ Len(ibuf) = l
       /\ \A k \in 1 .. l : ibuf[k] = ofile[a + k]
  <2> HIDE DEF l
  <2>1. a + 1 \in Int /\ a + l \in Int /\ (a + l) - (a + 1) + 1 = l
    BY <1>9
  <2>2. /\ ibuf \in Seq(Cells) /\ Len(ibuf) = (IF a + 1 <= a + l THEN l ELSE 0)
        /\ \A k \in 1 .. l : ibuf[k] = ofile[a + 1 + k - 1]
    BY <1>8, <1>11, <2>1, SubSeqProperties
  <2>3. \A k \in 1 .. l : a + 1 + k - 1 = a + k
    BY <1>9
  <2> QED
    BY <1>9, <2>2, <2>3
<1>13. ibuf = stored[i + 1]
  BY <1>3, <1>10, <1>12, SeqEqual
<1> QED
  BY <1>2, <1>5, <1>13

-----------------------------------------------------------------------------
(* do_compress: the header, ... *)
LEMMA HeaderWritten ==
    ASSUME Inductive, WriteHeader
    PROVE  Inductive'
<1> DEFINE m == nr_pages'
           f == WriteAt(ofile, 0, Word(m))
<1>1. /\ pc = "open" /\ m = DIV_ROUND_UP(input_length, PAGE_SIZE)
      /\ ofile' = WriteAt(f, m * 4, Word(m)) /\ pc' = "compress"
      /\ UNCHANGED <<input_length, i, stored, placed, ipos, out, got>>
  BY DEF WriteHeader, reader
<1>2. /\ i = 0 /\ ofile = <<>> /\ stored = <<>> /\ placed = <<>> /\ out = <<>>
      /\ ofile \in Seq(Cells) /\ TypeOK
  BY <1>1 DEF Inductive, TypeOK
<1>3. m \in Nat
  <2>1. PAGE_SIZE \in Nat \ {0} /\ input_length \in Nat
    BY <1>2, PageAssumption DEF TypeOK
  <2> QED
    BY <1>1, <2>1, PageCount
<1> HIDE DEF m
<1>4. Word(m) \in Seq(Cells) /\ Len(Word(m)) = 4 /\ \A k \in 1 .. 4 : Word(m)[k] = Cell("word", 0, m)
  BY <1>3, WordShape
<1>5. /\ f \in Seq(Cells) /\ Len(f) = 4
      /\ \A k \in 1 .. 4 : f[k] = Cell("word", 0, m)
  <2>1. Len(ofile) = 0
    BY <1>2
  <2>2. /\ f \in Seq(Cells) /\ Len(f) = IF 0 + Len(Word(m)) > Len(ofile) THEN 0 + Len(Word(m)) ELSE Len(ofile)
        /\ \A k \in 1 .. Len(f) : f[k] = IF k \in 0 + 1 .. 0 + Len(Word(m)) THEN Word(m)[k - 0]
                                         ELSE IF k <= Len(ofile) THEN ofile[k] ELSE Hole
    <3>1. IsWritten(f, ofile, 0, Word(m))
      BY <1>2, <1>4, WriteAtShape DEF f
    <3> QED
      BY <3>1 DEF IsWritten
  <2>3. Len(f) = 4
    BY <1>4, <2>1, <2>2
  <2>4. ASSUME NEW k \in 1 .. 4 PROVE f[k] = Cell("word", 0, m)
    <3>1. k \in 0 + 1 .. 0 + Len(Word(m)) /\ k - 0 = k
      BY <1>4
    <3> QED
      BY <1>4, <2>2, <2>3, <3>1
  <2> QED
    BY <2>2, <2>3, <2>4
<1> HIDE DEF f
<1>6. /\ ofile' \in Seq(Cells) /\ Len(ofile') = DataStart(m) /\ ofile'[1] = Cell("word", 0, m)
  <2>1. m * 4 \in Nat /\ m * 4 + 4 >= 4
    BY <1>3
  <2>2. /\ ofile' \in Seq(Cells)
        /\ Len(ofile') = IF m * 4 + Len(Word(m)) > Len(f) THEN m * 4 + Len(Word(m)) ELSE Len(f)
        /\ \A k \in 1 .. Len(ofile') :
             ofile'[k] = IF k \in m * 4 + 1 .. m * 4 + Len(Word(m)) THEN Word(m)[k - m * 4]
                         ELSE IF k <= Len(f) THEN f[k] ELSE Hole
    <3>1. IsWritten(ofile', f, m * 4, Word(m))
      BY <1>1, <1>4, <1>5, <2>1, WriteAtShape
    <3> QED
      BY <3>1 DEF IsWritten
  <2>3. Len(ofile') = m * 4 + 4
    BY <1>4, <1>5, <2>1, <2>2
  <2>4. 1 \in 1 .. Len(ofile') /\ 1 <= Len(f)
    BY <1>5, <2>1, <2>3
  <2>5. ofile'[1] = Cell("word", 0, m)
    <3>1. CASE 1 \in m * 4 + 1 .. m * 4 + Len(Word(m))
      <4>1. 1 - m * 4 = 1
        BY <1>3, <2>1, <3>1
      <4>2. ofile'[1] = Word(m)[1]
        BY <2>2, <2>4, <3>1, <4>1
      <4> QED
        BY <1>4, <4>2
    <3>2. CASE 1 \notin m * 4 + 1 .. m * 4 + Len(Word(m))
      <4>1. ofile'[1] = f[1]
        BY <2>2, <2>4, <3>2
      <4> QED
        BY <1>5, <4>1
    <3> QED
      BY <3>1, <3>2
  <2>6. DataStart(m) = m * 4 + 4
    BY <1>3 DEF DataStart
  <2> QED
    BY <2>2, <2>3, <2>5, <2>6
<1>7. TypeOK'
  BY <1>1, <1>2, <1>3, <1>6 DEF TypeOK, m
<1>8. FileSoFar'
  <2>1. Len(stored') = 0 /\ Len(placed') = 0 /\ i' = 0 /\ stored' = <<>>
    BY <1>1, <1>2
  <2> QED
    BY <1>1, <1>6, <2>1 DEF FileSoFar, m
<1>9. i' <= nr_pages'
  BY <1>1, <1>2, <1>3 DEF m
<1> QED
  BY <1>1, <1>2, <1>7, <1>8, <1>9 DEF Inductive, ReadSoFar

(* ... a page, ... *)
LEMMA PageStored ==
    ASSUME Inductive, StorePage
    PROVE  Inductive'
<1>1. /\ pc = "compress" /\ i < nr_pages
      /\ UNCHANGED <<input_length, pc, nr_pages, ipos, out, got>>
  BY DEF StorePage, reader
<1>2. /\ TypeOK /\ i \in Nat /\ nr_pages \in Nat /\ nr_pages = DIV_ROUND_UP(input_length, PAGE_SIZE)
      /\ Len(stored) = i /\ Len(placed) = i /\ ofile \in Seq(Cells) /\ PAGE_SIZE \in Nat \ {0}
      /\ stored \in Seq(Seq(Cells)) /\ placed \in Seq(Nat)
      /\ ofile[1] = Cell("word", 0, nr_pages)
      /\ Len(ofile) = IF stored = <<>> THEN DataStart(nr_pages)
                        ELSE placed[Len(stored)] + Len(stored[Len(stored)])
  BY <1>1, PageAssumption DEF Inductive, TypeOK, FileSoFar
<1>3. PageLength(i) \in 1 .. PAGE_SIZE
  BY <1>1, <1>2, PageFacts
<1>4. PICK cells : /\ Store(cells)
                   /\ \/ cells = Raw(i, PageLength(i))
                      \/ \E l \in 1 .. PageLength(i) - 1 : cells = Packed(i, l)
  <2>1. PICK olen \in 1 .. 2 * PAGE_SIZE :
         IF NoSmaller(olen, PageLength(i))
           THEN Store(Raw(i, PageLength(i)))
           ELSE Store(Packed(i, olen))
    BY DEF StorePage
  <2>2. CASE NoSmaller(olen, PageLength(i))
    BY <2>1, <2>2
  <2>3. CASE ~NoSmaller(olen, PageLength(i))
    <3>1. olen \in 1 .. PageLength(i) - 1
      BY <1>2, <1>3, <2>3 DEF NoSmaller
    <3> QED
      BY <2>1, <2>3, <3>1
  <2> QED
    BY <2>2, <2>3
<1>5. cells \in Seq(Cells) /\ Len(cells) \in Nat
  <2>1. PageLength(i) \in Nat
    BY <1>2, <1>3
  <2>2. ASSUME NEW l \in 1 .. PageLength(i) - 1, cells = Packed(i, l) PROVE cells \in Seq(Cells)
    <3>1. l \in Nat
      BY <2>1
    <3> QED
      BY <1>2, <2>2, <3>1, PackedShape
  <2>3. cells = Raw(i, PageLength(i)) => cells \in Seq(Cells)
    BY <1>2, <2>1, RawShape
  <2>4. cells \in Seq(Cells)
    BY <1>4, <2>2, <2>3
  <2> QED
    BY <2>4, LenProperties
<1> DEFINE f == WriteAt(ofile, (i + 1) * 4, Word(Len(cells)))
           w == Word(Len(cells))
           a == (i + 1) * 4
           z == Len(ofile)
<1>6. /\ ofile' = WriteAt(f, Len(f), cells)
      /\ stored' = Append(stored, cells) /\ placed' = Append(placed, Len(f)) /\ i' = i + 1
  BY <1>4 DEF Store
<1>7. z \in Nat /\ 4 * nr_pages + 4 <= z /\ DataStart(nr_pages) = 4 * nr_pages + 4
  BY <1>1, FileEnds
<1>8. a \in Nat /\ a + 4 <= z /\ a + 4 <= DataStart(nr_pages) /\ a >= 4
  <2>1. i \in Nat /\ i + 1 <= nr_pages /\ nr_pages \in Nat /\ a = 4 * i + 4
    BY <1>1, <1>2
  <2> HIDE DEF a, z
  <2> QED
    BY <1>7, <2>1
<1>9. w \in Seq(Cells) /\ Len(w) = 4 /\ \A k \in 1 .. 4 : w[k] = Cell("word", 0, Len(cells))
  BY <1>5, WordShape
(* The index: the file is no longer than before. *)
<1>10. /\ f \in Seq(Cells) /\ Len(f) = z
       /\ \A k \in 1 .. z : k \in a + 1 .. a + 4 => f[k] = Cell("word", 0, Len(cells))
       /\ \A k \in 1 .. z : k \notin a + 1 .. a + 4 => f[k] = ofile[k]
  <2> HIDE DEF a, w, z
  <2>1. f = WriteAt(ofile, a, w)
    BY DEF a, w
  <2> HIDE DEF f
  <2>2. /\ f \in Seq(Cells)
        /\ Len(f) = IF a + Len(w) > Len(ofile) THEN a + Len(w) ELSE Len(ofile)
        /\ \A k \in 1 .. Len(f) : f[k] = IF k \in a + 1 .. a + Len(w) THEN w[k - a]
                                         ELSE IF k <= Len(ofile) THEN ofile[k] ELSE Hole
    <3>1. IsWritten(f, ofile, a, w)
      BY <1>2, <1>8, <1>9, <2>1, WriteAtShape
    <3> QED
      BY <3>1 DEF IsWritten
  <2>3. Len(f) = z
    BY <1>7, <1>8, <1>9, <2>2 DEF z
  <2>4. ASSUME NEW k \in 1 .. z, k \in a + 1 .. a + 4 PROVE f[k] = Cell("word", 0, Len(cells))
    <3>1. k - a \in 1 .. 4
      BY <1>8, <2>4
    <3>2. f[k] = w[k - a]
      BY <1>9, <2>2, <2>3, <2>4
    <3> QED
      BY <1>9, <3>1, <3>2
  <2>5. ASSUME NEW k \in 1 .. z, k \notin a + 1 .. a + 4 PROVE f[k] = ofile[k]
    <3>1. k <= Len(ofile)
      BY <1>7, <2>5 DEF z
    <3> QED
      BY <1>9, <2>2, <2>3, <2>5, <3>1
  <2> QED
    BY <2>2, <2>3, <2>4, <2>5
<1> HIDE DEF f, w, z
(* The page. *)
<1>11. /\ ofile' \in Seq(Cells) /\ Len(ofile') = z + Len(cells)
       /\ \A k \in 1 .. z : ofile'[k] = f[k]
       /\ \A k \in 1 .. Len(cells) : ofile'[z + k] = cells[k]
  <2>1. /\ ofile' \in Seq(Cells)
        /\ Len(ofile') = IF z + Len(cells) > z THEN z + Len(cells) ELSE z
        /\ \A k \in 1 .. Len(ofile') : ofile'[k] = IF k \in z + 1 .. z + Len(cells) THEN cells[k - z]
                                         ELSE IF k <= z THEN f[k] ELSE Hole
    <3>1. IsWritten(ofile', f, z, cells)
      BY <1>5, <1>6, <1>7, <1>10, WriteAtShape
    <3> QED
      BY <1>10, <3>1 DEF IsWritten
  <2>2. Len(ofile') = z + Len(cells)
    BY <1>5, <1>7, <2>1
  <2>3. ASSUME NEW k \in 1 .. z PROVE ofile'[k] = f[k]
    <3>1. k \in 1 .. Len(ofile') /\ k \notin z + 1 .. z + Len(cells) /\ k <= z
      BY <1>5, <1>7, <2>2
    <3> QED
      BY <2>1, <3>1
  <2>4. ASSUME NEW k \in 1 .. Len(cells) PROVE ofile'[z + k] = cells[k]
    <3>1. z + k \in 1 .. Len(ofile') /\ z + k \in z + 1 .. z + Len(cells) /\ (z + k) - z = k
      BY <1>5, <1>7, <2>2
    <3> QED
      BY <2>1, <3>1
  <2> QED
    BY <2>1, <2>2, <2>3, <2>4
<1>12. /\ stored' \in Seq(Seq(Cells)) /\ Len(stored') = i + 1 /\ stored'[i + 1] = cells
       /\ \A p \in 1 .. i : stored'[p] = stored[p]
       /\ stored' # <<>>
  <2>1. stored' = Append(stored, cells) /\ cells \in Seq(Cells)
    BY <1>5, <1>6
  <2>2. stored \in Seq(Seq(Cells)) /\ Len(stored) = i
    BY <1>2
  <2> QED
    BY <2>1, <2>2, AppendProperties
<1>13. /\ placed' \in Seq(Nat) /\ Len(placed') = i + 1 /\ placed'[i + 1] = z
       /\ \A p \in 1 .. i : placed'[p] = placed[p]
  <2>1. placed' = Append(placed, z) /\ z \in Nat
    BY <1>6, <1>7, <1>10
  <2>2. placed \in Seq(Nat) /\ Len(placed) = i
    BY <1>2
  <2> QED
    BY <2>1, <2>2, AppendProperties
<1>14. TypeOK'
  BY <1>1, <1>2, <1>6, <1>11, <1>12, <1>13 DEF TypeOK
<1>15. \A p \in Int : PageLength(p)' = PageLength(p)
  BY <1>1 DEF PageLength
(* q names the page: a constant, where i changes. *)
<1>q. PICK q \in Nat : q = i + 1
  BY <1>2
<1>16. StoredAt(q)'
  <2>1. q - 1 = i /\ q * 4 + 1 \in 1 .. z /\ q * 4 + 1 \in a + 1 .. a + 4
    BY <1>2, <1>7, <1>8, <1>q DEF a
  <2>2. ofile'[q * 4 + 1] = Cell("word", 0, Len(cells))
    BY <1>10, <1>11, <2>1
  <2>3. placed'[q] = IF q = 1 THEN DataStart(nr_pages)
                     ELSE placed'[q - 1] + Len(stored'[q - 1])
    <3>1. CASE i = 0
      <4>1. stored = <<>>
        BY <1>2, <3>1, EmptySeq
      <4> QED
        BY <1>2, <1>13, <1>q, <3>1, <4>1 DEF z
    <3>2. CASE i # 0
      <4>1. stored # <<>> /\ i \in 1 .. i /\ q # 1
        BY <1>2, <1>q, <3>2
      <4>2. z = placed[i] + Len(stored[i])
        BY <1>2, <4>1 DEF z
      <4> QED
        BY <1>12, <1>13, <1>q, <2>1, <4>1, <4>2
    <3> QED
      BY <3>1, <3>2
  <2>4. placed'[q] >= DataStart(nr_pages) /\ placed'[q] + Len(cells) <= Len(ofile')
    BY <1>5, <1>7, <1>11, <1>13, <1>q
  <2>5. \A k \in 1 .. Len(cells) : ofile'[placed'[q] + k] = cells[k]
    BY <1>11, <1>13, <1>q
  <2>6. \/ cells = Raw(q - 1, PageLength(q - 1)')
        \/ \E l \in 1 .. PageLength(q - 1)' - 1 : cells = Packed(q - 1, l)
    <3>1. PageLength(q - 1)' = PageLength(i)
      BY <1>2, <1>15, <2>1
    <3> QED
      BY <1>4, <2>1, <3>1
  <2>7. stored'[q] = cells /\ DataStart(nr_pages)' = DataStart(nr_pages)
    BY <1>1, <1>12, <1>q DEF DataStart
  <2> QED
    BY <2>2, <2>3, <2>4, <2>5, <2>6, <2>7 DEF StoredAt
<1>17. ASSUME NEW p \in 1 .. i PROVE StoredAt(p)'
  <2>1. StoredAt(p) /\ Len(stored[p]) \in Nat /\ placed[p] \in Nat /\ p - 1 \in Int
    BY <1>1, <1>2, <1>17, StoredPage
  <2>2. stored'[p] = stored[p] /\ placed'[p] = placed[p] /\ DataStart(nr_pages)' = DataStart(nr_pages)
    BY <1>1, <1>12, <1>13 DEF DataStart
  <2>3. p # 1 => stored'[p - 1] = stored[p - 1] /\ placed'[p - 1] = placed[p - 1]
    <3>1. p # 1 => p - 1 \in 1 .. i
      BY <1>2
    <3> QED
      BY <1>12, <1>13, <3>1
  <2>4. placed[p] + Len(stored[p]) <= z /\ placed[p] >= DataStart(nr_pages)
    BY <2>1 DEF StoredAt, z
  <2>5. placed[p] + Len(stored[p]) <= Len(ofile')
    BY <1>5, <1>7, <1>11, <2>1, <2>4
  <2>6. ASSUME NEW k \in 1 .. Len(stored[p]) PROVE ofile'[placed[p] + k] = stored[p][k]
    <3>1. placed[p] + k \in 1 .. z /\ placed[p] + k \notin a + 1 .. a + 4
      <4> HIDE DEF a
      <4>1. k \in Nat /\ 1 <= k /\ k <= Len(stored[p])
        BY <2>1
      <4>2. placed[p] >= a + 4
        <5>1. DataStart(nr_pages) \in Nat
          <6>1. nr_pages \in Nat
            BY <1>2
          <6> QED
            BY <6>1 DEF DataStart
        <5> QED
          BY <1>8, <2>1, <2>4, <5>1
      <4> QED
        BY <1>7, <1>8, <2>1, <2>4, <4>1, <4>2
    <3>2. ofile[placed[p] + k] = stored[p][k]
      BY <2>1 DEF StoredAt
    <3> QED
      BY <1>10, <1>11, <3>1, <3>2
  <2>7. ofile'[p * 4 + 1] = Cell("word", 0, Len(stored[p]))
    <3>1. p * 4 + 1 \in 1 .. z /\ p * 4 + 1 \notin a + 1 .. a + 4
      BY <1>2, <1>7, <1>8 DEF a
    <3>2. ofile[p * 4 + 1] = Cell("word", 0, Len(stored[p]))
      BY <2>1 DEF StoredAt
    <3> QED
      BY <1>10, <1>11, <3>1, <3>2
  <2> QED
    BY <1>1, <1>15, <2>1, <2>2, <2>3, <2>4, <2>5, <2>6, <2>7 DEF StoredAt
<1>18. FileSoFar'
  <2>1. \A p \in 1 .. Len(stored') : StoredAt(p)'
    <3> TAKE p \in 1 .. Len(stored')
    <3>1. p \in 1 .. i \/ p = q
      BY <1>2, <1>12, <1>q
    <3>2. CASE p \in 1 .. i
      BY <1>17, <3>2
    <3>3. CASE p = q
      BY <1>16, <3>3
    <3> QED
      BY <3>1, <3>2, <3>3
  <2>2. ofile'[1] = Cell("word", 0, nr_pages)
    <3>1. 1 \in 1 .. z /\ 1 \notin a + 1 .. a + 4
      BY <1>7, <1>8
    <3> QED
      BY <1>2, <1>10, <1>11, <3>1
  <2>3. Len(ofile') = placed'[Len(stored')] + Len(stored'[Len(stored')])
    BY <1>11, <1>12, <1>13
  <2>4. (nr_pages = DIV_ROUND_UP(input_length, PAGE_SIZE))'
    BY <1>1, <1>2 DEF DIV_ROUND_UP
  <2> QED
    BY <1>1, <1>6, <1>12, <1>13, <2>1, <2>2, <2>3, <2>4 DEF FileSoFar
<1>19. i' <= nr_pages'
  BY <1>1, <1>2, <1>6
<1> QED
  BY <1>1, <1>14, <1>18, <1>19 DEF Inductive, ReadSoFar

(* Where the file does not change, it stays what is said of it. *)
LEMMA StoredStays ==
    ASSUME UNCHANGED <<input_length, nr_pages, ofile, stored, placed>>, NEW p
    PROVE  StoredAt(p) => StoredAt(p)'
<1>1. PageLength(p - 1)' = PageLength(p - 1) /\ DataStart(nr_pages)' = DataStart(nr_pages)
  BY DEF PageLength, DataStart
<1> QED
  BY <1>1 DEF StoredAt

LEMMA FileStays ==
    ASSUME FileSoFar, pc # "open", pc = "compress" => i = nr_pages,
           pc' # "open", pc' # "compress",
           UNCHANGED <<input_length, nr_pages, ofile, stored, placed>>
    PROVE  FileSoFar'
<1>1. \A p \in 1 .. Len(stored) : StoredAt(p)'
  BY StoredStays DEF FileSoFar
<1>2. DataStart(nr_pages)' = DataStart(nr_pages)
  BY DEF DataStart
<1>3. DIV_ROUND_UP(input_length, PAGE_SIZE)' = DIV_ROUND_UP(input_length, PAGE_SIZE)
  BY DEF DIV_ROUND_UP
<1> QED
  BY <1>1, <1>2, <1>3 DEF FileSoFar

(* ... and its return. *)
LEMMA FileWritten ==
    ASSUME Inductive, CompressDone
    PROVE  Inductive'
<1>1. /\ pc = "compress" /\ i = nr_pages /\ pc' = "written"
      /\ UNCHANGED <<input_length, i, nr_pages, ofile, stored, placed, ipos, out, got>>
  BY DEF CompressDone, reader
<1>2. TypeOK'
  BY <1>1 DEF Inductive, TypeOK
<1>3. FileSoFar'
  BY <1>1, FileStays DEF Inductive
<1> QED
  BY <1>1, <1>2, <1>3 DEF Inductive, ReadSoFar

-----------------------------------------------------------------------------
(* do_decompress. *)
LEMMA NoPages ==
    ASSUME TypeOK
    PROVE  Pages(0) = <<>>
<1>1. Len(Pages(0)) = 0 /\ Pages(0) \in Seq(Cells)
  <2>1. 0 \in Nat /\ 0 * PAGE_SIZE = 0 /\ 0 <= input_length
    BY PageAssumption DEF TypeOK
  <2> QED
    BY <2>1, PagesShape
<1> QED
  BY <1>1, EmptySeq

(* The number of pages is read as it was written. *)
LEMMA HeaderRead ==
    ASSUME Inductive, ReadHeader
    PROVE  Inductive'
<1>1. /\ pc = "written" /\ nr_pages' = ofile[1].n /\ ipos' = DataStart(nr_pages')
      /\ i' = 0 /\ pc' = "decompress"
      /\ UNCHANGED <<input_length, ofile, stored, placed, out, got>>
  BY DEF ReadHeader
<1>2. /\ TypeOK /\ nr_pages \in Nat /\ Len(stored) = nr_pages /\ FileSoFar /\ out = <<>>
      /\ ofile[1] = Cell("word", 0, nr_pages)
  BY <1>1 DEF Inductive, TypeOK, FileSoFar
<1>3. nr_pages' = nr_pages
  <2>1. Cell("word", 0, nr_pages).n = nr_pages
    BY <1>2, CellIn
  <2> QED
    BY <1>1, <1>2, <2>1
<1>4. ipos' \in Nat /\ ipos' = DataStart(nr_pages)
  <2>1. DataStart(nr_pages) \in Nat
    BY <1>2 DEF DataStart
  <2> QED
    BY <1>1, <1>3, <2>1
<1>5. TypeOK'
  BY <1>1, <1>2, <1>3, <1>4 DEF TypeOK
<1>6. FileSoFar'
  BY <1>1, <1>2, <1>3, FileStays
<1>7. 0 < nr_pages => ipos' = placed[1]
  <2> SUFFICES ASSUME 0 < nr_pages PROVE ipos' = placed[1]
    OBVIOUS
  <2>1. StoredAt(1)
    BY <1>1, <1>2 DEF FileSoFar
  <2> QED
    BY <1>4, <2>1 DEF StoredAt
<1>8. out' = Pages(0)'
  <2>1. Pages(0) = <<>> /\ Pages(0)' = Pages(0)
    BY <1>1, <1>2, NoPages DEF Pages
  <2> QED
    BY <1>1, <1>2, <2>1
<1>9. ReadSoFar'
  <2>1. i' = 0 /\ i' + 1 = 1 /\ Pages(i)' = Pages(0)'
    BY <1>1
  <2> QED
    BY <1>1, <1>3, <1>7, <1>8, <2>1 DEF ReadSoFar
<1> QED
  BY <1>1, <1>2, <1>3, <1>5, <1>6, <1>9 DEF Inductive

(* A page is read and something written for it. *)
LEMMA PageRead ==
    ASSUME Inductive, Unread, NEW cells \in Seq(Cells), PutPage(cells),
           IsPacked(ibuf) \/ PageLength(i) = PAGE_SIZE => cells = Whole(i)
    PROVE  Inductive'
<1>1. /\ pc = "decompress" /\ i < nr_pages
      /\ out' = out \o cells /\ got' = ibuf /\ ipos' = ipos + ilen /\ i' = i + 1
      /\ UNCHANGED <<input_length, pc, nr_pages, ofile, stored, placed>>
  BY DEF Unread, PutPage
<1>2. /\ TypeOK /\ FileSoFar /\ ReadSoFar /\ i \in Nat /\ nr_pages \in Nat /\ ipos \in Nat
      /\ nr_pages = DIV_ROUND_UP(input_length, PAGE_SIZE) /\ out \in Seq(Cells)
  BY <1>1 DEF Inductive, TypeOK, FileSoFar
<1>3. /\ i + 1 \in 1 .. Len(stored) /\ Len(stored) = nr_pages
      /\ ilen = Len(stored[i + 1]) /\ ibuf = stored[i + 1] /\ ipos = placed[i + 1]
  BY PageIsRead
<1>4. StoredAt(i + 1) /\ stored[i + 1] \in Seq(Cells) /\ Len(stored[i + 1]) \in Nat
  BY <1>1, <1>3, StoredPage
<1>5. out' \in Seq(Cells) /\ ipos' \in Nat /\ got' \in Seq(Cells)
  BY <1>1, <1>2, <1>3, <1>4, ConcatProperties
<1>6. TypeOK'
  BY <1>1, <1>2, <1>5 DEF TypeOK
<1>7. FileSoFar'
  BY <1>1, <1>2, FileStays
<1>8. i + 1 < nr_pages => ipos' = placed[(i + 1) + 1]
  <2> SUFFICES ASSUME i + 1 < nr_pages PROVE ipos' = placed[(i + 1) + 1]
    OBVIOUS
  <2>1. (i + 1) + 1 \in 1 .. Len(stored) /\ (i + 1) + 1 # 1 /\ ((i + 1) + 1) - 1 = i + 1
    BY <1>2, <1>3
  <2>2. StoredAt((i + 1) + 1)
    BY <1>1, <1>2, <2>1 DEF FileSoFar
  <2> QED
    BY <1>1, <1>3, <2>1, <2>2 DEF StoredAt
(* All pages before it are in their place. *)
<1>9. out = Pages(i)
  <2>1. CASE i = 0
    BY <1>1, <1>2, <2>1 DEF ReadSoFar
  <2>2. CASE i # 0
    <3>1. i - 1 \in Nat /\ i - 1 < nr_pages /\ (i - 1) + 1 < nr_pages
      BY <1>1, <1>2, <2>2
    <3>2. PageLength(i - 1) = PAGE_SIZE
      BY <1>2, <3>1, PageFacts
    <3> QED
      BY <1>1, <1>2, <3>2 DEF ReadSoFar
  <2> QED
    BY <2>1, <2>2
<1>10. cells = Whole(i) => out' = Pages(i + 1)
  BY <1>1, <1>2, <1>9, PagesNext
<1>11. ReadSoFar'
  <2>1. i' = i + 1 /\ (i + 1) - 1 = i
    BY <1>1, <1>2
  <2>2. IsPacked(stored[i])' => IsPacked(ibuf)
    BY <1>1, <1>3 DEF IsPacked
  <2>3. PageLength(i - 1)' = PageLength(i)
    BY <1>1, <2>1 DEF PageLength
  <2>4. Pages(i)' = Pages(i + 1)
    BY <1>1 DEF Pages
  <2>5. (i = 0 \/ PageLength(i - 1) = PAGE_SIZE \/ IsPacked(stored[i]))' => out' = Pages(i)'
    <3>1. i' # 0
      BY <1>2, <2>1
    <3> QED
      BY <1>10, <2>2, <2>3, <2>4, <3>1
  <2>6. got' = stored[i]'
    BY <1>1, <1>3
  <2>7. (i < nr_pages)' => ipos' = placed[i + 1]'
    BY <1>1, <1>8
  <2> QED
    BY <2>5, <2>6, <2>7 DEF ReadSoFar
<1>12. i' <= nr_pages'
  BY <1>1, <1>2
<1> QED
  BY <1>1, <1>6, <1>7, <1>11, <1>12 DEF Inductive

(* Two branches of the loop write the page itself, ... *)
LEMMA CopyRawStep ==
    ASSUME Inductive, CopyRaw
    PROVE  Inductive'
<1>1. Unread /\ ilen = PAGE_SIZE /\ PutPage(ibuf)
  BY DEF CopyRaw
<1>2. /\ i + 1 \in 1 .. Len(stored) /\ ilen = Len(stored[i + 1]) /\ ibuf = stored[i + 1]
      /\ i \in Nat /\ (i + 1) - 1 = i /\ pc # "open"
  BY <1>1, PageIsRead DEF Inductive, TypeOK, Unread
<1>3. ibuf = Whole(i) /\ ibuf \in Seq(Cells)
  BY <1>1, <1>2, StoredPage
<1> QED
  BY <1>1, <1>3, PageRead

LEMMA UnpackStep ==
    ASSUME Inductive, Unpack
    PROVE  Inductive'
<1>1. Unread /\ IsPacked(ibuf) /\ PutPage(Whole(ibuf[1].page))
  BY DEF Unpack
<1>2. /\ i + 1 \in 1 .. Len(stored) /\ ibuf = stored[i + 1] /\ PAGE_SIZE \in Nat
      /\ i \in Nat /\ (i + 1) - 1 = i /\ pc # "open"
  BY <1>1, PageIsRead, PageAssumption DEF Inductive, TypeOK, Unread
<1>3. ibuf[1].page = i /\ PageLength(i) \in 1 .. PAGE_SIZE
  BY <1>1, <1>2, StoredPage
<1>4. PageLength(i) \in Nat
  BY <1>2, <1>3
<1>5. Whole(i) \in Seq(Cells)
  BY <1>2, <1>4, RawShape DEF Whole
<1> QED
  BY <1>1, <1>3, <1>5, PageRead

(* ... and what was not packed is the last page, and shorter than a page.  *)
LEMMA ShortRawPage ==
    ASSUME Inductive, Unread, ilen # PAGE_SIZE, ~IsPacked(ibuf)
    PROVE  ibuf = Whole(i) /\ PageLength(i) # PAGE_SIZE
<1>1. /\ i + 1 \in 1 .. Len(stored) /\ ibuf = stored[i + 1] /\ ilen = Len(stored[i + 1])
      /\ i \in Nat /\ (i + 1) - 1 = i /\ PAGE_SIZE \in Nat /\ pc # "open"
  BY PageIsRead, PageAssumption DEF Inductive, TypeOK, Unread
<1>2. ibuf = Whole(i) /\ PageLength(i) \in 1 .. PAGE_SIZE
  BY <1>1, StoredPage
<1>3. PageLength(i) \in Nat
  BY <1>1, <1>2
<1>4. Len(Whole(i)) = PageLength(i)
  BY <1>1, <1>3, RawShape DEF Whole
<1> QED
  BY <1>1, <1>2, <1>4

LEMMA UnpackOtherStep ==
    ASSUME Inductive, UnpackOther
    PROVE  Inductive'
<1>1. Unread /\ ilen # PAGE_SIZE /\ ~IsPacked(ibuf)
  BY DEF UnpackOther
<1>2. PICK l \in 0 .. PAGE_SIZE : PutPage([k \in 1 .. l |-> Hole])
  BY DEF UnpackOther
<1> DEFINE cells == [k \in 1 .. l |-> Hole]
<1>3. cells \in Seq(Cells)
  <2>1. Hole \in Cells /\ l \in Nat
    BY PageAssumption, CellIn DEF Hole
  <2> QED
    BY <2>1
<1>4. ~IsPacked(ibuf) /\ PageLength(i) # PAGE_SIZE
  BY <1>1, ShortRawPage
<1> HIDE DEF cells
<1>5. PutPage(cells)
  BY <1>2 DEF cells
<1> QED
  BY <1>1, <1>3, <1>4, <1>5, PageRead

LEMMA UnpackFailsStep ==
    ASSUME Inductive, UnpackFails
    PROVE  Inductive'
<1>1. /\ Unread /\ pc = "decompress" /\ pc' = "failed" /\ got' = ibuf
      /\ UNCHANGED <<input_length, i, nr_pages, ofile, stored, placed, ipos, out>>
  BY DEF UnpackFails, Unread
<1>2. i + 1 \in 1 .. Len(stored) /\ ibuf = stored[i + 1] /\ pc # "open"
  BY <1>1, PageIsRead
<1>3. ibuf \in Seq(Cells)
  BY <1>2, StoredPage
<1>4. TypeOK'
  BY <1>1, <1>3 DEF Inductive, TypeOK
<1>5. FileSoFar'
  BY <1>1, FileStays DEF Inductive
<1> QED
  BY <1>1, <1>4, <1>5 DEF Inductive, ReadSoFar

(* The end of the file, and of the process. *)
LEMMA DoneStep ==
    ASSUME Inductive, DecompressDone \/ UNCHANGED bvars
    PROVE  Inductive'
<1>1. CASE DecompressDone
  <2>1. /\ pc = "decompress" /\ pc' = "done"
        /\ UNCHANGED <<input_length, i, nr_pages, ofile, stored, placed, ipos, out, got>>
    BY <1>1 DEF DecompressDone
  <2>2. TypeOK'
    BY <2>1 DEF Inductive, TypeOK
  <2>3. FileSoFar'
    BY <2>1, FileStays DEF Inductive
  <2>4. ReadSoFar'
    BY <2>1 DEF Inductive, ReadSoFar, PageLength, IsPacked, Pages
  <2> QED
    BY <2>1, <2>2, <2>3, <2>4 DEF Inductive
<1>2. CASE UNCHANGED bvars
  BY <1>2 DEF bvars, Inductive, TypeOK, FileSoFar, ReadSoFar, StoredAt, PageLength,
              DataStart, IsPacked, Pages
<1> QED
  BY <1>1, <1>2

LEMMA InitInductive ==
    ASSUME Init
    PROVE  Inductive
<1>1. TypeOK
  BY DEF Init, TypeOK
<1> QED
  BY <1>1 DEF Init, Inductive, FileSoFar, ReadSoFar

(* Whatever the compressor makes of the pages, the file holds them one     *)
(* behind the other, the index says how long they are, and what has been   *)
(* written of it so far is the file as long as every page was full or      *)
(* packed (do_compress and do_decompress).                                 *)
THEOREM InductiveInvariant == Spec => []Inductive
<1>1. Init => Inductive
  BY InitInductive
<1>2. Inductive /\ [Next \/ Exited]_bvars => Inductive'
  <2> SUFFICES ASSUME Inductive, [Next \/ Exited]_bvars PROVE Inductive'
    OBVIOUS
  <2>1. CASE WriteHeader
    BY <2>1, HeaderWritten
  <2>2. CASE StorePage
    BY <2>2, PageStored
  <2>3. CASE CompressDone
    BY <2>3, FileWritten
  <2>4. CASE ReadHeader
    BY <2>4, HeaderRead
  <2>5. CASE CopyRaw
    BY <2>5, CopyRawStep
  <2>6. CASE Unpack
    BY <2>6, UnpackStep
  <2>7. CASE UnpackOther
    BY <2>7, UnpackOtherStep
  <2>8. CASE UnpackFails
    BY <2>8, UnpackFailsStep
  <2>9. CASE DecompressDone
    BY <2>9, DoneStep
  <2>10. CASE UNCHANGED bvars
    BY <2>10, DoneStep
  <2> QED
    BY <2>1, <2>2, <2>3, <2>4, <2>5, <2>6, <2>7, <2>8, <2>9, <2>10 DEF Next, Exited
<1> QED
  BY <1>1, <1>2, PTL DEF Spec

(* do_decompress reads for every page exactly what do_compress stored for  *)
(* it, for every size of a page and of the file and however the pages      *)
(* pack (lines 366-375).                                                   *)
THEOREM OwnPageRead == Spec => []ReadsOwnPage
<1>1. Inductive => ReadsOwnPage
  BY DEF Inductive, ReadSoFar, ReadsOwnPage
<1> QED
  BY <1>1, InductiveInvariant, PTL

(* Every page of PAGE_SIZE bytes, and a packed last page, comes back in    *)
(* its place behind all the pages before it.                               *)
THEOREM FullPagesRestored == Spec => []RestoresFullPages
<1>1. Inductive => RestoresFullPages
  BY DEF Inductive, ReadSoFar, RestoresFullPages
<1> QED
  BY <1>1, InductiveInvariant, PTL
============================================================================
