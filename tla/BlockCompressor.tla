-------------------------- MODULE BlockCompressor --------------------------
(***************************************************************************)
(* The page-by-page container of block_compressor.c: do_compress writes    *)
(* the number of pages, an index of their sizes and then the pages, each   *)
(* packed or as it is; do_decompress reads the file back.  The compressor  *)
(* that is chosen on the command line is a pair of functions of which is   *)
(* used that the one undoes the other: packing a page yields some number   *)
(* of bytes, unpacking anything else than a packed page may fail or yield  *)
(* anything that fits.  The pair snappy_compress and snappy_decompress     *)
(* calls the functions of CompressFragment and DecompressNoheader, whose   *)
(* refinements of SnappyStream and StreamDecoder say so; those for lzo and *)
(* zlib are external.                                                      *)
(*                                                                         *)
(* A file is a sequence of cells, one per byte.  The four bytes of a word  *)
(* are four equal cells.                                                   *)
(***************************************************************************)
EXTENDS Integers, Sequences

CONSTANTS PAGE_SIZE,
          MaxLength      \* of the file to be compressed, bounds the run

ASSUME PageAssumption == PAGE_SIZE \in Nat \ {0} /\ MaxLength \in Nat

VARIABLES
    input_length,
    pc, i, nr_pages,
    ofile,               \* what do_compress writes and do_decompress reads
    stored, placed,      \* ghosts: the cells written for each page, and where
    ipos, out,           \* do_decompress: as in the code, what it has written
    got                  \* ghost: the cells read for the page

bvars == <<input_length, pc, i, nr_pages, ofile, stored, placed, ipos, out, got>>

-----------------------------------------------------------------------------
Cell(kind, page, n) == [kind |-> kind, page |-> page, n |-> n]

Word(n)       == [k \in 1 .. 4 |-> Cell("word", 0, n)]
Raw(p, l)     == [k \in 1 .. l |-> Cell("raw", p, k)]
Packed(p, l)  == [k \in 1 .. l |-> Cell("packed", p, k)]
Hole          == Cell("word", 0, 0)

(* fseek to offset `at' and fwrite: past the end the file grows. *)
WriteAt(f, at, s) ==
    [k \in 1 .. (IF at + Len(s) > Len(f) THEN at + Len(s) ELSE Len(f)) |->
        IF k \in at + 1 .. at + Len(s) THEN s[k - at]
        ELSE IF k <= Len(f) THEN f[k] ELSE Hole]

ReadAt(f, at, n) == SubSeq(f, at + 1, at + n)

DIV_ROUND_UP(n, d) == (n + d - 1) \div d

(* What fread returns for page p. *)
PageLength(p) == IF (p + 1) * PAGE_SIZE <= input_length THEN PAGE_SIZE
                 ELSE input_length - p * PAGE_SIZE

-----------------------------------------------------------------------------
Init == /\ input_length \in 0 .. MaxLength
        /\ pc = "open" /\ i = 0 /\ nr_pages = 0 /\ ofile = <<>>
        /\ stored = <<>> /\ placed = <<>>
        /\ ipos = 0 /\ out = <<>> /\ got = <<>>

reader == <<ipos, out, got>>

(* The number of pages, and a word at the end of the index: the file now   *)
(* ends where the first page goes.                                         *)
WriteHeader ==
    /\ pc = "open"
    /\ nr_pages' = DIV_ROUND_UP(input_length, PAGE_SIZE)
    /\ ofile' = WriteAt(WriteAt(ofile, 0, Word(nr_pages')), nr_pages' * 4, Word(nr_pages'))
    /\ pc' = "compress"
    /\ UNCHANGED <<input_length, i, stored, placed, reader>>

(* Mutant: a page that packs into its own size is stored packed.           *)
NoSmaller_Equal(olen, ilen) == olen > ilen

NoSmaller(olen, ilen) == olen >= ilen

(* The size is written into the index, the page at the end of the file. *)
Store(cells) ==
    LET indexed == WriteAt(ofile, (i + 1) * 4, Word(Len(cells)))
    IN  /\ ofile' = WriteAt(indexed, Len(indexed), cells)
        /\ stored' = Append(stored, cells) /\ placed' = Append(placed, Len(indexed))
        /\ i' = i + 1

StorePage ==
    /\ pc = "compress" /\ i < nr_pages
    /\ \E olen \in 1 .. 2 * PAGE_SIZE :
         IF NoSmaller(olen, PageLength(i))
           THEN Store(Raw(i, PageLength(i)))
           ELSE Store(Packed(i, olen))
    /\ UNCHANGED <<input_length, pc, nr_pages, reader>>

CompressDone ==
    /\ pc = "compress" /\ i = nr_pages
    /\ pc' = "written"
    /\ UNCHANGED <<input_length, i, nr_pages, ofile, stored, placed, reader>>

-----------------------------------------------------------------------------
(* Mutant: the pages are looked for where the index ends without its head. *)
DataStart_NoHead(pages) == pages * 4

DataStart(pages) == (pages + 1) * 4

ReadHeader ==
    /\ pc = "written"
    /\ nr_pages' = ofile[1].n
    /\ ipos' = DataStart(nr_pages')
    /\ i' = 0 /\ pc' = "decompress"
    /\ UNCHANGED <<input_length, ofile, stored, placed, out, got>>

(* What the index says of page i, and the bytes do_decompress reads. *)
ilen == ofile[(i + 1) * 4 + 1].n
ibuf == ReadAt(ofile, ipos, ilen)

IsPacked(cells) == \E p \in DOMAIN stored : /\ cells = stored[p]
                                            /\ cells[1].kind = "packed"

Whole(p) == Raw(p, PageLength(p))

(* A page is written to the output as it was read, or unpacked. *)
PutPage(cells) ==
    /\ out' = out \o cells
    /\ got' = ibuf
    /\ ipos' = ipos + ilen
    /\ i' = i + 1
    /\ UNCHANGED <<input_length, pc, nr_pages, ofile, stored, placed>>

Unread == pc = "decompress" /\ i < nr_pages

CopyRaw == Unread /\ ilen = PAGE_SIZE /\ PutPage(ibuf)

Unpack == /\ Unread /\ ilen # PAGE_SIZE /\ IsPacked(ibuf)
          /\ PutPage(Whole(ibuf[1].page))

(* decompress is given what the compressor did not make. *)
UnpackOther ==
    /\ Unread /\ ilen # PAGE_SIZE /\ ~IsPacked(ibuf)
    /\ \E l \in 0 .. PAGE_SIZE : PutPage([k \in 1 .. l |-> Hole])

(* handle_error("decompress"). *)
UnpackFails ==
    /\ Unread /\ ilen # PAGE_SIZE /\ ~IsPacked(ibuf)
    /\ pc' = "failed" /\ got' = ibuf
    /\ UNCHANGED <<input_length, i, nr_pages, ofile, stored, placed, ipos, out>>

DecompressDone ==
    /\ pc = "decompress" /\ i = nr_pages
    /\ pc' = "done"
    /\ UNCHANGED <<input_length, i, nr_pages, ofile, stored, placed, ipos, out, got>>

Next == \/ WriteHeader \/ StorePage \/ CompressDone
        \/ ReadHeader \/ CopyRaw \/ Unpack \/ UnpackOther \/ UnpackFails \/ DecompressDone

Exited == pc \in {"done", "failed"} /\ UNCHANGED bvars

Spec == Init /\ [][Next \/ Exited]_bvars

-----------------------------------------------------------------------------
(* The first m pages of the file that was compressed. *)
Pages(m) ==
    [k \in 1 .. (IF m * PAGE_SIZE <= input_length THEN m * PAGE_SIZE ELSE input_length) |->
        Cell("raw", (k - 1) \div PAGE_SIZE, 1 + ((k - 1) % PAGE_SIZE))]

(* What do_decompress reads for a page, through the index and the sum of   *)
(* the sizes before it, is what do_compress stored for that page, however  *)
(* large the other pages became (lines 320-333, 366-375).                  *)
ReadsOwnPage ==
    pc = "decompress" /\ i > 0 => got = stored[i]

(* Every page of PAGE_SIZE bytes is restored in its place; so is a last    *)
(* page that is shorter, if it was stored packed.                          *)
RestoresFullPages ==
    pc = "decompress" /\ i > 0
       /\ (PageLength(i - 1) = PAGE_SIZE \/ IsPacked(stored[i]))
          => out = Pages(i)

(* Pages are stored one behind the other, each packed or as it is, and the *)
(* index says how long they are.                                           *)
StoredAt(p) ==
    /\ \/ stored[p] = Raw(p - 1, PageLength(p - 1))
       \/ \E l \in 1 .. PageLength(p - 1) - 1 : stored[p] = Packed(p - 1, l)
    /\ placed[p] = IF p = 1 THEN DataStart(nr_pages)
                            ELSE placed[p - 1] + Len(stored[p - 1])
    /\ placed[p] >= DataStart(nr_pages) /\ placed[p] + Len(stored[p]) <= Len(ofile)
    /\ \A k \in 1 .. Len(stored[p]) : ofile[placed[p] + k] = stored[p][k]
    /\ ofile[p * 4 + 1] = Cell("word", 0, Len(stored[p]))

FileSoFar ==
    pc # "open" =>
        /\ nr_pages = DIV_ROUND_UP(input_length, PAGE_SIZE)
        /\ Len(stored) = IF pc = "compress" THEN i ELSE nr_pages
        /\ Len(placed) = Len(stored)
        /\ ofile[1] = Cell("word", 0, nr_pages)
        /\ Len(ofile) = IF stored = <<>> THEN DataStart(nr_pages)
                        ELSE placed[Len(stored)] + Len(stored[Len(stored)])
        /\ \A p \in 1 .. Len(stored) : StoredAt(p)

(* Whatever is written, up to a last page that is neither full nor packed, *)
(* is the file.                                                            *)
ReadSoFar ==
    pc \in {"decompress", "done"} =>
        /\ i < nr_pages => ipos = placed[i + 1]
        /\ i > 0 => got = stored[i]
        /\ (i = 0 \/ PageLength(i - 1) = PAGE_SIZE \/ IsPacked(stored[i])) => out = Pages(i)

Cells == [kind : {"word", "raw", "packed"}, page : Nat, n : Nat]

TypeOK ==
    /\ input_length \in 0 .. MaxLength
    /\ pc \in {"open", "compress", "written", "decompress", "done", "failed"}
    /\ i \in Nat /\ nr_pages \in Nat /\ ipos \in Nat
    /\ ofile \in Seq(Cells) /\ out \in Seq(Cells) /\ got \in Seq(Cells)
    /\ stored \in Seq(Seq(Cells)) /\ placed \in Seq(Nat)

(* The inductive invariant behind the two properties. *)
Inductive ==
    /\ TypeOK
    /\ pc = "open" => i = 0 /\ ofile = <<>> /\ stored = <<>> /\ placed = <<>>
    /\ pc # "open" => i <= nr_pages
    /\ pc \in {"open", "compress", "written"} => out = <<>>
    /\ FileSoFar /\ ReadSoFar

(* The tool reads back every file it writes: the test of the Makefile      *)
(* (test_block_compressor) compares the two.                               *)
RestoresFile ==
    pc \in {"done", "failed"} => pc = "done" /\ out = Pages(nr_pages)
============================================================================
