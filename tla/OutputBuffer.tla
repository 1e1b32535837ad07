---------------------------- MODULE OutputBuffer ----------------------------
(***************************************************************************)
(* The ring buffer of the Python decompressor (python/OutputBuffer.py): a  *)
(* list of pages, the first of which is written out and moved to the end   *)
(* when the last is full.  A repeat whose destination fills the last page  *)
(* moves the pages under its own source.                                   *)
(*                                                                         *)
(* Bytes come from Source, in its order.  The checksum is left out: the    *)
(* caller's function is given exactly what is written to the file.         *)
(***************************************************************************)
EXTENDS Integers, Sequences, SequencesExt

CONSTANTS PageSize,      \* 4096 in the code
          NumPages,      \* 9
          Source,        \* what is put into the buffer
          Lengths,       \* of what is put and of the repeats
          Distances,
          MaxCalls       \* bounds the run

ASSUME BufferAssumption ==
    /\ PageSize \in Nat \ {0} /\ NumPages \in Nat \ {0, 1}
    /\ Source \in Seq(Nat)
    /\ Lengths \subseteq Nat \ {0} /\ Distances \subseteq Nat /\ MaxCalls \in Nat

VARIABLES
    pages, top_page_index, top_offset, isize, file,      \* the object
    pc,                                                  \* what it is doing
    bytes,                                               \* put_bytes: bytes[curr_i:]
    length, distance_back, input_page_index, input_offset, \* repeat_chunk
    used, calls                                          \* of Source, of MaxCalls

object == <<pages, top_page_index, top_offset, isize, file>>
source == <<length, distance_back, input_page_index, input_offset>>
bvars  == <<object, pc, bytes, source, used, calls>>

-----------------------------------------------------------------------------
(* A list index as Python takes it: -1 is the last. *)
PageAt(i) == pages[IF i < 0 THEN NumPages + i + 1 ELSE i + 1]

num_bufferred_bytes == top_page_index * PageSize + top_offset

(* s written over p from offset at on. *)
Over(p, at, s) ==
    [i \in 1 .. Len(p) |-> IF i \in at + 1 .. at + Len(s) THEN s[i - at] ELSE p[i]]

(* The first n bytes of the pages. *)
Stored(n) == [i \in 1 .. n |-> pages[(i - 1) \div PageSize + 1][((i - 1) % PageSize) + 1]]

Rotated(n) == SubSeq(pages, n + 1, NumPages) \o SubSeq(pages, 1, n)

(* Some bytes fit into the rest of the top page: they are stored, and when *)
(* it is full the next page is the top, or the first is flushed.  The      *)
(* second half is also written out in repeat_chunk.                        *)
FlushesPage(n) == top_offset + n = PageSize /\ top_page_index = NumPages - 1

StoreAndMaybeFlush(s) ==
    LET page  == Over(PageAt(top_page_index), top_offset, s)
        full  == top_offset + Len(s) = PageSize
        moved == Rotated(1)
    IN  /\ top_offset' = IF full THEN 0 ELSE top_offset + Len(s)
        /\ IF FlushesPage(Len(s))
             THEN /\ file' = file \o pages[1]
                  /\ isize' = isize + PageSize
                  /\ pages' = [moved EXCEPT ![NumPages - 1] = page]
                  /\ UNCHANGED top_page_index
             ELSE /\ pages' = [pages EXCEPT ![top_page_index + 1] = page]
                  /\ top_page_index' = IF full THEN top_page_index + 1
                                               ELSE top_page_index
                  /\ UNCHANGED <<file, isize>>

-----------------------------------------------------------------------------
Init == /\ pages = [k \in 1 .. NumPages |-> [i \in 1 .. PageSize |-> 0]]
        /\ top_page_index = 0 /\ top_offset = 0 /\ isize = 0 /\ file = <<>>
        /\ pc = "open" /\ bytes = <<>>
        /\ length = 0 /\ distance_back = 1 /\ input_page_index = 0 /\ input_offset = 0
        /\ used = 0 /\ calls = 0

Called == pc = "open" /\ calls < MaxCalls /\ calls' = calls + 1

put_byte ==
    /\ Called /\ used < Len(Source)
    /\ StoreAndMaybeFlush(<<Source[used + 1]>>)
    /\ used' = used + 1
    /\ UNCHANGED <<pc, bytes, source>>

put_bytes ==
    /\ Called
    /\ \E n \in Lengths : /\ used + n <= Len(Source)
                          /\ bytes' = SubSeq(Source, used + 1, used + n)
                          /\ used' = used + n
    /\ pc' = "put"
    /\ UNCHANGED <<object, source>>

PutChunk ==
    LET n == Min({PageSize - top_offset, Len(bytes)})
    IN  /\ pc = "put"
        /\ StoreAndMaybeFlush(SubSeq(bytes, 1, n))
        /\ bytes' = SubSeq(bytes, n + 1, Len(bytes))
        /\ pc' = IF n = Len(bytes) THEN "open" ELSE "put"
        /\ UNCHANGED <<source, used, calls>>

repeat_chunk ==
    /\ Called
    /\ \E l \in Lengths, d \in Distances :
         LET begin == num_bufferred_bytes - d IN
           /\ begin >= 0
           /\ length' = l /\ distance_back' = d
           /\ input_page_index' = begin \div PageSize
           /\ input_offset' = begin % PageSize
    /\ pc' = "repeat"
    /\ UNCHANGED <<object, bytes, used>>

(* raise ValueError("distance back is too big"). *)
TooBig ==
    /\ Called
    /\ \E d \in Distances : /\ num_bufferred_bytes - d < 0
                            /\ distance_back' = d
    /\ pc' = "raised"
    /\ UNCHANGED <<object, bytes, length, input_page_index, input_offset, used>>

(* bytes_to_copy. *)
ToCopy == Min({length, PageSize - top_offset, PageSize - input_offset})

(* The bytes n iterations of the copy read: a byte that an earlier one has *)
(* stored is read as stored.                                               *)
ChunkRead(n) ==
    LET input == PageAt(input_page_index)
        same  == (input_page_index - top_page_index) % NumPages = 0
        read[k \in 0 .. n - 1] ==
            IF same /\ input_offset + k \in top_offset .. top_offset + k - 1
              THEN read[input_offset + k - top_offset]
              ELSE input[input_offset + k + 1]
    IN  IF distance_back = 1
          THEN [k \in 1 .. n |-> input[input_offset + 1]]
          ELSE [k \in 1 .. n |-> read[k - 1]]

(* Mutant: the index of the source page stays when the pages move.         *)
SourcePage_Stays(n) == input_page_index + (input_offset + n) \div PageSize

(* Mutant: the index goes back at the end of every top page, not only when *)
(* the first one is flushed.                                               *)
SourcePage_EveryPage(n) == input_page_index + (input_offset + n) \div PageSize
                             - (IF top_offset + n = PageSize THEN 1 ELSE 0)

(* Where the source goes on after n bytes: when a page was flushed, all    *)
(* pages have moved.                                                       *)
SourcePage(n) == input_page_index + (input_offset + n) \div PageSize
                   - (IF FlushesPage(n) THEN 1 ELSE 0)

(* One iteration of the loop in repeat_chunk. *)
RepeatChunk ==
    /\ pc = "repeat"
    /\ StoreAndMaybeFlush(ChunkRead(ToCopy))
    /\ input_offset' = (input_offset + ToCopy) % PageSize
    /\ input_page_index' = SourcePage(ToCopy)
    /\ length' = length - ToCopy
    /\ pc' = IF length' = 0 THEN "open" ELSE "repeat"
    /\ UNCHANGED <<bytes, distance_back, used, calls>>

(* The position of the last byte: top_offset and top_page_index less one.  *)
LastByte ==
    IF top_offset = 0
      THEN [page |-> top_page_index - 1, offset |-> PageSize - 1]
      ELSE [page |-> top_page_index, offset |-> top_offset - 1]

flush ==
    LET whole == IF LastByte.page > 0 THEN LastByte.page ELSE 0      \* pages flushed
    IN  /\ pc = "open"
        /\ file' = file \o Stored(whole * PageSize)
                        \o SubSeq(PageAt(LastByte.page), 1, LastByte.offset + 1)
        /\ isize' = isize + whole * PageSize + LastByte.offset + 1
        /\ pages' = Rotated(whole)
        /\ top_page_index' = LastByte.page - whole
        /\ top_offset' = LastByte.offset
        /\ pc' = "flushed"
        /\ UNCHANGED <<bytes, source, used, calls>>

Next == put_byte \/ put_bytes \/ PutChunk \/ repeat_chunk \/ TooBig \/ RepeatChunk \/ flush

Spec == Init /\ [][Next]_bvars

-----------------------------------------------------------------------------
buffered == Stored(num_bufferred_bytes)

(* While a repeat is being done its source lies distance_back behind the   *)
(* next byte, however often the pages have moved (repeat_chunk, lines      *)
(* 73-84); just behind a page that was flushed it is the last page's,      *)
(* which still holds what was written out.                                 *)
SourceFollows ==
    pc = "repeat" =>
        /\ input_page_index * PageSize + input_offset = num_bufferred_bytes - distance_back
        /\ input_page_index = -1 =>
             /\ input_offset > top_offset \/ top_page_index < NumPages - 1
             /\ SubSeq(PageAt(-1), input_offset + 1, PageSize)
                  = SubSeq(file, Len(file) - PageSize + input_offset + 1, Len(file))

(* "A ring buffer that holds 32K of the last output": what is put and what *)
(* is repeated is appended to one text, a repeat is refused only if it     *)
(* reaches further back than the text or eight pages, and the text is what *)
(* flush leaves in the file.                                               *)
Promise == INSTANCE WindowWriter WITH
               Window <- (NumPages - 1) * PageSize,
               text   <- IF pc = "flushed" THEN file ELSE file \o buffered,
               coming <- bytes,
               repeat <- [distance |-> distance_back, left |-> length],
               mode   <- IF pc \in {"raised", "flushed"} THEN pc ELSE "open"

KeepsWindow == Promise!Spec

-----------------------------------------------------------------------------
(***************************************************************************)
(* The inductive invariant (the proofs are in OutputBuffer_proofs).        *)
(***************************************************************************)
TypeOK ==
    /\ pages \in Seq(Seq(Nat)) /\ Len(pages) = NumPages
    /\ \A k \in 1 .. NumPages : Len(pages[k]) = PageSize
    /\ top_page_index \in -1 .. NumPages - 1 /\ top_offset \in 0 .. PageSize - 1
    /\ isize \in Nat /\ file \in Seq(Nat)
    /\ pc \in {"open", "put", "repeat", "raised", "flushed"}
    /\ bytes \in Seq(Nat) /\ length \in Nat /\ distance_back \in Nat
    /\ input_page_index \in Int /\ input_offset \in 0 .. PageSize - 1
    /\ used \in Nat

(* Only one call at a time has something left to do. *)
OneCall == (pc = "put" <=> bytes # <<>>) /\ (pc = "repeat" <=> length > 0)

(* Until flush the top page is one of the pages, and it remains the last   *)
(* one from the first page flushed on; isize counts what is in the file.   *)
RingFills ==
    /\ pc # "flushed" => /\ top_page_index >= 0
                         /\ file # <<>> => top_page_index = NumPages - 1
    /\ isize = Len(file)

(* The source of a repeat, with what SourceFollows needs to be inductive:  *)
(* it lies behind the pages only right after one was flushed.              *)
SourceInside ==
    pc = "repeat" =>
        /\ input_page_index * PageSize + input_offset = num_bufferred_bytes - distance_back
        /\ input_page_index >= -1 /\ input_page_index <= top_page_index
        /\ input_page_index = -1 =>
             /\ top_page_index = NumPages - 1 /\ top_offset = 0 /\ input_offset > 0
             /\ Len(file) >= PageSize
             /\ \A o \in 1 .. PageSize : pages[NumPages][o] = file[Len(file) - PageSize + o]

Inductive == TypeOK /\ OneCall /\ RingFills /\ SourceInside
============================================================================
