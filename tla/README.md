# csnappy: specifications, model checking and proofs

This directory is the formal model of csnappy, a C library that compresses and
decompresses in the Snappy format, with a Python version and two command line
tools beside it. Paths below are relative to the repository.

## 1. The system

csnappy is sequential. There are no threads, no I/O inside the library and no
persistent state; each call works on buffers its caller owns. What makes it hard
is positions: a compressor that keeps several of them in step over a tangle of
`goto`s, wide loads and stores that deliberately touch bytes beyond what they
need, copies whose source and destination overlap, and a table that the caller
hands over uninitialised and whose hashes collide.

| Part | State | Operations | What makes it correct |
|---|---|---|---|
| **Fragment compressor** `csnappy_compress_fragment`, `csnappy_compress.c` 228-606 | `ip`, `next_ip`, `next_emit`, `candidate`, `skip`, `next_hash`, the hash table in `working_memory`, the output pointer | scan for a four-byte match, emit the pending literal, extend the match, emit copies, look for the next match, emit the remainder | the elements mean the input; offsets are at least 1 and reach only bytes before them; no load passes the input, no store passes `csnappy_max_compressed_length`; it returns |
| **Block loop** `csnappy_compress`, `encode_varint32`, `csnappy_max_compressed_length`, `csnappy_compress.c` 46-86, 612-656 | bytes left, output pointer, size of the working memory for this block | header, then one fragment per 32 KiB | the header holds the length; the fragments fit one after the other in the promised size; the table is large enough and small enough |
| **Array writer** `SnappyArrayWriter`, `csnappy_decompress.c` 200-317 | `base`, `op`, `op_limit`, the output bytes | append a literal (fast or exact), append a copy of what was written | appends exactly the bytes of the element, or refuses with the right error; writes nothing past `op_limit`, ten bytes too many at most when there is room |
| **Stream decompressor** `csnappy_decompress_noheader`, `csnappy_decompress`, `csnappy_get_uncompressed_length`, `csnappy_decompress.c` 45-71, 319-411 | `src`, `end_minus5`, a five-byte scratch buffer, the writer | parse a tag, append what it says, move the tail of the input to scratch | reads nothing outside input and scratch; output is what the elements mean; every error is the right one |
| **FindMatchLength** `csnappy_compress.c` 239-328 | two pointers | compare word by word, find the first differing byte | equals the byte-by-byte definition; reads nothing at or past `s2_limit` |
| **Simple versions** (ARM without unaligned access), `csnappy_compress.c` 91-217, `csnappy_decompress.c` 77-137 | as above, smaller | as above, byte by byte | as above |
| **Block compressor tool** `block_compressor.c` 275-394 | a file with a table of page sizes, then the pages | compress a file page by page, storing a page raw when it does not shrink; the reverse | decompressing gives the file back |
| **Python version** `python/` | a ring of nine 4 KiB pages; a dictionary or table of positions | put bytes, repeat a chunk, flush; compress blocks | the output equals the text; a repeat may reach 32 KiB back; every byte of the input is emitted |
| **Command line tester** `cl_tester.c` 14-114 | the bytes read, the bytes to be written, the return value | compress standard input, decompress it; every `malloc` may fail | what one process compressed the other restores, or says that it did not; both end |
| Unaligned access layer `csnappy_internal*.h`, `unaligned_test.c`, `unaligned_arm.s`, kernel patches | none of their own | loads and stores of integers | modelled where the width or the bits matter; see section 7 |

How they interact: the block loop calls the fragment compressor with a slice of
the input, what is left of the output and a table that every block uses again; the
fragment compressor calls `FindMatchLength`; the decompressor's loop calls the array
writer with one element at a time and stops at its first error. The compressor and the
decompressor meet in the stream, as the two processes of `cl_tester -c | cl_tester -d -c`
do. The block compressor tool and the Python version stand by themselves.

### Hazards

`PROJECT.json` lists them at their lines. In short: a candidate found through a
collision or left in a dirty table (546); the hash computed one iteration ahead
(540); `ip - 1` and `ip` in one bucket (589); the 15-byte margin against wide
reads (503) and the 32 spare bytes against wide writes (350, 615); cutting a match
into copies of at least four bytes (400); keeping `next_emit` in step with four
exits (584); the overlapping wide copies of the decoder (243, 308) and the offset
zero (302); the scratch buffer (334), the signed comparison (371) and success on
a truncated stream (385); the literal length that wraps to zero, or takes an address
past the last, in the version for ARM (103); the bound that wraps for the
longest texts (615); the word that the simple compressor shifts along (197); the
blocks sharing one output and one table (636, 643); the bit scan of `FindMatchLength`
(266); the Python ring buffer moving under a repeat (82); the page index and the last
page of the block compressor tool (325, 378); lengths that the command line tester reads
twice (60).

## 2. Modules

| Module | Models |
|---|---|
| `SnappyElements` | the elements of a stream as values, what each means (`Denotes`) and how many bytes the encoder spends on it |
| `SnappyStream` | *abstract*: what a compressor of one fragment promises |
| `CompressFragment` | `csnappy_compress_fragment`, the fast version, with its properties and inductive invariant |
| `CompressFragment_proofs` | the proofs |
| `MCCompressFragment` | instances of it for TLC |
| `TextWriter` | *abstract*: what the output side of a decoder promises |
| `ArrayWriter` | `SnappyArrayWriter` and its three append functions, store by store |
| `ArrayWriter_proofs` | the proofs |
| `MCArrayWriter` | an instance of it for TLC |
| `SnappyFormat` | the bytes of a stream: tags, operands, the header; `uint32_t` as the `int32_t` of the same bits; what it is for a stream to encode a text (`Encodes`) |
| `SnappyFormat_proofs` | facts about those bytes that both sides use: an element is read back as it was written, and means one text only |
| `StreamDecoder` | *abstract*: what a decompressor of a stream without header promises |
| `DecompressNoheader` | `csnappy_decompress_noheader`, its loop, scratch buffer and `char_table` |
| `Decompress` | `csnappy_decompress` and `csnappy_get_uncompressed_length` around it |
| `Decompress_proofs` | the proofs about `DecompressNoheader`, and about `Decompress` with either version behind the header |
| `DecompressSimple` | the version of `csnappy_decompress_noheader` for ARM without unaligned access, on the same variables |
| `MCDecompressNoheader`, `MCDecompress` | streams for TLC |
| `FindMatchLength` | the three versions of `FindMatchLength`, and the bit scan of `csnappy_internal_userspace.h` |
| `FindMatchLength_proofs`, `MCFindMatchLength` | the proofs; pairs of strings for TLC |
| `CompressSimple` | the version of `csnappy_compress_fragment` for ARM without unaligned access, on the variables of `CompressFragment` |
| `Compress` | `csnappy_compress`: the block loop around either version, writing real bytes |
| `Compress_proofs` | the proofs about the block loop and about the simple version |
| `RoundTrip` | *composition*: `cl_tester -c` runs `Compress`, `cl_tester -d` runs `Decompress` on what it wrote |
| `MCRoundTrip` | texts, hash functions and files for it |
| `WindowWriter` | *abstract*: what a ring buffer of the last output promises |
| `OutputBuffer`, `MCOutputBuffer` | `python/OutputBuffer.py` with all its operations; an instance |
| `OutputBuffer_proofs` | the proofs |
| `BlockCompressor`, `BlockCompressor_proofs` | `do_compress` and `do_decompress` of `block_compressor.c`, and the file between them; the proofs |

`SnappyStream` is implemented by `CompressFragment` (one fragment) and again by `Compress`
(all blocks); `TextWriter` by `ArrayWriter`; `StreamDecoder` by `DecompressNoheader`, and
by `Decompress` after the header with either version; `WindowWriter` by `OutputBuffer`.

**Representation.** An element is a record: a literal with its bytes, or a copy
with offset and length. What a copy means is stated without recursion: the longer
text `u` satisfies `u[i] = u[i - offset]` on the new positions. This is what the
format says of overlapping copies and it is the only meaning the compressor and
the decompressor are both held against.

### CompressFragment

Positions are offsets from `base_ip`, bytes are `At(p)`. `pc` names the places
between which the code's loops and `goto`s move: `start`, `main_loop`, `scan` (the
do-while of step 1), `literal` (step 2), `match` (step 3), `copy` (inside
`EmitCopy`), `resume` (after it), `remainder`, `done`. There is one action per
straight piece of code and outcome; the variables keep the code's names. What is
abstracted:

* The hash is an arbitrary function from four bytes to buckets, chosen at the
  start (the comment at `csnappy_compress.c` 221: any hash function will do).
  What the table holds when the call begins is arbitrary too.
* `FindMatchLength` is what its comment says it returns (`IsMatchLength`).
* The bytes written are the element they encode plus an exact count (`op`).
* `inHigh` and `outHigh` are ghosts: one past the highest byte read or written,
  with the 16 bytes that the fast path of `EmitLiteral` moves, the four of a hash
  and the eight of `GetEightBytesAt`. Reads from `candidate` lie before reads from
  `ip` (that is `CandidateBehind`), so they need no ghost of their own.

### ArrayWriter

The array is `mem`, indexed from `base`. A call is served in several steps, one
store each: `UnalignedCopy64` is one 8-byte store, two of 4 bytes or eight of one
byte, depending on the platform, and where source and destination overlap these
read different bytes. `unit` is chosen once and for all. `phase` says which loop
runs: `two` (the 16-byte case), `expand` and `wide` (`IncrementalCopyFastPath`),
`bytes` (`IncrementalCopy`). The decoder's loop is the environment here: it may
ask for any element of `Calls`.

### DecompressNoheader and Decompress

`src` and `end` (`end_minus5 + 5`) are offsets in the memory `where` names: the input,
or the five bytes of scratch. `LOOP_COND` is the three actions `InPlace`, `Refill` and
`Out`. The body of the loop is `AskCopy`, `AskFast`, `AskExact` (the writer is called),
`LiteralMalformed` and `LiteralHuge` (the literal cannot be there, or cannot fit), and
the writer's answer `Appended` or `Refused`.

* The writer is `TextWriter`, one step per call. That `ArrayWriter` implements it is
  proved for the calls `CallAssumption` allows; `CallsLegal` is the same statement on
  this side, so the two fit together.
* Words have their real width. A `uint32_t` is represented by the `int32_t` of the same
  bits, so the cast in the test for available input is the identity and `+ 1` wraps.
  Values of 2^31 and more are told apart only as "larger than any buffer": streams and
  outputs are assumed to be shorter than 2^31 bytes (`StreamAssumption`), because
  `available` is an `int`.
* `scratch` starts with any of the contents in `Junk`. `get_unaligned_le` touches four
  bytes and uses as many as it is asked for. The pointer `end_minus5` of an input of
  less than five bytes lies before it; the model takes it as the number it is.
* `SnappyFormat` defines tags by bit fields, as the version of the decompressor without
  unaligned access takes them apart. `DecompressNoheader` uses `char_table`, entry by
  entry as in the source, and has to agree (`DecodesStream`).
* An element cut off by the end of the input: a literal is always refused; a copy is
  completed with what scratch held. `StreamDecoder` says so, because the code does so.
* `Decompress` adds the header's loop and the comparison with `dst_len`, and goes on
  with the steps of `DecompressNoheader` or of `DecompressSimple` on the same input.
* `DecompressSimple` has one action per outcome of an iteration. Its bounds are comparisons
  of addresses of 32 bits. `++length` makes zero of a literal of 2^32 bytes (`Wrapped`): both
  comparisons pass, and `do ... while (--length)` copies past `dst` and past the input. A
  literal that is shorter but reaches past the last address (`LongLiteral`) may pass either
  comparison or not, depending on where the buffers lie: the model takes both outcomes.
  `SimpleAstray` is the iteration that leaves the caller's memory, up to the first byte
  outside `dst` or the end of the literal; `dstHigh` records how far `dst` was stored to. What
  the process does afterwards has no meaning in C, and nothing is claimed of it. `Headroom` is
  the number of addresses there are behind either buffer; of it only is assumed that
  it is more than 64, so that no copy and no literal of the short form wraps.

### FindMatchLength

A byte is the set of its one bits, a word the set of its one bits over its bytes: xor is
the symmetric difference, a shift moves the members. `words`, `scan` and `bytes` are the
word loop, the search for the first differing bit and the byte loop; `build` chooses among
the three versions (eight-byte loads, four-byte loads with a bit scan, four-byte loads and
bytes). `FindLSBSetNonZero` is the portable one; the builtin returns the same number by
its definition.

### CompressSimple and Compress

`CompressSimple` keeps the variables of the other version: `src` is `ip`, `done_upto` is
`next_emit`, `match` is `candidate`, `wm` is `table`. `curr_val` is the word that is
shifted along. After a match the code sets it from the three bytes after `src`, of which
up to two may lie behind the block: the model lets them be anything (`Reload`). The code
really reads these two bytes past the end of its input, which no comment or document of the
repository rules out; `ReadsNear` says that it is never more.

`Compress` runs the fragment compressor once per block. The variables of the fragment
are those of the current block; `op` starts at zero in each, and `stream` is the real
output, byte by byte: the header of `Varint` and then `Encode` of every element that a
fragment emits. `hashing` is a function `mixer` whose lowest bits are shifted out
according to the size of the table for the block, as `HashBytes` does. The model clears the whole
table at the start of a block, the code the part that the block uses; `TableInside` and the shift keep all
lookups inside that part, so no difference can be seen. `MaxCompressedLength` is computed in
32 bits as in the code: from 3681400512 bytes on it wraps (`BoundWraps`).

### RoundTrip

The first process works until its standard output is closed, the second reads to the
end of file before it does anything, so they run one after the other: `tool` says how far
they are. `Decompress` is instantiated with variables `d_...`. Every `malloc` may fail
(`NoMemory`, `CompressFails`). The second process may also be run by itself on a file
from elsewhere (`Files`). `DecompressWrites` writes as many bytes as the header
says, as the code does, whatever was decompressed; `Restores` says that after the
compressor they are all there.

### OutputBuffer

One action per method; the loops of `put_bytes` and `repeat_chunk` take one iteration per
step, so that the flush of a page falls between two steps of a repeat. A list index of -1
is the last page, as in Python. The checksum is left out. A distance of zero, which the
code takes, repeats whatever the page holds; `WindowWriter` promises only the length then.
A flush before anything was put writes one page of zeros (line 31 takes the last byte to
be at index -1); `WindowWriter` does not say what it should do.

### BlockCompressor

A file is a sequence of cells with an origin: a word of the index, byte `n` of a page, or
byte `n` of a packed page. That the chosen compressor and decompressor undo each other is
assumed: for the snappy pair (lines 112-134) `CompressFragment` and `DecompressNoheader`
justify it, lzo and zlib are external. What is checked is where things lie in the file. Packing yields any
size from one byte to twice a page; `UnpackOther` and `UnpackFails` are a decompressor that is given
something else. `stored` and `placed` are ghosts: what was written for each page, and where.
The overflow of `nr_pages + 1` for files of 2^44 bytes is not modelled.

## 3. What the runs check

**fragment_exhaustive**: every binary text of lengths 0, 1, 5, 6, 7 and 13, with a
hash that always collides and one that never does, and a table that starts dirty. The
margin is 6 instead of 15, the wide copy 5 instead of 16 and the stride grows every 2
steps instead of 32, related to each other as the code's constants are
(`MarginAssumption` states what relation is needed), so that 13 bytes reach every
branch: two matches with and without a literal between them, a match up to the end, a
match that ends at the limit, a stride of more than one. Checked: the
`CandidateBehind`, `HashCurrent`, `ReadsInside`,
`NoAdjacentLiterals`; that every step implements the abstract compressor
(`EmitsInput`); that every step lowers a bound on the steps that are left
(`Advances`: no stride is zero, and after a match the scan goes on behind it; as the run
finds no deadlock before the call has returned either, the call returns after at most
`8 * n + 7` steps); and the inductive invariant `Inductive` that the proofs use.

**fragment_shaped**: the code's constants (15, 16, 32) on texts built to reach
the format's limits: literals on both sides of 16, 60 and 256 bytes, matches of 61 to
70 and 128 to 137 bytes, offsets on both sides of 2048. Here sizes matter:
`WritesInside`, `Overhead`, and the refinement again.

**array_writer**: the writer on memory whose bytes are all different, so that a
byte from a wrong place shows. Offsets 0 to 13 and lengths 1 to 17 lie on both
sides of 8 and 16, limits from no room at all to more than enough. Calls are made
when the text has one of the lengths `Starts` (a bound on the number of calls in
sequence, not on the calls). Checked: `StaysInside`, `Overshoot` (the "ten extra
bytes" of the comment), `AppendsText` (refinement of `TextWriter`) and `Answered`.

**decompress_noheader**: every stream of at most six bytes over 0, 1, 2, 252 and 255
(literals of one byte and with a four-byte length, the three copies, offsets zero, near
and beyond the text, lengths of 2^31 and more), five limits, two contents of the stack:
the streams of six bytes begin in place and move to scratch, the shorter ones begin
there, and every element is cut off everywhere. Also all 256 tags behind a text of 60
or 20 bytes, with seven operands that are near, far, zero, or cut off, so that every entry
of `char_table` is used and compared with the bit fields, and the move to scratch falls
at many places of a longer stream; and literals on both sides of 16
and 60 bytes, with 0 to 16 bytes after them, and lengths written in one to four bytes.
`DecodesStream` is the refinement of `StreamDecoder`; `ReadsInside`, `ScratchHoldsTail`,
`CallsLegal` and the inductive invariant are checked along.

**decompress_call**: `csnappy_decompress`, with either version behind it, on every
stream of at most six bytes over seven that are digits of a length, tags or all ones,
with room for 0, 2 and 2^31 - 2 bytes. `Headroom` is 65, so that among the literals of these
streams some wrap to zero, some reach past the last address and some do not: `HeaderInverse`,
`HeaderRefused`, `WithinRoom`, `BodyDecodes`, that after the header each step is one of
`StreamDecoder`, `SimpleWhole`, that the simple version accepts nothing that is cut off,
and `CallInductive`, the inductive invariant of the proofs, of which `CallReads` is a part. `WithinRoom`,
`BodyDecodes` and `CallReads` each name one exception, `AtLongLiteral`: the version for ARM at a literal
that no comparison of addresses can stop. What it does there is the run *arm_overrun*.

**find_match_length**: strings of up to nine bytes any of which may differ, and of 16, 19
and 25 bytes that differ in any one bit of the first sixteen and again in the last byte,
in all three versions: every bit of a word of 64 is the lowest difference once, and 0, 1, 3,
4, 5 or 7 bytes are left over after words of eight, 0, 1 or 3 after words of four. `LongestMatch`, `ReadsBelowLimit` and the
inductive invariant.

**round_trip**: blocks of 13 bytes with the scaled constants of *fragment_exhaustive*; a
caller's table of 2 or 8 entries, or for short blocks the sizes between; all texts
of up to seven bytes, prefixes of blocks, and two blocks with short ones or
nothing behind them; three blocks are longer than the scaled `MAX_INPUT_SIZE`; both
versions of compressor and decompressor, colliding hash and not, a dirty table.
`EmitsSource` is the refinement of
`SnappyStream` for the whole input, with the bytes really written for its size;
`OutputFits` bounds every store of every block by `csnappy_max_compressed_length` of the whole;
`TableInside`, `ReadsNear`, `WordCurrent` (the `DCHECK` of the simple version); `Restores`
and `Finishes` for the two processes. None of the files from elsewhere holds a literal that leads the
version for ARM astray; of a process that has gone astray nothing could be said.

**output_buffer**: three pages of three bytes instead of nine of 4096, no two bytes equal
within reach, pieces of 1, 2, 4, 7 and 11 bytes, distances from 0 to 9 (the window is 6), four calls: a repeat may begin and
end anywhere in a page, overlap itself, cross pages and flush several.
`SourceFollows` relates the source of a repeat to the text, also after its page has been
flushed; `KeepsWindow` is the refinement of `WindowWriter`.

**page_file**: files of up to eleven bytes in pages of three, with every combination of
packed sizes. `ReadsOwnPage` and `RestoresFullPages`.

**accepted_anyway**, **arm_overrun** and **short_raw_page** end in a violation:

**Where code and documentation disagree.** `csnappy.h` says of both decompressors "Iff
successful, returns CSNAPPY_E_OK". (1) `csnappy_decompress_noheader` returns it for a
stream that ends in the middle of a copy; the offset is completed with bytes left in
scratch. The version for ARM without unaligned access returns
`CSNAPPY_E_DATA_MALFORMED` for the same input. (2) `csnappy_decompress` returns it for a
stream that stands for fewer bytes than its header says: the length that was reached is
stored in a local variable. The Python version compares the two. The error code
`CSNAPPY_E_INPUT_NOT_CONSUMED` is returned by neither. *accepted_anyway* shows both:
`OkMeansSuccess` asks only that a stream answered with `CSNAPPY_E_OK` was whole *or* reached its length, which is less
than either claim, and the stream 08 00 01 01 breaks it. (3) `csnappy.h` 97 says that of malformed
data no more than `dst_len` bytes are written into `dst`. The version for ARM without unaligned access writes more for a
literal whose four length bytes are all ones: `++length` is zero, both
comparisons pass, and the loop copies 2^32 bytes (*arm_overrun*). (4) The test of the Makefile compares
what `block_compressor -d` restores with the original. A last page shorter than
`PAGE_SIZE` that did not get smaller is stored as it is, but only a page of exactly `PAGE_SIZE` bytes is
taken for such a page when the file is read; a file of one byte is never restored.

Each property of a passing run has a mutant: a definition of the model changed as a plausible bug
would change the code, defined just before the definition it replaces, for which TLC
finds the property violated.

**Fairness.** The library is called and runs to completion on the caller's
thread. `WF_wvars(Serve)`, for one call of the writer, says no
more than that the processor keeps executing the function. Whether the decoder asks for
another element is not assumed. `RoundTrip` has `WF_tvars(TripNext)`: the two processes
of the pipe are each sequential, and the second cannot work before the first has closed
its output. A `malloc` that fails ends its process too.

**Deadlock.** `CompressFragment` has an explicit step for a call that has returned
(`Returned`), so the deadlock check applies to everything before it. So has
`DecompressNoheader` (`Returned`); its calls get shorter with every element, and TLC finds
no state from which a call cannot return. `ArrayWriter`
stops when the bound on calls is reached; its run disables the check, and `Answered`
says what matters. `OutputBuffer` really stops when it has been flushed or an exception
was raised, and its run disables the check too. `FindMatchLength`, `RoundTrip` and
`BlockCompressor` have explicit steps for a program that has ended.

## 4. What is proved

`CompressFragment_proofs` proves, for every alphabet, every input of at most 64 KiB,
every hash function, every initial content of the table and all constants that
satisfy `MarginAssumption`:

    Spec => []Inductive

and from it type correctness, `CandidateBehind`, `HashCurrent`, `ReadsInside`,
`WritesInside`, `Overhead` and `NoAdjacentLiterals`; `Spec => Advances`; and `Spec => EmitsInput`: the
elements written always mean the prefix of the input that has been covered.

The argument. None of the properties is inductive alone.

* *Candidates.* `CandidateBehind` needs `TableBehind` (every table entry lies before
  the position that will be looked up next, with the three cases that differ by one:
  before the scan, between probe and match, after a match) and `Positions`. Hashes need
  not be right for this, nor the initial table: the table is cleared, and every write
  stores a position that has been passed.
* *Meaning.* A copy is right because the bytes really match: `MatchGenuine` carries
  the four compared bytes to the match and then, while `EmitCopy` cuts it up, the
  equality of what is left. Since `candidate` is before `ip` this yields
  `u[i] = u[i - offset]` even where the two ranges overlap.
* *Size.* The bound `n + n/6 + 32` is far from tight; what is inductive is
  `Overhead`, `61 * (op - Covered - 1) <= Covered`. A literal costs one byte plus
  one more for lengths above 60, two above 256 and so on, at most one per 61 bytes covered
  beyond the first; the first is repaid by the copy that follows, which covers at
  least four bytes with at most three (`PaidBack`). The stores stay as close
  (`WritesNear`): a wide one ends at most 16 bytes after its header and is made only
  where 16 bytes of input lie ahead, so the 32 spare bytes are hardly needed.
* *Reads.* All loads are below `ip_limit` plus at most 15 bytes; `Positions` says
  which positions are below the limit at each `pc`.
* *Progress.* A step either moves `Front` on, by a stride (`StrideForward`), by a piece of a
  match or by the byte after it, or leaves it and goes a stage further (`GetsAhead`).

Assumptions used: `InputAssumption` (at most 65536 bytes: the code's callers pass at most
32768, the DCHECK at 491), `HashAssumption`, `MarginAssumption`.

`ArrayWriter_proofs` proves `Spec => []Inductive` for every memory, limit, text, store
width and set of calls, and from it `StaysInside` and `Overshoot`; and
`Spec => AppendsText`. The argument:

* *Recurrence.* What a copy has written so far, the bytes from `op` to `to`, repeats with
  the period the element asks for, not with the distance between `src` and `to`.
* *InPhase.* `src` is a whole number of periods behind `to`: the `offset` bytes before
  `to` are the bytes at `src`. While the pattern is doubled, `to - src` is the offset
  times 1, 2, 4 or 8 (`Counters`). With this a move copies the right bytes even when it
  reads some that it has just written.
* *Moved.* Within a move the bytes that were text when it began have been copied
  faithfully, whatever the width of the stores; those beyond need not be, and the next
  move writes them again.
* *Room.* Doubling stops at a distance of at most 14, so the last wide move ends at most
  ten bytes after the copy; that is the constant the code compares with.

`Decompress_proofs` proves of `DecompressNoheader`, for every stream of less than 2^31 bytes, every limit
and every content of scratch at the start, `Spec => []Inductive`, from it `ReadsInside`,
`ScratchHoldsTail` and `CallsLegal`, and `Spec => DecodesStream`, the refinement of
`StreamDecoder`. With `CallsLegal` and the refinement of `TextWriter` by `ArrayWriter` the
loop and the writer fit together for all streams. The argument:

* *Places.* In the input a tag is read only where five bytes follow it; in scratch it is the
  first byte; and `scratch[k]` is always byte `n - end + k` of the input, which one more move
  of the remaining bytes preserves. This much is `InBounds`, inductive by itself.
* *Elements.* `AsksForElement` says of every call of the writer that it is the element at
  `at`, the place in the input of what is being looked at wherever it is read. It follows
  from `InBounds`: the bytes of scratch are those of the input as far as the input goes, and
  the two sums that make up an offset or a length agree byte by byte. What lies beyond the
  end of the input enters only into the offset of a copy, and `StreamDecoder` allows any
  there.
* *The table.* Of `char_table` the proof uses `TableAssumption`: for each of the 192 tags
  of copies the entry's three fields are the bytes that follow, the length and the high bits
  of the offset. It is a fact about 192 numbers that TLC evaluates in every run.
* *Widths.* `uint32_t` is an `int32_t` of the same bits; a length whose cast is negative,
  or wraps to zero, is refused as `TornLiteral` of `StreamDecoder` says (`LiteralEnds`).

It also proves `CallSpec => []CallInductive` for `csnappy_decompress` with
either version of the loop behind the header, and from it `CallReads`, `HeaderInverse`,
`HeaderRefused`, `WithinRoom`, `SimpleWhole` and `CallSpec => BodyDecodes`. Of the version for ARM
these are proved up to the step in which it goes astray, for every `Headroom`, and that it goes astray only at a
literal of 2^32 bytes or one that reaches past the last address; the version with the scratch buffer needs no
exception (`FastReadsInside`). The header: `HeaderSoFar`
describes the length read so far as a sum of one `Group` per byte, with a continuation bit in
every byte but the last. What `encode_varint32` writes for a length has the same five
digits of seven bits, the fifth of which keeps four (`TopBits`), so the sum is the length, all
of its 32 bits. Once the header has been read the invariant is `Inductive` of
`DecompressNoheader` or `SimpleInductive` of `DecompressSimple`, and the former is
reused as it was proved. Assumptions used: `StreamAssumption`, `NoCallAssumption`,
`TableAssumption` and `AddressAssumption`.

`BlockCompressor_proofs` proves, for every size of a page and of the file and however the
pages pack, `Spec => []Inductive` and from it `ReadsOwnPage` and `RestoresFullPages`. The argument: the
index lies wholly before the first page, so writing a size never touches a page and writing a
page never touches the index (`WriteAtShape`, `PageStored`); a page's place is that of the page before it plus the
size the index gives for that, which is how `do_decompress` moves `ipos` along; a
packed page is shorter than `PAGE_SIZE`, so a size of `PAGE_SIZE` means a raw page. Only the last
page can be both raw and shorter (`ShortRawPage`): until then what has been
written is `Pages(i)`, bytes of the file in their order, and the pages of a file
meet where division by `PAGE_SIZE` says (`PagesNext`). `Inductive` holds on the instance of
*page_file* too, of which the run checks the two properties.

`FindMatchLength_proofs` proves, for all pairs of strings of any length, `Spec =>
[]Inductive` and from it `LongestMatch` and `ReadsBelowLimit`. That is what
`CompressFragment` assumes of the function. The argument: equal words are equal bytes
(`EqualWords`); the lowest bit in which two words differ lies in the first byte in which
they differ (`FirstDifferingByte`); and the halving finds the lowest bit (`LowestBit`),
because after each step either the lower part is empty and was skipped or the lowest bit is
in it (`HalveStep`). `scan` is only reached where words differ, which is what makes the
halving meaningful.

`Compress_proofs` proves `CompressSpec => []CompressInductive` for `csnappy_compress` with
either version of the fragment compressor, every text whose length a `uint32_t` holds, every
hash function, size and previous content of the working memory, and from it `OutputFits`,
`TableInside`, `ReadsNear` and `WordCurrent`; and `CompressSpec => EmitsSource`, the refinement of
`SnappyStream` by all blocks together. `OutputFits` is claimed where `csnappy_max_compressed_length` does not wrap:
what is proved of every text is that the stores stay within `32 + n + n/6` (`RoomEnough`), and of
every length from 3681400512 on that the number returned is less than the length itself (`BoundFallsShort`). The argument:

* *Blocks.* What a fragment keeps is `BlockInductive`, the part of `Inductive` of
  `CompressFragment` that does not look at the elements before those of its block, or
  `SimpleInductive` of `CompressSimple`. `NextBlock` establishes it whatever the table
  holds; `input` remains the piece of the text at `taken` (`BlockCurrent`).
* *The simple version.* Up to two of the three bytes that `Reload` takes may lie behind the
  block. `WordKnown` says of each whether it is the text's; the scan stops before any other is
  used, which is `WordCurrent`. A match always ends before the block does
  (`SimplePositions`), so the step back by one byte after it stays behind what was emitted.
* *Size.* A block may owe one byte when it ends. A whole one has at least seven bytes
  (32768 in the code), so what it wrote beyond its length is at most a 61st and a seventh of
  a byte for each: 68/427, less than a sixth (`BlocksPaid`). Only the last block can be
  shorter, and its byte comes out of the 32 that are reserved, like the five bytes
  of the header and what a wide copy writes too many (`WritesNear`). The step of a fragment
  moves `op` by as many bytes as `Encode` yields (`EncodeFacts`), and the header has at
  most five (`VarintFacts`).
* *The table.* `SizeFor` takes the least power of two that is enough; that there is one
  comes from well-foundedness. A hash of `HashBits` bits shifted by what is left of them is
  below that size, and so below the caller's (`ShiftedFacts`).
* *Meaning.* A step of either version covers bytes of the block (`Covers`) by a literal or by
  a match that is genuine; the same bytes lie in the text at `taken`.

**The round trip** is proved in two halves that meet in one definition. `Encodes(s, w, t)` says that
the stream `s` is the header for `w` followed by elements, each in the bytes the format gives it, that
together stand for `t`.

* `CompressSpec => []StreamEncodes` (`StreamIsEncoding` in `Compress_proofs`): when `csnappy_compress`
  returns, what it has written is an encoding of the text. `StreamSoFar` carries the places where
  elements begin in the stream and in the text; `EncodesMore` adds one element to them whenever a
  fragment emits one (`FragmentEncodes`).
* `ElementDecoded` in `SnappyFormat_proofs`: where the bytes of an element lie in a stream, whatever
  lies around them, the tag, operand and length are read back as that element and it ends where its
  bytes end. That is one inverse for literals with a length in the tag or in one to four bytes
  (`LengthBack`), and one for copies of two and of three bytes.
* `CallSpec => []DecodesEncoded` (`EncodingIsDecoded` in `Decompress_proofs`): input that is an encoding of
  `t` is never refused by `csnappy_decompress`, unless the room is too small for `t`, and is accepted
  only with the text `t`; with either version of the loop: that for ARM never goes astray on an
  encoding, whose literals are all there and fit. `Along` is the invariant: the call is in the header, or has found that `t`
  does not fit, or has made what the first `i` elements stand for. The header goes on while
  there are bytes in it (`HeaderGoesOn`), and yields the length of `t` (`SizedRight`); then the
  step of the abstract decoder must be that of the element that begins at `at` (`DecoderFollows`).
  That the text made is that of the encoder follows because an element means one text only
  (`DenotesUnique`): of the positions in which two texts differed one would be the first.

The conclusion of the first theorem is the hypothesis of the third.

Assumptions used: `BlockAssumption`, which states the ranges of the parameters and that the hash
has at least as many bits as any table's index, and `PowerAssumption`, two facts about powers of two up
to `2^HashBits`, since the provers know no exponentiation; TLC evaluates both.
`CompressInductive` holds of `CompressSpec` on the instance of *round_trip*, too.

`OutputBuffer_proofs` proves, for every size of a page, every number of pages from two on and
all bytes, lengths, distances and numbers of calls, `Spec => []Inductive`, from it
`SourceFollows`, and `Spec => KeepsWindow`, the refinement of `WindowWriter`. The argument:

* *The text.* It is the file followed by what is in the pages (`IsText`). A position is a page
  times `PageSize` plus an offset, and positions are ordered as such pairs are (`Order`,
  `Located`), so the divisions of the code fall away. Storing bytes appends them to the
  text whether or not a page is written out on the way (`TextGoesOn`): the page that leaves
  the window is what the file gets.
* *The source.* It is `distance_back` behind the next byte. When it is in the first page
  as that is flushed its index becomes -1, which Python takes for the last page: that is the
  page just written out, moved to the end, and now the destination as well. Each byte of it
  is read before it is overwritten, since the destination begins the page and the source does not,
  and the chunk ends where the page does (`SourceInside`, `SourceGoesOn`).
* *A repeat.* Each byte read is the one `distance_back` before it in the text (`ReadsBack`),
  also where source and destination overlap on one page and a byte is read that the
  same loop has stored (`Overlap`, `ChunkReads`).
* *A refusal.* If anything is in the file the top page is the last (`RingFills`), so what
  is refused reaches beyond the text or beyond `NumPages - 1` pages.
* *The end.* What `flush` writes is whole pages and the beginning of one more, together
  the bytes in the buffer (`FirstBytesSplit`).

Assumption used: `BufferAssumption`. `Inductive` holds on the instance of *output_buffer* too,
of which the run checks the two properties.

Type correctness is a conjunct of every `Inductive` and is checked and proved with it.

**Only model-checked**: liveness (`Answered`, `Finishes`), which is out of TLAPS's reach, and that
`CompressFragment` never stops before it has returned, which with `Advances` makes it end;
`Restores`, the two halves of the round trip put together as the two processes of `RoundTrip`, with
the failures of `malloc` and the reading of the length between them: tlapm cannot cite a
theorem of a module that is instantiated with other variables, so the proofs of the decompressor
would have to be repeated for the `d_...`.
The library's induction theorems, which take an operator as a parameter, and recursive
operators are out of the prover's reach as well. No module with a theorem uses them; where an
argument is by induction over data (`DenotesUnique`, the least power of two in
`SizeFor`) it goes by the least counterexample.

## 5. Plan

Everything that is to be modelled is, and every safety, action and refinement property of
the runs is proved but `Restores`, for the reason given above.

## 6. Running

    tlc -config CompressFragmentExhaustive.cfg MCCompressFragment.tla   # about 20 s
    tlc -config CompressFragmentShaped.cfg     MCCompressFragment.tla
    tlc -config ArrayWriter.cfg                MCArrayWriter.tla        # about 80 s
    tlc -config DecompressNoheader.cfg         MCDecompressNoheader.tla
    tlc -config DecompressCall.cfg             MCDecompress.tla         # about 60 s
    tlc -config FindMatchLength.cfg            MCFindMatchLength.tla
    tlc -config RoundTrip.cfg                  MCRoundTrip.tla          # about 2 min
    tlc -config OutputBuffer.cfg               MCOutputBuffer.tla       # about 30 s
    tlc -config BlockCompressor.cfg            BlockCompressor.tla
    tlc -config BlockCompressorShortPage.cfg   BlockCompressor.tla      # a violation
    tlc -config DecompressAccepted.cfg         MCDecompress.tla         # a violation
    tlc -config DecompressAstray.cfg           MCDecompress.tla         # a violation
    tlapm CompressFragment_proofs.tla
    tlapm ArrayWriter_proofs.tla
    tlapm Decompress_proofs.tla
    tlapm FindMatchLength_proofs.tla
    tlapm BlockCompressor_proofs.tla
    tlapm SnappyFormat_proofs.tla
    tlapm Compress_proofs.tla
    tlapm OutputBuffer_proofs.tla

## 7. Not modelled

* `cl_tester.c`: the self tests, which rely on guard pages, and the option parser.
* The unaligned access layer: macros and assembly that load and store integers on each
  platform. Where the width of a store or the bits of a load matter they are in
  `ArrayWriter` and `FindMatchLength`. On ARM with unaligned access
  `csnappy_internal.h` 126 shifts by 32 for a mask of four bytes; what a compiler makes of
  that is not modelled, the model takes the table of masks of the other branch.
* The Python compressors and the parser of the Python decompressor, sequential scripts for
  a format that `SnappyFormat` already has. Read off the code, the compressor loses a last
  block of one byte (`pysnappy_compress.py` 79, 95).
* The wrappers for lzo, zlib and lz4 in `block_compressor.c`, which call external
  libraries, its timing, and failures of the C library.
* The kernel patches, which modify files that are not in the repository.
