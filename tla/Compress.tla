------------------------------ MODULE Compress ------------------------------
(***************************************************************************)
(* csnappy_compress: the header, then one call of                          *)
(* csnappy_compress_fragment, either version of it, for every kBlockSize   *)
(* bytes.  The blocks share one output buffer, each beginning where the    *)
(* one before it ended, and one working memory, of which a short block     *)
(* uses a part and which holds what the blocks before it left there.       *)
(*                                                                         *)
(* The variables of CompressFragment are those of the block being          *)
(* compressed; only `out' goes on from block to block.                     *)
(***************************************************************************)
EXTENDS CompressSimple, SnappyFormat

CONSTANTS
    Sources,       \* the texts that may be given
    kBlockSize,
    Powers,        \* workmem_bytes_power_of_two
    FirstPower,    \* the smallest table that is tried, 9 in the code
    HashBits,      \* how many bits the hash has before it is shifted
    Mixers,        \* the hash functions before the shift
    Versions       \* of the fragment compressor: "fast", "simple"

ASSUME BlockAssumption ==
    /\ kBlockSize \in 7 .. PosLimit    \* at least one header's worth
    /\ Byte \subseteq Byte8
    /\ Sources \subseteq Seq(Byte)
    /\ \A s \in Sources : Len(s) \div 2 <= MaxInt32    \* a uint32_t
    /\ FirstPower \in Nat \ {0} /\ HashBits \in Nat /\ Powers \subseteq Nat
    /\ \A p \in Powers : FirstPower <= p /\ p - 1 <= HashBits
    /\ Mixers \subseteq [Word -> 0 .. 2^HashBits - 1]
    /\ Bucket = 0 .. 2^HashBits - 1
    /\ Versions \subseteq {"fast", "simple"}

(* Arithmetic, for provers that know no powers. *)
ASSUME PowerAssumption ==
    /\ \A a \in 0 .. HashBits : 2^a \in Nat \ {0}
    /\ \A a, b \in 0 .. HashBits : a + b <= HashBits => 2^(a + b) = 2^a * 2^b

VARIABLES
    source, power,    \* the call's input and workmem_bytes_power_of_two
    mixer, version,   \* chosen when the library is built
    taken,            \* how far `input' has moved
    workmem_size,     \* for this block
    stream            \* the output; `written' is its length

bvars == <<source, power, mixer, version, taken, workmem_size>>
zvars == <<vars, curr_val, bvars, stream>>

-----------------------------------------------------------------------------
CompressInit ==
    /\ source \in Sources /\ power \in Powers
    /\ mixer \in Mixers /\ version \in Versions
    /\ stream = Varint(Len(source))
    /\ taken = 0 /\ workmem_size = power
    /\ input = <<>> /\ hashing = [w \in Word |-> 0]
    /\ table \in Stale
    /\ pc = "block"
    /\ ip = 0 /\ next_ip = 0 /\ next_emit = 0 /\ next_hash = 0
    /\ skip = SkipUnit /\ candidate = 0
    /\ offset = 0 /\ copyLeft = 0
    /\ op = 0 /\ out = <<>>
    /\ inHigh = 0 /\ outHigh = 0
    /\ curr_val = [k \in 1 .. 4 |-> 0]

left        == Len(source) - taken             \* input_length
num_to_read == IF left < kBlockSize THEN left ELSE kBlockSize

(* Mutant: the table grows with the block, whatever the caller gave.       *)
SizeFor_Unbounded(num) ==
    IF num = kBlockSize THEN power
    ELSE CHOOSE p \in FirstPower .. FirstPower + kBlockSize :
           /\ 2^(p - 1) >= num
           /\ \A q \in FirstPower .. p - 1 : 2^(q - 1) < num

(* The smallest table from FirstPower on with an entry for every byte of a *)
(* short block, or all of it.                                              *)
SizeFor(num) ==
    IF num = kBlockSize THEN power
    ELSE CHOOSE p \in FirstPower .. power :
           /\ p = power \/ 2^(p - 1) >= num
           /\ \A q \in FirstPower .. p - 1 : 2^(q - 1) < num

(* HashBytes: the upper bits of the product. *)
Shifted(size) == [w \in Word |-> mixer[w] \div 2^(HashBits - (size - 1))]

(* Mutant: the block begins at the first byte of the input.                *)
Block_First == SubSeq(source, 1, num_to_read)

(* The num_to_read bytes at `input'. *)
Block == SubSeq(source, taken + 1, taken + num_to_read)

(* Mutant: the last block is taken for a whole one.                        *)
TakenAfter_Whole == taken + kBlockSize

TakenAfter == taken + n

NextBlock ==
    /\ pc = "block"
    /\ left > 0
    /\ input' = Block
    /\ workmem_size' = SizeFor(num_to_read)
    /\ hashing' = Shifted(workmem_size')
    /\ pc' = IF version = "fast" THEN "start" ELSE "simple"
    /\ ip' = 0 /\ next_emit' = 0
    /\ op' = 0 /\ inHigh' = 0 /\ outHigh' = 0
    /\ UNCHANGED <<table, next_ip, next_hash, skip, candidate, offset, copyLeft,
                   out, curr_val, source, power, mixer, version, taken, stream>>

(* A step of the fragment compressor; what it writes is an element. *)
FragmentStep ==
    /\ (Next /\ UNCHANGED curr_val) \/ SimpleNext
    /\ stream' = IF out' = out THEN stream ELSE stream \o Encode(out'[Len(out')])
    /\ UNCHANGED bvars

BlockDone ==
    /\ pc = "done"
    /\ taken' = TakenAfter
    /\ pc' = "block"
    /\ UNCHANGED <<input, hashing, table, ip, next_ip, next_emit, next_hash, skip,
                   candidate, offset, copyLeft, op, out, inHigh, outHigh, curr_val,
                   source, power, mixer, version, workmem_size, stream>>

AllBlocksDone ==
    /\ pc = "block"
    /\ left = 0
    /\ pc' = "compressed"
    /\ UNCHANGED <<input, hashing, table, ip, next_ip, next_emit, next_hash, skip,
                   candidate, offset, copyLeft, op, out, inHigh, outHigh,
                   curr_val, bvars, stream>>

CompressNext == NextBlock \/ FragmentStep \/ BlockDone \/ AllBlocksDone

CompressSpec == CompressInit /\ [][CompressNext]_zvars

-----------------------------------------------------------------------------
InBlock == pc \notin {"block", "compressed"}

(* Every store of every block, the bytes that a wide copy writes too many  *)
(* included, falls inside the one buffer that csnappy_max_compressed_length*)
(* asks for: op - outHigh counts from where this block began.  That is, if *)
(* the text is shorter than 3681400512 bytes: from there on the bound does *)
(* not fit in its 32 bits, and is less than the text itself.               *)
OutputFits ==
    ~BoundWraps(Len(source)) =>
        Len(stream) - op + outHigh <= MaxCompressedLength(Len(source))

(* Whatever the size chosen for a short block, no hash leads past the      *)
(* memory the caller gave.                                                 *)
TableInside == InBlock => \A w \in Word : hashing[w] < 2^(power - 1)

(* No load passes the end of the block, but for the two bytes that the     *)
(* simple version reads there after a match that ends at the last byte.    *)
ReadsNear == InBlock => inHigh <= n + (IF version = "simple" THEN 2 ELSE 0)

(* All blocks together are one abstract compressor of the whole input,     *)
(* with the bytes actually written for its size: the table of one block    *)
(* never leads into another, and every byte is emitted once.               *)
Whole == INSTANCE SnappyStream WITH
           Inputs <- Sources, input <- source, elements <- out,
           text <- SubSeq(source, 1, taken + (IF InBlock THEN BlockCovered ELSE 0)),
           size <- Len(stream) - Len(Varint(Len(source)))

EmitsSource == Whole!Spec

(* What the caller is left with is the length of the text and elements     *)
(* that stand for it, byte for byte.                                       *)
StreamEncodes == pc = "compressed" => Encodes(stream, Len(source), source)

-----------------------------------------------------------------------------
(***************************************************************************)
(* The inductive invariant (the proofs are in Compress_proofs).            *)
(***************************************************************************)
CallOK ==
    /\ source \in Seq(Byte) /\ Len(source) \div 2 <= MaxInt32
    /\ power \in Powers /\ mixer \in Mixers /\ version \in Versions
    /\ taken \in 0 .. Len(source)
    /\ stream \in Seq(Byte8)

(* The block is where `input' points, and not empty. *)
BlockCurrent ==
    InBlock => /\ left > 0 /\ input = Block
               /\ version = "fast" => BlockInductive
               /\ version = "simple" => SimpleInductive

(* OutputFits for every text, with the bound of unlimited integers.        *)
RoomEnough == Len(stream) - op + outHigh <= RoomFor(Len(source))

(* Bytes beyond the header and the text that all blocks but the current    *)
(* one cost: 68/427 is a 61st and, for the one byte a block may owe, a     *)
(* seventh.                                                                *)
Header == Len(Varint(Len(source)))
Spent  == Len(stream) - (IF InBlock THEN op ELSE 0) - Header

BlocksPaid == InBlock \/ left > 0 => 427 * (Spent - taken) <= 68 * taken

CompressInductive ==
    /\ CallOK /\ DataOK
    /\ BlockCurrent /\ BlocksPaid /\ RoomEnough /\ TableInside

(* Where the stream has got to: it is, at every moment, the encoding of    *)
(* what the elements in it stand for.                                      *)
SoFar == SubSeq(source, 1, taken + (IF InBlock THEN BlockCovered ELSE 0))

StreamSoFar == /\ Encodes(stream, Len(source), SoFar)
               /\ pc = "compressed" => left = 0
============================================================================
