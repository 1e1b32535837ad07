----------------------------- MODULE RoundTrip -----------------------------
(***************************************************************************)
(* cl_tester.c: `cl_tester -c < file | cl_tester -d -c'.  One process      *)
(* compresses its standard input, the other decompresses what the first    *)
(* one wrote.  The second begins to work when it has read to the end of    *)
(* file, so the two run one after the other.  Or the second is run by      *)
(* itself, on a file that comes from elsewhere.                            *)
(*                                                                         *)
(* The compressor is Compress, the decompressor is Decompress with the     *)
(* variables d_...  Every malloc may fail.                                 *)
(***************************************************************************)
EXTENDS Compress

CONSTANTS MAX_INPUT_SIZE,
          Files,           \* what the second process may be given by itself
          Junk, NoCall,    \* of DecompressNoheader
          Headroom         \* of DecompressSimple

VARIABLES
    tool,                  \* where the two processes are
    c_retval, d_retval,    \* what they return, Running until then
    pipe,                  \* what the first one wrote
    restored,              \* what the second one wrote
    d_limit, d_pc, d_where, d_src, d_end, d_scratch, d_opcode, d_pending,
    d_text, d_answer, d_inHigh, d_scratchHigh, d_dstHigh, d_dst_len, d_olen, d_shift

D == INSTANCE Decompress WITH
       Streams <- {}, Limits <- {},
       input <- pipe, limit <- d_limit, pc <- d_pc, where <- d_where,
       src <- d_src, end <- d_end, scratch <- d_scratch, opcode <- d_opcode,
       pending <- d_pending, text <- d_text, answer <- d_answer,
       inHigh <- d_inHigh, scratchHigh <- d_scratchHigh, dstHigh <- d_dstHigh,
       dst_len <- d_dst_len, olen <- d_olen, shift <- d_shift

dlocals == <<d_limit, d_pc, d_where, d_src, d_end, d_scratch, d_opcode, d_pending,
             d_text, d_answer, d_inHigh, d_scratchHigh, d_dstHigh, d_dst_len, d_olen,
             d_shift>>
tvars   == <<zvars, tool, c_retval, d_retval, pipe, restored, dlocals>>

-----------------------------------------------------------------------------
Running == -1

TripInit ==
    /\ CompressInit
    /\ \/ tool = "compress" /\ pipe = <<>>
       \/ tool = "decompress" /\ pipe \in Files /\ source = <<>>
    /\ c_retval = Running /\ d_retval = Running
    /\ restored = <<>>
    /\ d_limit = 0 /\ d_pc = "idle" /\ d_where = "input"
    /\ d_src = 0 /\ d_end = 0 /\ d_scratch \in Junk /\ d_opcode = 0
    /\ d_pending = NoCall /\ d_text = <<>> /\ d_answer = "none"
    /\ d_inHigh = 0 /\ d_scratchHigh = 0 /\ d_dstHigh = 0
    /\ d_dst_len = 0 /\ d_olen = 0 /\ d_shift = 0

(* End of file is only seen by a read that comes back short. *)
TooLong(file) == Len(file) >= MAX_INPUT_SIZE

(* No memory, or too long a file: nothing is written. *)
CompressFails ==
    /\ tool = "compress"
    /\ c_retval' \in {4} \cup (IF TooLong(source) THEN {5} ELSE {})
    /\ tool' = "decompress"
    /\ UNCHANGED <<zvars, d_retval, pipe, restored, dlocals>>

CompressReads ==
    /\ tool = "compress"
    /\ ~TooLong(source)
    /\ tool' = "compressing"
    /\ UNCHANGED <<zvars, c_retval, d_retval, pipe, restored, dlocals>>

Compressing ==
    /\ tool = "compressing"
    /\ CompressNext
    /\ UNCHANGED <<tool, c_retval, d_retval, pipe, restored, dlocals>>

(* The process ends: what its memory held is of no interest any more, and  *)
(* one value stands for all.                                               *)
CompressExit ==
    /\ tool = "compressing" /\ pc = "compressed"
    /\ pipe' = stream
    /\ c_retval' = 0
    /\ tool' = "decompress"
    /\ table' = [b \in Bucket |-> 0] /\ hashing' = [w \in Word |-> 0]
    /\ input' = <<>> /\ curr_val' = [k \in 1 .. 4 |-> 0]
    /\ ip' = 0 /\ next_ip' = 0 /\ next_emit' = 0 /\ next_hash' = 0 /\ skip' = 0
    /\ candidate' = 0 /\ offset' = 0 /\ copyLeft' = 0
    /\ op' = 0 /\ inHigh' = 0 /\ outHigh' = 0
    /\ UNCHANGED <<pc, out, bvars, stream, d_retval, restored, dlocals>>

-----------------------------------------------------------------------------
DecompressExit(code) == d_retval' = code /\ tool' = "exit"

NoMemory ==
    /\ tool \in {"decompress", "allocate"}
    /\ DecompressExit(4)
    /\ UNCHANGED <<zvars, c_retval, pipe, restored, dlocals>>

DecompressTooLong ==
    /\ tool = "decompress" /\ TooLong(pipe)
    /\ DecompressExit(5)
    /\ UNCHANGED <<zvars, c_retval, pipe, restored, dlocals>>

(* Into csnappy_get_uncompressed_length with the whole of what was read.   *)
EnterHeader(room) ==
    /\ d_pc' = "header" /\ d_src' = 0 /\ d_end' = Len(pipe)
    /\ d_olen' = 0 /\ d_shift' = 0 /\ d_dst_len' = room
    /\ UNCHANGED <<d_limit, d_where, d_scratch, d_opcode, d_pending, d_text,
                   d_answer, d_inHigh, d_scratchHigh, d_dstHigh>>

DecompressReads ==
    /\ tool = "decompress" /\ ~TooLong(pipe)
    /\ tool' = "length"
    /\ EnterHeader(0)
    /\ UNCHANGED <<zvars, c_retval, d_retval, pipe, restored>>

Length ==
    /\ tool = "length"
    /\ D!HeaderByte \/ D!HeaderBad
    /\ tool' = IF d_pc' = "sized" THEN "allocate" ELSE tool
    /\ UNCHANGED <<zvars, c_retval, d_retval, pipe, restored>>

LengthBad ==
    /\ tool = "length" /\ d_answer = "header_bad"
    /\ DecompressExit(6)
    /\ UNCHANGED <<zvars, c_retval, pipe, restored, dlocals>>

(* The buffer is as long as the header says; csnappy_decompress reads the  *)
(* header once more.                                                       *)
Allocate ==
    /\ tool = "allocate"
    /\ tool' = "decompressing"
    /\ EnterHeader(d_olen)
    /\ UNCHANGED <<zvars, c_retval, d_retval, pipe, restored>>

Decompressing ==
    /\ tool = "decompressing" /\ d_answer = "none"
    /\ D!CallNext
    /\ UNCHANGED <<zvars, tool, c_retval, d_retval, pipe, restored>>

DecompressRefused ==
    /\ tool = "decompressing" /\ d_answer \notin {"none", "ok"}
    /\ DecompressExit(7)
    /\ UNCHANGED <<zvars, c_retval, pipe, restored, dlocals>>

(* All of the buffer is written, decompressed or not. *)
DecompressWrites ==
    /\ tool = "decompressing" /\ d_answer = "ok"
    /\ restored' = [i \in 1 .. d_olen |-> IF i <= Len(d_text) THEN d_text[i] ELSE 0]
    /\ DecompressExit(0)
    /\ UNCHANGED <<zvars, c_retval, pipe, dlocals>>

TripNext ==
    \/ CompressFails \/ CompressReads \/ Compressing \/ CompressExit
    \/ NoMemory \/ DecompressTooLong \/ DecompressReads
    \/ Length \/ LengthBad \/ Allocate
    \/ Decompressing \/ DecompressRefused \/ DecompressWrites

Exited == tool = "exit" /\ UNCHANGED tvars

TripSpec     == TripInit /\ [][TripNext \/ Exited]_tvars
FairTripSpec == TripSpec /\ WF_tvars(TripNext)

-----------------------------------------------------------------------------
(* The Makefile's "compress-decompress restores original": unless memory   *)
(* runs out or a file is too long, the second process writes the bytes the *)
(* first one read, whatever hash function, table and versions they use; it *)
(* refuses nothing that the first one wrote, and notices when it wrote     *)
(* nothing.                                                                *)
Restores ==
    c_retval # Running =>
        /\ d_retval = 0 => c_retval = 0 /\ restored = source
        /\ d_retval \in {6, 7} => c_retval # 0

(* Both processes come to an end. *)
Finishes == <>(tool = "exit")
============================================================================
