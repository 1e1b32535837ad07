---------------------------- MODULE MCRoundTrip ----------------------------
(***************************************************************************)
(* RoundTrip with blocks of 13 bytes, the margin, the wide copy and the    *)
(* stride scaled down as in MCCompressFragment, and tables of 2, 8 or, for *)
(* a short block, something in between.                                    *)
(***************************************************************************)
EXTENDS RoundTrip

Buckets == 0 .. 2^HashBits - 1

(* Binary value of a word over {0, 1}. *)
Value(w) == w[1] + 2 * w[2] + 4 * w[3] + 8 * w[4]

(* All words collide, or as few as the size of the table allows. *)
TestMixers == { [w \in Word |-> 0], [w \in Word |-> 2 * Value(w)] }

(* Positions ahead of the scan. *)
TestStale == { [b \in Buckets |-> 5] }

(* Blocks: a match that begins at the second byte; one that ends where the *)
(* next begins; two with a literal between them; none.                     *)
Blocks == { <<0, 0, 0, 0, 0, 1, 1, 0, 1, 1, 1, 0, 0>>,
            <<0, 1, 0, 1, 0, 1, 1, 0, 1, 0, 0, 0, 1>>,
            <<0, 0, 0, 1, 1, 0, 0, 0, 1, 0, 0, 0, 1>>,
            <<1, 0, 0, 0, 0, 1, 0, 0, 1, 1, 0, 1, 1>> }

Tails == UNION { [1 .. k -> Byte] : k \in {0, 1, 5} }
            \cup { SubSeq(b, 1, 9) : b \in Blocks }

(* One short block; two blocks and a short one, or none; three blocks,     *)
(* which are too long for the tool; runs.                                  *)
TestSources ==
    UNION { [1 .. k -> Byte] : k \in 0 .. 7 }
    \cup { SubSeq(b, 1, k) : b \in Blocks, k \in 8 .. 13 }
    \cup { a \o b \o c : a \in Blocks, b \in Blocks, c \in Tails }
    \cup { a \o a \o a : a \in Blocks }
    \cup { [i \in 1 .. k |-> 0] : k \in {12, 13, 20} }

(* No header; a copy from before the text; a literal longer than the text; *)
(* the text 7 7 7 7 7.                                                     *)
BadFiles == { <<133>>, <<5, 0, 7, 1, 9>>, <<1, 4, 7, 7>>, <<5, 0, 7, 1, 1>> }

TestJunk == { [k \in 0 .. 4 |-> 0] }
============================================================================
