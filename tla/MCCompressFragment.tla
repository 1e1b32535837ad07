------------------------ MODULE MCCompressFragment ------------------------
(***************************************************************************)
(* Two instances of CompressFragment.                                      *)
(*                                                                         *)
(* Exhaustive: every text over two byte values up to a length, with the    *)
(* margin, the wide copy and the stride scaled down so that these short    *)
(* texts reach every branch.                                               *)
(*                                                                         *)
(* Shaped: the code's own constants on texts built to reach the limits of  *)
(* the format: literals on both sides of 16, 60 and 256 bytes, matches     *)
(* around 64 and 68 bytes, offsets on both sides of 2048.                  *)
(***************************************************************************)
EXTENDS CompressFragment

CONSTANT Lengths                 \* the lengths of the exhaustive texts

ExhaustiveInputs == UNION {[1 .. k -> Byte] : k \in Lengths}

(* Binary value of a word over {0, 1}. *)
Value(w) == w[1] + 2 * w[2] + 4 * w[3] + 8 * w[4]

(* All words collide, or none does. *)
SmallBuckets == 0 .. 15
SmallHashes  == { [w \in Word |-> 0], [w \in Word |-> Value(w)] }

(* The previous contents: positions ahead of the scan. *)
SmallStale == { [b \in SmallBuckets |-> 4] }

-----------------------------------------------------------------------------
(* k bytes in which no word of four occurs twice (k at most 619): the      *)
(* digits of 1/617 in base 5, which modulo 617 has order 616.  The powers  *)
(* of 5 are split in two to keep the recursion short.                      *)
Power(b, k) == LET p[i \in 0 .. k] == IF i = 0 THEN 1 ELSE (b * p[i - 1]) % 617
               IN  p[k]
Giant    == [j \in 0 .. 38 |-> Power(Power(5, 16), j)]
Baby     == [j \in 0 .. 15 |-> Power(5, j)]
Rest(i)  == (Giant[i \div 16] * Baby[i % 16]) % 617
Fresh(k) == [i \in 1 .. k |-> (5 * Rest(i)) \div 617]

Run(b, k) == [i \in 1 .. k |-> b]

(* A literal of about k bytes, a run, and bytes seen before up to the end. *)
Shape(k) == Fresh(k) \o Run(3, 20) \o SubSeq(Fresh(40), 21, 40)

ShapedInputs ==
    { Shape(k) : k \in {1, 14, 17, 18, 56, 60, 247, 250, 252} }
    \cup { Fresh(k) : k \in {0, 1, 14, 15, 16, 17, 60, 61, 256, 257} }
    \* matches of 61 to 70 and of 128 to 137 bytes
    \cup { <<0, 1>> \o Run(3, len) \o Fresh(17) : len \in 62 .. 71 \cup 129 .. 134 }
    \* short copies from 2046 to 2048 bytes back
    \cup { Fresh(8) \o Run(3, gap) \o Fresh(8) \o Run(2, 15) : gap \in 2038 .. 2040 }

WordBuckets == 0 .. 624
Value5(w)   == w[1] + 5 * w[2] + 25 * w[3] + 125 * w[4]
WordHashes  == { [w \in Word |-> Value5(w)], [w \in Word |-> Value5(w) \div 5] }
WordStale   == { [b \in WordBuckets |-> PosLimit - 1] }
============================================================================
