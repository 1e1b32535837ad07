------------------------ MODULE MCFindMatchLength ------------------------
(***************************************************************************)
(* FindMatchLength on up to nine bytes any of which differ, and on up to   *)
(* 25 that differ in one bit, and in all of the last byte.                 *)
(***************************************************************************)
EXTENDS FindMatchLength

TestBytes == SUBSET Bits

Text(k) == [i \in 1 .. k |-> { i % 8 }]

(* Text(k) with the bits x changed in the bytes d. *)
Changed(k, d, x) == [i \in 1 .. k |-> IF i \in d THEN Xor(Text(k)[i], x) ELSE Text(k)[i]]

TestPairs ==
    { [a |-> Text(k), b |-> Changed(k, d, {0, 7})] :
        k \in {0, 1, 3, 4, 5, 7, 8, 9}, d \in SUBSET (1 .. 9) }
    \cup { [a |-> Text(k), b |-> [Changed(k, {i}, {j}) EXCEPT ![k] = Bits]] :
             k \in {16, 19, 25}, i \in 1 .. 16, j \in Bits }
============================================================================
