--------------------------- MODULE SnappyStream ---------------------------
(***************************************************************************)
(* What a compressor of one fragment promises, whatever it does to find    *)
(* matches: it emits one element after another, each of a form the format  *)
(* can hold, and the elements emitted so far always mean a prefix of the   *)
(* input.  `size' is the number of bytes they occupy.                      *)
(***************************************************************************)
EXTENDS SnappyElements

CONSTANT Inputs       \* the texts that may be given to the compressor

VARIABLES input,      \* the text being compressed
          elements,   \* the elements emitted so far
          text,       \* what a decoder makes of them
          size        \* how many bytes they take

svars == <<input, elements, text, size>>

Init == /\ input \in Inputs
        /\ elements = <<>>
        /\ text = <<>>
        /\ size = 0

(* The text grows along the input by k bytes, and e accounts for them. *)
Emit(e, k) ==
    /\ elements' = Append(elements, e)
    /\ text' = SubSeq(input, 1, Len(text) + k)
    /\ Denotes(text, e, text')
    /\ size' = size + ElementSize(e)
    /\ UNCHANGED input

Literal(k) ==
    Emit(LiteralElement(SubSeq(input, Len(text) + 1, Len(text) + k)), k)

Copy(o, len) == Emit(CopyElement(o, len), len)

Next == \E k \in 1 .. (Len(input) - Len(text)) :
          /\ Len(text') = Len(text) + k
          /\ \/ Literal(k)
             \/ /\ k \in MinCopyLen .. MaxCopyLen
                /\ \E o \in 1 .. Len(text) : o <= MaxOffset /\ Copy(o, k)

Spec == Init /\ [][Next]_svars

(* The whole input has been accounted for. *)
Complete == text = input
============================================================================
