--------------------------- MODULE StreamDecoder ---------------------------
(***************************************************************************)
(* What a decompressor of a stream without header promises.  It takes one  *)
(* element after another off the input and extends the text by what each   *)
(* stands for.  It stops at the first one it has to refuse, for the        *)
(* reasons TextWriter gives, and with "ok" when no input is left.          *)
(*                                                                         *)
(* An element may be cut off by the end of the input.  A literal is then   *)
(* always refused.  A copy may go unnoticed: it has the length its tag     *)
(* says, but it may repeat any part of the text.                           *)
(***************************************************************************)
EXTENDS SnappyFormat

VARIABLES input,      \* the stream
          limit,      \* how long the text may become
          at,         \* where the next element starts
          text,       \* what the elements before it stand for
          answer      \* "none" until the call returns

dvars == <<input, limit, at, text, answer>>

Init == /\ input \in Seq(Byte8)
        /\ limit \in Nat
        /\ at = 0
        /\ text = <<>>
        /\ answer = "none"

Fits(k)      == Len(text) + k <= limit
Reachable(o) == o \in 1 .. Len(text)

Literal ==
    /\ WholeLiteral(input, at)
    /\ LET e == LiteralAt(input, at) IN
         \/ /\ Fits(Len(e.bytes))
            /\ Denotes(text, e, text')
            /\ at' = BodyAt(input, at) + Len(e.bytes)
            /\ UNCHANGED answer
         \/ /\ ~Fits(Len(e.bytes))
            /\ answer' = "overrun"
            /\ UNCHANGED <<at, text>>

Copy ==
    /\ WholeCopy(input, at)
    /\ LET e == CopyAt(input, at) IN
         \/ /\ Reachable(e.offset) /\ Fits(e.len)
            /\ Denotes(text, e, text')
            /\ at' = BodyAt(input, at)
            /\ UNCHANGED answer
         \/ /\ Reachable(e.offset) /\ ~Fits(e.len)
            /\ answer' = "overrun"
            /\ UNCHANGED <<at, text>>
         \/ /\ ~Reachable(e.offset)
            /\ answer' = "malformed"
            /\ UNCHANGED <<at, text>>

(* The length of a literal is more than would fit, or cannot be known. *)
TooLongOrTorn ==
    \/ ~HeaderWhole(input, at)
    \/ LengthAt(input, at) < 0
    \/ LengthAt(input, at) > limit - Len(text)

TornLiteral ==
    /\ IsLiteral(TagAt(input, at)) /\ ~WholeLiteral(input, at)
    /\ \/ answer' = "malformed"
       \/ TooLongOrTorn /\ answer' = "overrun"
    /\ UNCHANGED <<at, text>>

TornCopy ==
    /\ ~IsLiteral(TagAt(input, at)) /\ ~HeaderWhole(input, at)
    /\ \/ /\ \E o \in 1 .. Len(text) :
               Denotes(text, CopyElement(o, CopyLen(TagAt(input, at))), text')
          /\ Fits(CopyLen(TagAt(input, at)))
          /\ at' = Len(input)
          /\ UNCHANGED answer
       \/ /\ answer' \in {"malformed", "overrun"}
          /\ UNCHANGED <<at, text>>

Element ==
    /\ answer = "none" /\ at < Len(input)
    /\ Literal \/ Copy \/ TornLiteral \/ TornCopy
    /\ UNCHANGED <<input, limit>>

Finish ==
    /\ answer = "none" /\ at = Len(input)
    /\ answer' = "ok"
    /\ UNCHANGED <<input, limit, at, text>>

Next == Element \/ Finish

Spec == Init /\ [][Next]_dvars
============================================================================
