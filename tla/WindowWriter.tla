---------------------------- MODULE WindowWriter ----------------------------
(***************************************************************************)
(* What a ring buffer that holds the last output promises (the comment of  *)
(* OutputBuffer): what is put is appended to the text, a repeat appends    *)
(* bytes that are each equal to the one `distance' back, a repeat is       *)
(* refused only when it reaches back further than the text or the window,  *)
(* and when the buffer is flushed the text is in the file.                 *)
(***************************************************************************)
EXTENDS Integers, Sequences, SequencesExt

CONSTANT Window      \* how far back a repeat may reach

VARIABLES text,      \* everything put so far
          coming,    \* the bytes still to be put
          repeat,    \* [distance, left] of the repeat being done
          mode       \* "open", "raised" or "flushed"

Idle == coming = <<>> /\ repeat.left = 0 /\ mode = "open"

Init == /\ text = <<>> /\ coming = <<>> /\ repeat = [distance |-> 1, left |-> 0]
        /\ mode = "open"

(* A distance of zero means nothing; the text is then of the right length. *)
Repeats(from, to, distance) ==
    /\ IsPrefix(from, to)
    /\ distance > 0 =>
         \A i \in Len(from) + 1 .. Len(to) : to[i] = to[i - distance]

Put == /\ Idle /\ coming' # <<>> /\ UNCHANGED <<text, repeat, mode>>

PutOne == /\ Idle /\ IsPrefix(text, text') /\ Len(text') = Len(text) + 1
          /\ UNCHANGED <<coming, repeat, mode>>

AppendSome ==
    /\ coming # <<>>
    /\ \E n \in 1 .. Len(coming) : /\ text' = text \o SubSeq(coming, 1, n)
                                   /\ coming' = SubSeq(coming, n + 1, Len(coming))
    /\ UNCHANGED <<repeat, mode>>

Repeat == /\ Idle /\ repeat'.left > 0 /\ repeat'.distance <= Len(text)
          /\ UNCHANGED <<text, coming, mode>>

RepeatSome ==
    /\ repeat.left > 0 /\ mode = "open"
    /\ \E n \in 1 .. repeat.left : /\ Len(text') = Len(text) + n
                                   /\ repeat' = [repeat EXCEPT !.left = @ - n]
    /\ Repeats(text, text', repeat.distance)
    /\ UNCHANGED <<coming, mode>>

Refuse == /\ Idle /\ mode' = "raised"
          /\ repeat'.distance > Window \/ repeat'.distance > Len(text)
          /\ UNCHANGED <<text, coming>>

(* A flush before anything was put is not provided for. *)
Flush  == /\ Idle /\ mode' = "flushed"
          /\ text # <<>> => text' = text
          /\ UNCHANGED <<coming, repeat>>

Next == Put \/ PutOne \/ AppendSome \/ Repeat \/ RepeatSome \/ Refuse \/ Flush

Spec == Init /\ [][Next]_<<text, coming, repeat, mode>>
============================================================================
