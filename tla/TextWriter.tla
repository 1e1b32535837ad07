---------------------------- MODULE TextWriter ----------------------------
(***************************************************************************)
(* What the output side of a decoder promises: it is called with one       *)
(* element at a time and either appends what the element stands for, or    *)
(* refuses it and leaves the text alone.  It refuses for exactly two       *)
(* reasons: a copy that reaches before the text, and a result longer than  *)
(* the limit.                                                              *)
(***************************************************************************)
EXTENDS SnappyElements

CONSTANT Idle         \* no call is being served

VARIABLES text,       \* what has been written
          limit,      \* how long it may become
          pending,    \* the element being served, or Idle
          ret         \* the answer to the last call

tvars == <<text, limit, pending, ret>>

ResultLen(e) == IF e.kind = "literal" THEN Len(e.bytes) ELSE e.len
BadOffset(e) == e.kind = "copy" /\ e.offset \notin 1 .. Len(text)
TooLong(e)   == Len(text) + ResultLen(e) > limit

Init == /\ limit \in Nat
        /\ Len(text) <= limit
        /\ pending = Idle
        /\ ret = "ok"

Call == /\ pending = Idle
        /\ pending' # Idle
        /\ UNCHANGED <<text, limit, ret>>

Accept == /\ pending # Idle
          /\ ~BadOffset(pending) /\ ~TooLong(pending)
          /\ Denotes(text, pending, text')
          /\ ret' = "ok"

Refuse == /\ pending # Idle
          /\ \/ BadOffset(pending) /\ ret' = "malformed"
             \/ ~BadOffset(pending) /\ TooLong(pending) /\ ret' = "overrun"
          /\ UNCHANGED text

Answer == (Accept \/ Refuse) /\ pending' = Idle /\ UNCHANGED limit

Next == Call \/ Answer

Spec == Init /\ [][Next]_tvars
============================================================================
