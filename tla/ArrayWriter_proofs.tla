------------------------ MODULE ArrayWriter_proofs ------------------------
(***************************************************************************)
(* Proofs about ArrayWriter: its inductive invariant, that no store passes *)
(* the limit, and that it implements TextWriter.                           *)
(***************************************************************************)
EXTENDS ArrayWriter, SequenceTheorems, TLAPS

(* What a call may be. *)
LEMMA CallShape ==
    ASSUME NEW e \in Calls
    PROVE  /\ e # NoCall
           /\ e.kind \in {"literal", "copy"}
           /\ e.kind = "copy" => e.offset \in Nat /\ e.len \in Nat /\ e.len >= 1
           /\ e.kind = "literal" => /\ e.bytes \in Seq(Value) /\ e.ahead \in Seq(Value)
                                    /\ e.fast => Len(e.bytes) + Len(e.ahead) = 16
<1>1. e \in LiteralCall \cup CopyCall /\ e # NoCall
  BY CallAssumption
<1>2. CASE e \in LiteralCall
  BY <1>1, <1>2, CallAssumption DEF LiteralCall
<1>3. CASE e \in CopyCall
  BY <1>1, <1>3 DEF CopyCall
<1> QED
  BY <1>1, <1>2, <1>3

(* One move changes the bytes at the destination and no others. *)
LEMMA MoveResult ==
    ASSUME mem \in [0 .. MemSize - 1 -> Value],
           NEW s \in Nat, NEW d \in Nat, s < d, NEW w \in Nat
    PROVE  /\ Move(s, d, w) \in [0 .. MemSize - 1 -> Value]
           /\ \A i \in 0 .. MemSize - 1 :
                Move(s, d, w)[i] = IF d <= i /\ i < d + w THEN mem[s + (i - d)] ELSE mem[i]
<1>1. \A i \in 0 .. MemSize - 1 :
        Move(s, d, w)[i] = IF d <= i /\ i < d + w THEN mem[s + (i - d)] ELSE mem[i]
  BY MemAssumption DEF Move
<1>2. \A i \in 0 .. MemSize - 1 : d <= i => s + (i - d) \in 0 .. MemSize - 1
  BY MemAssumption
<1>3. Move(s, d, w) = [i \in 0 .. MemSize - 1 |->
        IF i \in d .. d + w - 1 THEN mem[s + (i - d)] ELSE mem[i]]
  BY DEF Move
<1>4. \A i \in 0 .. MemSize - 1 :
        (IF i \in d .. d + w - 1 THEN mem[s + (i - d)] ELSE mem[i]) \in Value
  BY <1>2, MemAssumption
<1> QED
  BY <1>1, <1>3, <1>4

(* A writer that has not been asked for anything. *)
LEMMA InitInductive == Init => Inductive
<1> SUFFICES ASSUME Init PROVE Inductive
  OBVIOUS
<1>1. TypeOK
  <2>1. mem \in [0 .. MemSize - 1 -> Value] /\ limit \in 0 .. MemSize /\ op \in Nat
    BY MemAssumption DEF Init
  <2>2. op \in 0 .. limit
    BY <2>1, MemAssumption DEF Init
  <2> QED
    BY <2>1, <2>2 DEF Init, TypeOK, Units
<1>2. high <= limit /\ phase = "idle" /\ call = NoCall /\ piece = 0
  BY <1>1 DEF Init, TypeOK
<1> QED
  BY <1>1, <1>2 DEF Inductive, Serving, Room, Counters, Recurrence, InPhase,
                    Moved, StaysInside, Overshoot, Copying, Doubling

-----------------------------------------------------------------------------
(* A step that ends in phase idle or called has only the types, the call   *)
(* and the limit to respect.                                               *)
LEMMA Quiet ==
    ASSUME TypeOK', Serving', piece' = 0, high' <= limit',
           phase' \in {"idle", "called"}
    PROVE  Inductive'
BY DEF Inductive, Room, Counters, Recurrence, InPhase, Moved, StaysInside,
       Overshoot, Copying, Doubling

(* The decoder may ask for any element. *)
LEMMA InvokeInductive ==
    ASSUME Inductive, NEW e \in Calls, Invoke(e)
    PROVE  Inductive'
<1>1. call' \in Calls /\ call' # NoCall /\ phase' = "called"
  BY CallShape DEF Invoke
<1>2. TypeOK'
  BY <1>1 DEF Inductive, TypeOK, Invoke
<1>3. Serving'
  BY <1>1 DEF Serving, Copying, Doubling
<1>4. piece = 0
  BY DEF Inductive, Counters, Invoke
<1> QED
  BY <1>1, <1>2, <1>3, <1>4, Quiet DEF Inductive, StaysInside, Invoke

(* A refusal leaves the array and the loops as they were. *)
LEMMA FailInductive ==
    ASSUME Inductive, phase = "called", NEW error \in {"malformed", "overrun"},
           Fail(error), UNCHANGED <<limit, unit>>
    PROVE  Inductive'
<1>1. TypeOK'
  BY DEF Inductive, TypeOK, Fail
<1>2. Serving'
  BY DEF Serving, Copying, Doubling, Fail
<1>3. piece = 0
  BY DEF Inductive, Counters
<1> QED
  BY <1>1, <1>2, <1>3, Quiet DEF Inductive, StaysInside, Fail

(* What PutBytes does to the array, given room for all it writes. *)
LEMMA PutResult ==
    ASSUME Inductive, NEW s \in Seq(Value), NEW k \in 0 .. Len(s),
           op + Len(s) <= limit, PutBytes(s, k)
    PROVE  /\ mem' \in [0 .. MemSize - 1 -> Value]
           /\ \A i \in 0 .. op - 1 : mem'[i] = mem[i]
           /\ \A i \in 1 .. Len(s) : mem'[op + i - 1] = s[i]
           /\ op' \in 0 .. limit
<1>1. /\ mem \in [0 .. MemSize - 1 -> Value] /\ op \in Nat /\ limit \in 0 .. MemSize
      /\ MemSize \in Nat /\ op <= limit
  BY MemAssumption DEF Inductive, TypeOK
<1>2. Len(s) \in Nat /\ \A i \in 1 .. Len(s) : s[i] \in Value
  BY ElementOfSeq, LenProperties
<1>3. mem' = [i \in 0 .. MemSize - 1 |->
                IF i \in op .. op + Len(s) - 1 THEN s[i - op + 1] ELSE mem[i]]
  BY <1>1 DEF PutBytes
<1>4. \A i \in 0 .. MemSize - 1 :
        (IF i \in op .. op + Len(s) - 1 THEN s[i - op + 1] ELSE mem[i]) \in Value
  <2> SUFFICES ASSUME NEW i \in 0 .. MemSize - 1, i \in op .. op + Len(s) - 1
               PROVE  s[i - op + 1] \in Value
    BY <1>1
  <2>1. i - op + 1 \in 1 .. Len(s)
    BY <1>1, <1>2
  <2> QED
    BY <2>1, <1>2
<1>5. op' = op + k
  BY DEF PutBytes, Return
<1>6. \A i \in 1 .. Len(s) : op + i - 1 \in 0 .. MemSize - 1 /\ op + i - 1 \in op .. op + Len(s) - 1
                             /\ (op + i - 1) - op + 1 = i
  BY <1>1, <1>2
<1> QED
  BY <1>1, <1>2, <1>3, <1>4, <1>5, <1>6

(* A literal keeps the invariant when what is written fits. *)
LEMMA PutInductive ==
    ASSUME Inductive, phase = "called", NEW s \in Seq(Value), NEW k \in 0 .. Len(s),
           op + Len(s) <= limit, PutBytes(s, k), UNCHANGED <<limit, unit>>
    PROVE  Inductive'
<1>1. mem' \in [0 .. MemSize - 1 -> Value] /\ op' \in 0 .. limit
  BY PutResult
<1>2. op \in Nat /\ limit \in Nat /\ Len(s) \in Nat
  BY MemAssumption, LenProperties DEF Inductive, TypeOK
<1>3. high' = op + Len(s) /\ high' \in Nat
  BY <1>2 DEF PutBytes
<1>4. /\ ret' = "ok" /\ phase' = "idle" /\ call' = NoCall
      /\ UNCHANGED <<src, to, left, piece>>
  BY DEF PutBytes, Return
<1>5. TypeOK'
  BY <1>1, <1>3, <1>4 DEF Inductive, TypeOK
<1>6. Serving'
  BY <1>4 DEF Serving, Copying, Doubling
<1>7. piece' = 0
  BY <1>4 DEF Inductive, Counters
<1> QED
  BY <1>3, <1>4, <1>5, <1>6, <1>7, Quiet

(* The bytes of the two ways to append a literal, and that they fit. *)
LEMMA LiteralFits ==
    ASSUME Inductive, phase = "called", call.kind = "literal"
    PROVE  /\ call.bytes \in Seq(Value) /\ Len(call.bytes) \in Nat
           /\ call.bytes \o call.ahead \in Seq(Value)
           /\ call.fast => /\ Len(call.bytes \o call.ahead) = 16
                           /\ Len(call.bytes) <= 16
           /\ Len(call.bytes) <= Len(call.bytes \o call.ahead)
           /\ \A i \in 1 .. Len(call.bytes) : (call.bytes \o call.ahead)[i] = call.bytes[i]
<1>1. call \in Calls
  BY DEF Inductive, TypeOK, Serving
<1>2. call.bytes \in Seq(Value) /\ call.ahead \in Seq(Value)
      /\ (call.fast => Len(call.bytes) + Len(call.ahead) = 16)
  BY <1>1, CallShape
<1>3. Len(call.bytes) \in Nat /\ Len(call.ahead) \in Nat
  BY <1>2, LenProperties
<1>4. /\ call.bytes \o call.ahead \in Seq(Value)
      /\ Len(call.bytes \o call.ahead) = Len(call.bytes) + Len(call.ahead)
      /\ \A i \in 1 .. Len(call.bytes) + Len(call.ahead) :
           (call.bytes \o call.ahead)[i] = IF i <= Len(call.bytes) THEN call.bytes[i]
                                            ELSE call.ahead[i - Len(call.bytes)]
  BY <1>2, ConcatProperties
<1> DEFINE b == Len(call.bytes)
           a == Len(call.ahead)
           w == call.bytes \o call.ahead
           v == Len(w)
<1>5. /\ v = b + a /\ b \in Nat /\ a \in Nat /\ (call.fast => b + a = 16)
      /\ \A i \in 1 .. b + a : w[i] = IF i <= b THEN call.bytes[i] ELSE call.ahead[i - b]
  BY <1>2, <1>3, <1>4
<1>6. /\ call.fast => v = 16 /\ b <= 16
      /\ b <= v
      /\ \A i \in 1 .. b : w[i] = call.bytes[i]
  <2> HIDE DEF v, w, a, b
  <2> QED
    BY <1>5
<1> QED
  BY <1>2, <1>3, <1>4, <1>6

(* The three answers of SAW__AppendFastPath and SAW__Append. *)
LEMMA LiteralInductive ==
    ASSUME Inductive, AppendWide \/ AppendExact \/ AppendOverrun
    PROVE  Inductive'
<1>0. op \in Nat /\ limit \in Nat
  BY MemAssumption DEF Inductive, TypeOK
<1>1. CASE AppendWide
  <2>1. /\ phase = "called" /\ call.kind = "literal" /\ call.fast /\ 16 <= limit - op
        /\ PutBytes(call.bytes \o call.ahead, Len(call.bytes))
    BY <1>0, <1>1 DEF AppendWide, space_left
  <2> DEFINE w == call.bytes \o call.ahead
  <2>2. /\ w \in Seq(Value) /\ Len(w) = 16
        /\ Len(call.bytes) \in Nat /\ Len(call.bytes) <= 16
    BY <2>1, LiteralFits
  <2>3. PutBytes(w, Len(call.bytes))
    BY <2>1
  <2>5. 16 <= limit - op
    BY <2>1
  <2> HIDE DEF w
  <2>4. Len(call.bytes) \in 0 .. Len(w) /\ op + Len(w) <= limit
    <3> DEFINE v == Len(w)
               b == Len(call.bytes)
    <3>1. v = 16 /\ b \in Nat /\ b <= 16
      BY <2>2
    <3>2. b \in 0 .. v /\ op + v <= limit
      <4> HIDE DEF v, b
      <4> QED
        BY <1>0, <2>5, <3>1
    <3> QED
      BY <3>2
  <2> QED
    BY <1>1, <2>1, <2>2, <2>3, <2>4, PutInductive DEF AppendWide
<1>2. CASE AppendExact
  <2>1. /\ phase = "called" /\ call.kind = "literal" /\ Len(call.bytes) <= limit - op
        /\ PutBytes(call.bytes, Len(call.bytes))
    BY <1>0, <1>2, LiteralFits DEF AppendExact, space_left
  <2>2. Len(call.bytes) \in 0 .. Len(call.bytes) /\ op + Len(call.bytes) <= limit
    BY <1>0, <2>1, LiteralFits
  <2> QED
    BY <1>2, <2>1, <2>2, LiteralFits, PutInductive DEF AppendExact
<1>3. CASE AppendOverrun
  BY <1>3, FailInductive DEF AppendOverrun
<1> QED
  BY <1>1, <1>2, <1>3

-----------------------------------------------------------------------------
(* The numbers of a copy that is being served. *)
LEMMA CopyNumbers ==
    ASSUME TypeOK, Serving, call.kind = "copy", phase \in Copying \cup {"called"}
    PROVE  /\ call \in Calls
           /\ call.offset \in Nat /\ call.len \in Nat /\ call.len >= 1
           /\ op \in Nat /\ limit \in Nat /\ MemSize \in Nat
           /\ op <= limit /\ limit <= MemSize
           /\ ~BadOffset => 1 <= call.offset /\ call.offset <= op
           /\ src \in Nat /\ to \in Nat /\ left \in Int /\ high \in Nat
           /\ unit \in {1, 4, 8} /\ piece \in 0 .. 7 /\ piece + unit <= 8
<1>1. call \in Calls
  BY DEF TypeOK, Serving, Copying, Doubling
<1>2. call.offset \in Nat /\ call.len \in Nat /\ call.len >= 1
  BY <1>1, CallShape
<1>3. op \in Nat /\ limit \in Nat /\ MemSize \in Nat /\ op <= limit /\ limit <= MemSize
  BY MemAssumption DEF TypeOK
<1>4. ~BadOffset => 1 <= call.offset /\ call.offset <= op
  BY <1>2, <1>3 DEF BadOffset
<1>5. unit \in {1, 4, 8} /\ piece \in 0 .. 7 /\ piece + unit <= 8
  BY DEF TypeOK, Units
<1> QED
  BY <1>1, <1>2, <1>3, <1>4, <1>5 DEF TypeOK

(* Each loop starts with the pattern in phase and nothing copied yet. *)
LEMMA SelfBeginInductive ==
    ASSUME Inductive, SelfBegin
    PROVE  Inductive'
<1>1. phase = "called" /\ call.kind = "copy" /\ ~BadOffset
  BY DEF SelfBegin
<1>2. /\ call \in Calls /\ call.offset \in Nat /\ call.len \in Nat /\ call.len >= 1
      /\ op \in Nat /\ limit \in Nat /\ op <= limit
      /\ 1 <= call.offset /\ call.offset <= op
  BY <1>1, CopyNumbers DEF Inductive
<1>3. /\ src' = op - call.offset /\ to' = op /\ piece' = 0 /\ high' = op
      /\ UNCHANGED <<mem, op, limit, unit, call, ret>>
  BY DEF SelfBegin
<1>4. \/ /\ call.len <= 16 /\ call.offset >= 8 /\ op + 16 <= limit
         /\ phase' = "two" /\ left' = 16
      \/ /\ op + call.len + 10 <= limit
         /\ phase' = "expand" /\ left' = call.len
      \/ /\ op + call.len <= limit
         /\ phase' = "bytes" /\ left' = call.len
  BY <1>2 DEF SelfBegin, TwoWords, FastEnough, space_left, kMaxIncrementCopyOverflow
<1>5. TypeOK'
  <2>1. phase' \in {"two", "expand", "bytes"} /\ left' \in Int
    BY <1>2, <1>4
  <2>2. src' \in Nat /\ to' \in Nat /\ high' \in Nat
    BY <1>2, <1>3
  <2>3. (unit = 1 /\ piece' \in 0 .. 7) \/ (unit = 4 /\ piece' \in {0, 4}) \/ (unit = 8 /\ piece' = 0)
    BY <1>3 DEF Inductive, TypeOK, Units
  <2> QED
    BY <1>3, <2>1, <2>2, <2>3 DEF Inductive, TypeOK
<1>6. Serving'
  BY <1>1, <1>2, <1>3, <1>4, CallShape DEF Serving, Copying, Doubling, BadOffset
<1>7. Room'
  BY <1>2, <1>3, <1>4 DEF Room, Doubling, kMaxIncrementCopyOverflow
<1>8. Gap' = call.offset
  BY <1>2, <1>3 DEF Gap
<1>9. Counters'
  <2>1. op' <= to' /\ to' <= high' /\ op' - call'.offset <= src' /\ call'.offset <= Gap'
    BY <1>2, <1>3, <1>8
  <2>2. src' = op' - call'.offset
    BY <1>3
  <2> QED
    BY <1>2, <1>3, <1>4, <1>8, <2>1, <2>2 DEF Counters, Doubling, Copying
<1>10. Recurrence'
  BY <1>2, <1>3 DEF Recurrence
<1>11. InPhase'
  BY <1>2, <1>3 DEF InPhase
<1>12. Moved'
  BY <1>3 DEF Moved
<1>13. StaysInside' /\ Overshoot'
  BY <1>2, <1>3 DEF StaysInside, Overshoot, kMaxIncrementCopyOverflow
<1> QED
  BY <1>5, <1>6, <1>7, <1>9, <1>10, <1>11, <1>12, <1>13 DEF Inductive

-----------------------------------------------------------------------------
(* One store of a wide move stays where there is room, leaves the text     *)
(* alone, and extends what has been moved faithfully.                      *)
LEMMA PieceMoved ==
    ASSUME Inductive, phase \in {"two"} \cup Doubling,
           phase = "expand" => Gap < 8,
           phase # "expand" => left > 0,
           mem' = Move(src + piece, to + piece, unit)
    PROVE  /\ mem' \in [0 .. MemSize - 1 -> Value]
           /\ \A i \in 0 .. to - 1 : mem'[i] = mem[i]
           /\ \A k \in 0 .. piece + unit - 1 :
                k < Gap => mem'[to + k] = mem[src + k] /\ mem'[src + k] = mem[src + k]
           /\ to + 8 <= limit
           /\ phase \in Doubling => to + 8 <= op + call.len + 10
<1>1. /\ call.kind = "copy" /\ ~BadOffset /\ phase \in Copying
      /\ TypeOK /\ Serving
  BY DEF Inductive, Serving, Copying
<1>2. /\ call.offset \in Nat /\ call.len \in Nat /\ call.len >= 1
      /\ op \in Nat /\ limit \in Nat /\ MemSize \in Nat /\ limit <= MemSize
      /\ 1 <= call.offset /\ call.offset <= op
      /\ src \in Nat /\ to \in Nat /\ left \in Int
      /\ unit \in {1, 4, 8} /\ piece \in 0 .. 7 /\ piece + unit <= 8
  BY <1>1, CopyNumbers
<1>3. /\ op <= to /\ call.offset <= to - src
      /\ op - call.offset <= src
  BY <1>1 DEF Inductive, Counters, Gap
<1>4. to + 8 <= limit /\ (phase \in Doubling => to + 8 <= op + call.len + 10)
  <2>1. CASE phase = "two"
    <3>1. to + left = op + 16 /\ left \in {0, 8, 16} /\ op + 16 <= limit
      BY <2>1 DEF Inductive, Counters, Room
    <3> QED
      BY <1>2, <2>1, <3>1 DEF Doubling
  <2>2. CASE phase = "wide"
    <3>1. to + left = op + call.len /\ op + call.len + 10 <= limit
      BY <2>2 DEF Inductive, Counters, Room, Doubling, kMaxIncrementCopyOverflow
    <3> QED
      BY <1>2, <2>2, <3>1
  <2>3. CASE phase = "expand"
    <3>1. /\ op + call.len + 10 <= limit /\ to - src < 8 /\ src = op - call.offset
          /\ to - src \in {call.offset, 2 * call.offset, 4 * call.offset, 8 * call.offset}
      BY <2>3 DEF Inductive, Counters, Room, Doubling, Gap, kMaxIncrementCopyOverflow
    <3>2. to - src <= call.offset + 3
      BY <1>2, <3>1
    <3> QED
      BY <1>2, <3>1, <3>2
  <2> QED
    BY <2>1, <2>2, <2>3 DEF Doubling
<1>5. /\ src + piece \in Nat /\ to + piece \in Nat /\ src + piece < to + piece /\ unit \in Nat
      /\ mem \in [0 .. MemSize - 1 -> Value]
  BY <1>1, <1>2, <1>3 DEF TypeOK
<1>6. /\ mem' \in [0 .. MemSize - 1 -> Value]
      /\ \A i \in 0 .. MemSize - 1 :
           mem'[i] = IF to + piece <= i /\ i < to + piece + unit
                       THEN mem[src + piece + (i - (to + piece))] ELSE mem[i]
  BY <1>5, MoveResult
<1>7. \A i \in 0 .. to + piece - 1 : mem'[i] = mem[i]
  BY <1>2, <1>4, <1>6
<1>10. \A i \in 0 .. MemSize - 1 :
         to + piece <= i /\ i < to + piece + unit => mem'[i] = mem[src + (i - to)]
  <2> SUFFICES ASSUME NEW i \in 0 .. MemSize - 1, to + piece <= i, i < to + piece + unit
               PROVE  mem'[i] = mem[src + (i - to)]
    OBVIOUS
  <2>1. src + piece + (i - (to + piece)) = src + (i - to)
    BY <1>2
  <2>2. mem'[i] = mem[src + piece + (i - (to + piece))]
    BY <1>6
  <2> QED
    BY <2>1, <2>2
<1>8. ASSUME NEW k \in 0 .. piece + unit - 1, k < Gap
      PROVE  mem'[to + k] = mem[src + k] /\ mem'[src + k] = mem[src + k]
  <2>1. to + k \in 0 .. MemSize - 1 /\ src + k \in 0 .. to - 1
    BY <1>2, <1>3, <1>4, <1>8 DEF Gap
  <2>2. CASE k < piece
    <3>1. mem[to + k] = mem[src + k]
      BY <1>1, <1>2, <1>8, <2>2 DEF Inductive, Moved
    <3>2. to + k \in 0 .. to + piece - 1 /\ src + k \in 0 .. to + piece - 1
      BY <1>2, <2>1, <2>2
    <3> QED
      BY <1>7, <3>1, <3>2
  <2>3. CASE piece <= k
    <3>1. to + piece <= to + k /\ to + k < to + piece + unit /\ to + k - to = k
      BY <1>2, <2>3
    <3>3. mem'[to + k] = mem[src + k]
      BY <1>2, <1>10, <2>1, <3>1
    <3>4. src + k \in 0 .. to + piece - 1
      BY <1>2, <2>1
    <3> QED
      BY <1>7, <3>3, <3>4
  <2> QED
    BY <1>2, <2>2, <2>3
<1>9. \A i \in 0 .. to - 1 : mem'[i] = mem[i]
  BY <1>2, <1>7
<1> QED
  BY <1>4, <1>6, <1>8, <1>9

(* When the first m bytes of a move are in place, the text can be said to  *)
(* repeat with the period asked for m bytes further on.                    *)
LEMMA PeriodExtended ==
    ASSUME Inductive, phase \in {"two"} \cup Doubling,
           NEW f, NEW m \in 0 .. 8, m <= Gap,
           \A i \in 0 .. to - 1 : f[i] = mem[i],
           \A k \in 0 .. m - 1 : f[to + k] = mem[src + k]
    PROVE  \A i \in op .. to + m - 1 : f[i] = f[i - call.offset]
<1> DEFINE o == call.offset
<1>1. /\ call.kind = "copy" /\ ~BadOffset /\ phase \in Copying
      /\ TypeOK /\ Serving
  BY DEF Inductive, Serving, Copying
<1>2. /\ o \in Nat /\ op \in Nat /\ 1 <= o /\ o <= op /\ src \in Nat /\ to \in Nat
      /\ op <= to /\ o <= to - src /\ op - o <= src /\ m <= to - src
  BY <1>1, CopyNumbers DEF Inductive, Counters, Gap
<1>3. /\ \A i \in op .. to - 1 : mem[i] = mem[i - o]
      /\ \A k \in 0 .. o - 1 : mem[to - o + k] = mem[src + k]
  BY <1>1 DEF Inductive, Recurrence, InPhase
<1> HIDE DEF o
<1> SUFFICES ASSUME NEW i \in op .. to + m - 1 PROVE f[i] = f[i - o]
  BY DEF o
<1>4. CASE i < to
  <2>1. i \in op .. to - 1 /\ i \in 0 .. to - 1 /\ i - o \in 0 .. to - 1
    BY <1>2, <1>4
  <2> QED
    BY <1>3, <2>1
<1>5. CASE to <= i /\ i - to < o
  <2>1. PICK k \in 0 .. m - 1 : i = to + k /\ k < o
    BY <1>2, <1>5
  <2>2. to - o + k \in 0 .. to - 1 /\ i - o = to - o + k /\ k \in 0 .. o - 1
    BY <1>2, <2>1
  <2>3. f[i - o] = mem[src + k]
    BY <1>3, <2>2
  <2> QED
    BY <2>1, <2>3
<1>6. CASE to <= i /\ i - to >= o
  <2>1. PICK k \in 0 .. m - 1 : i = to + k /\ k >= o
    BY <1>2, <1>6
  <2>2. /\ k - o \in 0 .. m - 1 /\ i - o = to + (k - o)
        /\ src + k \in op .. to - 1 /\ src + k - o = src + (k - o)
    BY <1>2, <2>1
  <2>3. f[i - o] = mem[src + (k - o)]
    BY <2>2
  <2>4. mem[src + k] = mem[src + (k - o)]
    BY <1>2, <1>3, <2>2
  <2> QED
    BY <2>1, <2>3, <2>4
<1> QED
  BY <1>2, <1>4, <1>5, <1>6

(* What every store of a wide move keeps, whichever loop it belongs to. *)
LEMMA PieceCommon ==
    ASSUME Inductive, phase \in {"two"} \cup Doubling,
           phase = "expand" => Gap < 8,
           phase # "expand" => left > 0,
           mem' = Move(src + piece, to + piece, unit),
           high' = HigherOf(high, to + piece + unit),
           UNCHANGED <<op, limit, unit, call, ret, phase>>
    PROVE  /\ mem' \in [0 .. MemSize - 1 -> Value] /\ high' \in Nat
           /\ Serving' /\ Room' /\ StaysInside' /\ Overshoot'
           /\ high <= high' /\ to + piece + unit <= high'
<1>1. /\ call.kind = "copy" /\ ~BadOffset /\ phase \in Copying
      /\ TypeOK /\ Serving
  BY DEF Inductive, Serving, Copying
<1>2. /\ call.len \in Nat /\ op \in Nat /\ limit \in Nat /\ to \in Nat /\ high \in Nat
      /\ unit \in {1, 4, 8} /\ piece \in 0 .. 7 /\ piece + unit <= 8
  BY <1>1, CopyNumbers
<1>3. /\ mem' \in [0 .. MemSize - 1 -> Value] /\ to + 8 <= limit
      /\ phase \in Doubling => to + 8 <= op + call.len + 10
  BY PieceMoved
<1>4. high' \in Nat /\ high <= high' /\ to + piece + unit <= high'
  BY <1>2 DEF HigherOf
<1>5. StaysInside'
  BY <1>2, <1>3 DEF Inductive, StaysInside, HigherOf
<1>6. Overshoot'
  BY <1>2, <1>3 DEF Inductive, Overshoot, HigherOf, Doubling, kMaxIncrementCopyOverflow
<1>7. Serving' /\ Room'
  BY DEF Inductive, Serving, Room, BadOffset
<1> QED
  BY <1>3, <1>4, <1>5, <1>6, <1>7

(* A store that is not the last of its move. *)
LEMMA MidInductive ==
    ASSUME Inductive, phase \in {"two"} \cup Doubling,
           phase = "expand" => Gap < 8,
           phase # "expand" => left > 0,
           NEW s2, NEW t2, NEW l2, MovePiece(s2, t2, l2), piece + unit < 8
    PROVE  Inductive'
<1>1. /\ mem' = Move(src + piece, to + piece, unit)
      /\ high' = HigherOf(high, to + piece + unit)
      /\ piece' = piece + unit
      /\ UNCHANGED <<op, limit, unit, call, ret, phase, src, to, left>>
  BY DEF MovePiece
<1>2. /\ call.kind = "copy" /\ ~BadOffset /\ phase \in Copying
      /\ TypeOK /\ Serving
  BY DEF Inductive, Serving, Copying
<1>3. /\ call.offset \in Nat /\ op \in Nat /\ 1 <= call.offset /\ call.offset <= op
      /\ src \in Nat /\ to \in Nat /\ high \in Nat
      /\ unit \in {1, 4, 8} /\ piece \in 0 .. 7
  BY <1>2, CopyNumbers
<1>4. /\ mem' \in [0 .. MemSize - 1 -> Value] /\ high' \in Nat
      /\ Serving' /\ Room' /\ StaysInside' /\ Overshoot' /\ high <= high'
  BY <1>1, PieceCommon
<1>5. TypeOK'
  <2>1. (unit = 1 /\ piece' \in 0 .. 7) \/ (unit = 4 /\ piece' \in {0, 4}) \/ (unit = 8 /\ piece' = 0)
    BY <1>1, <1>2 DEF TypeOK
  <2> QED
    BY <1>1, <1>2, <1>4, <2>1 DEF TypeOK
<1>6. Counters'
  <2>1. phase # "bytes"
    BY DEF Doubling
  <2>2. op <= to /\ to <= high'
    BY <1>2, <1>3, <1>4 DEF Inductive, Counters
  <2> QED
    BY <1>1, <2>1, <2>2 DEF Inductive, Counters, Gap, Doubling
<1>7. \A i \in 0 .. to - 1 : mem'[i] = mem[i]
  BY <1>1, PieceMoved
<1>8. op <= to /\ call.offset <= Gap
  BY <1>2 DEF Inductive, Counters
<1>9. Recurrence'
  <2> SUFFICES ASSUME NEW i \in op .. to - 1 PROVE mem'[i] = mem'[i - call.offset]
    BY <1>1 DEF Recurrence
  <2>1. i \in 0 .. to - 1 /\ i - call.offset \in 0 .. to - 1
    BY <1>3
  <2>2. mem[i] = mem[i - call.offset]
    BY <1>2 DEF Inductive, Recurrence
  <2> QED
    BY <1>7, <2>1, <2>2
<1>10. InPhase'
  <2> SUFFICES ASSUME NEW k \in 0 .. call.offset - 1
               PROVE  mem'[to - call.offset + k] = mem'[src + k]
    BY <1>1 DEF InPhase
  <2>1. to - call.offset + k \in 0 .. to - 1 /\ src + k \in 0 .. to - 1
    BY <1>3, <1>8 DEF Gap
  <2>2. mem[to - call.offset + k] = mem[src + k]
    BY <1>2 DEF Inductive, InPhase
  <2> QED
    BY <1>7, <2>1, <2>2
<1>11. Moved'
  <2>1. \A k \in 0 .. piece + unit - 1 : k < Gap => mem'[to + k] = mem'[src + k]
    BY <1>1, PieceMoved
  <2> QED
    BY <1>1, <1>3, <2>1 DEF Moved, Gap
<1> QED
  BY <1>4, <1>5, <1>6, <1>9, <1>10, <1>11 DEF Inductive

(* The last store of a move that doubles the pattern. *)
LEMMA ExpandInductive ==
    ASSUME Inductive, Expand
    PROVE  Inductive'
<1>0. phase = "expand" /\ Gap < 8 /\ MovePiece(src, to + (to - src), left - (to - src))
  BY DEF Expand, Gap
<1>1. CASE piece + unit < 8
  BY <1>0, <1>1, MidInductive DEF Doubling
<1>2. CASE ~(piece + unit < 8)
  <2> DEFINE g == to - src
             o == call.offset
  <2>1. /\ mem' = Move(src + piece, to + piece, unit)
        /\ high' = HigherOf(high, to + piece + unit)
        /\ piece' = 0 /\ src' = src /\ to' = to + g /\ left' = left - g
        /\ UNCHANGED <<op, limit, unit, call, ret, phase>>
    BY <1>0, <1>2 DEF MovePiece
  <2>2. call.kind = "copy" /\ ~BadOffset /\ phase \in Copying /\ TypeOK /\ Serving
    BY <1>0 DEF Inductive, Serving, Copying, Doubling
  <2>3. /\ o \in Nat /\ call.len \in Nat /\ op \in Nat /\ 1 <= o /\ o <= op
        /\ src \in Nat /\ to \in Nat /\ high \in Nat /\ left \in Int
        /\ unit \in {1, 4, 8} /\ piece \in 0 .. 7 /\ piece + unit = 8
    BY <1>2, <2>2, CopyNumbers
  <2>4. /\ mem' \in [0 .. MemSize - 1 -> Value] /\ high' \in Nat
        /\ Serving' /\ Room' /\ StaysInside' /\ Overshoot'
        /\ to + 8 <= high'
    BY <1>0, <2>1, <2>3, PieceCommon DEF Doubling
  <2>5. /\ src = op - o /\ op <= to /\ to + left = op + call.len
        /\ o <= g /\ g < 8 /\ g \in {o, 2 * o, 4 * o, 8 * o}
    BY <1>0, <2>2 DEF Inductive, Counters, Gap, Doubling
  <2>6. /\ \A i \in 0 .. to - 1 : mem'[i] = mem[i]
        /\ \A k \in 0 .. piece + unit - 1 : k < Gap => mem'[to + k] = mem[src + k]
    BY <1>0, <2>1, PieceMoved DEF Doubling
  <2>7. \A k \in 0 .. g - 1 : mem'[to + k] = mem[src + k]
    BY <2>3, <2>5, <2>6 DEF Gap
  <2>8. \A i \in op .. to + g - 1 : mem'[i] = mem'[i - o]
    <3>1. g \in 0 .. 8 /\ g <= Gap
      BY <2>3, <2>5 DEF Gap
    <3> HIDE DEF g
    <3> QED
      BY <1>0, <2>6, <2>7, <3>1, PeriodExtended DEF Doubling
  <2>9. TypeOK'
    <3>1. to' \in Nat /\ left' \in Int /\ piece' = 0
      BY <2>1, <2>3, <2>5
    <3> QED
      BY <2>1, <2>2, <2>4, <3>1 DEF TypeOK, Units
  <2>10. Counters'
    <3>1. Gap' = 2 * g /\ 2 * g \in {o, 2 * o, 4 * o, 8 * o} /\ o <= 2 * g
      BY <2>1, <2>3, <2>5 DEF Gap
    <3>2. op <= to' /\ to' <= high' /\ op - o <= src' /\ to' + left' = op + call.len
      <4>1. g \in 0 .. 8 /\ op <= to /\ op - o <= src /\ to + left = op + call.len
        BY <2>3, <2>5
      <4>2. /\ to' = to + g /\ left' = left - g /\ src' = src
            /\ to + 8 <= high' /\ high' \in Nat
        BY <2>1, <2>4
      <4> HIDE DEF g, o
      <4> QED
        BY <2>3, <4>1, <4>2
    <3> QED
      BY <1>0, <2>1, <2>5, <3>1, <3>2 DEF Counters, Doubling
  <2>11. Recurrence'
    BY <2>1, <2>3, <2>8 DEF Recurrence
  <2>12. InPhase'
    <3>1. ASSUME NEW k \in 0 .. o - 1
          PROVE  mem'[to' - o + k] = mem'[src' + k]
      <4>1. /\ g - o + k \in 0 .. g - 1 /\ to + g - o + k = to + (g - o + k)
            /\ src + (g - o + k) = to - o + k /\ src + k \in 0 .. to - 1
        BY <2>3, <2>5
      <4>2. mem'[to + (g - o + k)] = mem[to - o + k]
        BY <2>7, <4>1
      <4>3. mem[to - o + k] = mem[src + k]
        BY <2>2 DEF Inductive, InPhase
      <4>4. to' - o + k = to + (g - o + k) /\ src' + k = src + k
        BY <2>1, <2>3, <4>1
      <4> QED
        BY <2>6, <4>1, <4>2, <4>3, <4>4
    <3> QED
      BY <2>1, <3>1 DEF InPhase
  <2>13. Moved'
    BY <2>1 DEF Moved
  <2> QED
    BY <2>4, <2>9, <2>10, <2>11, <2>12, <2>13 DEF Inductive
<1> QED
  BY <1>1, <1>2

(* The last store of an eight-byte move. *)
LEMMA WideInductive ==
    ASSUME Inductive, WideCopy
    PROVE  Inductive'
<1>0. phase \in {"wide", "two"} /\ left > 0 /\ MovePiece(src + 8, to + 8, left - 8)
  BY DEF WideCopy
<1>1. CASE piece + unit < 8
  BY <1>0, <1>1, MidInductive DEF Doubling
<1>2. CASE ~(piece + unit < 8)
  <2> DEFINE o == call.offset
  <2>1. /\ mem' = Move(src + piece, to + piece, unit)
        /\ high' = HigherOf(high, to + piece + unit)
        /\ piece' = 0 /\ src' = src + 8 /\ to' = to + 8 /\ left' = left - 8
        /\ UNCHANGED <<op, limit, unit, call, ret, phase>>
    BY <1>0, <1>2 DEF MovePiece
  <2>2. call.kind = "copy" /\ ~BadOffset /\ phase \in Copying /\ TypeOK /\ Serving
    BY <1>0 DEF Inductive, Serving, Copying, Doubling
  <2>3. /\ o \in Nat /\ call.len \in Nat /\ op \in Nat /\ 1 <= o /\ o <= op
        /\ src \in Nat /\ to \in Nat /\ high \in Nat /\ left \in Int
        /\ unit \in {1, 4, 8} /\ piece \in 0 .. 7 /\ piece + unit = 8
    BY <1>2, <2>2, CopyNumbers
  <2>4. /\ mem' \in [0 .. MemSize - 1 -> Value] /\ high' \in Nat
        /\ Serving' /\ Room' /\ StaysInside' /\ Overshoot'
        /\ to + 8 <= high'
    BY <1>0, <2>1, <2>3, PieceCommon DEF Doubling
  <2>5. op <= to /\ op - o <= src /\ o <= to - src /\ to - src >= 8
    BY <1>0, <2>2 DEF Inductive, Counters, Gap
  <2>6. /\ \A i \in 0 .. to - 1 : mem'[i] = mem[i]
        /\ \A k \in 0 .. piece + unit - 1 : k < Gap => mem'[to + k] = mem[src + k]
    BY <1>0, <2>1, PieceMoved DEF Doubling
  <2>7. \A k \in 0 .. 7 : mem'[to + k] = mem[src + k]
    BY <2>3, <2>5, <2>6 DEF Gap
  <2>8. \A i \in op .. to + 8 - 1 : mem'[i] = mem'[i - o]
    <3>1. 8 <= Gap /\ \A k \in 0 .. 8 - 1 : mem'[to + k] = mem[src + k]
      BY <2>5, <2>7 DEF Gap
    <3> QED
      BY <1>0, <2>6, <3>1, PeriodExtended DEF Doubling
  <2>9. TypeOK'
    <3>1. to' \in Nat /\ src' \in Nat /\ left' \in Int /\ piece' = 0
      BY <2>1, <2>3, <2>5
    <3> QED
      BY <2>1, <2>2, <2>4, <3>1 DEF TypeOK, Units
  <2>10. Counters'
    <3>1. Gap' = Gap /\ o <= Gap' /\ Gap' >= 8
      BY <2>1, <2>3, <2>5 DEF Gap
    <3>2. op <= to' /\ to' <= high' /\ op - o <= src'
      BY <2>1, <2>3, <2>4, <2>5
    <3>3. /\ phase = "two" => Gap' = o /\ to' + left' = op + 16 /\ left' \in {0, 8, 16}
          /\ phase = "wide" => to' + left' = op + call.len
      BY <1>0, <2>1, <2>3, <3>1 DEF Inductive, Counters, Doubling
    <3> QED
      BY <1>0, <2>1, <3>1, <3>2, <3>3 DEF Counters, Doubling
  <2>11. Recurrence'
    BY <2>1, <2>3, <2>8 DEF Recurrence
  <2>12. InPhase'
    <3> SUFFICES ASSUME NEW k \in 0 .. o - 1 PROVE mem'[to + 8 - o + k] = mem'[src + 8 + k]
      BY <2>1, <2>3, <2>5 DEF InPhase
    <3>1. CASE k + 8 < o
      <4>1. /\ k + 8 \in 0 .. o - 1 /\ to + 8 - o + k = to - o + (k + 8)
            /\ src + 8 + k = src + (k + 8)
            /\ to - o + (k + 8) \in 0 .. to - 1 /\ src + (k + 8) \in 0 .. to - 1
        BY <2>3, <2>5, <3>1
      <4>2. mem[to - o + (k + 8)] = mem[src + (k + 8)]
        BY <2>2, <4>1 DEF Inductive, InPhase
      <4> QED
        BY <2>6, <4>1, <4>2
    <3>2. CASE ~(k + 8 < o)
      <4>1. PICK j \in 0 .. 7 : j = k + 8 - o
        BY <2>3, <3>2
      <4>2. /\ to + 8 - o + k = to + j /\ src + j \in 0 .. to - 1
            /\ src + 8 + k \in op .. to + 8 - 1 /\ src + 8 + k - o = src + j
        BY <2>3, <2>5, <4>1
      <4>3. mem'[to + j] = mem[src + j] /\ mem'[src + j] = mem[src + j]
        BY <2>6, <2>7, <4>1, <4>2
      <4>4. mem'[src + 8 + k] = mem'[src + j]
        BY <2>3, <2>8, <4>2
      <4> QED
        BY <4>2, <4>3, <4>4
    <3> QED
      BY <3>1, <3>2
  <2>13. Moved'
    BY <2>1 DEF Moved
  <2> QED
    BY <2>4, <2>9, <2>10, <2>11, <2>12, <2>13 DEF Inductive
<1> QED
  BY <1>1, <1>2

(* The pattern is long enough: wide moves begin where doubling ended. *)
LEMMA ExpandEndInductive ==
    ASSUME Inductive, ExpandEnd
    PROVE  Inductive'
<1>1. /\ phase = "expand" /\ Gap >= 8 /\ phase' = "wide"
      /\ UNCHANGED <<mem, op, limit, unit, call, ret, src, to, left, piece, high>>
  BY DEF ExpandEnd, Gap
<1>2. TypeOK' /\ Serving' /\ Room' /\ StaysInside' /\ Overshoot'
  BY <1>1 DEF Inductive, TypeOK, Serving, Room, StaysInside, Overshoot,
              Copying, Doubling, BadOffset
<1>3. piece = 0
  <2>1. Gap \in Int
    BY DEF Inductive, TypeOK, Gap
  <2> QED
    BY <1>1, <2>1 DEF Inductive, Counters
<1>4. Counters'
  BY <1>1, <1>3 DEF Inductive, Counters, Gap, Copying, Doubling
<1>5. Recurrence' /\ InPhase' /\ Moved'
  BY <1>1, <1>3 DEF Inductive, Recurrence, InPhase, Moved, Gap, Copying, Doubling
<1> QED
  BY <1>2, <1>4, <1>5 DEF Inductive

(* One byte of IncrementalCopy. *)
LEMMA ByteMoved ==
    ASSUME Inductive, ByteCopy
    PROVE  /\ mem' \in [0 .. MemSize - 1 -> Value]
           /\ \A i \in 0 .. to - 1 : mem'[i] = mem[i]
           /\ \A i \in op .. to : mem'[i] = mem'[i - call.offset]
           /\ op <= to /\ to < op + call.len /\ op + call.len <= limit
           /\ to + left = op + call.len /\ to - src = call.offset
           /\ high' \in Nat /\ to + 1 <= high' /\ high' <= limit
<1> DEFINE o == call.offset
<1>0. /\ phase = "bytes" /\ mem' = Move(src, to, 1) /\ high' = HigherOf(high, to + 1)
      /\ UNCHANGED limit
  BY DEF ByteCopy
<1>1. call.kind = "copy" /\ ~BadOffset /\ phase \in Copying /\ TypeOK /\ Serving
  BY <1>0 DEF Inductive, Serving, Copying
<1>2. /\ o \in Nat /\ call.len \in Nat /\ op \in Nat /\ limit \in Nat /\ MemSize \in Nat
      /\ limit <= MemSize /\ 1 <= o /\ o <= op
      /\ src \in Nat /\ to \in Nat /\ high \in Nat /\ left \in Int
  BY <1>1, CopyNumbers
<1>3. /\ op <= to /\ to - src = o /\ to + left = op + call.len /\ left > 0
      /\ op + call.len <= limit /\ high <= limit
  BY <1>0, <1>1 DEF Inductive, Counters, Room, StaysInside, Gap, Doubling
<1>4. to < op + call.len /\ to < MemSize
  BY <1>2, <1>3
<1>5. /\ mem' \in [0 .. MemSize - 1 -> Value]
      /\ \A i \in 0 .. MemSize - 1 :
           mem'[i] = IF to <= i /\ i < to + 1 THEN mem[src + (i - to)] ELSE mem[i]
  <2>1. mem \in [0 .. MemSize - 1 -> Value] /\ src < to /\ 1 \in Nat
    BY <1>1, <1>2, <1>3 DEF TypeOK
  <2> QED
    BY <1>0, <1>2, <2>1, MoveResult
<1>6. \A i \in 0 .. to - 1 : mem'[i] = mem[i]
  BY <1>2, <1>4, <1>5
<1>7. mem'[to] = mem[src]
  <2>1. to \in 0 .. MemSize - 1 /\ src + (to - to) = src /\ to < to + 1
    BY <1>2, <1>4
  <2> QED
    BY <1>2, <1>5, <2>1
<1>8. ASSUME NEW i \in op .. to
      PROVE  mem'[i] = mem'[i - o]
  <2>1. CASE i = to
    <3>1. src \in 0 .. to - 1 /\ to - o = src
      BY <1>2, <1>3
    <3> QED
      BY <1>6, <1>7, <2>1, <3>1
  <2>2. CASE i # to
    <3>1. i \in op .. to - 1 /\ i \in 0 .. to - 1 /\ i - o \in 0 .. to - 1
      BY <1>2, <2>2
    <3>2. mem[i] = mem[i - o]
      BY <1>1, <3>1 DEF Inductive, Recurrence
    <3> QED
      BY <1>6, <3>1, <3>2
  <2> QED
    BY <2>1, <2>2
<1>9. high' \in Nat /\ to + 1 <= high' /\ high' <= limit
  BY <1>0, <1>2, <1>3, <1>4 DEF HigherOf
<1> QED
  BY <1>3, <1>4, <1>5, <1>6, <1>8, <1>9

(* One byte of IncrementalCopy, the last one included. *)
LEMMA ByteInductive ==
    ASSUME Inductive, ByteCopy
    PROVE  Inductive'
<1> DEFINE o == call.offset
<1>0. /\ phase = "bytes" /\ src' = src + 1 /\ to' = to + 1 /\ left' = left - 1
      /\ UNCHANGED <<limit, unit, piece>>
      /\ \/ left - 1 > 0 /\ UNCHANGED <<op, call, ret, phase>>
         \/ ~(left - 1 > 0) /\ Return(call.len)
  BY DEF ByteCopy
<1>1. call.kind = "copy" /\ ~BadOffset /\ phase \in Copying /\ TypeOK /\ Serving
  BY <1>0 DEF Inductive, Serving, Copying
<1>2. /\ o \in Nat /\ call.len \in Nat /\ op \in Nat /\ limit \in Nat /\ limit <= MemSize
      /\ MemSize \in Nat /\ 1 <= o /\ o <= op
      /\ src \in Nat /\ to \in Nat /\ left \in Int
  BY <1>1, CopyNumbers
<1>3. /\ mem' \in [0 .. MemSize - 1 -> Value]
      /\ \A i \in op .. to : mem'[i] = mem'[i - o]
      /\ op <= to /\ op + call.len <= limit
      /\ to + left = op + call.len /\ to - src = o
      /\ high' \in Nat /\ to + 1 <= high' /\ high' <= limit
  BY ByteMoved
<1>4. piece = 0
  BY <1>0, <1>1 DEF Inductive, Counters
<1>5. src' \in Nat /\ to' \in Nat /\ left' \in Int
  BY <1>0, <1>2
<1>6. CASE left - 1 > 0 /\ UNCHANGED <<op, call, ret, phase>>
  <2>1. TypeOK'
    BY <1>0, <1>1, <1>3, <1>5, <1>6 DEF TypeOK
  <2>2. Serving' /\ Room'
    BY <1>0, <1>1, <1>6 DEF Inductive, Serving, Room, BadOffset
  <2>3. Counters'
    <3>1. /\ op <= to' /\ to' <= high' /\ op - o <= src' /\ o <= Gap' /\ Gap' = o
          /\ to' + left' = op + call.len /\ left' > 0
      BY <1>0, <1>2, <1>3, <1>6 DEF Gap
    <3> QED
      BY <1>0, <1>4, <1>6, <3>1 DEF Counters, Doubling
  <2>4. Recurrence'
    <3>1. \A i \in op .. to' - 1 : mem'[i] = mem'[i - o]
      BY <1>0, <1>2, <1>3
    <3> QED
      BY <1>6, <3>1 DEF Recurrence
  <2>5. InPhase'
    <3>1. \A k \in 0 .. o - 1 : to' - o + k = src' + k
      BY <1>0, <1>2, <1>3
    <3> QED
      BY <1>6, <3>1 DEF InPhase
  <2>6. Moved'
    BY <1>0, <1>4 DEF Moved
  <2>7. StaysInside' /\ Overshoot'
    BY <1>0, <1>3, <1>6 DEF StaysInside, Overshoot
  <2> QED
    BY <2>1, <2>2, <2>3, <2>4, <2>5, <2>6, <2>7 DEF Inductive
<1>7. CASE ~(left - 1 > 0) /\ Return(call.len)
  <2>1. op' = op + call.len /\ ret' = "ok" /\ phase' = "idle" /\ call' = NoCall
    BY <1>7 DEF Return
  <2>2. op' \in 0 .. limit
    BY <1>2, <1>3, <2>1
  <2>3. TypeOK'
    BY <1>0, <1>1, <1>3, <1>5, <2>1, <2>2 DEF TypeOK
  <2>4. Serving'
    BY <2>1 DEF Serving, Copying, Doubling
  <2> QED
    BY <1>0, <1>3, <1>4, <2>1, <2>3, <2>4, Quiet
<1> QED
  BY <1>0, <1>6, <1>7

(* When the wide moves are done, at least the length asked for is there. *)
LEMMA WideEnough ==
    ASSUME Inductive, WideEnd
    PROVE  /\ call.kind = "copy" /\ call.len \in Nat /\ op + call.len <= limit
           /\ op + call.len <= to
<1>0. phase \in {"wide", "two"} /\ left <= 0
  BY DEF WideEnd
<1>1. call.kind = "copy" /\ ~BadOffset /\ phase \in Copying /\ TypeOK /\ Serving
  BY <1>0 DEF Inductive, Serving, Copying, Doubling
<1>2. call.len \in Nat /\ op \in Nat /\ limit \in Nat /\ to \in Nat /\ left \in Int
  BY <1>1, CopyNumbers
<1>3. /\ phase = "two" => call.len <= 16 /\ op + 16 <= limit /\ to + left = op + 16
      /\ phase = "wide" => op + call.len + 10 <= limit /\ to + left = op + call.len
  BY <1>1 DEF Inductive, Room, Counters, Doubling, kMaxIncrementCopyOverflow
<1> QED
  BY <1>0, <1>1, <1>2, <1>3

(* The end of the wide moves: a longer text within the same limit. *)
LEMMA WideEndInductive ==
    ASSUME Inductive, WideEnd
    PROVE  Inductive'
<1>0. /\ phase \in {"wide", "two"} /\ left <= 0
      /\ op' = op + call.len /\ ret' = "ok" /\ phase' = "idle" /\ call' = NoCall
      /\ UNCHANGED <<mem, limit, unit, src, to, left, piece, high>>
  BY DEF WideEnd, Return
<1>1. op \in Nat /\ limit \in Nat /\ left \in Int /\ TypeOK
  BY MemAssumption DEF Inductive, TypeOK
<1>2. op' \in 0 .. limit
  BY <1>0, <1>1, WideEnough
<1>3. piece = 0
  BY <1>0, <1>1 DEF Inductive, Counters
<1>4. TypeOK'
  BY <1>0, <1>1, <1>2 DEF TypeOK
<1>5. Serving'
  BY <1>0 DEF Serving, Copying, Doubling
<1> QED
  BY <1>0, <1>3, <1>4, <1>5, Quiet DEF Inductive, StaysInside

-----------------------------------------------------------------------------
(* Every step of the writer and of its caller. *)
LEMMA NextInductive ==
    ASSUME Inductive, [Next]_wvars
    PROVE  Inductive'
<1>1. CASE AppendWide \/ AppendExact \/ AppendOverrun
  BY <1>1, LiteralInductive
<1>2. CASE SelfMalformed
  BY <1>2, FailInductive DEF SelfMalformed
<1>3. CASE SelfBegin
  BY <1>3, SelfBeginInductive
<1>4. CASE SelfOverrun
  BY <1>4, FailInductive DEF SelfOverrun
<1>5. CASE Expand
  BY <1>5, ExpandInductive
<1>6. CASE ExpandEnd
  BY <1>6, ExpandEndInductive
<1>7. CASE WideCopy
  BY <1>7, WideInductive
<1>8. CASE WideEnd
  BY <1>8, WideEndInductive
<1>9. CASE ByteCopy
  BY <1>9, ByteInductive
<1>10. ASSUME NEW e \in Calls, Invoke(e) PROVE Inductive'
  BY <1>10, InvokeInductive
<1>11. CASE UNCHANGED wvars
  BY <1>11 DEF wvars, Inductive, TypeOK, Serving, Room, Counters, Recurrence, InPhase,
               Moved, StaysInside, Overshoot, Gap, BadOffset
<1> QED
  BY <1>1, <1>2, <1>3, <1>4, <1>5, <1>6, <1>7, <1>8, <1>9, <1>10, <1>11 DEF Next, Serve

(* Whatever is asked for, whatever width the platform stores at, and        *)
(* wherever the array ends, the loops of IncrementalCopyFastPath and        *)
(* IncrementalCopy keep the pattern they copy in phase.                     *)
THEOREM InductiveInvariant == Spec => []Inductive
<1>1. Init => Inductive
  BY InitInductive
<1>2. Inductive /\ [Next]_wvars => Inductive'
  BY NextInductive
<1> QED
  BY <1>1, <1>2, PTL DEF Spec

(* SAW__AppendFastPath, SAW__Append and SAW__AppendFromSelf write nothing  *)
(* at or past op_limit, whatever they are asked to append.                 *)
THEOREM StoresStayInside == Spec => []StaysInside
<1>1. Inductive => StaysInside
  BY DEF Inductive
<1> QED
  BY <1>1, InductiveInvariant, PTL

(* The comment on kMaxIncrementCopyOverflow holds for every offset and     *)
(* length: ten bytes too many at most.                                     *)
THEOREM OvershootBounded == Spec => []Overshoot
<1>1. Inductive => Overshoot
  BY DEF Inductive
<1> QED
  BY <1>1, InductiveInvariant, PTL
-----------------------------------------------------------------------------
(***************************************************************************)
(* ArrayWriter implements TextWriter.  The abstract text is the array up   *)
(* to op; every store of a copy falls beyond it, so it changes only in the *)
(* step that moves op, and then the recurrence that the loops have         *)
(* established is the meaning of the element.                              *)
(***************************************************************************)

Text == [i \in 1 .. op |-> mem[i - 1]]

(* The text of an array. *)
LEMMA TextOf ==
    ASSUME NEW m \in [0 .. MemSize - 1 -> Value], NEW k \in 0 .. MemSize
    PROVE  /\ [i \in 1 .. k |-> m[i - 1]] \in Seq(Value)
           /\ Len([i \in 1 .. k |-> m[i - 1]]) = k
           /\ \A j \in 1 .. k : [i \in 1 .. k |-> m[i - 1]][j] = m[j - 1]
<1> DEFINE t == [i \in 1 .. k |-> m[i - 1]]
<1>1. k \in Nat /\ MemSize \in Nat /\ k <= MemSize
  BY MemAssumption
<1>2. \A i \in 1 .. k : m[i - 1] \in Value
  <2> SUFFICES ASSUME NEW i \in 1 .. k PROVE m[i - 1] \in Value
    OBVIOUS
  <2>1. i - 1 \in 0 .. MemSize - 1
    BY <1>1
  <2> QED
    BY <2>1
<1>3. t \in [1 .. k -> Value]
  BY <1>2
<1>4. t \in Seq(Value) /\ DOMAIN t = 1 .. k
  BY <1>1, <1>3
<1>5. Len(t) = k
  BY <1>1, <1>4
<1> QED
  BY <1>4, <1>5

(* The counters of the invariant as plain numbers. *)
LEMMA Numbers ==
    ASSUME TypeOK
    PROVE  /\ mem \in [0 .. MemSize - 1 -> Value]
           /\ op \in Nat /\ limit \in Nat /\ MemSize \in Nat
           /\ op <= limit /\ limit <= MemSize /\ op \in 0 .. MemSize
           /\ Text \in Seq(Value) /\ Len(Text) = op
           /\ \A j \in 1 .. op : Text[j] = mem[j - 1]
<1>1. /\ mem \in [0 .. MemSize - 1 -> Value]
      /\ op \in Nat /\ limit \in Nat /\ MemSize \in Nat
      /\ op <= limit /\ limit <= MemSize /\ op \in 0 .. MemSize
  BY MemAssumption DEF TypeOK
<1> QED
  BY <1>1, TextOf DEF Text

(* A step that leaves op and what is below it alone leaves the text alone. *)
LEMMA TextKept ==
    ASSUME TypeOK, op' = op, \A i \in 0 .. op - 1 : mem'[i] = mem[i]
    PROVE  Text' = Text
<1>1. op \in Nat
  BY Numbers
<1>2. \A i \in 1 .. op : mem'[i - 1] = mem[i - 1]
  <2> SUFFICES ASSUME NEW i \in 1 .. op PROVE mem'[i - 1] = mem[i - 1]
    OBVIOUS
  <2>1. i - 1 \in 0 .. op - 1
    BY <1>1
  <2> QED
    BY <2>1
<1> QED
  BY <1>2 DEF Text

(* What the answer to a literal amounts to. *)
LEMMA LiteralAccepted ==
    ASSUME Inductive, phase = "called", call.kind = "literal",
           NEW s \in Seq(Value), Len(call.bytes) \in 0 .. Len(s),
           \A i \in 1 .. Len(call.bytes) : s[i] = call.bytes[i],
           op + Len(s) <= limit,
           PutBytes(s, Len(call.bytes)), UNCHANGED <<limit, unit>>
    PROVE  Writer!Answer
<1> DEFINE b == call.bytes
           u == Text'
<1>1. TypeOK /\ b \in Seq(Value) /\ Len(b) \in Nat /\ call \in Calls
  BY LiteralFits DEF Inductive, TypeOK, Serving
<1>2. /\ op' = op + Len(b) /\ ret' = "ok" /\ call' = NoCall
  BY DEF PutBytes, Return
<1>3. /\ mem' \in [0 .. MemSize - 1 -> Value] /\ op' \in 0 .. limit
      /\ \A i \in 0 .. op - 1 : mem'[i] = mem[i]
      /\ \A i \in 1 .. Len(s) : mem'[op + i - 1] = s[i]
  BY PutResult
<1>4. op' \in 0 .. MemSize
  BY <1>1, <1>3, Numbers
<1>5. u \in Seq(Value) /\ Len(u) = op' /\ \A j \in 1 .. op' : u[j] = mem'[j - 1]
  BY <1>3, <1>4, TextOf DEF Text
<1>6. Text \in Seq(Value) /\ Len(Text) = op /\ op \in Nat
  BY <1>1, Numbers
<1>7. /\ Text \o b \in Seq(Value) /\ Len(Text \o b) = op + Len(b)
      /\ \A i \in 1 .. op + Len(b) :
           (Text \o b)[i] = IF i <= op THEN Text[i] ELSE b[i - op]
  BY <1>1, <1>6, ConcatProperties
<1>8. ASSUME NEW j \in 1 .. op + Len(b)
      PROVE  u[j] = IF j <= op THEN Text[j] ELSE b[j - op]
  <2> DEFINE len == Len(b)
             top == Len(s)
  <2>0. len \in Nat /\ top \in Nat /\ len \in 0 .. top
    BY <1>1, LenProperties
  <2>1. u[j] = mem'[j - 1]
    BY <1>2, <1>5
  <2>2. CASE j <= op
    <3>1. j - 1 \in 0 .. op - 1 /\ j \in 1 .. op
      BY <1>6, <2>2
    <3> QED
      BY <1>1, <1>3, <2>1, <2>2, <3>1, Numbers
  <2>3. CASE ~(j <= op)
    <3>1. j - op \in 1 .. len /\ j - op \in 1 .. top /\ op + (j - op) - 1 = j - 1
      <4> HIDE DEF top
      <4>1. j \in 1 .. op + len
        OBVIOUS
      <4> HIDE DEF len
      <4> QED
        BY <1>6, <2>0, <2>3, <4>1
    <3>2. mem'[op + (j - op) - 1] = s[j - op]
      BY <1>3, <3>1
    <3>3. s[j - op] = b[j - op]
      BY <3>1
    <3> QED
      BY <2>1, <2>3, <3>1, <3>2, <3>3
  <2> QED
    BY <2>2, <2>3
<1>9. u = Text \o b
  <2>1. Len(u) = Len(Text \o b)
    BY <1>2, <1>5, <1>7
  <2>2. \A i \in 1 .. Len(u) : u[i] = (Text \o b)[i]
    BY <1>2, <1>5, <1>7, <1>8
  <2> HIDE DEF u
  <2> QED
    BY <1>5, <1>7, <2>1, <2>2, SeqEqual
<1>10. Writer!Denotes(Text, call, Text')
  BY <1>9 DEF Writer!Denotes
<1>11. ~Writer!BadOffset(call) /\ ~Writer!TooLong(call)
  <2>1. op + Len(b) <= limit
    BY <1>2, <1>3, Numbers, <1>1
  <2> QED
    BY <1>1, <1>6, <2>1, Numbers DEF Writer!BadOffset, Writer!TooLong, Writer!ResultLen, Text
<1>12. call # NoCall
  BY <1>1, CallShape
<1> QED
  BY <1>2, <1>10, <1>11, <1>12 DEF Writer!Answer, Writer!Accept, Text

(* What the answer to a copy amounts to, once the bytes up to op + len     *)
(* repeat with the period asked for.                                       *)
LEMMA CopyAccepted ==
    ASSUME Inductive, call.kind = "copy", ~BadOffset, phase \in Copying,
           mem' \in [0 .. MemSize - 1 -> Value],
           op + call.len <= limit,
           \A i \in 0 .. op - 1 : mem'[i] = mem[i],
           \A i \in op .. op + call.len - 1 : mem'[i] = mem'[i - call.offset],
           Return(call.len), UNCHANGED limit
    PROVE  Writer!Answer
<1> DEFINE o == call.offset
           u == Text'
<1>1. TypeOK /\ Serving
  BY DEF Inductive
<1>2. /\ call \in Calls /\ o \in Nat /\ call.len \in Nat /\ 1 <= o /\ o <= op
      /\ op \in Nat /\ limit \in Nat /\ MemSize \in Nat /\ limit <= MemSize
  BY <1>1, CopyNumbers
<1>3. op' = op + call.len /\ ret' = "ok" /\ call' = NoCall
  BY DEF Return
<1>4. op' \in 0 .. MemSize
  BY <1>2, <1>3
<1>5. u \in Seq(Value) /\ Len(u) = op' /\ \A j \in 1 .. op' : u[j] = mem'[j - 1]
  BY <1>4, TextOf DEF Text
<1>6. /\ Text \in Seq(Value) /\ Len(Text) = op
      /\ \A j \in 1 .. op : Text[j] = mem[j - 1]
  BY <1>1, Numbers
<1>7. ASSUME NEW i \in 1 .. op + call.len
      PROVE  u[i] = IF i <= op THEN Text[i] ELSE u[i - o]
  <2>1. i \in 1 .. op'
    BY <1>3
  <2>2. CASE i <= op
    <3>1. i - 1 \in 0 .. op - 1 /\ i \in 1 .. op
      BY <1>2, <2>2
    <3> QED
      BY <1>5, <1>6, <2>1, <2>2, <3>1
  <2>3. CASE ~(i <= op)
    <3>1. mem'[i - 1] = mem'[i - 1 - o]
      <4>1. i - 1 \in op .. op + call.len - 1
        <5> HIDE DEF o, u
        <5> QED
          BY <1>2, <2>3
      <4> QED
        BY <4>1
    <3> HIDE DEF o
    <3>2. i - o \in 1 .. op'
      <4> HIDE DEF u
      <4> QED
        BY <1>2, <1>3, <2>3
    <3>3. i - 1 - o = i - o - 1
      <4> HIDE DEF u
      <4> QED
        BY <1>2
    <3> HIDE DEF u
    <3>4. u[i] = mem'[i - 1] /\ u[i - o] = mem'[i - o - 1]
      BY <1>5, <2>1, <3>2
    <3> QED
      BY <2>3, <3>1, <3>3, <3>4
  <2> QED
    BY <2>2, <2>3
<1>8. Writer!IsRepeat(Text, u, o, call.len)
  <2>1. o \in 1 .. Len(Text) /\ Len(u) = Len(Text) + call.len
    BY <1>2, <1>3, <1>5, <1>6
  <2>2. \A i \in 1 .. Len(u) : u[i] = IF i <= Len(Text) THEN Text[i] ELSE u[i - o]
    <3> HIDE DEF u
    <3> QED
      BY <1>3, <1>5, <1>6, <1>7
  <2> QED
    BY <2>1, <2>2 DEF Writer!IsRepeat
<1>9. Writer!Denotes(Text, call, Text')
  BY <1>8 DEF Writer!Denotes
<1>10. ~Writer!BadOffset(call) /\ ~Writer!TooLong(call)
  BY <1>2, <1>6 DEF Writer!BadOffset, Writer!TooLong, Writer!ResultLen, Text
<1>11. call # NoCall
  BY <1>2, CallShape
<1> QED
  BY <1>3, <1>9, <1>10, <1>11 DEF Writer!Answer, Writer!Accept, Text

(* An error is one that TextWriter gives for the same call. *)
LEMMA Refused ==
    ASSUME Inductive, phase = "called",
           AppendOverrun \/ SelfMalformed \/ SelfOverrun
    PROVE  Writer!Answer
<1>1. TypeOK /\ call \in Calls
  BY DEF Inductive, TypeOK, Serving
<1>2. call # NoCall
  BY <1>1, CallShape
<1>3. op \in Nat /\ limit \in Nat /\ Len(Text) = op
  BY <1>1, Numbers
<1>4. call' = NoCall /\ UNCHANGED <<mem, op, limit>>
  BY DEF AppendOverrun, SelfMalformed, SelfOverrun, Fail
<1>5. Text' = Text
  BY <1>4 DEF Text
<1>6. CASE AppendOverrun
  <2>1. call.kind = "literal" /\ limit - op < Len(call.bytes) /\ ret' = "overrun"
    BY <1>6 DEF AppendOverrun, Fail, space_left
  <2>2. Len(call.bytes) \in Nat
    BY <2>1, LiteralFits
  <2>3. ~Writer!BadOffset(call) /\ Writer!TooLong(call)
    BY <1>3, <2>1, <2>2 DEF Writer!BadOffset, Writer!TooLong, Writer!ResultLen, Text
  <2> QED
    BY <1>2, <1>4, <1>5, <2>1, <2>3 DEF Writer!Answer, Writer!Refuse, Text
<1>7. CASE SelfMalformed
  <2>1. call.kind = "copy" /\ BadOffset /\ ret' = "malformed"
    BY <1>7 DEF SelfMalformed, Fail
  <2>2. call.offset \in Nat
    BY <1>1, <2>1, CallShape
  <2>3. Writer!BadOffset(call)
    BY <1>3, <2>1, <2>2 DEF BadOffset, Writer!BadOffset, Text
  <2> QED
    BY <1>2, <1>4, <1>5, <2>1, <2>3 DEF Writer!Answer, Writer!Refuse, Text
<1>8. CASE SelfOverrun
  <2>1. call.kind = "copy" /\ ~BadOffset /\ limit - op < call.len /\ ret' = "overrun"
    BY <1>8 DEF SelfOverrun, Fail, space_left
  <2>2. call.offset \in Nat /\ call.len \in Nat
    BY <1>1, <2>1, CallShape
  <2>3. ~Writer!BadOffset(call) /\ Writer!TooLong(call)
    BY <1>3, <2>1, <2>2 DEF BadOffset, Writer!BadOffset, Writer!TooLong, Writer!ResultLen, Text
  <2> QED
    BY <1>2, <1>4, <1>5, <2>1, <2>3 DEF Writer!Answer, Writer!Refuse, Text
<1> QED
  BY <1>6, <1>7, <1>8

(* A store that does not finish its copy is a stutter. *)
LEMMA StoreHidden ==
    ASSUME Inductive, phase \in Copying,
           \A i \in 0 .. to - 1 : mem'[i] = mem[i],
           UNCHANGED <<op, limit, call, ret>>
    PROVE  UNCHANGED Writer!tvars
<1>1. TypeOK /\ op \in Nat /\ to \in Nat /\ op <= to
  BY Numbers DEF Inductive, Counters, TypeOK
<1>2. \A i \in 0 .. op - 1 : mem'[i] = mem[i]
  BY <1>1
<1>3. Text' = Text
  BY <1>1, <1>2, TextKept
<1> QED
  BY <1>3 DEF Writer!tvars, Text

(* The text is what lies below op to begin with. *)
LEMMA InitRefines == Init => Writer!Init
<1> SUFFICES ASSUME Init PROVE Writer!Init
  OBVIOUS
<1>1. TypeOK
  BY InitInductive DEF Inductive
<1>2. limit \in Nat /\ Len(Text) <= limit
  BY <1>1, Numbers
<1> QED
  BY <1>2 DEF Writer!Init, Init, Text

(* The step that answers maps to an answer, the others to a stutter. *)
LEMMA NextRefines ==
    ASSUME Inductive, [Next]_wvars
    PROVE  [Writer!Next]_Writer!tvars
<1>0. TypeOK /\ op \in Nat /\ limit \in Nat
  BY Numbers DEF Inductive
<1>1. CASE AppendWide
  <2>1. /\ phase = "called" /\ call.kind = "literal" /\ call.fast /\ 16 <= limit - op
        /\ PutBytes(call.bytes \o call.ahead, Len(call.bytes)) /\ UNCHANGED <<limit, unit>>
    BY <1>0, <1>1 DEF AppendWide, space_left
  <2> DEFINE w == call.bytes \o call.ahead
             b == Len(call.bytes)
             v == Len(w)
  <2>2. /\ w \in Seq(Value) /\ v = 16 /\ b \in Nat /\ b <= 16
        /\ \A i \in 1 .. b : w[i] = call.bytes[i]
    BY <2>1, LiteralFits
  <2>3. b \in 0 .. v /\ op + v <= limit
    <3>1. v = 16 /\ b \in Nat /\ b <= 16 /\ 16 <= limit - op
      BY <2>1, <2>2
    <3> HIDE DEF v, b
    <3> QED
      BY <1>0, <3>1
  <2>4. PutBytes(w, b) /\ UNCHANGED <<limit, unit>>
    BY <2>1
  <2>5. phase = "called" /\ call.kind = "literal"
    BY <2>1
  <2> HIDE DEF w
  <2> QED
    BY <2>2, <2>3, <2>4, <2>5, LiteralAccepted DEF Writer!Next
<1>2. CASE AppendExact
  <2>1. /\ phase = "called" /\ call.kind = "literal"
        /\ PutBytes(call.bytes, Len(call.bytes)) /\ UNCHANGED <<limit, unit>>
    BY <1>2 DEF AppendExact
  <2>2. call.bytes \in Seq(Value) /\ Len(call.bytes) \in 0 .. Len(call.bytes)
    BY <2>1, LiteralFits
  <2>3. op + Len(call.bytes) <= limit
    BY <1>0, <1>2, <2>1, LiteralFits DEF AppendExact, space_left
  <2> QED
    BY <2>1, <2>2, <2>3, LiteralAccepted DEF Writer!Next
<1>3. CASE AppendOverrun \/ SelfMalformed \/ SelfOverrun
  BY <1>3, Refused DEF Writer!Next, AppendOverrun, SelfMalformed, SelfOverrun
<1>4. CASE SelfBegin \/ ExpandEnd
  <2>1. UNCHANGED <<mem, op, limit, call, ret>>
    BY <1>4 DEF SelfBegin, ExpandEnd
  <2> QED
    BY <2>1 DEF Writer!tvars
<1>5. CASE Expand
  <2>1. /\ phase = "expand" /\ Gap < 8 /\ mem' = Move(src + piece, to + piece, unit)
        /\ UNCHANGED <<op, limit, call, ret>>
    BY <1>5 DEF Expand, MovePiece, Gap
  <2>2. \A i \in 0 .. to - 1 : mem'[i] = mem[i]
    BY <2>1, PieceMoved DEF Doubling
  <2> QED
    BY <2>1, <2>2, StoreHidden DEF Copying, Doubling
<1>6. CASE WideCopy
  <2>1. /\ phase \in {"wide", "two"} /\ left > 0
        /\ mem' = Move(src + piece, to + piece, unit)
        /\ UNCHANGED <<op, limit, call, ret>>
    BY <1>6 DEF WideCopy, MovePiece
  <2>2. \A i \in 0 .. to - 1 : mem'[i] = mem[i]
    BY <2>1, PieceMoved DEF Doubling
  <2> QED
    BY <2>1, <2>2, StoreHidden DEF Copying, Doubling
<1>7. CASE WideEnd
  <2>1. phase \in Copying /\ Return(call.len) /\ UNCHANGED <<mem, limit>>
    BY <1>7 DEF WideEnd, Copying, Doubling
  <2>2. /\ call.kind = "copy" /\ ~BadOffset /\ call.len \in Nat
        /\ op + call.len <= limit /\ op + call.len <= to
    BY <1>7, <2>1, WideEnough DEF Inductive, Serving
  <2>3. to \in Nat /\ mem' \in [0 .. MemSize - 1 -> Value]
    BY <2>1 DEF Inductive, TypeOK
  <2>4. \A i \in op .. op + call.len - 1 : mem'[i] = mem'[i - call.offset]
    <3>1. \A i \in op .. to - 1 : mem[i] = mem[i - call.offset]
      BY <2>1 DEF Inductive, Recurrence
    <3>2. \A i \in op .. op + call.len - 1 : i \in op .. to - 1
      BY <1>0, <2>2, <2>3
    <3> QED
      BY <2>1, <3>1, <3>2
  <2> QED
    BY <2>1, <2>2, <2>3, <2>4, CopyAccepted DEF Writer!Next
<1>8. CASE ByteCopy
  <2>0. phase = "bytes" /\ phase \in Copying /\ UNCHANGED limit
    BY <1>8 DEF ByteCopy, Copying
  <2>1. call.kind = "copy" /\ ~BadOffset
    BY <2>0 DEF Inductive, Serving
  <2>2. /\ call.len \in Nat /\ to \in Nat /\ left \in Int
    BY <1>0, <2>0, <2>1, CopyNumbers DEF Inductive
  <2>3. /\ mem' \in [0 .. MemSize - 1 -> Value]
        /\ \A i \in 0 .. to - 1 : mem'[i] = mem[i]
        /\ \A i \in op .. to : mem'[i] = mem'[i - call.offset]
        /\ op <= to /\ to < op + call.len /\ op + call.len <= limit
        /\ to + left = op + call.len
    BY <1>8, ByteMoved
  <2>4. CASE left - 1 > 0
    BY <1>8, <2>0, <2>3, <2>4, StoreHidden DEF ByteCopy
  <2>5. CASE ~(left - 1 > 0)
    <3>1. Return(call.len)
      BY <1>8, <2>5 DEF ByteCopy
    <3>2. \A i \in op .. op + call.len - 1 : i \in op .. to
      BY <1>0, <2>2, <2>3, <2>5
    <3>3. \A i \in 0 .. op - 1 : i \in 0 .. to - 1
      BY <1>0, <2>2, <2>3
    <3>4. /\ \A i \in 0 .. op - 1 : mem'[i] = mem[i]
          /\ \A i \in op .. op + call.len - 1 : mem'[i] = mem'[i - call.offset]
      BY <2>3, <3>2, <3>3
    <3> QED
      BY <2>0, <2>1, <2>3, <3>1, <3>4, CopyAccepted DEF Writer!Next
  <2> QED
    BY <2>4, <2>5
<1>9. ASSUME NEW e \in Calls, Invoke(e)
      PROVE  Writer!Next
  <2>1. call = NoCall /\ call' = e /\ UNCHANGED <<mem, op, limit, ret>>
    BY <1>9 DEF Invoke, Inductive, Serving
  <2>2. call' # NoCall
    BY <2>1, CallShape
  <2> QED
    BY <2>1, <2>2 DEF Writer!Next, Writer!Call
<1>10. CASE UNCHANGED wvars
  BY <1>10 DEF wvars, Writer!tvars
<1> QED
  BY <1>1, <1>2, <1>3, <1>4, <1>5, <1>6, <1>7, <1>8, <1>9, <1>10 DEF Next, Serve

(* SAW__AppendFastPath, SAW__Append and SAW__AppendFromSelf, with the loops *)
(* under them run store by store, append exactly what the element stands   *)
(* for, or refuse it for one of the two reasons there are.                 *)
THEOREM Implements == Spec => AppendsText
<1>1. Init => Writer!Init
  BY InitRefines
<1>2. Inductive /\ [Next]_wvars => [Writer!Next]_Writer!tvars
  BY NextRefines
<1> QED
  BY <1>1, <1>2, InductiveInvariant, PTL DEF Spec, AppendsText, Writer!Spec
============================================================================
