-------------------------- MODULE FindMatchLength --------------------------
(***************************************************************************)
(* FindMatchLength (csnappy_compress.c): how many bytes two places of the  *)
(* fragment have in common.  CompressFragment takes it for what its        *)
(* comment says (IsMatchLength); here is how it comes by the number, word  *)
(* by word and then byte by byte or by the lowest bit in which two words   *)
(* differ, which the portable FindLSBSetNonZero finds by halving.          *)
(*                                                                         *)
(* A byte is the set of its one bits.  `a' and `b' are the bytes from s1   *)
(* and from s2 on, as many as there are from s2 to s2_limit.               *)
(***************************************************************************)
EXTENDS Integers, Sequences

CONSTANTS Byte,      \* sets of bits
          Pairs      \* what may be compared

Bits == 0 .. 7

ASSUME PairAssumption ==
    /\ Byte \subseteq SUBSET Bits
    /\ \A p \in Pairs : /\ p.a \in Seq(Byte) /\ p.b \in Seq(Byte)
                        /\ Len(p.a) = Len(p.b)

(* The three versions of the function: loads of 8 or of 4 bytes, and with  *)
(* little-endian loads a scan for the bit.                                 *)
Builds == { [width |-> 8, scan |-> TRUE],
            [width |-> 4, scan |-> TRUE],
            [width |-> 4, scan |-> FALSE] }

VARIABLES a, b, build,
          pc,
          s2,          \* offset of s2 from where it began
          matched,     \* as in the code
          high         \* ghost: one past the last byte read, of a or of b

fvars == <<a, b, build, pc, s2, matched, high>>

-----------------------------------------------------------------------------
(* n << shift, for a uint32_t that is the set of its one bits. *)
ShiftLeft(n, shift) == { k + shift : k \in { j \in n : j + shift <= 31 } }

(* One iteration of FindLSBSetNonZero. *)
Halve(r, shift) ==
    IF ShiftLeft(r.n, shift) # {}
      THEN [n |-> ShiftLeft(r.n, shift), rc |-> r.rc - shift]
      ELSE r

(* Mutant: the halving begins with a quarter of the word.                  *)
FindLSBSetNonZero_FromEight(n) ==
    Halve(Halve(Halve(Halve([n |-> n, rc |-> 31], 8), 4), 2), 1).rc

FindLSBSetNonZero(n) ==
    Halve(Halve(Halve(Halve(Halve([n |-> n, rc |-> 31], 16), 8), 4), 2), 1).rc

FindLSBSetNonZero64(n) ==
    LET bottombits == n \cap 0 .. 31
    IN  IF bottombits = {} THEN 32 + FindLSBSetNonZero({ k - 32 : k \in n })
                           ELSE FindLSBSetNonZero(bottombits)

(* What lies past the limit: ReadsBelowLimit says it is not read. *)
Beyond == {}

Fetch(s, i) == IF i < Len(s) THEN s[i + 1] ELSE Beyond

(* The little-endian word of w bytes at offset p of s. *)
Load(s, p, w) == { i \in 0 .. 8 * w - 1 : i % 8 \in Fetch(s, p + i \div 8) }

Xor(x, y) == (x \ y) \cup (y \ x)

-----------------------------------------------------------------------------
len   == Len(b)                 \* s2_limit - s2
width == build.width

Differing == Xor(Load(a, matched, width), Load(b, s2, width))

Touch(p) == high' = IF p > high THEN p ELSE high

Init == /\ \E p \in Pairs : a = p.a /\ b = p.b
        /\ build \in Builds
        /\ pc = "words"
        /\ s2 = 0 /\ matched = 0 /\ high = 0

(* Mutant: a word may end one byte past the limit.                         *)
WordFits_OffByOne == s2 < len - width + 2

WordFits == s2 <= len - width

(* Mutant: the position moves by eight bytes whatever the loads' width.    *)
WordsEqual_Eight ==
    /\ pc = "words" /\ WordFits
    /\ Differing = {}
    /\ s2' = s2 + 8
    /\ matched' = matched + width
    /\ Touch(s2 + width)
    /\ UNCHANGED <<a, b, build, pc>>

WordsEqual ==
    /\ pc = "words" /\ WordFits
    /\ Differing = {}
    /\ s2' = s2 + width
    /\ matched' = matched + width
    /\ Touch(s2 + width)
    /\ UNCHANGED <<a, b, build, pc>>

WordsDiffer ==
    /\ pc = "words" /\ WordFits
    /\ Differing # {}
    /\ Touch(s2 + width)
    /\ pc' = IF build.scan THEN "scan" ELSE "bytes"
    /\ UNCHANGED <<a, b, build, s2, matched>>

NoWordLeft ==
    /\ pc = "words" /\ ~WordFits
    /\ pc' = "bytes"
    /\ UNCHANGED <<a, b, build, s2, matched, high>>

(* matching_bits >> 3 more bytes. *)
Scan ==
    /\ pc = "scan"
    /\ matched' = matched + (IF width = 8 THEN FindLSBSetNonZero64(Differing)
                                          ELSE FindLSBSetNonZero(Differing)) \div 8
    /\ pc' = "done"
    /\ UNCHANGED <<a, b, build, s2, high>>

ByteEqual ==
    /\ pc = "bytes" /\ s2 < len
    /\ Touch(s2 + 1)
    /\ Fetch(a, matched) = Fetch(b, s2)
    /\ s2' = s2 + 1
    /\ matched' = matched + 1
    /\ UNCHANGED <<a, b, build, pc>>

ByteDiffers ==
    /\ pc = "bytes" /\ s2 < len
    /\ Touch(s2 + 1)
    /\ Fetch(a, matched) # Fetch(b, s2)
    /\ pc' = "done"
    /\ UNCHANGED <<a, b, build, s2, matched>>

AtLimit ==
    /\ pc = "bytes" /\ s2 >= len
    /\ pc' = "done"
    /\ UNCHANGED <<a, b, build, s2, matched, high>>

Next == WordsEqual \/ WordsDiffer \/ NoWordLeft \/ Scan
        \/ ByteEqual \/ ByteDiffers \/ AtLimit

Returned == pc = "done" /\ UNCHANGED fvars

Spec == Init /\ [][Next \/ Returned]_fvars

-----------------------------------------------------------------------------
TypeOK ==
    /\ a \in Seq(Byte) /\ b \in Seq(Byte) /\ Len(a) = len
    /\ build \in Builds
    /\ pc \in {"words", "scan", "bytes", "done"}
    /\ s2 \in 0 .. len /\ matched \in Nat /\ high \in Nat

(* "Return the largest n such that s1[0,n-1] == s2[0,n-1] and              *)
(* n <= (s2_limit - s2)", in every version, through the word at which the  *)
(* loop stops and the bits of it.                                          *)
LongestMatch ==
    pc = "done" =>
        /\ matched \in 0 .. len
        /\ \A k \in 1 .. matched : a[k] = b[k]
        /\ matched < len => a[matched + 1] # b[matched + 1]

(* "Does not read *s2_limit or beyond", nor as far from s1.                *)
ReadsBelowLimit == high <= len

(* The inductive invariant behind these: what has been counted is equal,   *)
(* and the scan for a bit is not begun unless there is one.                *)
Inductive ==
    /\ TypeOK
    /\ ReadsBelowLimit
    /\ pc # "done" =>
         /\ matched = s2
         /\ \A k \in 1 .. matched : a[k] = b[k]
    /\ pc = "scan" => WordFits /\ Differing # {}
    /\ LongestMatch
============================================================================
