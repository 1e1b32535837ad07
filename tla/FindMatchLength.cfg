CONSTANTS
    Byte <- TestBytes
    Pairs <- TestPairs
SPECIFICATION Spec
INVARIANTS LongestMatch ReadsBelowLimit Inductive
