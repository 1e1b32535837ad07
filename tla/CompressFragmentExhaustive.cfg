CONSTANTS
    Byte = {0, 1}
    Lengths = {0, 1, 5, 6, 7, 13}
    Inputs <- ExhaustiveInputs
    Bucket <- SmallBuckets
    Hashes <- SmallHashes
    Stale <- SmallStale
    Margin = 6
    Wide = 5
    SkipUnit = 2
SPECIFICATION Spec
INVARIANTS CandidateBehind HashCurrent ReadsInside NoAdjacentLiterals Inductive
PROPERTIES EmitsInput Advances
