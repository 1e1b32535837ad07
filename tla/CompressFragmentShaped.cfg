CONSTANTS
    Byte = {0, 1, 2, 3, 4}
    Lengths = {0}
    Inputs <- ShapedInputs
    Bucket <- WordBuckets
    Hashes <- WordHashes
    Stale <- WordStale
    Margin = 15
    Wide = 16
    SkipUnit = 32
SPECIFICATION Spec
INVARIANTS WritesInside Overhead
PROPERTIES EmitsInput
