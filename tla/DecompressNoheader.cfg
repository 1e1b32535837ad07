CONSTANTS
    SomeBytes = {0, 1, 2, 252, 255}
    MaxLength = 6
    Streams <- AllStreams
    Limits = {0, 2, 21, 64, 400}
    Junk <- TestJunk
    NoCall = NoCall
SPECIFICATION Spec
INVARIANTS ReadsInside CallsLegal ScratchHoldsTail Inductive
PROPERTY DecodesStream
