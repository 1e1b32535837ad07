CONSTANTS
    SomeBytes = {0, 1, 2, 15, 240, 252, 255}
    MaxLength = 6
    Streams <- ShortStreams
    Limits = {0, 2, 2147483646}
    Junk <- TestJunk
    NoCall = NoCall
    Headroom = 65
SPECIFICATION CallSpec
INVARIANTS CallInductive HeaderInverse HeaderRefused WithinRoom SimpleWhole
PROPERTY BodyDecodes
