CONSTANTS
    SomeBytes = {0, 1, 2}
    MaxLength = 6
    Streams <- WrappingStreams
    Limits = {0, 1, 2}
    Junk <- TestJunk
    NoCall = NoCall
    Headroom = 1073741824
SPECIFICATION CallSpec
INVARIANT StaysInDst
