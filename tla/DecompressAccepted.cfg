CONSTANTS
    SomeBytes = {0, 1, 2, 8}
    MaxLength = 4
    Streams <- ShortStreams
    Limits = {8}
    Junk <- TestJunk
    NoCall = NoCall
    Headroom = 1073741824
SPECIFICATION CallSpec
INVARIANT OkMeansSuccess
