CONSTANTS
    Byte = {0, 1}
    Inputs = {}
    Hashes = {}
    Bucket <- Buckets
    Stale <- TestStale
    Margin = 6
    Wide = 5
    SkipUnit = 2
    Sources <- TestSources
    kBlockSize = 13
    Powers = {2, 4}
    FirstPower = 2
    HashBits = 5
    Mixers <- TestMixers
    Versions = {"fast", "simple"}
    MAX_INPUT_SIZE = 36
    Files <- BadFiles
    Junk <- TestJunk
    NoCall = NoCall
    Headroom = 1073741824
SPECIFICATION FairTripSpec
INVARIANTS OutputFits TableInside ReadsNear WordCurrent Restores
PROPERTIES EmitsSource Finishes
