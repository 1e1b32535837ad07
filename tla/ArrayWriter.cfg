CONSTANTS
    Value <- TestValues
    MemSize = 48
    Offsets = {0, 1, 2, 3, 5, 7, 8, 9, 13}
    Lengths = {1, 4, 8, 9, 16, 17}
    Calls <- TestCalls
    Outputs <- TestOutputs
    Starts = {0, 3, 8, 9, 12}
    Limits = {12, 13, 20, 22, 24, 25, 29, 38}
    NoCall = NoCall
SPECIFICATION FairSpec
INVARIANTS StaysInside Overshoot Inductive
PROPERTIES AppendsText Answered
CHECK_DEADLOCK FALSE
