CONSTANTS
    PageSize = 3
    NumPages = 3
    Source <- TestSource
    Lengths = {1, 2, 4, 7, 11}
    Distances = {0, 1, 2, 3, 4, 5, 6, 7, 8, 9}
    MaxCalls = 4
SPECIFICATION Spec
INVARIANT SourceFollows
PROPERTY KeepsWindow
CHECK_DEADLOCK FALSE
