\* Many blobs: the limit the code computes against the one it documents.
SPECIFICATION Spec
CONSTANTS
    Maps = {m1, m2}
    Sizes = {1, 2}
    PageSize = 2
    Hole = 1
    Start = 2
    Reach = 14
    HeapBase = 2
    MinBrk = 3
    MaxBrk = 3
INVARIANT StartsWithinReach
