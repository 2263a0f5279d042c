SPECIFICATION Spec
CONSTANTS
    Sizes <- MCSizes
    Counts <- MCCounts
    Lengths <- MCLengths
    Wrap = 4
INVARIANTS
    TypeOK
    LoadedWhole
PROPERTY RelocsFit
CHECK_DEADLOCK FALSE
