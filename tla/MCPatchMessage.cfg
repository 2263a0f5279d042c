SPECIFICATION Spec
CONSTANTS
    Files <- MCFiles
    Addrs <- MCAddrs
    Start = 2000
    End = 2040
    Half = 1024
    MaxPatch = 300
    AllocSize = 300
    MaxTags = 16
INVARIANTS
    TypeOK
    InPlace
    WithinBuffer
    RelocsInBlob
    TrampolinesLand
    CallsLand
    MisreadRefused
CHECK_DEADLOCK FALSE
