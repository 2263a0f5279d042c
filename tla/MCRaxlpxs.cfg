\* Any files, commands killed at any point, listings and sessions at their limits.
SPECIFICATION FairSpec
CONSTANTS
    Commands = {c1, c2}
    old = old
    older = older
    oldest = oldest
    plain = plain
    dependent = dependent
    orphan = orphan
    badrel = badrel
    refused = refused
    misfit = misfit
    broken = broken
    Patches = {old, older, oldest, plain, dependent, orphan, badrel, refused, misfit, broken}
    NoPatch = NoPatch
    Desc <- AnyDesc
    CommandLines <- MCCommandLines
    Before <- MCBefore
    MaxList = 4
    MaxList3 = 3
    Limit = 9
CHECK_DEADLOCK FALSE
INVARIANTS
    TypeOK
    AppliedOnce
    SearchStillTrue
PROPERTIES
    OutcomeTrue
    ListComplete
    UndoesWhatIsAsked
    FindTrue
    CommandsEnd
