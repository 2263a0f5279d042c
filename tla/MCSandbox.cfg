\* Patches that share locations, undone newest first; no dependencies.
SPECIFICATION DisciplinedSpec
CONSTANTS
    base = base
    over = over
    raw = raw
    broken = broken
    dependent = dependent
    s1 = s1
    s2 = s2
    NoPatch = NoPatch
    Patches = {base, over, raw, broken}
    Slots = {s1, s2}
    Threads = {t1}
    Desc <- MCDesc
    MaxApplies = 3
INVARIANTS
    TypeOK
    TextChain
    NoDanglingTrampoline
PROPERTIES
    StrandedByUndo
    TruthfulReturn
    AbstractSpec
    Answered
