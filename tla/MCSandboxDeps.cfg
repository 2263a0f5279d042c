\* A patch that names a dependency.
SPECIFICATION Spec
CONSTANTS
    base = base
    over = over
    raw = raw
    broken = broken
    dependent = dependent
    s1 = s1
    s2 = s2
    NoPatch = NoPatch
    Patches = {base, over, broken, dependent, toolong}
    Slots = {s1, s2}
    Threads = {t1}
    Desc <- MCDesc
    MaxApplies = 3
PROPERTY TruthfulReturn
