\* A patch is undone while a thread executes in its blob.
SPECIFICATION Spec
CONSTANTS
    base = base
    over = over
    raw = raw
    broken = broken
    dependent = dependent
    s1 = s1
    s2 = s2
    NoPatch = NoPatch
    Patches = {base, over, broken, dependent, toolong}
    Slots = {s1, s2}
    Threads = {t1}
    Desc <- MCDesc
    MaxApplies = 3
INVARIANT NoThreadInUnmappedBlob
