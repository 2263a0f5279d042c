\* A heap that moves freely, out of the hole and over undone blobs too: blobs of
\* less than a page, exactly one page, and between one and two pages.  Mappings
\* end at page 12.
SPECIFICATION Spec
CONSTANTS
    Maps = {m1, m2, m3}
    Sizes = {1, 2, 3}
    PageSize = 2
    Hole = 1
    Start = 0
    Reach = 3
    HeapBase = 1
    MinBrk = 2
    MaxBrk = 7
SYMMETRY MapSymmetry
INVARIANTS
    TypeOK
    IteratorFresh
    MapsDisjoint
    BlobBacked
    HeapInHole
PROPERTIES
    NeverReused
