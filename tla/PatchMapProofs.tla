--------------------------- MODULE PatchMapProofs ---------------------------
(***************************************************************************)
(* What holds of the sandbox's address space for every number of patches,  *)
(* every set of blob lengths, every page size, hole and limit.             *)
(***************************************************************************)
EXTENDS PatchMap, TLAPS

\* Rounding: a region has at least one page, and munmap releases all of it
\* or all but one page.
LEMMA PageArithmetic ==
    ASSUME NEW s \in Nat
    PROVE  /\ PagesFor(s) \in Nat \ {0}
           /\ PagesUnmapped(s) \in Nat
           /\ PagesUnmapped(s) <= PagesFor(s)
           /\ PagesFor(s) <= PagesUnmapped(s) + 1
           /\ s > 0 => PagesUnmapped(s) > 0
           /\ PagesFor(0) = 1
<1>1. PageSize \in Nat \ {0}
  BY ConstantsAssumption
<1>2. /\ (s + PageSize) \div PageSize \in Nat \ {0}
      /\ (0 + PageSize) \div PageSize = 1
  BY <1>1, SMT
<1>3. /\ (s + PageSize - 1) \div PageSize \in Nat
      /\ (s + PageSize - 1) \div PageSize <= (s + PageSize) \div PageSize
      /\ (s + PageSize) \div PageSize <= (s + PageSize - 1) \div PageSize + 1
  BY <1>1, SMT
<1>4. s > 0 => (s + PageSize - 1) \div PageSize > 0
  BY <1>1, SMT
<1> QED
  BY <1>2, <1>3, <1>4 DEF PagesFor, PagesUnmapped
-----------------------------------------------------------------------------
\* The first page above everything mapped so far.
Cursor == last.addr + PagesFor(last.size)

\* No patch_map points above the cursor, and two of them never meet, whether
\* still mapped or already unmapped.
BelowCursor ==
    \A m \in Maps : pm[m].addr > 0 =>
        last.addr > 0 /\ pm[m].addr + PagesFor(pm[m].size) <= Cursor

Apart ==
    \A m, k \in Maps :
        m # k /\ pm[m].addr > 0 /\ pm[k].addr > 0 =>
            \/ pm[m].addr + PagesFor(pm[m].size) <= pm[k].addr
            \/ pm[k].addr + PagesFor(pm[k].size) <= pm[m].addr

PagesBelowCursor ==
    /\ last.addr = 0 => last.size = 0 /\ pages = {}
    /\ \A g \in pages : g < Cursor

\* Where a blob lies on the heap, it was mapped over it.
HeapTaken == pages \cap HeapPages \subseteq over

\* The inductive invariant: the disjointness the code relies on follows from
\* the cursor, which every mapping is placed at and which never moves down; that
\* a blob stays mapped also needs that the heap can only give up pages of it
\* that were taken from the heap.
IInv ==
    /\ TypeOK
    /\ IteratorFresh
    /\ BelowCursor
    /\ Apart
    /\ PagesBelowCursor
    /\ HeapTaken
    /\ BlobBacked
    /\ LeakIsOnePage

\* LeakIsOnePage without the union.
LEMMA LeakedPage ==
    LeakIsOnePage <=>
        \A g \in pages :
            (\A m \in Maps : Owns(m) => g \notin Region(pm[m].addr, pm[m].size))
                => g - 1 \notin pages
<1> DEFINE R(m) == Region(pm[m].addr, pm[m].size)
           Owners == {k \in Maps : Owns(k)}
<1>1. \A g : g \in Leaked <=> g \in pages /\ \A m \in Owners : g \notin R(m)
  BY DEF Leaked
<1> QED
  BY <1>1 DEF LeakIsOnePage

LEMMA LeakedPageNext ==
    LeakIsOnePage' <=>
        \A g \in pages' :
            (\A m \in Maps : Owns(m)' => g \notin Region(pm'[m].addr, pm'[m].size))
                => g - 1 \notin pages'
<1> DEFINE R(m) == Region(pm'[m].addr, pm'[m].size)
           Owners == {k \in Maps : Owns(k)'}
<1>1. \A g : g \in Leaked' <=> g \in pages' /\ \A m \in Owners : g \notin R(m)
  BY DEF Leaked
<1> QED
  BY <1>1 DEF LeakIsOnePage

LEMMA InitIInv == Init => IInv
<1> SUFFICES ASSUME Init PROVE IInv
  OBVIOUS
<1>1. TypeOK /\ IteratorFresh
  BY ConstantsAssumption DEF Init, TypeOK, IteratorFresh, Unused, NULL, MAP_FAILED
<1>2. BelowCursor /\ Apart /\ BlobBacked /\ PagesBelowCursor
  BY DEF Init, BelowCursor, Apart, BlobBacked, PagesBelowCursor, Owns, Unused, NULL
<1>3. LeakIsOnePage /\ HeapTaken
  BY DEF Init, LeakIsOnePage, Leaked, HeapTaken
<1> QED
  BY <1>1, <1>2, <1>3 DEF IInv

\* Where the next mapping goes: at the cursor, or above the heap the first time.
LEMMA NextAddrFacts ==
    ASSUME IInv
    PROVE  /\ LastAddr \in Nat \ {0}
           /\ NextAddr \in Nat \ {0}
           /\ Cursor \in Nat
           /\ NextAddr = LastAddr + PagesFor(last.size)
           /\ last.addr > 0 => LastAddr = last.addr /\ NextAddr = Cursor
           /\ last.addr = 0 => LastAddr = brk + Hole /\ pages = {} /\ last.size = 0
<1>1. last.addr \in Nat /\ last.size \in Nat /\ brk \in Nat \ {0} /\ Hole \in Nat
  BY ConstantsAssumption DEF IInv, TypeOK
<1>2. PagesFor(last.size) \in Nat \ {0}
  BY <1>1, PageArithmetic
<1> QED
  BY <1>1, <1>2 DEF LastAddr, NextAddr, Cursor, FindSandboxStart, NULL, IInv, PagesBelowCursor
-----------------------------------------------------------------------------
\* A call that maps nothing keeps the invariant: the patch_map it fills in
\* holds no address, and `last' only gets the start address, if that.
LEMMA FailedMapIInv ==
    ASSUME IInv, NEW m \in Maps, NEW size \in Nat, NEW a \in {NULL, MAP_FAILED},
           NEW z \in Nat,
           pm[m] = Unused,
           pm' = [pm EXCEPT ![m] = [addr |-> a, size |-> z]],
           \/ last' = last /\ g_current' = g_current /\ found' = found
           \/ last' = [addr |-> LastAddr, size |-> last.size] /\ HeapFound,
           UNCHANGED <<pages, brk, over>>
    PROVE  IInv'
<1> USE NextAddrFacts
<1>1. TypeOK'
  <2>1. found' \in 0 .. MaxBrk
    BY ConstantsAssumption DEF IInv, TypeOK, HeapFound
  <2> QED
    BY <2>1 DEF IInv, TypeOK, HeapFound, NULL, MAP_FAILED
<1>2. \A k \in Maps : pm'[k].addr > 0 => k # m /\ pm'[k] = pm[k] /\ last' = last
  BY DEF IInv, TypeOK, NULL, MAP_FAILED, LastAddr, BelowCursor
<1>3. /\ last'.addr \in Nat /\ last'.size = last.size
      /\ last'.addr = 0 => last.addr = 0
      /\ last.addr > 0 => last' = last
  BY DEF IInv, TypeOK, LastAddr, NULL
<1>4. BelowCursor'
  BY <1>2 DEF IInv, BelowCursor, Cursor
<1>5. Apart'
  BY <1>2 DEF IInv, Apart
<1>6. PagesBelowCursor'
  BY <1>3 DEF IInv, TypeOK, PagesBelowCursor, Cursor
<1>7. BlobBacked'
  BY <1>2 DEF IInv, BlobBacked, Owns
<1>8. LeakIsOnePage'
  <2>1. \A k \in Maps : Owns(k)' <=> Owns(k)
    BY DEF Owns, Unused, NULL, MAP_FAILED, IInv, TypeOK
  <2>2. \A k \in Maps : Owns(k) => pm'[k] = pm[k]
    BY DEF Owns, Unused, NULL, IInv, TypeOK
  <2>3. Leaked' = Leaked
    BY <2>1, <2>2 DEF Leaked, Owns
  <2> QED
    BY <2>3 DEF IInv, LeakIsOnePage
<1>9. IteratorFresh' /\ HeapTaken'
  BY DEF IInv, IteratorFresh, HeapFound, NULL, HeapTaken, HeapPages
<1> QED
  BY <1>1, <1>4, <1>5, <1>6, <1>7, <1>8, <1>9 DEF IInv

\* A new mapping starts at the cursor, hence above everything mapped before.
LEMMA MapDoneIInv ==
    ASSUME IInv, NEW m \in Maps, NEW size \in Sizes, MapDone(m, size)
    PROVE  IInv'
<1> DEFINE new == [addr |-> NextAddr, size |-> size]
<1> USE NextAddrFacts
<1>1. size \in Nat \ {0} /\ PagesFor(size) \in Nat \ {0} /\ PagesFor(last.size) \in Nat \ {0}
  BY PageArithmetic, ConstantsAssumption DEF IInv, TypeOK
<1>2. /\ last' = new
      /\ pm' = [pm EXCEPT ![m] = new]
      /\ pages' = pages \cup Region(NextAddr, size)
      /\ brk' = brk
      /\ over' = over \cup (Region(NextAddr, size) \cap HeapPages)
      /\ pm[m] = Unused
  BY DEF MapDone
<1>3. \A k \in Maps \ {m} : pm'[k] = pm[k]
  BY <1>2
<1>4. pm'[m] = new
  BY <1>2 DEF IInv, TypeOK
<1>5. TypeOK'
  <2>1. Region(NextAddr, size) \subseteq Nat
    BY <1>1 DEF Region
  <2>2. g_current' \in {NULL, FREED} /\ found' \in 0 .. MaxBrk
    BY ConstantsAssumption DEF MapDone, HeapFound, IInv, TypeOK
  <2> QED
    BY <1>1, <1>2, <2>1, <2>2 DEF IInv, TypeOK
<1>6. Cursor' = NextAddr + PagesFor(size) /\ Cursor' \in Nat
  BY <1>1, <1>2 DEF Cursor
<1>7. \A k \in Maps \ {m} : pm[k].addr > 0 =>
          /\ PagesFor(pm[k].size) \in Nat \ {0}
          /\ pm[k].addr + PagesFor(pm[k].size) <= NextAddr
  BY PageArithmetic DEF IInv, TypeOK, BelowCursor
<1>8. BelowCursor'
  <2> SUFFICES ASSUME NEW k \in Maps, pm'[k].addr > 0
               PROVE  last'.addr > 0 /\ pm'[k].addr + PagesFor(pm'[k].size) <= Cursor'
    BY DEF BelowCursor
  <2>1. CASE k = m
    BY <2>1, <1>1, <1>2, <1>4, <1>6
  <2>2. CASE k # m
    <3>1. /\ pm'[k] = pm[k] /\ pm[k].addr \in Nat
          /\ PagesFor(pm[k].size) \in Nat /\ pm[k].addr + PagesFor(pm[k].size) <= NextAddr
      BY <2>2, <1>3, <1>7 DEF IInv, TypeOK, MAP_FAILED
    <3> QED
      BY <3>1, <1>1, <1>2, <1>6
  <2> QED
    BY <2>1, <2>2
<1>9. Apart'
  BY <1>1, <1>3, <1>4, <1>7 DEF IInv, Apart
<1>10. \A g \in pages : g < NextAddr
  BY DEF IInv, TypeOK, PagesBelowCursor
<1>11. PagesBelowCursor'
  <2>1. \A g \in pages' : g < Cursor'
    BY <1>1, <1>2, <1>6, <1>10 DEF Region, IInv, TypeOK
  <2> QED
    BY <2>1, <1>2 DEF PagesBelowCursor
<1>12. BlobBacked'
  BY <1>2, <1>3, <1>4 DEF IInv, BlobBacked, Owns
<1>13. LeakIsOnePage'
  <2> SUFFICES ASSUME NEW g \in pages',
                      \A k \in Maps : Owns(k)' => g \notin Region(pm'[k].addr, pm'[k].size)
               PROVE  g - 1 \notin pages'
    BY LeakedPageNext
  <2>1. g \notin Region(NextAddr, size)
    BY <1>1, <1>4 DEF Owns
  <2>2. g \in pages /\ g \in Nat /\ g < NextAddr
    BY <2>1, <1>2, <1>10 DEF IInv, TypeOK
  <2>3. \A k \in Maps : Owns(k) => g \notin Region(pm[k].addr, pm[k].size)
    BY <1>2, <1>3 DEF Owns, Unused, NULL
  <2>4. g - 1 \notin pages
    BY <2>2, <2>3, LeakedPage DEF IInv
  <2> QED
    BY <2>2, <2>4, <1>1, <1>2 DEF Region
<1>14. IteratorFresh' /\ HeapTaken'
  BY <1>2 DEF IteratorFresh, NULL, IInv, HeapTaken, HeapPages
<1> QED
  BY <1>5, <1>8, <1>9, <1>11, <1>12, <1>13, <1>14 DEF IInv
-----------------------------------------------------------------------------
\* munmap only releases pages of its own region: no other blob loses a page,
\* and at most the last page of the region stays behind.
LEMMA UnmapIInv ==
    ASSUME IInv, NEW m \in Maps, Unmap(m)
    PROVE  IInv'
<1> DEFINE a == pm[m].addr
           s == pm[m].size
           gone == IF a \in {NULL, MAP_FAILED} THEN {} ELSE a .. (a + PagesUnmapped(s) - 1)
<1>1. /\ a \in Nat \cup {MAP_FAILED}
      /\ s \in Nat
      /\ PagesFor(s) \in Nat \ {0} /\ PagesUnmapped(s) \in Nat
      /\ PagesUnmapped(s) <= PagesFor(s) /\ PagesFor(s) <= PagesUnmapped(s) + 1
      /\ s > 0 => PagesUnmapped(s) > 0
      /\ PagesFor(0) = 1
  BY PageArithmetic DEF IInv, TypeOK
<1>2. /\ last' = last /\ brk' = brk /\ g_current' = g_current
      /\ found' = found /\ over' = over
      /\ pm' = [pm EXCEPT ![m] = [addr |-> a, size |-> 0]]
      /\ pages' = pages \ gone
  BY DEF Unmap, history
<1>3. \A k \in Maps \ {m} : pm'[k] = pm[k]
  BY <1>2
<1>4. pm'[m] = [addr |-> a, size |-> 0]
  BY <1>2 DEF IInv, TypeOK
<1>5. TypeOK' /\ IteratorFresh' /\ HeapTaken'
  BY <1>1, <1>2 DEF IInv, TypeOK, IteratorFresh, HeapTaken, HeapPages
<1>6. BelowCursor'
  <2>1. Cursor' = Cursor /\ Cursor \in Nat
    BY <1>2, NextAddrFacts DEF Cursor
  <2>2. a > 0 => last.addr > 0 /\ a + PagesFor(0) <= Cursor
    BY <1>1, <2>1 DEF IInv, BelowCursor, MAP_FAILED
  <2> QED
    BY <1>2, <1>3, <1>4, <2>1, <2>2 DEF IInv, BelowCursor
<1>7. Apart'
  <2> SUFFICES ASSUME NEW i \in Maps, NEW j \in Maps, i # j,
                      pm'[i].addr > 0, pm'[j].addr > 0
               PROVE  \/ pm'[i].addr + PagesFor(pm'[i].size) <= pm'[j].addr
                      \/ pm'[j].addr + PagesFor(pm'[j].size) <= pm'[i].addr
    BY DEF Apart
  <2>1. /\ pm'[i].addr = pm[i].addr /\ pm'[j].addr = pm[j].addr
        /\ pm[i].addr \in Nat /\ pm[j].addr \in Nat
    BY <1>1, <1>3, <1>4 DEF IInv, TypeOK, MAP_FAILED
  <2>2. \A k \in Maps : /\ PagesFor(pm'[k].size) \in Nat /\ PagesFor(pm[k].size) \in Nat
                        /\ PagesFor(pm'[k].size) <= PagesFor(pm[k].size)
    BY <1>1, <1>3, <1>4, PageArithmetic DEF IInv, TypeOK
  <2>3. \/ pm[i].addr + PagesFor(pm[i].size) <= pm[j].addr
        \/ pm[j].addr + PagesFor(pm[j].size) <= pm[i].addr
    BY <2>1 DEF IInv, Apart
  <2> QED
    BY <2>1, <2>2, <2>3
<1>8. PagesBelowCursor'
  BY <1>2 DEF IInv, PagesBelowCursor, Cursor
\* The pages that go away belong to m only.
<1>9. \A k \in Maps \ {m} : Owns(k) => Region(pm[k].addr, pm[k].size) \cap gone = {}
  <2> SUFFICES ASSUME NEW k \in Maps \ {m}, Owns(k), NEW g \in gone
               PROVE  g \notin Region(pm[k].addr, pm[k].size)
    OBVIOUS
  <2>1. a \in Nat /\ a > 0 /\ g \in Int /\ a <= g /\ g < a + PagesFor(s)
    BY <1>1 DEF NULL, MAP_FAILED
  <2>2. pm[k].addr \in Nat /\ PagesFor(pm[k].size) \in Nat
    BY PageArithmetic DEF Owns, IInv, TypeOK, MAP_FAILED
  <2>3. \/ a + PagesFor(s) <= pm[k].addr
        \/ pm[k].addr + PagesFor(pm[k].size) <= a
    BY <2>1 DEF IInv, Apart, Owns
  <2> QED
    BY <1>1, <2>1, <2>2, <2>3 DEF Region
<1>10. \A k \in Maps : Owns(k)' <=> k # m /\ Owns(k)
  BY <1>3, <1>4 DEF Owns
<1>11. BlobBacked'
  BY <1>2, <1>3, <1>9, <1>10 DEF IInv, BlobBacked
<1>12. LeakIsOnePage'
  <2> SUFFICES ASSUME NEW g \in pages',
                      \A k \in Maps : Owns(k)' => g \notin Region(pm'[k].addr, pm'[k].size)
               PROVE  g - 1 \notin pages'
    BY LeakedPageNext
  <2>1. g \in pages /\ g \in Nat /\ g \notin gone
    BY <1>2 DEF IInv, TypeOK
  <2>2. CASE Owns(m) /\ g \in Region(a, s)
    <3>1. a \in Nat /\ a > 0 /\ s > 0 /\ gone = a .. (a + PagesUnmapped(s) - 1)
      BY <1>1, <2>2 DEF Owns, NULL, MAP_FAILED
    <3>2. g = a + PagesUnmapped(s)
      BY <2>1, <2>2, <3>1, <1>1 DEF Region
    <3>3. g - 1 \in gone
      BY <3>1, <3>2, <1>1
    <3> QED
      BY <3>3, <1>2
  <2>3. CASE ~(Owns(m) /\ g \in Region(a, s))
    <3>1. \A k \in Maps : Owns(k) => g \notin Region(pm[k].addr, pm[k].size)
      BY <2>3, <1>3, <1>10
    <3> QED
      BY <3>1, <2>1, <1>2, LeakedPage DEF IInv
  <2> QED
    BY <2>2, <2>3
<1> QED
  BY <1>5, <1>6, <1>7, <1>8, <1>11, <1>12 DEF IInv

LEMMA ForgetIInv ==
    ASSUME IInv, NEW m \in Maps, Forget(m)
    PROVE  IInv'
<1>1. /\ last' = last /\ brk' = brk /\ pages' = pages /\ g_current' = g_current
      /\ found' = found /\ over' = over
      /\ pm' = [pm EXCEPT ![m] = Unused]
      /\ pm[m].size = 0
  BY DEF Forget, history
<1>2. /\ \A k \in Maps \ {m} : pm'[k] = pm[k]
      /\ pm'[m] = Unused
  BY <1>1 DEF IInv, TypeOK
<1>3. TypeOK' /\ IteratorFresh' /\ HeapTaken'
  BY <1>1, <1>2 DEF IInv, TypeOK, IteratorFresh, HeapTaken, HeapPages, Unused, NULL
<1>4. BelowCursor' /\ Apart' /\ PagesBelowCursor'
  BY <1>1, <1>2 DEF IInv, BelowCursor, Apart, PagesBelowCursor, Cursor, Unused, NULL
<1>5. \A k \in Maps : Owns(k)' <=> Owns(k)
  BY <1>1, <1>2 DEF Owns, Unused, NULL
<1>6. \A k \in Maps : Owns(k) => pm'[k] = pm[k]
  BY <1>1, <1>2 DEF Owns
<1>7. BlobBacked'
  BY <1>1, <1>5, <1>6 DEF IInv, BlobBacked
<1>8. LeakIsOnePage'
  BY <1>1, <1>5, <1>6, LeakedPage, LeakedPageNext DEF IInv
<1> QED
  BY <1>3, <1>4, <1>7, <1>8 DEF IInv

\* A heap that grows meets no mapping, and one that shrinks takes only pages
\* along that were taken from it.
LEMMA MoveBrkIInv ==
    ASSUME IInv, MoveBrk
    PROVE  IInv'
<1>1. PICK b \in {brk - 1, brk + 1} \cap (MinBrk .. MaxBrk) :
          /\ b > brk => brk \notin pages
          /\ brk' = b
          /\ pages' = pages \ (b .. (brk - 1))
  BY DEF MoveBrk
<1>2. /\ last' = last /\ pm' = pm /\ g_current' = g_current
      /\ found' = found /\ over' = over
  BY DEF MoveBrk, history
<1>3. /\ HeapBase \in Nat /\ brk \in Nat /\ b \in Nat /\ HeapBase < b
      /\ pages' \subseteq pages /\ pages \subseteq Nat
  BY <1>1, ConstantsAssumption DEF IInv, TypeOK
<1>4. pages \ pages' \subseteq over
  BY <1>1, <1>3 DEF IInv, HeapTaken, HeapPages
<1>5. HeapTaken'
  <2> SUFFICES ASSUME NEW g \in pages', g \in HeapBase .. (b - 1) PROVE g \in over
    BY <1>1, <1>2 DEF HeapTaken, HeapPages
  <2>1. g \in pages /\ g \notin b .. (brk - 1)
    BY <1>1
  <2>2. g # brk
    BY <1>1, <1>3, <2>1
  <2>3. g \in HeapBase .. (brk - 1)
    BY <1>1, <1>3, <2>2
  <2> QED
    BY <2>1, <2>3 DEF IInv, HeapTaken, HeapPages
<1>6. TypeOK' /\ IteratorFresh'
  BY <1>1, <1>2, <1>3 DEF IInv, TypeOK, IteratorFresh
<1>7. BelowCursor' /\ Apart'
  BY <1>2 DEF IInv, BelowCursor, Apart, Cursor
<1>8. PagesBelowCursor'
  BY <1>2, <1>3 DEF IInv, PagesBelowCursor, Cursor
<1>9. BlobBacked'
  BY <1>2, <1>4 DEF IInv, BlobBacked, Owns
<1>10. LeakIsOnePage'
  <2> SUFFICES ASSUME NEW g \in pages',
                      \A k \in Maps : Owns(k)' => g \notin Region(pm'[k].addr, pm'[k].size)
               PROVE  g - 1 \notin pages'
    BY LeakedPageNext
  <2>1. \A k \in Maps : Owns(k) => g \notin Region(pm[k].addr, pm[k].size)
    BY <1>2 DEF Owns
  <2> QED
    BY <1>3, <2>1, LeakedPage DEF IInv
<1> QED
  BY <1>5, <1>6, <1>7, <1>8, <1>9, <1>10 DEF IInv

LEMMA StepIInv == IInv /\ [Next]_vars => IInv'
<1> SUFFICES ASSUME IInv, [Next]_vars PROVE IInv'
  OBVIOUS
<1>0. \A size \in Sizes : size \in Nat
  BY ConstantsAssumption
<1>1. ASSUME NEW m \in Maps, NEW size \in Sizes, MapNoStart(m, size) PROVE IInv'
  BY <1>0, <1>1, FailedMapIInv DEF MapNoStart, history
<1>2. ASSUME NEW m \in Maps, NEW size \in Sizes, MapRefused(m, size) PROVE IInv'
  BY <1>0, <1>2, FailedMapIInv DEF MapRefused
<1>3. ASSUME NEW m \in Maps, NEW size \in Sizes, MapNoMem(m, size) PROVE IInv'
  BY <1>0, <1>3, FailedMapIInv DEF MapNoMem
<1>4. ASSUME NEW m \in Maps, NEW size \in Sizes, MapDone(m, size) PROVE IInv'
  BY <1>4, MapDoneIInv
<1>5. ASSUME NEW m \in Maps, Unmap(m) PROVE IInv'
  BY <1>5, UnmapIInv
<1>6. ASSUME NEW m \in Maps, Forget(m) PROVE IInv'
  BY <1>6, ForgetIInv
<1>7. CASE MoveBrk
  BY <1>7, MoveBrkIInv
<1>8. CASE UNCHANGED vars
  BY <1>8 DEF vars, history, IInv, TypeOK, IteratorFresh, BelowCursor, Apart, PagesBelowCursor,
              HeapTaken, HeapPages, BlobBacked, LeakIsOnePage, Cursor, Owns, Leaked
<1> QED
  BY <1>1, <1>2, <1>3, <1>4, <1>5, <1>6, <1>7, <1>8 DEF Next

LEMMA Invariance == Spec => []IInv
  BY InitIInv, StepIInv, PTL DEF Spec
-----------------------------------------------------------------------------
\* The state keeps its types (map_patch_map never stores an address that is
\* neither a page nor MAP_FAILED).
THEOREM TypeCorrect == Spec => []TypeOK
<1>1. IInv => TypeOK
  BY DEF IInv
<1> QED
  BY <1>1, Invariance, PTL

\* The cursor of pmparser_next never points into a freed list when a walk starts.
THEOREM FreshIterator == Spec => []IteratorFresh
<1>1. IInv => IteratorFresh
  BY DEF IInv
<1> QED
  BY <1>1, Invariance, PTL

\* Two blobs never share a page.
THEOREM Disjointness == Spec => []MapsDisjoint
<1>1. IInv => MapsDisjoint
  <2> SUFFICES ASSUME IInv, NEW m \in Maps, NEW k \in Maps, m # k, Owns(m), Owns(k)
               PROVE  Region(pm[m].addr, pm[m].size) \cap Region(pm[k].addr, pm[k].size) = {}
    BY DEF MapsDisjoint
  <2>1. /\ pm[m].addr \in Nat /\ pm[k].addr \in Nat
        /\ PagesFor(pm[m].size) \in Nat /\ PagesFor(pm[k].size) \in Nat
    BY PageArithmetic DEF IInv, TypeOK, Owns, MAP_FAILED
  <2>2. \/ pm[m].addr + PagesFor(pm[m].size) <= pm[k].addr
        \/ pm[k].addr + PagesFor(pm[k].size) <= pm[m].addr
    BY DEF IInv, Apart, Owns
  <2> QED
    BY <2>1, <2>2 DEF Region
<1> QED
  BY <1>1, Invariance, PTL

\* A blob stays mapped until its own unmap, but for pages taken from the heap.
THEOREM Backing == Spec => []BlobBacked
<1>1. IInv => BlobBacked
  BY DEF IInv
<1> QED
  BY <1>1, Invariance, PTL

\* unmap_patch_map leaves at most the last page of a region behind.
THEOREM Leak == Spec => []LeakIsOnePage
<1>1. IInv => LeakIsOnePage
  BY DEF IInv
<1> QED
  BY <1>1, Invariance, PTL
-----------------------------------------------------------------------------
\* What one step does to the cursor.
LEMMA CursorStep ==
    ASSUME IInv, [Next]_vars, last.addr # NULL
    PROVE  /\ last'.addr # NULL
           /\ NextAddr \in Nat /\ NextAddr' \in Nat
           /\ NextAddr' >= NextAddr
           /\ pages' \ pages \subseteq NextAddr .. (NextAddr' - 1)
<1>1. last.addr \in Nat \ {0} /\ last.size \in Nat /\ PagesFor(last.size) \in Nat \ {0}
  BY PageArithmetic DEF IInv, TypeOK, NULL
<1>2. NextAddr = last.addr + PagesFor(last.size)
  BY DEF NextAddr, LastAddr
<1>3. ASSUME NEW m \in Maps, NEW size \in Sizes, MapDone(m, size)
      PROVE  /\ last'.addr # NULL /\ NextAddr' \in Nat
             /\ NextAddr' = NextAddr + PagesFor(size)
             /\ pages' \ pages \subseteq NextAddr .. (NextAddr' - 1)
             /\ PagesFor(size) \in Nat
  <2>1. last' = [addr |-> NextAddr, size |-> size] /\ pages' = pages \cup Region(NextAddr, size)
    BY <1>3 DEF MapDone
  <2>2. PagesFor(size) \in Nat
    BY PageArithmetic, ConstantsAssumption
  <2>3. NextAddr' = last'.addr + PagesFor(last'.size)
    BY <1>1, <1>2, <2>1 DEF NextAddr, LastAddr, NULL
  <2> QED
    BY <1>1, <1>2, <2>1, <2>2, <2>3 DEF Region, NULL
<1>4. ASSUME last' = last \/ last' = [addr |-> LastAddr, size |-> last.size], pages' \subseteq pages
      PROVE  last'.addr # NULL /\ NextAddr' = NextAddr /\ pages' \ pages = {}
  <2>1. last' = [addr |-> last.addr, size |-> last.size]
    BY <1>4 DEF LastAddr, IInv, TypeOK
  <2> QED
    BY <1>1, <1>4, <2>1 DEF NextAddr, LastAddr
<1>5. \/ \E m \in Maps, size \in Sizes : MapDone(m, size)
      \/ /\ last' = last \/ last' = [addr |-> LastAddr, size |-> last.size]
         /\ pages' \subseteq pages
  BY DEF Next, vars, MapNoStart, MapRefused, MapNoMem, Unmap, Forget, MoveBrk
<1> QED
  BY <1>1, <1>2, <1>3, <1>4, <1>5

\* No page of the address space is used twice.
THEOREM FreshAddresses == Spec => NeverReused
<1>1. IInv /\ [Next]_vars =>
        [last.addr # NULL =>
          /\ NextAddr' >= NextAddr
          /\ pages' \ pages \subseteq NextAddr .. (NextAddr' - 1)]_vars
  BY CursorStep
<1> QED
  BY <1>1, Invariance, PTL DEF Spec, NeverReused
-----------------------------------------------------------------------------
\* Everything the sandbox maps is above the hole over the end the heap had when
\* it was read.  The end is read once: `found' only changes while nothing is mapped.
AboveHole ==
    /\ last.addr > 0 => last.addr >= found + Hole
    /\ \A g \in pages : g > found + Hole

\* However the heap moves: as long as its end lies in the hole no mapping is on
\* it, and no blob is met by the heap that was not mapped over it.
THEOREM HeapUntouched == Spec => []HeapInHole
<1>1. Init => AboveHole
  BY DEF Init, AboveHole, Unused, NULL
<1>2. IInv /\ AboveHole /\ [Next]_vars => AboveHole'
  <2> SUFFICES ASSUME IInv, AboveHole, [Next]_vars PROVE AboveHole'
    OBVIOUS
  <2>0. /\ MinBrk \in Nat /\ Hole \in Nat /\ brk \in Nat /\ found \in Nat
        /\ last.addr \in Nat /\ last.size \in Nat /\ PagesFor(last.size) \in Nat \ {0}
    BY ConstantsAssumption, PageArithmetic DEF IInv, TypeOK
  <2> DEFINE end == IF last.addr = NULL THEN brk ELSE found
  <2>1. LastAddr \in Nat /\ LastAddr >= end + Hole /\ NextAddr = LastAddr + PagesFor(last.size)
    BY <2>0 DEF LastAddr, NextAddr, FindSandboxStart, NULL, AboveHole
  <2>2. end \in Nat /\ \A g \in pages : g > end + Hole
    BY <2>0 DEF AboveHole, IInv, PagesBelowCursor, NULL
  <2>3. ASSUME NEW m \in Maps, NEW size \in Sizes, MapDone(m, size) PROVE AboveHole'
    <3>1. /\ last' = [addr |-> NextAddr, size |-> size] /\ pages' = pages \cup Region(NextAddr, size)
          /\ found' = end
      BY <2>3 DEF MapDone, HeapFound
    <3>2. PagesFor(size) \in Nat
      BY PageArithmetic, ConstantsAssumption
    <3> HIDE DEF end
    <3>3. last'.addr = NextAddr /\ NextAddr > end + Hole
      BY <2>0, <2>1, <2>2, <3>1
    <3>4. \A g \in pages' : g > end + Hole
      BY <2>2, <3>1, <3>2, <3>3, <2>0, <2>1 DEF Region
    <3> QED
      BY <2>0, <2>2, <2>1, <3>1, <3>3, <3>4 DEF AboveHole
  <2>4. CASE last' = [addr |-> LastAddr, size |-> last.size] /\ found' = end /\ pages' = pages
    BY <2>1, <2>2, <2>4 DEF AboveHole
  <2>5. CASE last' = last /\ found' = found /\ pages' \subseteq pages
    BY <2>5 DEF AboveHole
  <2> QED
    BY <2>3, <2>4, <2>5 DEF Next, vars, history, MapNoStart, MapRefused, MapNoMem, Unmap, Forget,
                            MoveBrk, HeapFound
<1>3. IInv /\ AboveHole => HeapInHole
  BY ConstantsAssumption DEF IInv, TypeOK, AboveHole, HeapInHole, HeapTaken, NoHeapOverlap, HeapPages
<1> QED
  BY <1>1, <1>2, <1>3, Invariance, PTL DEF Spec
-----------------------------------------------------------------------------
\* The pages left between the next mapping and the limit.
Room == UltimateLimit - NextAddr

\* A mapping takes its pages out of the room, which stays positive; no call
\* gives any back, and unmapping a patch is no exception: the room a QEMU
\* process has for patches is used up by applying and undoing them.
RoomUsedUp ==
    [][/\ last.addr # NULL => Room' <= Room
       /\ \A m \in Maps, size \in Sizes :
             MapDone(m, size) => Room' = Room - PagesFor(size) /\ 0 < Room' /\ Room' < Room]_vars

LEMMA LimitInt == UltimateLimit \in Int
<1>1. Start + 8 * Reach \in Nat /\ PageSize \in Nat \ {0}
  BY ConstantsAssumption
<1> QED
  BY <1>1, SMT DEF UltimateLimit

LEMMA RoomStep ==
    ASSUME IInv, [Next]_vars
    PROVE  /\ last.addr # NULL => Room' <= Room
           /\ \A m \in Maps, size \in Sizes :
                 MapDone(m, size) => Room' = Room - PagesFor(size) /\ 0 < Room' /\ Room' < Room
<1>1. UltimateLimit \in Int /\ UltimateLimit' = UltimateLimit /\ NextAddr \in Nat
  BY LimitInt, NextAddrFacts DEF UltimateLimit
<1>2. last.addr # NULL => Room' <= Room
  BY <1>1, CursorStep DEF Room
<1>3. ASSUME NEW m \in Maps, NEW size \in Sizes, MapDone(m, size)
      PROVE  Room' = Room - PagesFor(size) /\ 0 < Room' /\ Room' < Room
  <2>1. size \in Nat /\ PagesFor(size) \in Nat \ {0}
    BY PageArithmetic, ConstantsAssumption
  <2>2. last' = [addr |-> NextAddr, size |-> size] /\ NextAddr \in Nat \ {0}
    BY <1>3, NextAddrFacts DEF MapDone
  <2>3. NextAddr' = NextAddr + PagesFor(size)
    BY <2>2 DEF NextAddr, LastAddr, NULL
  <2>4. ~(NextAddr + PagesFor(size) >= UltimateLimit)
    BY <1>3 DEF MapDone, ExceedsLimit
  <2> QED
    BY <1>1, <2>1, <2>3, <2>4 DEF Room
<1> QED
  BY <1>2, <1>3

\* Undoing a patch gives no room back: at most UltimateLimit blobs are mapped
\* in the life of a process.
THEOREM RoomIsFinite == Spec => RoomUsedUp
<1>1. IInv /\ [Next]_vars =>
        [/\ last.addr # NULL => Room' <= Room
         /\ \A m \in Maps, size \in Sizes :
               MapDone(m, size) => Room' = Room - PagesFor(size) /\ 0 < Room' /\ Room' < Room]_vars
  BY RoomStep
<1> QED
  BY <1>1, Invariance, PTL DEF Spec, RoomUsedUp
-----------------------------------------------------------------------------
\* Once something has been mapped, the cursor is below the limit.
UnderLimit == IF last.size = 0 THEN pages = {} /\ \A m \in Maps : pm[m].addr <= 0
              ELSE Cursor < UltimateLimit

\* What the check of map_patch_map does guarantee: every blob ends within
\* 8 * Reach of _start, eight times what its comment promises.
EndsWithinLimit ==
    \A m \in Maps :
        Owns(m) => (pm[m].addr + PagesFor(pm[m].size)) * PageSize <= Start + 8 * Reach

LEMMA DivisionBound ==
    ASSUME NEW p \in Nat \ {0}, NEW x \in Nat, NEW n \in Nat, n <= x \div p
    PROVE  n * p <= x
  BY SMTT(30)

\* Every blob ends within 8 * (2^32 - 1) bytes of _start.
THEOREM LimitKept == Spec => []EndsWithinLimit
<1>1. Init => UnderLimit
  BY DEF Init, UnderLimit, Unused, NULL
<1>2. IInv /\ UnderLimit /\ [Next]_vars => UnderLimit'
  <2> SUFFICES ASSUME IInv, UnderLimit, [Next]_vars PROVE UnderLimit'
    OBVIOUS
  <2>0. UltimateLimit \in Int /\ UltimateLimit' = UltimateLimit
    BY LimitInt DEF UltimateLimit
  <2>1. ASSUME NEW m \in Maps, NEW size \in Sizes, MapDone(m, size) PROVE UnderLimit'
    <3>1. size # 0 /\ last' = [addr |-> NextAddr, size |-> size]
      BY <2>1, ConstantsAssumption DEF MapDone
    <3>2. Cursor' = NextAddr + PagesFor(size) /\ NextAddr \in Nat /\ PagesFor(size) \in Nat
      BY <3>1, NextAddrFacts, PageArithmetic, ConstantsAssumption DEF Cursor
    <3>3. ~(NextAddr + PagesFor(size) >= UltimateLimit)
      BY <2>1 DEF MapDone, ExceedsLimit
    <3> QED
      BY <2>0, <3>1, <3>2, <3>3 DEF UnderLimit
  <2>2. CASE ~\E m \in Maps, size \in Sizes : MapDone(m, size)
    <3>1. last'.size = last.size /\ (last' # last => last.addr = NULL)
      BY <2>2 DEF Next, vars, MapNoStart, MapRefused, MapNoMem, Unmap, Forget, MoveBrk, LastAddr,
                  IInv, TypeOK
    <3>2. pages' \subseteq pages
      BY <2>2 DEF Next, vars, MapNoStart, MapRefused, MapNoMem, Unmap, Forget, MoveBrk
    <3>3. \A m \in Maps : pm'[m].addr = pm[m].addr \/ pm'[m].addr <= 0
      BY <2>2 DEF Next, vars, MapNoStart, MapRefused, MapNoMem, Unmap, Forget, MoveBrk,
                  IInv, TypeOK, Unused, NULL, MAP_FAILED
    <3>4. last.addr = NULL => last.size = 0
      BY DEF IInv, PagesBelowCursor, NULL
    <3> QED
      BY <2>0, <3>1, <3>2, <3>3, <3>4 DEF UnderLimit, Cursor, IInv, TypeOK
  <2> QED
    BY <2>1, <2>2
<1>3. IInv /\ UnderLimit => EndsWithinLimit
  <2> SUFFICES ASSUME IInv, UnderLimit, NEW m \in Maps, Owns(m)
               PROVE  (pm[m].addr + PagesFor(pm[m].size)) * PageSize <= Start + 8 * Reach
    BY DEF EndsWithinLimit
  <2> DEFINE top == pm[m].addr + PagesFor(pm[m].size)
  <2>1. top \in Nat /\ Cursor \in Nat /\ top <= Cursor
    BY PageArithmetic, NextAddrFacts DEF IInv, TypeOK, BelowCursor, Owns, MAP_FAILED
  <2>2. Cursor < UltimateLimit
    BY DEF UnderLimit, Owns, IInv, TypeOK, MAP_FAILED
  <2>3. top <= UltimateLimit
    BY <2>1, <2>2, LimitInt
  <2>4. PageSize \in Nat \ {0} /\ Start + 8 * Reach \in Nat
    BY ConstantsAssumption
  <2> QED
    BY <2>1, <2>3, <2>4, DivisionBound DEF UltimateLimit
<1> QED
  BY <1>1, <1>2, <1>3, Invariance, PTL DEF Spec
=============================================================================
