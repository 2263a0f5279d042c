------------------------------ MODULE PatchMap ------------------------------
(***************************************************************************)
(* The address space of live patches: map_patch_map, unmap_patch_map and   *)
(* find_sandbox_start of libsandbox.c.                                     *)
(*                                                                         *)
(* Every blob gets a mapping of its own, laid out upwards from a start that *)
(* is read from /proc/<pid>/maps once and then kept in the static variable *)
(* `last'.  The mapping is made with MAP_FIXED, so whatever lies at the    *)
(* address is replaced; the heap of QEMU, which other threads move with    *)
(* brk(2), lies below it.                                                  *)
(*                                                                         *)
(* Every address the code computes is a multiple of the page size, so an   *)
(* address is a page number here; the size of a blob stays in bytes.       *)
(***************************************************************************)
EXTENDS Integers, FiniteSets

CONSTANTS
    Maps,       \* struct patch_map objects: one per apply in progress or applied patch
    Sizes,      \* the lengths of blobs, in bytes: 1 .. MAX_PATCH_SIZE - 1 in the code
    PageSize,   \* 0x1000 in the code
    Hole,       \* pages left to the heap: 0x100000 bytes in the code
    Start,      \* the address of _start, in bytes
    Reach,      \* 0xffffffff in the code
    HeapBase,   \* first page of the heap
    MinBrk,     \* lowest end of the heap (bound on the environment)
    MaxBrk      \* highest end of the heap (bound on the environment)

ASSUME ConstantsAssumption ==
    /\ PageSize \in Nat \ {0}
    /\ Sizes \subseteq Nat \ {0}
    /\ Hole \in Nat
    /\ Start \in Nat
    /\ Reach \in Nat
    /\ HeapBase \in Nat \ {0}
    /\ MinBrk \in Nat /\ MaxBrk \in Nat
    /\ HeapBase < MinBrk /\ MinBrk <= MaxBrk

VARIABLES
    last,       \* static struct patch_map last: the newest mapping, addr 0 until first used
    pm,         \* Maps -> struct patch_map, [addr, size]
    pages,      \* pages of sandbox mappings the kernel holds for the process
    brk,        \* end of the heap: the heap is the pages HeapBase .. brk - 1
    g_current,  \* the static cursor of pmparser_next: NULL, or in a list that was freed
    found,      \* history: the end of the heap when find_sandbox_start read it, 0 before
    over        \* history: the pages that MAP_FIXED took from the heap

history == <<found, over>>
vars == <<last, pm, pages, brk, g_current, history>>

NULL == 0
MAP_FAILED == -1

\* g_current after a walk that stopped at a node of a list since freed.
FREED == 1

\* { NULL, 0 }, as xenlp_apply4 declares it.
Unused == [addr |-> NULL, size |-> 0]
-----------------------------------------------------------------------------
(* Slips such code invites, one for each property below: the mutants of the *)
(* runs put them in place of the definition they are named after.           *)

\* munmap of whole pages only.
PagesUnmappedDown(size) == size \div PageSize

\* No room left to the heap.
FindSandboxStartAtBrk == brk

\* The next address computed with munmap's rounding instead of mmap's.
NextAddrRounded ==
    (IF last.addr = NULL THEN brk + Hole ELSE last.addr)
    + ((last.size + PageSize - 1) \div PageSize)

\* Mappings laid out downwards.
NextAddrDown ==
    (IF last.addr = NULL THEN brk + Hole ELSE last.addr)
    - ((last.size + PageSize) \div PageSize)
-----------------------------------------------------------------------------
\* (size + 0x1000) & PAGE_MASK, in pages: one page too many when the size is
\* a multiple of the page size.
PagesFor(size) == (size + PageSize) \div PageSize

\* The pages munmap(addr, size) releases: the size is rounded up.
PagesUnmapped(size) == (size + PageSize - 1) \div PageSize

\* The pages a mapping of `size' bytes at page addr occupies.
Region(addr, size) == addr .. (addr + PagesFor(size) - 1)

HeapPages == HeapBase .. (brk - 1)

\* &_start is a pointer to an 8-byte word: the addition advances by 8 * Reach.
UltimateLimit == (Start + 8 * Reach) \div PageSize

\* find_sandbox_start when the [heap] line is found.
FindSandboxStart == brk + Hole

\* last.addr once map_patch_map has filled it in.
LastAddr == IF last.addr = NULL THEN FindSandboxStart ELSE last.addr

NextAddr == LastAddr + PagesFor(last.size)

ExceedsLimit(size) == NextAddr + PagesFor(size) >= UltimateLimit

\* A call that needs the start walks the list of mappings up to the [heap]
\* line, where pmparser_next keeps its cursor, and then frees the list.
HeapFound ==
    /\ g_current' = IF last.addr = NULL THEN FREED ELSE g_current
    /\ found' = IF last.addr = NULL THEN brk ELSE found
-----------------------------------------------------------------------------
\* Slip: the mapping is not recorded in last.
MapDoneUnrecorded(m, size) ==
    /\ pm[m] = Unused
    /\ ~ExceedsLimit(size)
    /\ last' = [addr |-> LastAddr, size |-> last.size]
    /\ pm' = [pm EXCEPT ![m] = [addr |-> NextAddr, size |-> size]]
    /\ pages' = pages \cup Region(NextAddr, size)
    /\ HeapFound
    /\ over' = over \cup (Region(NextAddr, size) \cap HeapPages)
    /\ UNCHANGED brk

\* Slip: the size is not reset.
UnmapKeepsSize(m) ==
    /\ pm[m].addr > 0
    /\ pages' = pages \ (pm[m].addr .. (pm[m].addr + PagesUnmapped(pm[m].size) - 1))
    /\ UNCHANGED <<last, pm, brk, g_current, history>>

\* Slip: last is only set once a mapping is made.
MapNoMemPreserves(m, size) ==
    /\ pm[m] = Unused
    /\ ~ExceedsLimit(size)
    /\ pm' = [pm EXCEPT ![m] = [addr |-> MAP_FAILED, size |-> size]]
    /\ HeapFound
    /\ UNCHANGED <<last, pages, brk, over>>
-----------------------------------------------------------------------------
Init ==
    /\ last = Unused
    /\ pm = [m \in Maps |-> Unused]
    /\ pages = {}
    /\ brk \in MinBrk .. MaxBrk
    /\ g_current = NULL
    /\ found = 0
    /\ over = {}

\* /proc/<pid>/maps cannot be parsed or shows no heap: last stays unset, the
\* call fails and leaves the size in the patch_map.  A walk to the end of the
\* list leaves the cursor at NULL, where IteratorFresh says it was.
MapNoStart(m, size) ==
    /\ pm[m] = Unused
    /\ last.addr = NULL
    /\ pm' = [pm EXCEPT ![m] = [addr |-> NULL, size |-> size]]
    /\ UNCHANGED <<last, pages, brk, g_current, history>>

\* The mapping would reach the limit: nothing is mapped, last keeps its value
\* (but for a start address found by this very call).
MapRefused(m, size) ==
    /\ pm[m] = Unused
    /\ ExceedsLimit(size)
    /\ last' = [addr |-> LastAddr, size |-> last.size]
    /\ pm' = [pm EXCEPT ![m] = [addr |-> MAP_FAILED, size |-> 0]]
    /\ HeapFound
    /\ UNCHANGED <<pages, brk, over>>

\* mmap fails.
MapNoMem(m, size) ==
    /\ pm[m] = Unused
    /\ ~ExceedsLimit(size)
    /\ last' = [addr |-> LastAddr, size |-> last.size]
    /\ pm' = [pm EXCEPT ![m] = [addr |-> MAP_FAILED, size |-> size]]
    /\ HeapFound
    /\ UNCHANGED <<pages, brk, over>>

\* MAP_FIXED: the pages belong to the sandbox from now on, whatever was there.
MapDone(m, size) ==
    /\ pm[m] = Unused
    /\ ~ExceedsLimit(size)
    /\ last' = [addr |-> NextAddr, size |-> size]
    /\ pm' = [pm EXCEPT ![m] = [addr |-> NextAddr, size |-> size]]
    /\ pages' = pages \cup Region(NextAddr, size)
    /\ HeapFound
    /\ over' = over \cup (Region(NextAddr, size) \cap HeapPages)
    /\ UNCHANGED brk

\* unmap_patch_map.  munmap refuses MAP_FAILED and a size of 0.  The size is
\* reset and the address kept, so a second call (the two errout paths of
\* read_patch_data and xenlp_apply4) releases nothing.
Unmap(m) ==
    /\ pm[m] # Unused
    /\ pages' = IF pm[m].addr \in {NULL, MAP_FAILED} THEN pages
                ELSE pages \ (pm[m].addr .. (pm[m].addr + PagesUnmapped(pm[m].size) - 1))
    /\ pm' = [pm EXCEPT ![m] = [addr |-> pm[m].addr, size |-> 0]]
    /\ UNCHANGED <<last, brk, g_current, history>>

\* The struct that held the patch_map is freed, or leaves the stack, after
\* unmap_patch_map.
Forget(m) ==
    /\ pm[m] # Unused
    /\ pm[m].size = 0
    /\ pm' = [pm EXCEPT ![m] = Unused]
    /\ UNCHANGED <<last, pages, brk, g_current, history>>

\* Another thread of QEMU moves the end of the heap.  The kernel does not let
\* it grow into an existing mapping; when it shrinks, every page it gives up is
\* unmapped, one that MAP_FIXED has put there included.
MoveBrk ==
    /\ \E b \in {brk - 1, brk + 1} \cap (MinBrk .. MaxBrk) :
          /\ b > brk => brk \notin pages
          /\ brk' = b
          /\ pages' = pages \ (b .. (brk - 1))
    /\ UNCHANGED <<last, pm, g_current, history>>

Next ==
    \/ \E m \in Maps :
          \/ \E size \in Sizes :
                \/ MapNoStart(m, size)
                \/ MapRefused(m, size)
                \/ MapNoMem(m, size)
                \/ MapDone(m, size)
          \/ Unmap(m)
          \/ Forget(m)
    \/ MoveBrk

Spec == Init /\ [][Next]_vars
-----------------------------------------------------------------------------
\* The patch_map m holds a mapping: mapped and not yet unmapped.
Owns(m) == pm[m].addr > 0 /\ pm[m].size > 0

\* The pages no patch_map accounts for any more.
Leaked == pages \ UNION {Region(pm[m].addr, pm[m].size) : m \in {k \in Maps : Owns(k)}}

\* Types of the state.
TypeOK ==
    /\ last \in [addr : Nat, size : Nat]
    /\ pm \in [Maps -> [addr : Nat \cup {MAP_FAILED}, size : Nat]]
    /\ pages \subseteq Nat
    /\ brk \in MinBrk .. MaxBrk
    /\ g_current \in {NULL, FREED}
    /\ found \in 0 .. MaxBrk
    /\ over \subseteq Nat

\* The next walk over the mappings of the process starts at the head of its
\* list: find_sandbox_start leaves the cursor in a list that it frees, and is
\* never called again, because last keeps the address even when the call that
\* found it is refused (libsandbox.c:129) or cannot map.
IteratorFresh == last.addr = NULL => g_current = NULL

\* Two blobs never share a page, whatever the order of maps, failures and
\* unmaps: copying a blob, or unmapping one, cannot touch another.
MapsDisjoint ==
    \A m, k \in Maps :
        m # k /\ Owns(m) /\ Owns(k) =>
            Region(pm[m].addr, pm[m].size) \cap Region(pm[k].addr, pm[k].size) = {}

\* All of a blob stays mapped until its own unmap, even when an error path
\* unmaps another patch_map twice; what can be lost are pages that were heap
\* when the blob was mapped over them, and that the heap takes along.
BlobBacked ==
    \A m \in Maps : Owns(m) => Region(pm[m].addr, pm[m].size) \subseteq pages \cup over

\* unmap_patch_map passes the length of the blob to munmap, map_patch_map has
\* mapped a page more when that length is a multiple of the page size.  What
\* is left behind is that one page: the page before it is not mapped.
LeakIsOnePage == \A g \in Leaked : g - 1 \notin pages

\* No mapping of the sandbox lies on the heap ("must not overlap qemu maps,
\* including heap", libsandbox.c:28).
NoHeapOverlap == pages \cap HeapPages = {}

\* What "a hole for heap expansion" (libsandbox.c:34) is good for: however the
\* heap has moved since its end was read, as long as that end is in the hole no
\* mapping lies on the heap, and a heap that grows out of the hole meets no blob
\* but one that was mapped over it.
HeapInHole ==
    /\ brk <= found + Hole + 1 => NoHeapOverlap
    /\ pages \cap HeapPages \subseteq over

\* Every mapping ends within reach of a 32-bit jump from _start, the range
\* the comment of map_patch_map states: "until the next address for a map is
\* going to start at and address greater than _start + (2^32 - 1)"
\* (libsandbox.c:86-88).
StartsWithinReach ==
    \A m \in Maps : Owns(m) => pm[m].addr * PageSize <= Start + Reach

\* The cursor never moves down and new mappings are made from the cursor up:
\* no page is ever used twice, and a stale pointer into an undone patch (the
\* return address of a thread) never meets another blob.
NeverReused ==
    [][last.addr # NULL =>
          /\ NextAddr' >= NextAddr
          /\ pages' \ pages \subseteq NextAddr .. (NextAddr' - 1)]_vars
=============================================================================
