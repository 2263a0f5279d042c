# A formal model of the QEMU live patching sandbox

The sandbox is a small library linked into QEMU.  A thread of it listens on a
UNIX-domain socket; the program `raxlpxs` connects and asks it to list, apply
and undo *live patches*, which replace functions of the running process by
jumps into mapped blobs of new code.  QEMU's other threads are not stopped.

This directory holds TLA+ modules translated from the C code, TLC
configurations that check them on small instances, and TLAPS proofs of what
matters most for every instance.

## 1. Inventory

| component | source | state | operations |
|---|---|---|---|
| address space of the patches | `libsandbox.c:25-165` | `static last`, a `patch_map` per patch, the kernel's mappings, the heap of QEMU | `find_sandbox_start`, `map_patch_map`, `unmap_patch_map` |
| applying and undoing | `libsandbox.c:293-323`, `380-684` | `lp_patch_head`, the `applied_patch`es with their writes, `.text` | `xenlp_apply4`, `read_patch_data`, `make_text_writeable`, `swap_trampolines`, `has_dependent_patches`, `xenlp_undo4` |
| listener and protocol | `sandbox-listen.c` | the served connection, the session counter, `should_stop`, the socket streams | `listen_thread`, `accept_sandbox_sock`, `read_sandbox_message_header`, `dispatch_*`, `send_rr_buf` |
| raxlpxs | `user/raxlpxs.c`, `user/portability.c` | the options, a connection, the last listing | `get_options`, `main`, `cmd_apply`, `_cmd_apply4/3`, `_cmd_list3`, `_cmd_undo3`, `find_patch3`, `__find_patch`, `__do_lp_*` |
| patch files | `user/patch_file.c`, `user/util.c` | `struct patch` | `load_patch_file` and its section readers |
| message layout of a patch | `raxlpxs.c` `fill_patch_buf3/4`, `read_patch_data` | a byte buffer, a cursor | encode, decode, relocate |
| `/proc/<pid>/maps` parser | `pmparser.c` | a list, a static cursor | parse, next, free |
| build info, logging, `atomic.h`, scripts | the rest | none that a request changes | formatting and I/O |

How they interact.  `raxlpxs` sends one request at a time and waits for its
reply.  The listener reads it piece by piece, calls `xenlp_apply4` or
`xenlp_undo4` on its own thread, and replies.  An apply maps a blob
(`map_patch_map`), relocates it, exchanges the first 8 bytes of every patched
function with a jump and puts the patch at the head of a list.  QEMU's threads
share the text, the blobs and, through the heap, the address space with it.

What is hard here:

- *other threads run between any two exchanges and at every unmap*: the text
  must be sound in each intermediate state;
- *undo order*: a patch keeps the word it replaced, so patches that share a
  location form a chain;
- *error paths*: an apply fails after a map, after the writes are read, with
  dependencies; two levels of `errout` unmap the same blob;
- *stale state*: the end of the heap read once, a listing used by a later
  request, `should_stop` looked at between sessions;
- *the stream*: clients die in the middle of a message or before a reply, and
  one dispatcher leaves bytes unread;
- *two of one thing*: a patch is applied by two messages in a row, two
  structures travel under one message id, two sums count one buffer, `--find`
  and `--remove` keep one hash;
- *limits*: the session limit, the range of a 32-bit jump, address space that
  is never given back, counts of 16 bits, listings of 255 and of 16 entries.

`PROJECT.json` lists these hazards at their lines, with the properties that
cover each, or the reason none does yet.

What would make each component correct:

- *address space*: blobs disjoint, backed until their unmap, never on the heap,
  in reach of a jump; no address used twice; bounded leaks;
- *apply and undo*: all or nothing, told truthfully; the original text comes
  back; no jump into nothing; no blob leaked; every request returns;
- *listener*: it goes on listening; every request gets its own answer, once;
  nobody is forgotten; a client acts on a listing that still holds;
- *raxlpxs*: a patch is applied at most once however many commands run; what a
  search has found still holds when it is acted on; what is printed is what was
  done, and what was done is what was asked; a command comes to its end;
- *patch files*: what is loaded is whole, in all four versions, and the array
  that is completed later has room;
- *message layout*: parts are read where they were written and within the
  buffer; jumps and calls land wherever text and blob are placed;
- *parser*: a walk over the mappings starts at the head of its list.

## 2. Modules

| module | models | state ↔ code |
|---|---|---|
| `PatchMap` | `map_patch_map`, `unmap_patch_map`, `find_sandbox_start` | `last` is `static last`; `pm[m]` a `struct patch_map`; `pages` what the kernel maps; `brk` the heap's end, `found` where it was when the code read it and `over` the heap pages that a blob replaced (both history).  Addresses are page numbers, sizes bytes |
| `PatchSet` | the abstract promise: a set of applied patches, each request all or nothing | `applied`, `ret` |
| `Sandbox` | `xenlp_apply4` and `xenlp_undo4` with everything they call, next to threads that run patched code | `text[s]` is an 8-byte location, `data[n][s]` the word in a `patch_write`, `list` `lp_patch_head`, `mapped` the blobs, `pc`/`cur`/`todo` where the request is |
| `Listener` | `listen_thread`, the dispatchers, the stream of each connection, clients | `pc`, `fd`, `count`, `should_stop` are the thread's; `unread[c]` the bytes in the socket, by the piece one `readn` takes; `replies[c]` the way back |
| `Raxlpxs` | the commands of `raxlpxs`, several processes at a time | `opts[c]` what `get_options` leaves, `at[c]` where the command is, `goal[c]` and `dep[c]` what it is searching for, `printed[c]` and `said[c]` its output; `queue` and `count` the listener as the commands see it, `applied` the list of the sandbox |
| `PatchFile` | `load_patch_file` and its readers, the array of relocations | `size` the file, `pos` the offset, `todo` and `left` what is still to be read, `num` the counts used again, `given` the members of `struct patch` that have a value, `room` and `reach` the array |
| `PatchMessage` | one patch from `struct patch` to the relocated blob | `at` and `len` the offsets written, `seen` and `ptr` those read, `hdr` the `struct xenlp_apply4`, `writes`, `calls` the signed 32-bit displacements |
| `Sessions` | what the listener promises its clients: first come, first served, one at a time, a limit of messages each | `queue` with the served connection at its head, `joined`, `count`, `open` |
| `Registry` | the abstract promise of the commands: patches that enter when somebody wants them in, and leave when somebody wants them out | `inUse` the applied patches, `wanted` and `unwanted` what running commands were told |
| `MCPatchMap`, `MCSandbox`, `MCListener`, `MCRaxlpxs`, `MCPatchFile`, `MCPatchMessage` | constants of the small instances | |
| `PatchMapProofs`, `SandboxProofs`, `ListenerProofs`, `ListenerStockProofs`, `RaxlpxsProofs`, `PatchFileProofs`, `PatchMessageProofs` | theorems | |

Sections headed *Slips such code invites* hold mutated definitions.  They take
no part in a specification; each shows that a property can be broken by a
plausible change of the code.

### PatchMap

One action per way `map_patch_map` returns (`MapNoStart`, `MapRefused`,
`MapNoMem`, `MapDone`), `Unmap` for `unmap_patch_map`, which may be called
again on the same struct as the two error paths do, `Forget` for the struct's
release, and `MoveBrk` for the environment.  The heap moves freely: the kernel
does not let it grow into a mapping, and when it shrinks it takes along the pages
of a blob that was mapped over it.  The arithmetic keeps the code's
three roundings: a map takes `(size + 0x1000) & PAGE_MASK`, a page more than
needed for page multiples; the next address adds the same to the last one; and
`munmap` gets the plain length.  `UltimateLimit` has the factor 8 of the pointer
arithmetic.  `g_current` is the cursor of `pmparser_next`, which the call that
finds the heap leaves in a list that it frees (`HeapFound`).

### Sandbox

A request goes `idle → map → check → deps → swap → idle` (apply) or
`idle → restore → idle` (undo); every exchange of `swap_trampolines` is a step,
so the threads' `Call` and `Leave` fall between any two.  A patch file is a
record of what the code tells apart: its locations, whether it has a blob,
dependencies, and whether the checks of `xenlp_apply4` (`refused`) or
`read_patch_data` (`invalid`) turn it down.  An apply is an *instance*; because
of `LIST_INSERT_HEAD` the list is the set of instances in descending order.
`PatchMapProofs` shows that blobs never share or reuse addresses, so a blob is
named by its instance.

`DropDependent` is the code's path for a patch that names dependencies:
`if (memcpy (...))` is always true, and the code returned is an outer variable
that still holds `SANDBOX_OK`.

`DisciplinedSpec` adds `NewestFirst`: an undo leaves no newer patch that writes
one of its locations.  The code does not enforce it.  `DisjointPatches` proves
that it holds of itself when no two patches write a common location.

### Listener

What has reached the server and not been read is a sequence of pieces: `hdr`
(16 bytes, the length of the first field included), `body`, `sha` and `pad`.
`dispatch_undo_req` reads 20 bytes of the 24 that `raxlpxs` sends, so `pad`
stays in front of the next header; of a message with the documented 20 bytes it
reads none.  Piece by piece is as fine as needed: the code treats a piece that
ends early like a missing one.  Clients connect once, have one request
outstanding, and may be killed at any time, in the middle of a message too
(`SendCut`).  Closing with unread replies turns the server's end of file into an
error (`reset`), as Linux does.

`Spec` lets clients do all that.  `StockSpec` is `raxlpxs`: an undo is its last
request, it waits for every reply, it closes at the end, and nobody calls
`stop_listener`.

### Raxlpxs

`Start` reads the options (`ReadOptions` keeps one hash for `--find` and
`--remove`, as the code does) and connects; then `main` goes through info, list,
find, apply and remove, each with its own actions.  A request and its reply are
one step, because `Listener` shows that a connection gets its answers one by one
and alone: only the command at the head of `queue` asks (`Ask`).  That both mean
the same turns is proved: each implements `Sessions`.  `cmd_apply`
searches, sends the message of version 4, searches again and sends that of
version 3 (`SendApply3`), which the sandbox refuses; a refused patch ends the
listener (`alive`).  `Kill` takes a command away at any point, also while it
waits with a first message in its socket; when the listener comes to that
connection it sees its end (`EndOfFile`) or, half way through the message or its
reply, returns (`CutShort`).  `Overrun` is the listing that is longer than the
array it is copied to; the session limit is in `Ask`.  `NoRoom` is the reply that
finds no memory in the client: it stays in the socket, so that from then on the
command is `Astray` and every reply is a bad header (`Misread`), while `main` goes
on with the next option, after a patch has gone in too.  A connection left so is
reset, which is `CutShort` for the listener.  Without info strings `cmd_apply` asks
for them twice, for the version and for the date.

### PatchFile

A file is a cookie and sections; `ReadBytes`, `ReadCount` and `ReadRecord` take a field of fixed width,
a length with its bytes, or a count with its records, and come up short at the
end of the file.  Counts are kept modulo `Wrap`, 2^16 in the code.  `given`
collects what a reader or `load_patch_file` itself sets.  After the load the
loop over `relocs3` of the two commands completes the array, once or twice
(`passes`).

### PatchMessage

`PatchWrites`, `Fill` and `Send` are the client, `Again` its second message;
`Receive`, `MapBlob`, `Relocate`, `ReadWrites`, `Drop` and `Apply` are
`dispatch_apply`, `xenlp_apply4` and `read_patch_data`.  Offsets and sizes of
structures are the real ones; of the data only the displacements are kept, cut
to a signed word (`Int32`) wherever the code does it.  `Files` are what a linker
makes (`Linked`): calls go from the blob into the text, replacements lie in the
blob.

## 3. Runs

| run | shows | bounds |
|---|---|---|
| `patch_map` | `IteratorFresh`, `MapsDisjoint`, `BlobBacked`, `HeapInHole`, `NeverReused` | 3 patch_maps; 2-byte pages and blobs of less than, exactly and more than a page; room for a handful of pages, so the limit is met; a heap of 1 to 6 pages that moves freely, out of the hole and over addresses of blobs too |
| `patch_map_reach` | violation: blobs beyond `_start + 2^32 - 1` | 2 patch_maps |
| `sandbox` | `TextChain`, `NoDanglingTrampoline`, `StrandedByUndo`, `TruthfulReturn`, `AbstractSpec`, `Answered` | 3 instances of 4 patches over 2 locations: overlapping, without a blob, failing; 1 thread; newest first |
| `sandbox_any_order` | `BlobsAccounted`, `NoWordTwice` | the same in any order, with a dependent and a refused patch |
| `sandbox_deps` | violation: OK for a patch that was dropped | |
| `sandbox_threads` | violation: a thread executes in an unmapped blob | |
| `listener` | `AnswersTellTruth`, `LeftOnlyAtLimit`, `FreshListing` | 2 clients, 3 requests each of every kind, session limit 2, applies that succeed or fail |
| `listener_stock` | `AlwaysListening`, `RequestsAnswered`, `ConnectionsServed` | 2 commands of up to 3 requests, session limit 3 |
| `listener_rejected` | violation: a rejected patch ends the listener | |
| `raxlpxs` | `AppliedOnce`, `SearchStillTrue`, `OutcomeTrue`, `ListComplete`, `UndoesWhatIsAsked`, `FindTrue`, `CommandsEnd` | 2 commands, files of every kind (with dependencies found and not, refused, too long, unreadable), options in several orders, listings of 4 and arrays of 3 entries, replies that cannot be read, sessions of 9 messages |
| `patch_file` | `LoadedWhole`, `RelocsFit` | the four versions, up to 2 records in a section, files that end in every place; counts start over at 4 |
| `patch_message` | `InPlace`, `WithinBuffer`, `RelocsInBlob`, `TrampolinesLand`, `CallsLand`, `MisreadRefused` | structures of their real sizes, words of 11 bits, messages of 300 bytes; linked below, at and above the text, blobs of 0, 2, 8, 90 and 300 bytes on both sides of it, near and far |

Why the bounds are enough.  Two patches over a shared location are the least
that makes a chain; three instances put one in the middle, and a patch of two
locations makes an intermediate state between its exchanges.  Three blobs are a
middle one with neighbours on both sides.  Two clients are one that is served
and one that waits or changes what the other was told; a limit of 2 or 3 is met
within the bound on requests.  Two commands of `raxlpxs` are one that acts and
one that would spoil what the first has found; three patches applied before are
enough to fill the array of a listing, and one more the reply.  A count that
starts over at 4 does so with two records, and a word of 11 bits is too short for
some of the five places of the blob and not for others.  `MaxApplies`, `MaxRequests`, `MinBrk` and
`MaxBrk` are bounds of the models; the proofs hold for every value of them.

Deadlock is checked for `PatchMap` and `Sandbox`.  The others come to a normal
end: clients and commands connect once, a file is loaded once, a message is
taken apart once, and nothing is left to do.

Fairness.  `Sandbox` assumes weak fairness of the request in progress:
`xenlp_apply4` and `xenlp_undo4` call nothing that blocks and their loops are
over finite arrays.  Not of new requests, nor of the threads.  `Listener`
assumes weak fairness of the listener thread (it blocks only in `accept` and
`read`, whose readiness is the guard of the action) and, for `StockSpec` only,
of a command that has its reply: it reads it, and comes to the end of its list
of requests.  `Raxlpxs` assumes weak fairness of the listener seeing the end of a
connection (`EndOfFile` or `CutShort`, whichever it is) and of each command's next step, by the same argument: the listener
answers the request of the connection it serves, and a command that has its
answer goes on.  Of `Kill`, `Overrun` and `NoRoom` it assumes nothing.  `CommandsEnd` speaks of the
commands that meet a living listener and a listing shorter than the array.

## 4. Disagreements found while modelling

1. (`patch_map_reach`) `libsandbox.c:103`: `&_start + 0xffffffff` advances eight times as far as the
   comment at lines 86-88 says.
2. (`sandbox_deps`) `libsandbox.c:588`: a patch with dependencies is dropped and answered
   `SANDBOX_OK`, against `sandbox.h:267-269`.
3. (`sandbox_threads`) `libsandbox.c:678`: an undo unmaps a blob a thread may be in, against
   `src/README.md:12` ("QEMU executes normally").
4. (`listener_rejected`) `sandbox-listen.c:120`: a rejected patch ends the listener, against
   `src/README.md:12` ("will listen on the domain socket for any live-patching
   messages").

Met as well, without a run of their own:

- `libsandbox.c:137`: `MAP_FIXED` at an address computed from a heap end read
  once; the comment at line 28 excludes overlap with the heap.  No existing
  mapping stops a heap that grows over the *next* address, after an undo or a map
  that failed, and the next blob then replaces its pages.  The invariant
  `NoHeapOverlap` fails on the instance of `patch_map`; `HeapInHole` is what the
  hole is good for.
- `libsandbox.c:98-99` takes 2^32 for the range of a jump; a signed 32-bit
  displacement reaches half as far (`Near` of `PatchMessage`).
- `libsandbox.c:569-606`: dependencies and tags are read from where the writes
  start; `live_patch.h:189-200` has them further on.
- `sandbox-listen.c:862-865` and `880` document an undo message of 20 bytes,
  which is answered `SANDBOX_ERR_PARSE` (kind `undo20` of `Listener`).
- `portability.c:281`: `__do_lp_apply3` sends a `struct xenlp_apply3` under the
  message id of the other structure; the sandbox refuses it and the listener ends.
- `portability.c:121`: a search looks at the first 255 patches and answers "not
  applied" for any other, against the comment at line 75.
- `raxlpxs.c:692`: `--list` with 16 patches or more repeats its request until the
  session limit and then waits for ever; `portability.c:79-80` promises a list.
- `raxlpxs.c:945` and `963`: `--find` and `--remove` keep one hash, so that
  `--remove Y --find X` takes out X; line 850 says that options have no order.
- `raxlpxs.c:877`: `-s` does not set `sock_flag` and so opens no connection,
  against line 855 ("--socket and -s are the same").
- `src/README.md:39` describes a sandbox in `.text` that is no longer there;
  `has_dependent_patches` walks towards older patches while its comment says
  later ones.

## 5. Proofs

All proofs are checked by `tlapm` for every value of the constants that meets
the named assumptions.

**PatchMapProofs.**  Invariant `IInv`: every owned region lies below the cursor
`NextAddr` and in `pages`, regions are disjoint, and the pages that nobody owns
are isolated; where a blob lies on the heap it was mapped over it (`HeapTaken`),
so that a shrinking heap takes no other page along.  From it `Disjointness`, `Backing`, `FreshIterator` and `Leak` (what
`munmap` leaves behind of a blob is one page); the cursor's monotonicity gives
`FreshAddresses`, by which also a length refused once is refused for ever.  `HeapUntouched`
(`HeapInHole`), for a heap that moves freely: as long as its end is no further than
the hole from where it was read, no mapping lies on it; beyond that, only pages
that `MAP_FIXED` itself took from it do.
`LimitKept` is what the check of `map_patch_map` guarantees, with the factor 8
that `StartsWithinReach` is violated by: every blob ends within `8 * Reach` of
`_start`; `UnderLimit` is its invariant, as the limit bounds the cursor and not
the blob.  `RoomIsFinite`: with `Room` the pages between cursor and limit, a map
takes the pages of its blob out of it and no call puts any back, so patching and
undoing one patch over and over comes to an end.

**SandboxProofs.**  `TypeCorrect`, `NoBlobLost` and `WordsOnce` (`NoWordTwice`,
from `OldWords`: no word of an apply is anywhere before its writes are read) hold
for `Spec`.  `Chain`
(`TextChain`) is inductive with the facts on `pc`, `cur` and `todo` under
`DisciplinedSpec`: at each location the words in force are linked in the order
of their instances, the location itself holding the newest.  `NoDangling` and
`Restored` follow.  `Truthful` and `Refinement` (the sandbox implements
`PatchSet`) assume that no patch names a dependency: with one the second
disagreement refutes them.  `DisjointPatches` discharges the discipline when
patches write no common location.  `RequestsBounded` is the safety half of
`Answered`: `StepsLeft` is at most 4 and one per location, falls with each step
of the request, is not touched by the threads, and is 0 exactly between
requests.  `OnlyUndosStrand` (`StrandedByUndo`) is what remains
of "QEMU executes normally": under `NewestFirst` the `munmap` at the end of an undo
is the only step that takes a blob from under a thread.  Its invariant `EInv` adds
to the chain that no thread is in the blob of a patch before its jumps are
written (`NotEnteredYet`); that none can enter one whose jumps are gone follows
from the chain.  The race itself, a thread inside at that `munmap`, is the third
disagreement, and nothing in `xenlp_undo4` excludes it.  `Restored` (between
requests a location holds the word of the newest patch that writes it, or the
original) is a consequence of the chain alone and has
no run.

**ListenerProofs.**  The four safety properties of `Listener`, for any clients,
patches and session limit.  None is inductive alone: `AnswersTellTruth` speaks of
replies, and a reply is true because of what the thread did several reads
before.  The invariant `IInv` follows the one outstanding request of each client:
its header unread (`PendingInv`: nothing done, no reply), with the thread
(`BusyInv`: the answer being built is about this request and `did` agrees with
it), or answered; `ServedInv` ties `count` to `sent`, from which `LeftAtLimit`;
`FreshInv` says that the listing a served client holds is exact from its receipt
to the next effect, from which `ListingsFresh`.  `AnswersTrue` assumes
`NoneDropped`, the negation of the second disagreement.  `SessionsBounded`: from
`Accept` to the end of the session the thread takes at most `4 * Limit + 3`
steps, whatever the client sends, closes or leaves out (`SessionWork` falls with
each of them); what a client can do is to send nothing and keep the thread in
`read`.  `ImplementsSessions`: with the served connection put back at the head of
the queue (`Turns`), `Accept` is a stutter, `EndMessage` an `Exchange` or a
`Leave`, the end of a client a `Leave`, and each `return NULL` an `End`.

**ListenerStockProofs.**  `ListenerLives`: among commands of raxlpxs only
(`StockSpec`), with every patch accepted and every listing fitting
(`StockConditions`), the thread never returns.  The invariant `Stock` says that
each stream is aligned, and needs that an undo is the last request of its
connection: the 4 bytes it leaves behind are read as the next header.
`NobodyForgotten` is the safety half of `RequestsAnswered` and `ConnectionsServed`:
a client that waits has its reply in the socket, is being worked for, or has its
whole message in a connection that is served or queued.  It needs
`MaxRequests <= Limit`: a client that asks once more than a session allows is left
with its message unread, and TLC finds it with a limit of 2 and 3 requests.

**RaxlpxsProofs.**  `AppliesOnce`, `SearchHolds`, `ListsAll`, `SaysTheOutcome`,
`UndoesNoMore` and `FindsTruly`, for any commands, files and command lines.
`AppliedOnce` alone is not inductive: what keeps the second command from applying
a patch again is that it has not searched yet.  The invariant `IInv` adds the
order of the queue (`QueueInv`: a command is in it once, and only the one at its
head is between a search and what it does with it), what each command is after
(`GoalInv`), what it has printed (`PrintedInv`) and that its options are those of
a command line (`LineInv`).  An option whose reply could not be read comes to the
outcome `unread`, of which the properties say nothing (`Tells`); `LookFacts` is
where such a command goes on.  `CommandsBounded` is the safety half of `CommandsEnd`:
`Effort`, at most `7 * Limit + 6`, falls with each step of a command and rises with
nobody's.  The messages of a session count first and the places between two
messages second, because two searches and a listing go back to an earlier place,
and only the session limit ends the listing that is repeated.
`ImplementsSessions` ties `queue`, `count` and `alive` to the same `Sessions` that
the listener implements.  `ImplementsRegistry` is the other refinement: with `FileInv`, what a command knows of its
file when it sends it, each change of `applied` is an `Enter` or a `Leave` of
`Registry` and every other step a stutter, kills and the end of the listener
included.  `Enter` is possible only for a file that loads, is made for this QEMU,
has sound relocations, is not refused and depends on nothing: the refinement
mapping's `Wanted` says so, and a patch with dependencies never enters.

**PatchFileProofs.**  `TypeCorrect`, `LoadsWhole`, `RelocsHaveRoom`.  The
invariant says of each reader which sections are behind it, that a file that has
come up short once is at its end, so that the next mandatory section fails, and
that the counts and the room fit 16 bits.  `LoadBounded`: the load takes at most
`size + 10` steps, so that not even a count of 2^16 - 1 in a short file, nor
counts that start over, keep the loader reading.

**PatchMessageProofs.**  Lemmas on `Int32` (a sum of cut words is the cut sum; a
difference that fits is not changed), then an invariant that follows the message:
`LayoutInv` and `HeaderInv` (what was written), `SeenInv` (what is read lies
there), `PlaceInv`, `CallsInv` and `JumpsInv` (each displacement, after each
relocation, as a sum of addresses).  From it `ReadsInPlace`, `StaysWithin`,
`RelocatesInBlob`, `RefusesMisread`, `JumpsLand` and `CallsGetThere`.  The last two
are conditional on `Near`, which `map_patch_map` does not ensure.

Only model-checked: the liveness properties (`Answered`,
`RequestsAnswered`, `ConnectionsServed`, `CommandsEnd`).  That something eventually
happens needs fairness and ENABLED, which the prover does not reason about; what
is proved is the other half, that the way there is bounded (`RequestsBounded`,
`CommandsBounded`, `SessionsBounded`) and that nobody is left behind on it
(`NobodyForgotten`).

## 6. Not modelled, and the plan

Left out for good: formatting, logging and build information (no state a request
changes), `atomic.h` (vendored, unused but for what the compiler provides),
scripts and makefiles, allocation failures that only change which error is
returned, a failing `mprotect` (QEMU faults; nothing follows).

Left out of a module that models the rest:

- `Listener`: `run_listener` and `listen_sandbox_sock`, whose caller in QEMU is
  not in this repository; a reply larger than the socket buffer that nobody reads;
  a client that sends a response.
- `PatchFile`: read errors other than the end of the file, reads into the trailer
  that the extractor appends (the writer is not in this repository), what
  `print_patch_file_info` prints.
- `PatchMessage`: relocations in blobs of fewer than 4 bytes, which no linker
  makes (`Linked`); the 3 bytes that the 8-byte exchange takes along behind a jump
  of 5.
- The text of `/proc/<pid>/maps`: `_pmparser_split_line` and lines of more than
  259 characters.  Only the short `[heap]` line is used.
- Failures of `_zalloc`, which ends the process: a `Kill` at that place.  A reply
  that finds no memory is modelled (`NoRoom` of `Raxlpxs`).

What is worth doing next: the composition of `Sandbox`
and `PatchMessage`, so that a displacement is relocated between two exchanges; a
limit on descriptors in `Accept` of `Listener` (`sandbox-listen.c:211`).
