---------------------------- MODULE PatchMessage ----------------------------
(***************************************************************************)
(* One patch on its way from raxlpxs into the address space of QEMU:       *)
(* patch_writes and fill_patch_buf4 (or fill_patch_buf3) lay it out,       *)
(* send_rr_buf and dispatch_apply pass it on, xenlp_apply4 and             *)
(* read_patch_data take it apart and relocate it.                          *)
(*                                                                         *)
(* The message is the offsets of its parts.  Of the data only the signed   *)
(* 32-bit displacements are kept: those of the calls in the blob that the  *)
(* relocations name, and those of the jumps that replace functions.  Other *)
(* arithmetic on addresses is modulo 2^64, all addresses are below that,   *)
(* and it is written without the modulus.                                  *)
(*                                                                         *)
(* Whether the patch is searched for, and what else the sandbox does in    *)
(* between, is in Raxlpxs and Sandbox; how the place of a blob is found is *)
(* in PatchMap.                                                            *)
(***************************************************************************)
EXTENDS Integers, Sequences

CONSTANTS
    Files,      \* patches that load_patch_file has loaded
    Addrs,      \* addresses at which map_patch_map may place a blob
    Start,      \* _start and
    End,        \* _end, of the process
    Half,       \* 2^31
    MaxPatch,   \* MAX_PATCH_SIZE and
    AllocSize,  \* SANDBOX_ALLOC_SIZE: both are 2^20
    MaxTags     \* MAX_TAGS_LEN

\* sizeof of the structures.
Apply4Len == 64
Apply3Len == 56
RelocLen == 4
WriteLen == 24
ExcLen == 8
HashLen == 24
DependencyLen == 40
MessageHdrLen == 16     \* SANDBOX_MSG_HDRLEN
JumpLen == 5
Int32Len == 4

Wrap == 2 * Half

\* A relocation is a call at off in the blob, whose target was linked at
\* target; a function is replaced at oldabs by what is at newrel in the blob.
File == [refabs : Nat, bloblen : Nat, relocs : Seq([off : Nat, target : Nat]),
         funcs : Seq([oldabs : Nat, newrel : Nat]), numexctblents : Nat, numpreexctblents : Nat,
         numdeps : Nat, taglen : Nat]

\* What a linker makes: replacements are in the blob, a relocation has a blob
\* of four bytes at least, and calls go into the text, which starts at refabs.
Linked(f) ==
    /\ f.relocs # <<>> => f.bloblen >= Int32Len
    /\ \A i \in DOMAIN f.relocs : f.relocs[i].target \in f.refabs .. (f.refabs + (End - Start))
    /\ \A i \in DOMAIN f.funcs : f.bloblen > 0 => f.funcs[i].newrel < f.bloblen

ASSUME MessageAssumption ==
    /\ Half \in Nat \ {0} /\ MaxPatch \in Nat /\ AllocSize \in Nat /\ MaxTags \in Nat \ {0}
    /\ AllocSize <= MaxPatch
    /\ Start \in Nat /\ End \in Nat
    /\ Files \subseteq File
    /\ \A f \in Files : Linked(f)
    /\ Addrs \subseteq Nat \ {0}

VARIABLES
    file,       \* the struct patch of the command
    version,    \* of the message: 4, or 3 for the one that _cmd_apply3 makes
    phase,      \* how far it is
    writes,     \* the patch_writes: client's, then the server's
    room,       \* bytes allocated for the message
    at,         \* part -> its offset in the message
    len,        \* bytes of the message
    hdr,        \* the struct xenlp_apply4 that the server has read
    ptr,        \* arg: what is next to be read
    seen,       \* part -> the offset at which the server has read it
    blob,       \* where the blob is mapped, 0 for nowhere
    constant,   \* runtime_constant
    relocrel,
    calls       \* relocation -> the displacement in the mapped blob

client == <<file, version, writes, room, at, len>>
vars == <<client, phase, hdr, ptr, seen, blob, constant, relocrel, calls>>

Parts == {"blob", "relocs", "writes", "exc", "preexc", "deps", "tags"}
Nowhere == [p \in Parts |-> 0]

\* A slip: an uint32_t.
Int32Unsigned(x) == x % Wrap

\* A number as int32_t.
Int32(x) == ((x + Half) % Wrap) - Half

\* A number as uint32_t.
UInt32(x) == x % Wrap

Init ==
    /\ file \in Files
    /\ version = 4
    /\ phase = "loaded"
    /\ writes = <<>>
    /\ room = 0
    /\ at = Nowhere
    /\ len = 0
    /\ hdr = <<>>
    /\ ptr = 0
    /\ seen = Nowhere
    /\ blob = 0
    /\ constant = 0
    /\ relocrel = 0
    /\ calls = <<>>
-----------------------------------------------------------------------------
(* raxlpxs. *)

\* A slip: the jump is taken to count from its own address.
PatchWritesFromJump ==
    /\ phase = "loaded"
    /\ phase' = "written"
    /\ writes' = [i \in DOMAIN file.funcs |->
                     [hvabs |-> file.funcs[i].oldabs,
                      disp |-> Int32(file.refabs + file.funcs[i].newrel - file.funcs[i].oldabs)]]
    /\ UNCHANGED <<file, version, room, at, len, hdr, ptr, seen, blob, constant, relocrel, calls>>

\* patch_writes: a jump relative to the instruction that follows it.
PatchWrites ==
    /\ phase = "loaded"
    /\ phase' = "written"
    /\ writes' = [i \in DOMAIN file.funcs |->
                     [hvabs |-> file.funcs[i].oldabs,
                      disp |-> Int32(file.refabs + file.funcs[i].newrel - file.funcs[i].oldabs
                                        - JumpLen)]]
    /\ UNCHANGED <<file, version, room, at, len, hdr, ptr, seen, blob, constant, relocrel, calls>>

\* A slip: a tag that fills its array is sent whole.
TagLenWhole(f) == IF f.taglen < MaxTags THEN f.taglen ELSE MaxTags

TagLen(f) == IF f.taglen < MaxTags THEN f.taglen ELSE MaxTags - 1

\* What the first call of fill_patch_buf4 or fill_patch_buf3 returns.
BufLen(f, v) ==
    (IF v = 4 THEN Apply4Len + ExcLen * (f.numexctblents + f.numpreexctblents) ELSE Apply3Len)
    + f.bloblen + RelocLen * Len(f.relocs) + WriteLen * Len(f.funcs)
    + DependencyLen * f.numdeps + TagLen(f)

\* The second call lays out the parts.
Fill ==
    /\ phase = "written"
    /\ LET blobAt == IF version = 4 THEN Apply4Len ELSE Apply3Len
           relocsAt == blobAt + file.bloblen
           writesAt == relocsAt + RelocLen * Len(file.relocs)
           excAt == writesAt + WriteLen * Len(file.funcs)
           preexcAt == IF version = 4 THEN excAt + ExcLen * file.numexctblents ELSE excAt
           depsAt == IF version = 4 THEN preexcAt + ExcLen * file.numpreexctblents ELSE excAt
           tagsAt == depsAt + HashLen * file.numdeps
       IN  /\ at' = [p \in Parts |->
                       CASE p = "blob" -> blobAt [] p = "relocs" -> relocsAt
                         [] p = "writes" -> writesAt [] p = "exc" -> excAt
                         [] p = "preexc" -> preexcAt [] p = "deps" -> depsAt
                         [] p = "tags" -> tagsAt]
           /\ len' = tagsAt + TagLen(file)
    /\ room' = BufLen(file, version)
    /\ phase' = "filled"
    /\ UNCHANGED <<file, version, writes, hdr, ptr, seen, blob, constant, relocrel, calls>>

\* What send_rr_buf refuses to send, and the server to read.
TooLong(n) == n > AllocSize

Send ==
    /\ phase = "filled"
    /\ ~TooLong(MessageHdrLen + len)
    /\ phase' = "sent"
    /\ UNCHANGED <<client, hdr, ptr, seen, blob, constant, relocrel, calls>>

SendFails ==
    /\ phase = "filled"
    /\ phase' = "failed"
    /\ UNCHANGED <<client, hdr, ptr, seen, blob, constant, relocrel, calls>>

\* The sandbox has dropped the patch and answered that all is well:
\* _cmd_apply3 does not find it and makes a message of its own, for a new
\* call of xenlp_apply4.  What it does to the relocations before is Complete
\* of PatchFile.
Again ==
    /\ phase = "dropped"
    /\ file.numexctblents = 0 /\ file.numpreexctblents = 0
    /\ phase' = "loaded"
    /\ version' = 3
    /\ hdr' = <<>> /\ ptr' = 0 /\ seen' = Nowhere /\ constant' = 0 /\ relocrel' = 0 /\ calls' = <<>>
    /\ UNCHANGED <<file, writes, room, at, len, blob>>
-----------------------------------------------------------------------------
(* The listener thread. *)

\* The first bytes of the message as a struct xenlp_apply4.  Those of a
\* struct xenlp_apply3 are in another order: a field of 8 bytes is read where
\* two of 4 are, and the other way round.  (The taglen is then the start of
\* the blob, which plays no part.)
Header(f, v) ==
    IF v = 4
    THEN [refabs |-> f.refabs, bloblen |-> f.bloblen, numrelocs |-> Len(f.relocs),
          numwrites |-> Len(f.funcs), numexctblents |-> f.numexctblents,
          numpreexctblents |-> f.numpreexctblents, numdeps |-> f.numdeps, taglen |-> TagLen(f)]
    ELSE [refabs |-> f.bloblen + Wrap * Len(f.relocs), bloblen |-> Len(f.funcs), numrelocs |-> 0,
          numwrites |-> f.refabs % Wrap, numexctblents |-> f.refabs \div Wrap,
          numpreexctblents |-> f.numdeps, numdeps |-> TagLen(f), taglen |-> 0]

\* A slip: the tables of exceptions are skipped, not refused.
SaneSkipsTables(h) == h.bloblen <= MaxPatch /\ h.numwrites # 0

\* The first checks of xenlp_apply4.
Sane(h) ==
    /\ h.bloblen <= MaxPatch
    /\ h.numwrites # 0
    /\ h.numexctblents = 0 /\ h.numpreexctblents = 0

\* read_sandbox_message_header, dispatch_apply, whose limit on what follows
\* the header is the looser one, and the start of xenlp_apply4.
Receive ==
    /\ phase = "sent"
    /\ LET h == Header(file, version)
       IN  IF ~TooLong(MessageHdrLen + len) /\ Sane(h)
           THEN hdr' = h /\ ptr' = Apply4Len /\ phase' = "received"
           ELSE phase' = "refused" /\ UNCHANGED <<hdr, ptr>>
    /\ UNCHANGED <<client, seen, blob, constant, relocrel, calls>>

\* read_patch_data maps the blob, if there is one, and copies it: with calls
\* that would go to their targets from where the blob has been linked.
MapBlob ==
    /\ phase = "received"
    /\ IF hdr.bloblen # 0 /\ hdr.bloblen < MaxPatch
       THEN /\ blob' \in Addrs
            /\ seen' = [seen EXCEPT !["blob"] = ptr]
            /\ ptr' = ptr + hdr.bloblen
            /\ constant' = Start - hdr.refabs
            /\ relocrel' = Int32(blob' - Start)
            /\ calls' = [i \in DOMAIN file.relocs |->
                           Int32(file.relocs[i].target
                                    - (file.refabs + file.relocs[i].off + Int32Len))]
       ELSE UNCHANGED <<blob, seen, ptr, constant, relocrel, calls>>
    /\ phase' = "mapped"
    /\ UNCHANGED <<client, hdr>>

\* A slip: the offset of the last byte, not that of the last number.
OffsetOKLast(off) == off < hdr.bloblen

\* The test of an offset: bloblen - sizeof (int32_t) is unsigned.
OffsetOK(off) == off <= UInt32(hdr.bloblen - Int32Len)

\* A slip: the displacement moves with the blob.
RelocateForwards ==
    /\ phase = "mapped"
    /\ \A i \in DOMAIN file.relocs : OffsetOK(file.relocs[i].off)
    /\ calls' = [i \in DOMAIN calls |-> Int32(calls[i] + relocrel)]
    /\ seen' = [seen EXCEPT !["relocs"] = ptr]
    /\ ptr' = ptr + RelocLen * hdr.numrelocs
    /\ phase' = "relocated"
    /\ UNCHANGED <<client, hdr, blob, constant, relocrel>>

\* A slip: arg is not advanced past the relocations.
RelocateInPlace ==
    /\ phase = "mapped"
    /\ \A i \in DOMAIN file.relocs : OffsetOK(file.relocs[i].off)
    /\ calls' = [i \in DOMAIN calls |-> Int32(calls[i] - relocrel)]
    /\ seen' = [seen EXCEPT !["relocs"] = ptr]
    /\ phase' = "relocated"
    /\ UNCHANGED <<client, hdr, ptr, blob, constant, relocrel>>

\* The loop over the relocations: calls from the blob into the text.
Relocate ==
    /\ phase = "mapped"
    /\ \A i \in DOMAIN file.relocs : OffsetOK(file.relocs[i].off)
    /\ calls' = [i \in DOMAIN calls |-> Int32(calls[i] - relocrel)]
    /\ seen' = [seen EXCEPT !["relocs"] = ptr]
    /\ ptr' = ptr + RelocLen * hdr.numrelocs
    /\ phase' = "relocated"
    /\ UNCHANGED <<client, hdr, blob, constant, relocrel>>

\* An offset is out of range, and the blob is unmapped.
RelocateFails ==
    /\ phase = "mapped"
    /\ \E i \in DOMAIN file.relocs : ~OffsetOK(file.relocs[i].off)
    /\ phase' = "refused"
    /\ blob' = 0
    /\ UNCHANGED <<client, hdr, ptr, seen, constant, relocrel, calls>>

InText(a) == Start <= a /\ a < End

\* The loop over the writes: jumps from the text into the blob.  What follows
\* the writes is later read from where they start.
ReadWrites ==
    /\ phase = "relocated"
    /\ \A i \in DOMAIN writes : InText(writes[i].hvabs + constant)
    /\ writes' = [i \in DOMAIN writes |->
                     [hvabs |-> writes[i].hvabs + constant,
                      disp |-> Int32(writes[i].disp + relocrel)]]
    /\ seen' = [seen EXCEPT !["writes"] = ptr]
    /\ phase' = "checked"
    /\ UNCHANGED <<file, version, room, at, len, hdr, ptr, blob, constant, relocrel, calls>>

\* A location is not in the text.
ReadWritesFails ==
    /\ phase = "relocated"
    /\ \E i \in DOMAIN writes : ~InText(writes[i].hvabs + constant)
    /\ phase' = "refused"
    /\ blob' = 0
    /\ UNCHANGED <<client, hdr, ptr, seen, constant, relocrel, calls>>

\* The dependencies are copied, which the code takes for a fault; without
\* memory for them the outcome is the same.
Drop ==
    /\ phase = "checked"
    /\ hdr.numdeps > 0
    /\ seen' = [seen EXCEPT !["deps"] = ptr]
    /\ phase' = "dropped"
    /\ blob' = 0
    /\ UNCHANGED <<client, hdr, ptr, constant, relocrel, calls>>

\* The tags are read, and the writes exchanged with the text.
Apply ==
    /\ phase = "checked"
    /\ hdr.numdeps = 0
    /\ seen' = IF hdr.taglen > 0 /\ hdr.taglen <= MaxTags
               THEN [seen EXCEPT !["tags"] = ptr] ELSE seen
    /\ phase' = "applied"
    /\ UNCHANGED <<client, hdr, ptr, blob, constant, relocrel, calls>>

\* No memory, or no address for the blob.
NoMemory ==
    /\ phase \in {"sent", "received", "mapped", "relocated"}
    /\ phase' = "refused"
    /\ blob' = 0
    /\ UNCHANGED <<client, hdr, ptr, seen, constant, relocrel, calls>>
-----------------------------------------------------------------------------
Next ==
    \/ PatchWrites \/ Fill \/ Send \/ SendFails \/ Again
    \/ Receive \/ MapBlob \/ Relocate \/ RelocateFails \/ ReadWrites \/ ReadWritesFails
    \/ Drop \/ Apply \/ NoMemory

Spec == Init /\ [][Next]_vars
-----------------------------------------------------------------------------
\* Types of the state.
TypeOK ==
    /\ file \in File
    /\ version \in {3, 4}
    /\ phase \in {"loaded", "written", "filled", "sent", "failed", "received", "refused", "mapped",
                 "relocated", "checked", "dropped", "applied"}
    /\ DOMAIN writes = IF phase = "loaded" /\ version = 4 THEN {} ELSE DOMAIN file.funcs
    /\ \A i \in DOMAIN writes : writes[i].hvabs \in Int /\ writes[i].disp \in -Half .. (Half - 1)
    /\ room \in Nat /\ len \in Nat /\ ptr \in Nat
    /\ at \in [Parts -> Nat] /\ seen \in [Parts -> Nat]
    /\ blob \in Addrs \cup {0}
    /\ constant \in Int
    /\ relocrel \in -Half .. (Half - 1)
    /\ DOMAIN calls \subseteq DOMAIN file.relocs
    /\ \A i \in DOMAIN calls : calls[i] \in -Half .. (Half - 1)

\* read_patch_data finds the blob, the relocations and the writes where
\* fill_patch_buf4 has put them.
InPlace == \A p \in {"blob", "relocs", "writes"} : seen[p] # 0 => seen[p] = at[p]

\* What is written fits what was allocated, and what is read fits what was
\* written.  fill_patch_buf4 and fill_patch_buf3 count the structures of the
\* file in their first call and write those of the message in the second.
\* Dependencies and tags are read from where the writes start, not from where
\* live_patch.h:189-200 has them: still within the message, and what is taken
\* for the tags has room in struct applied_patch with the byte that ends it.
\* The test of xenlp_apply4 admits one byte too many (libsandbox.c:603),
\* fill_patch_buf4 does not send it.
WithinBuffer ==
    /\ len <= room
    /\ seen["deps"] # 0 => seen["deps"] + HashLen * hdr.numdeps <= len
    /\ seen["tags"] # 0 => seen["tags"] + hdr.taglen <= len /\ hdr.taglen < MaxTags

\* A relocation changes four bytes of a blob that is mapped and nothing beyond
\* it (libsandbox.c:434).  A blob of MAX_PATCH_SIZE passes the test of
\* xenlp_apply4 and is not mapped by read_patch_data (libsandbox.c:391), but no
\* message is that long.
RelocsInBlob ==
    /\ phase \in {"mapped", "relocated", "checked", "applied"} /\ hdr.bloblen > 0 => blob # 0
    /\ phase = "relocated" =>
          \A i \in DOMAIN file.relocs : file.relocs[i].off + Int32Len <= hdr.bloblen

\* Displacements between the text and the blob fit in 32 bits.  The limit of
\* map_patch_map does not see to it.
Near == End + JumpLen - blob <= Half /\ blob + MaxPatch - Start <= Half

\* Every function of the patch starts with a jump to its replacement.
Patched ==
    \A i \in DOMAIN file.funcs :
        /\ writes[i].hvabs - Start = file.funcs[i].oldabs - file.refabs
        /\ writes[i].hvabs + JumpLen + writes[i].disp = blob + file.funcs[i].newrel

\* When a patch is applied and its blob is near, every function it replaces
\* starts with a jump to its replacement in the blob, wherever the text and
\* the blob have been placed: what patch_writes computes for the link and
\* read_patch_data for the process fit together.
TrampolinesLand == phase = "applied" /\ file.bloblen > 0 /\ Near => Patched

\* And every call of a near blob into the text goes to where its target is now.
CallsLand ==
    phase = "applied" /\ Near =>
        \A i \in DOMAIN file.relocs :
            blob + file.relocs[i].off + Int32Len + calls[i] - Start
                = file.relocs[i].target - file.refabs

\* The message of _cmd_apply3, which the sandbox reads as that of
\* _cmd_apply4, is refused before it is acted on: the field that is read as
\* numpreexctblents holds the number of dependencies.
MisreadRefused ==
    version = 3 => phase \in {"loaded", "written", "filled", "sent", "failed", "refused"}
=============================================================================
