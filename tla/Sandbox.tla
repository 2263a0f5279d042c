------------------------------- MODULE Sandbox -------------------------------
(***************************************************************************)
(* Applying and undoing live patches in a running process: xenlp_apply4,   *)
(* read_patch_data, swap_trampolines, has_dependent_patches and            *)
(* xenlp_undo4 of libsandbox.c, next to the threads of QEMU that execute   *)
(* the patched code meanwhile.                                             *)
(*                                                                         *)
(* One thread, the listener, serves the requests one after the other.  The *)
(* other threads are not stopped: they see every single 8-byte exchange of *)
(* swap_trampolines and every map and unmap of a blob.                     *)
(*                                                                         *)
(* An apply that gets as far as its struct applied_patch is an instance,   *)
(* numbered in the order of the requests.  LIST_INSERT_HEAD keeps the list *)
(* of applied patches newest first, so the list is the set of its          *)
(* instances in descending order.  An 8-byte word of text is 0 when it is  *)
(* the original one, or the instance whose patch_write data it is: a       *)
(* trampoline into the instance's blob, if the patch has a blob.  Blobs    *)
(* never share or reuse addresses (Disjointness and FreshAddresses of      *)
(* PatchMapProofs), so a blob is named by its instance as well.            *)
(***************************************************************************)
EXTENDS Integers

CONSTANTS
    Patches,    \* patch files, named by their sha1
    NoPatch,
    Slots,      \* 8-byte locations of .text that patches write
    Threads,    \* the threads of QEMU that run patched code
    Desc,       \* what a patch file holds, see DescAssumption
    MaxApplies  \* bound: instances in one behaviour

\* writes: the locations of its patch_writes; blob: it has a blob; deps: the
\* patches it names as dependencies; refused: the checks of xenlp_apply4 turn
\* it down (blob longer than MAX_PATCH_SIZE, exception tables); invalid:
\* read_patch_data does (relocation, hvabs, dataoff or reloctype out of range).
ASSUME DescAssumption ==
    /\ MaxApplies \in Nat
    /\ NoPatch \notin Patches
    /\ Desc \in [Patches -> [writes : SUBSET Slots, blob : BOOLEAN, deps : SUBSET Patches,
                             refused : BOOLEAN, invalid : BOOLEAN]]

VARIABLES
    text,       \* Slots -> word in place
    list,       \* lp_patch_head: the applied instances
    of,         \* instance -> its patch
    data,       \* instance -> Slots -> the word in its patch_write
    mapped,     \* instances whose blob is mapped
    born,       \* number of instances so far
    pc,         \* where the listener thread is in a request
    cur,        \* the instance it works on, 0 for none
    todo,       \* the patch_writes swap_trampolines still has to exchange
    ret,        \* what the last xenlp_apply4 or xenlp_undo4 returned
    at          \* thread -> the blob it executes in, 0 for QEMU's own code

server == <<list, of, data, mapped, born, pc, cur, todo, ret>>
vars == <<text, list, of, data, mapped, born, pc, cur, todo, ret, at>>

Instances == 1 .. MaxApplies
Words == 0 .. MaxApplies
Codes == {"OK", "ERR_INVALID", "ERR_NOMEM", "ENXIO", "ENOENT"}

Writes(n) == Desc[of[n]].writes
HasBlob(n) == Desc[of[n]].blob
Blank == [s \in Slots |-> 0]

Init ==
    /\ text = Blank
    /\ list = {}
    /\ of = [n \in Instances |-> NoPatch]
    /\ data = [n \in Instances |-> Blank]
    /\ mapped = {}
    /\ born = 0
    /\ pc = "idle"
    /\ cur = 0
    /\ todo = {}
    /\ ret = [op |-> "none", patch |-> NoPatch, code |-> "OK"]
    /\ at = [t \in Threads |-> 0]
-----------------------------------------------------------------------------
\* The request ends: op on patch p returns code.
Return(op, p, code) ==
    /\ ret' = [op |-> op, patch |-> p, code |-> code]
    /\ pc' = "idle"
    /\ cur' = 0
    /\ todo' = {}

-----------------------------------------------------------------------------
(* Slips such code invites, one or more for each property below: the mutants *)
(* of the runs put them in place of the action they are named after.         *)

\* The words are stored, not exchanged.
ExchangeNoSave(s) ==
    /\ pc \in {"swap", "restore"}
    /\ s \in todo
    /\ text' = [text EXCEPT ![s] = data[cur][s]]
    /\ todo' = todo \ {s}
    /\ UNCHANGED <<list, of, data, mapped, born, pc, cur, ret, at>>

\* The error of mmap is passed up as it is.
MapFailsErrno(code) ==
    /\ pc = "map"
    /\ HasBlob(cur)
    /\ Return("apply", of[cur], "ENOMEM")
    /\ UNCHANGED <<text, list, of, data, mapped, born, at>>

\* The loop does not advance.
ExchangeForever(s) ==
    /\ pc \in {"swap", "restore"}
    /\ s \in todo
    /\ text' = [text EXCEPT ![s] = data[cur][s]]
    /\ data' = [data EXCEPT ![cur] = [data[cur] EXCEPT ![s] = text[s]]]
    /\ UNCHANGED <<list, of, mapped, born, pc, cur, todo, ret, at>>

\* The error of read_patch_data is lost on the way up.
ReadFailsOK(code) ==
    /\ pc = "check"
    /\ code = "ERR_INVALID" => Desc[of[cur]].invalid
    /\ mapped' = mapped \ {cur}
    /\ Return("apply", of[cur], "OK")
    /\ UNCHANGED <<text, list, of, data, born, at>>

\* An error path without unmap_patch_map.
ReadFailsMapped(code) ==
    /\ pc = "check"
    /\ code = "ERR_INVALID" => Desc[of[cur]].invalid
    /\ Return("apply", of[cur], code)
    /\ UNCHANGED <<text, list, of, data, mapped, born, at>>

\* The return before errout is forgotten: an apply that is done unmaps its blob.
ApplyDoneFallsThrough ==
    /\ pc = "swap"
    /\ todo = {}
    /\ list' = list \cup {cur}
    /\ mapped' = mapped \ {cur}
    /\ Return("apply", of[cur], "OK")
    /\ UNCHANGED <<text, of, data, born, at>>

\* The blob goes before its trampolines.
UndoDoneEarly ==
    /\ pc = "restore"
    /\ list' = list \ {cur}
    /\ data' = [data EXCEPT ![cur] = Blank]
    /\ mapped' = mapped \ {cur}
    /\ Return("undo", of[cur], "OK")
    /\ UNCHANGED <<text, of, born, at>>

\* LIST_REMOVE is forgotten.
UndoDoneListed ==
    /\ pc = "restore"
    /\ todo = {}
    /\ mapped' = mapped \ {cur}
    /\ Return("undo", of[cur], "OK")
    /\ UNCHANGED <<text, list, of, data, born, at>>
-----------------------------------------------------------------------------
\* xenlp_apply4 returns before it has allocated anything, or cannot allocate
\* the struct applied_patch.
ApplyRefused(p) ==
    /\ pc = "idle"
    /\ \/ (Desc[p].refused \/ Desc[p].writes = {}) /\ Return("apply", p, "ERR_INVALID")
       \/ ~Desc[p].refused /\ Desc[p].writes # {} /\ Return("apply", p, "ERR_NOMEM")
    /\ UNCHANGED <<text, list, of, data, mapped, born, at>>

ApplyStart(p) ==
    /\ pc = "idle"
    /\ born < MaxApplies
    /\ ~Desc[p].refused /\ Desc[p].writes # {}
    /\ born' = born + 1
    /\ cur' = born + 1
    /\ of' = [of EXCEPT ![born + 1] = p]
    /\ pc' = "map"
    /\ UNCHANGED <<text, list, data, mapped, todo, ret, at>>

\* read_patch_data maps the blob and copies it in.  A patch may have none.
MapBlob ==
    /\ pc = "map"
    /\ mapped' = IF HasBlob(cur) THEN mapped \cup {cur} ELSE mapped
    /\ pc' = "check"
    /\ UNCHANGED <<text, list, of, data, born, cur, todo, ret, at>>

\* map_patch_map fails: at the limit of the address space, or in mmap.
MapFails(code) ==
    /\ pc = "map"
    /\ HasBlob(cur)
    /\ Return("apply", of[cur], code)
    /\ UNCHANGED <<text, list, of, data, mapped, born, at>>

\* read_patch_data has relocated the blob and checked every patch_write.
ReadWrites ==
    /\ pc = "check"
    /\ ~Desc[of[cur]].invalid
    /\ data' = [data EXCEPT ![cur] = [s \in Slots |-> IF s \in Writes(cur) THEN cur ELSE 0]]
    /\ pc' = "deps"
    /\ UNCHANGED <<text, list, of, mapped, born, cur, todo, ret, at>>

\* A relocation or a patch_write is out of range, or an allocation fails:
\* errout unmaps the blob and the apply returns the error.
ReadFails(code) ==
    /\ pc = "check"
    /\ code = "ERR_INVALID" => Desc[of[cur]].invalid
    /\ mapped' = mapped \ {cur}
    /\ Return("apply", of[cur], code)
    /\ UNCHANGED <<text, list, of, data, born, at>>

\* The test "if (memcpy (...))" is true for every destination, so a patch
\* with dependencies goes to errout; the ccode set on the way is an inner
\* variable, the one returned still holds SANDBOX_OK.
DropDependent ==
    /\ pc = "deps"
    /\ Desc[of[cur]].deps # {}
    /\ mapped' = mapped \ {cur}
    /\ data' = [data EXCEPT ![cur] = Blank]
    /\ Return("apply", of[cur], "OK")
    /\ UNCHANGED <<text, list, of, born, at>>

\* make_text_writeable, and the loop of swap_trampolines begins.
StartSwap ==
    /\ pc = "deps"
    /\ Desc[of[cur]].deps = {}
    /\ pc' = "swap"
    /\ todo' = Writes(cur)
    /\ UNCHANGED <<text, list, of, data, mapped, born, cur, ret, at>>

\* One round of swap_trampolines, for an apply or an undo: text and the
\* patch_write exchange their words atomically.
Exchange(s) ==
    /\ pc \in {"swap", "restore"}
    /\ s \in todo
    /\ text' = [text EXCEPT ![s] = data[cur][s]]
    /\ data' = [data EXCEPT ![cur] = [data[cur] EXCEPT ![s] = text[s]]]
    /\ todo' = todo \ {s}
    /\ UNCHANGED <<list, of, mapped, born, pc, cur, ret, at>>

\* LIST_INSERT_HEAD, and xenlp_apply4 returns.
ApplyDone ==
    /\ pc = "swap"
    /\ todo = {}
    /\ list' = list \cup {cur}
    /\ Return("apply", of[cur], "OK")
    /\ UNCHANGED <<text, of, data, mapped, born, at>>
-----------------------------------------------------------------------------
\* The first match on the list: the newest instance of the patch.
Newest(p, n) ==
    /\ n \in list
    /\ of[n] = p
    /\ \A m \in list : of[m] = p => m <= n

\* has_dependent_patches follows LIST_NEXT, from newer to older instances.
HasDependents(n) == \E m \in list : m < n /\ of[n] \in Desc[of[m]].deps

UndoUnknown(p) ==
    /\ pc = "idle"
    /\ \A n \in list : of[n] # p
    /\ Return("undo", p, "ENOENT")
    /\ UNCHANGED <<text, list, of, data, mapped, born, at>>

UndoFound(p) ==
    /\ pc = "idle"
    /\ \E n \in list :
          /\ Newest(p, n)
          /\ IF HasDependents(n) \/ Writes(n) = {}
             THEN Return("undo", p, "ENXIO")
             ELSE /\ pc' = "restore"
                  /\ cur' = n
                  /\ todo' = Writes(n)
                  /\ UNCHANGED ret
    /\ UNCHANGED <<text, list, of, data, mapped, born, at>>

\* LIST_REMOVE, the writes are freed and the blob is unmapped: whether or not
\* a thread is executing in it.
UndoDone ==
    /\ pc = "restore"
    /\ todo = {}
    /\ list' = list \ {cur}
    /\ data' = [data EXCEPT ![cur] = Blank]
    /\ mapped' = mapped \ {cur}
    /\ Return("undo", of[cur], "OK")
    /\ UNCHANGED <<text, of, born, at>>
-----------------------------------------------------------------------------
\* A thread calls the function at s; a trampoline takes it into a blob.
Call(t, s) ==
    /\ at[t] = 0
    /\ text[s] # 0
    /\ HasBlob(text[s])
    /\ at' = [at EXCEPT ![t] = text[s]]
    /\ UNCHANGED <<text, server>>

Leave(t) ==
    /\ at[t] # 0
    /\ at' = [at EXCEPT ![t] = 0]
    /\ UNCHANGED <<text, server>>

Request ==
    \E p \in Patches :
        \/ ApplyRefused(p)
        \/ ApplyStart(p)
        \/ UndoUnknown(p)
        \/ UndoFound(p)

Serve ==
    \/ MapBlob
    \/ ReadWrites
    \/ \E code \in {"ERR_INVALID", "ERR_NOMEM"} : MapFails(code) \/ ReadFails(code)
    \/ DropDependent
    \/ StartSwap
    \/ \E s \in Slots : Exchange(s)
    \/ ApplyDone
    \/ UndoDone

Run == \E t \in Threads : Leave(t) \/ \E s \in Slots : Call(t, s)

Next == Request \/ Serve \/ Run

\* Nothing blocks between a request and its return: the listener thread runs.
Fairness == WF_vars(Serve)

Spec == Init /\ [][Next]_vars /\ Fairness
-----------------------------------------------------------------------------
(* The operator's discipline.  Nothing in the code makes it so, and what the *)
(* text holds depends on it: patches that write a common location are undone *)
(* newest first.  Patches with no location in common are in any order.       *)

NewestFirst ==
    pc = "idle" /\ pc' = "restore" =>
        \A m \in list : m > cur' => Writes(m) \cap Writes(cur') = {}

DisciplinedNext == Next /\ NewestFirst

DisciplinedSpec == Init /\ [][DisciplinedNext]_vars /\ Fairness
-----------------------------------------------------------------------------
\* Types of the state.
TypeOK ==
    /\ text \in [Slots -> Words]
    /\ list \subseteq Instances
    /\ of \in [Instances -> Patches \cup {NoPatch}]
    /\ data \in [Instances -> [Slots -> Words]]
    /\ mapped \subseteq Instances
    /\ born \in Words
    /\ pc \in {"idle", "map", "check", "deps", "swap", "restore"}
    /\ cur \in Words
    /\ todo \subseteq Slots
    /\ ret \in [op : {"none", "apply", "undo"}, patch : Patches \cup {NoPatch}, code : Codes]
    /\ at \in [Threads -> Words]

\* The word instance n put at s is still in force there: n is on the list, or
\* about to be, and no exchange has taken it back.
InForce(n, s) ==
    /\ \/ n \in list /\ ~(pc = "restore" /\ n = cur /\ s \notin todo)
       \/ pc = "swap" /\ n = cur /\ s \notin todo
    /\ s \in Writes(n)

\* w is the newest of the words in force at s from below instance n: the
\* original word if there is none.
TopBelow(w, n, s) ==
    /\ w = 0 \/ (w < n /\ InForce(w, s))
    /\ \A m \in Instances : m < n /\ InForce(m, s) => m <= w

\* At every location, in every state and so for every thread between any two
\* exchanges, the newest patch in force is the one that runs, and what each
\* patch_write keeps is the word below it: undoing the patches newest first
\* brings back every original instruction.
TextChain ==
    \A s \in Slots :
        /\ TopBelow(text[s], MaxApplies + 1, s)
        /\ \A n \in Instances : InForce(n, s) => TopBelow(data[n][s], n, s)

\* No trampoline leads into a blob that is not mapped: a thread that calls a
\* patched function never jumps to an address that is gone.
NoDanglingTrampoline ==
    \A s \in Slots : text[s] # 0 /\ HasBlob(text[s]) => text[s] \in mapped

\* Whatever the order of requests and errors, the blobs that are mapped are
\* those of the applied patches and of the one being worked on: no error path
\* leaks a blob or unmaps one in use.
BlobsAccounted ==
    mapped = {n \in list \cup (IF pc \in {"check", "deps", "swap"} THEN {cur} ELSE {}) :
                 HasBlob(n)}

\* Where a word of location s is kept: in place, or in the patch_write of an
\* instance that has taken part in an exchange.
Holders(s) ==
    {n \in Instances : (n \in list \/ (pc \in {"deps", "swap"} /\ n = cur)) /\ s \in Writes(n)}

\* Even when patches are undone in an order that mixes their words up, the
\* exchanges never duplicate a word: one trampoline is in one place.
NoWordTwice ==
    \A s \in Slots : \A n \in Holders(s) :
        /\ data[n][s] # text[s]
        /\ \A m \in Holders(s) : m # n => data[m][s] # data[n][s]

\* The code a request returns tells whether it took effect (sandbox.h:267-269:
\* the reply to an apply is 0L "OK," or an error code).
TruthfulReturn ==
    [][pc \notin {"idle", "restore"} /\ pc' = "idle" => (ret'.code = "OK" <=> cur \in list')]_vars

\* No thread executes in a blob that has been unmapped (src/README.md:12: "Aside
\* from the sandbox thread, QEMU executes normally").
NoThreadInUnmappedBlob == \A t \in Threads : at[t] # 0 => at[t] \in mapped

Stranded(t) == at[t] # 0 /\ at[t] \notin mapped

\* The only step that takes a blob from under a thread is the munmap at the end
\* of an undo (libsandbox.c:678), and only from threads that had entered while
\* that patch was in force.  No error path of an apply does, however far the
\* patch has come and whoever runs meanwhile, and no thread enters a blob after
\* it is gone.
StrandedByUndo ==
    [][\A t \in Threads : Stranded(t)' =>
          \/ Stranded(t)
          \/ pc = "restore" /\ todo = {} /\ at[t] = cur]_vars

\* The sandbox implements the set of applied patches.
Abstract == INSTANCE PatchSet WITH
    Ids <- Instances,
    applied <- {[id |-> n, patch |-> of[n]] : n \in list}

AbstractSpec == Abstract!Spec

\* Every request returns.
Answered == pc # "idle" ~> pc = "idle"
=============================================================================
