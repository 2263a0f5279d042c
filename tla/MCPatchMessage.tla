--------------------------- MODULE MCPatchMessage ---------------------------
(***************************************************************************)
(* Patches linked at the address of the process, below it and above it,    *)
(* with blobs on both sides of the text, of no byte, of fewer than four,   *)
(* of some, and of MAX_PATCH_SIZE.  The structures have their real sizes;  *)
(* an int32_t has 11 bits, and a patch or a message 300 bytes.  The last   *)
(* place for a blob is above _start by less than 2^11, but more than 2^10. *)
(***************************************************************************)
EXTENDS PatchMessage

MCAddrs == {1100, 1900, 2040, 2700, 3500}

Relocs(refabs, size) ==
    {<<>>} \cup
    (IF size < 4 THEN {}
     ELSE {<<[off |-> o, target |-> refabs + 7]>> : o \in {0, size - 4, size - 3, size + 1}}
          \cup {<<[off |-> 0, target |-> refabs], [off |-> 4, target |-> refabs + 40]>>})

\* In the text at its first and last byte, and beyond it.
Funcs(refabs, size) ==
    {<<>>} \cup
    {<<[oldabs |-> refabs + o, newrel |-> n]>> : o \in {0, 39, 40}, n \in {0, (IF size > 0 THEN size - 1 ELSE 0)}}
    \cup {<<[oldabs |-> refabs + 8, newrel |-> 0],
            [oldabs |-> refabs + 16, newrel |-> (IF size > 1 THEN 1 ELSE 0)]>>}

FilesAt(refabs, size) ==
    {[refabs |-> refabs, bloblen |-> size, relocs |-> r, funcs |-> f, numexctblents |-> e[1],
      numpreexctblents |-> e[2], numdeps |-> e[3], taglen |-> g] :
        r \in Relocs(refabs, size), f \in Funcs(refabs, size),
        e \in {<<0, 0, 0>>, <<1, 0, 0>>, <<0, 1, 0>>, <<0, 0, 1>>, <<0, 0, 2>>, <<0, 1, 1>>},
        g \in {0, 5, 17}}

MCFiles == UNION {FilesAt(refabs, size) : refabs \in {16, 2000, 2310}, size \in {0, 2, 8, 90, 300}}

=============================================================================
