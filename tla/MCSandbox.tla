------------------------------ MODULE MCSandbox ------------------------------
(* Small instances of Sandbox for TLC: what the patch files hold. *)
EXTENDS Sandbox, TLC

CONSTANTS base, over, raw, broken, dependent, s1, s2

File(writes, blob, deps) ==
    [writes |-> writes, blob |-> blob, deps |-> deps, refused |-> FALSE, invalid |-> FALSE]

\* base: two locations; over: one of them again; raw: no blob; broken: a
\* patch_write out of range; dependent: names base as a dependency.
AllFiles ==
    base :> File({s1, s2}, TRUE, {})
    @@ over :> File({s2}, TRUE, {})
    @@ raw :> File({s1}, FALSE, {})
    @@ broken :> [File({s1}, TRUE, {}) EXCEPT !.invalid = TRUE]
    @@ dependent :> File({s2}, TRUE, {base})

MCDesc == [p \in Patches |->
             IF p \in DOMAIN AllFiles THEN AllFiles[p]
             ELSE [File({s1}, TRUE, {}) EXCEPT !.refused = TRUE]]

ThreadSymmetry == Permutations(Threads)
=============================================================================
