------------------------------ MODULE PatchSet ------------------------------
(***************************************************************************)
(* What the sandbox promises the operator of raxlpxs, who only sees return *)
(* codes: a set of applied patches that every request changes at once or   *)
(* not at all, and a code that says which.                                 *)
(***************************************************************************)
EXTENDS Integers

CONSTANTS
    Patches,
    NoPatch,
    Ids         \* numbers that order the instances

VARIABLES
    applied,    \* the applied instances, each [id, patch]: a greater id is newer
    ret         \* what the last request returned

vars == <<applied, ret>>

Answer(op, p, code) == ret' = [op |-> op, patch |-> p, code |-> code]

Init ==
    /\ applied = {}
    /\ ret = [op |-> "none", patch |-> NoPatch, code |-> "OK"]

\* The patch is in effect, on top of those applied before it.
Apply(p) ==
    /\ \E id \in Ids :
          /\ \A a \in applied : a.id < id
          /\ applied' = applied \cup {[id |-> id, patch |-> p]}
    /\ Answer("apply", p, "OK")

\* An apply that fails changes nothing.
ApplyFails(p) ==
    /\ \E code \in {"ERR_INVALID", "ERR_NOMEM"} : Answer("apply", p, code)
    /\ UNCHANGED applied

\* The newest instance of the patch is taken back.
Undo(p) ==
    /\ \E a \in applied :
          /\ a.patch = p
          /\ \A b \in applied : b.patch = p => b.id <= a.id
          /\ applied' = applied \ {a}
    /\ Answer("undo", p, "OK")

\* There is none.
UndoUnknown(p) ==
    /\ \A a \in applied : a.patch # p
    /\ Answer("undo", p, "ENOENT")
    /\ UNCHANGED applied

Next == \E p \in Patches : Apply(p) \/ ApplyFails(p) \/ Undo(p) \/ UndoUnknown(p)

Spec == Init /\ [][Next]_vars
=============================================================================
