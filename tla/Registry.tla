------------------------------ MODULE Registry ------------------------------
(***************************************************************************)
(* What the commands of raxlpxs together promise whoever looks after the   *)
(* virtual machine: a set of patches, of which one enters only when it is  *)
(* not in and somebody wants it in, and one leaves only when it is in and  *)
(* somebody wants it out.  What goes on in between, the searches, sessions *)
(* and second applies, the commands that are killed and the listener that  *)
(* ends, does not show.                                                    *)
(***************************************************************************)
CONSTANT Patches

VARIABLES
    inUse,      \* the patches that are applied
    wanted,     \* those that somebody has asked for, and that can be applied
    unwanted    \* those that somebody has asked to take out

vars == <<inUse, wanted, unwanted>>

Init ==
    /\ inUse \subseteq Patches
    /\ wanted \subseteq Patches
    /\ unwanted \subseteq Patches

Enter(p) ==
    /\ p \in wanted \ inUse
    /\ inUse' = inUse \cup {p}
    /\ UNCHANGED <<wanted, unwanted>>

Leave(p) ==
    /\ p \in unwanted \cap inUse
    /\ inUse' = inUse \ {p}
    /\ UNCHANGED <<wanted, unwanted>>

Next == \E p \in Patches : Enter(p) \/ Leave(p)

Spec == Init /\ [][Next]_vars
=============================================================================
