------------------------------ MODULE MCListener ------------------------------
(* Small instances of Listener for TLC: what xenlp_apply4 makes of a patch. *)
EXTENDS Listener, TLC

AnyOutcome == [p \in Patches |-> {"OK", "ERR_INVALID"}]
Accepted == [p \in Patches |-> {"OK"}]
Rejected == [p \in Patches |-> {"ERR_INVALID"}]

ClientSymmetry == Permutations(Clients)
===============================================================================
