----------------------------- MODULE MCPatchMap -----------------------------
(* Small instances of PatchMap for TLC: pages of two bytes.  The permutations *)
(* of the patch_map objects are a symmetry of the state invariants.           *)
EXTENDS PatchMap, TLC

MapSymmetry == Permutations(Maps)
=============================================================================
