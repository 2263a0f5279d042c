----------------------------- MODULE MCPatchFile -----------------------------
(***************************************************************************)
(* Patch files of up to two records in a section.  The sizes are those     *)
(* around the ends of the sections: too short for the cookie, for the      *)
(* hash, and then every size from the end of the build strings to that of  *)
(* a file with a record or two in several sections.  A count starts over   *)
(* at 4, so that two counts of 2 do.                                       *)
(***************************************************************************)
EXTENDS PatchFile

MCSizes == {7, 15, 72} \cup (100 .. 135) \cup {160, 200}
MCCounts == 0 .. 2
MCLengths == {0, 3}
=============================================================================
