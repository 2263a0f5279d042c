------------------------------ MODULE PatchFile ------------------------------
(***************************************************************************)
(* load_patch_file of patch_file.c: the four versions of a patch file, and *)
(* the array of relocations that the loops of _cmd_apply4 and _cmd_apply3  *)
(* complete.                                                               *)
(*                                                                         *)
(* A file is a cookie and then sections, one reader each.  A section is a  *)
(* field of fixed width, a length with that many bytes, or a count with    *)
(* that many records.  Every width is the one of the file; what the bytes  *)
(* say is any value, the count and the lengths are chosen when they are    *)
(* read.  A read at the end of the file comes up short.                    *)
(*                                                                         *)
(* struct patch is on the stack of cmd_apply: a member has no value before *)
(* load_patch_file or a reader gives it one.                               *)
(***************************************************************************)
EXTENDS Integers, Sequences

CONSTANTS
    Sizes,      \* sizes of the files of the instance
    Counts,     \* counts of records in them
    Lengths,    \* lengths of names, data, tags and blobs in them
    Wrap        \* 2^16, where a count starts over

ASSUME SizesAssumption ==
    /\ Wrap \in Nat \ {0}
    /\ Sizes \subseteq Nat
    /\ Counts \subseteq 0 .. (Wrap - 1)
    /\ Lengths \subseteq Nat

Versions == 2 .. 5

\* XSPATCH_COOKIE_LEN, SHA_DIGEST_LENGTH.
CookieLen == 8
HashLen == 20

FixedSections == {"refxen", "crowbar", "refabs"}
SizedSections == {"tags", "blob"}
RecordSections == {"deps", "conflicts", "reloc3", "reloc", "check", "symbols", "func", "table",
                   "ex", "preex"}
Sections == FixedSections \cup SizedSections \cup RecordSections

\* Bytes of the section, of the length before it, or of what is fixed in one
\* of its records.
Width(s) ==
    CASE s = "refxen" -> 64 [] s = "crowbar" -> 8 [] s = "refabs" -> 8
      [] s = "tags" -> 2 [] s = "blob" -> 4
      [] s = "deps" -> 28 [] s = "conflicts" -> 20
      [] s = "reloc3" -> 6 [] s = "reloc" -> 4
      [] s = "check" -> 10 [] s = "symbols" -> 12
      [] s = "func" -> 14 [] s = "table" -> 12
      [] s = "ex" -> 8 [] s = "preex" -> 8

\* Bytes that have a length of their own: the section, or in a record a name,
\* data, or both.
Variable(s) ==
    CASE s \in {"tags", "blob", "check", "func"} -> Lengths
      [] s \in {"symbols", "table"} -> {a + b : a, b \in Lengths}
      [] OTHER -> {0}

\* The sections of a version, in the order of its _load_patch_file.
Order(v) ==
    CASE v = 2 -> <<"refxen", "crowbar", "refabs", "blob", "reloc", "check", "func", "table">>
      [] v = 3 -> <<"tags", "refxen", "deps", "crowbar", "refabs", "blob", "reloc3", "reloc",
                    "check", "symbols", "func", "table">>
      [] v = 4 -> <<"tags", "refxen", "deps", "refabs", "blob", "reloc3", "reloc", "check",
                    "symbols", "func", "table", "ex", "preex">>
      [] v = 5 -> <<"tags", "refxen", "deps", "refabs", "blob", "reloc3", "reloc", "check",
                    "symbols", "func", "table", "ex", "preex", "conflicts">>

Kept == {"deps", "reloc3", "reloc"}

VARIABLES
    size,       \* of the file
    version,    \* patch->version
    status,     \* "new", "reading", "loaded", "failed", "exited"
    pos,        \* offset of the file descriptor
    todo,       \* sections that are still to be read
    left,       \* records that are still to be read in the first of them
    num,        \* the counts that are used again: deps, reloc3, reloc
    given,      \* members of struct patch that have a value, named by their section
    short,      \* a read has come up short
    room,       \* entries in the array patch->relocs
    reach,      \* entries of it that have been written, or read for a message
    passes      \* loops over patch->relocs3 made

vars == <<size, version, status, pos, todo, left, num, given, short, room, reach, passes>>

Init ==
    /\ size \in Sizes
    /\ version \in Versions
    /\ status = "new"
    /\ pos = 0
    /\ todo = <<>>
    /\ left = 0
    /\ num = [s \in Kept |-> 0]
    /\ given = {}
    /\ short = FALSE
    /\ room = 0
    /\ reach = 0
    /\ passes = 0
-----------------------------------------------------------------------------
(* Opening: load_patch_file and the start of each _load_patch_file.        *)

\* What load_patch_file sets because the version has no section for it.
Presets(v) ==
    (IF v < 3 THEN {"deps", "reloc3", "symbols", "tags"} ELSE {})
    \cup (IF v < 4 THEN {"ex", "preex"} ELSE {})
    \cup (IF v >= 4 THEN {"crowbar"} ELSE {})
    \cup (IF v < 5 THEN {"conflicts"} ELSE {})

\* The cookie is one of the four, and the hash is the one in the name of the
\* file (version 2) or in its last bytes.
Open ==
    /\ status = "new"
    /\ size >= CookieLen
    /\ version >= 3 => size >= HashLen
    /\ status' = "reading"
    /\ pos' = CookieLen
    /\ todo' = Order(version)
    /\ given' = Presets(version)
    /\ UNCHANGED <<size, version, left, num, short, room, reach, passes>>

\* Not a patch file, too short for one, or damaged.
OpenFails ==
    /\ status = "new"
    /\ status' = "failed"
    /\ UNCHANGED <<size, version, pos, todo, left, num, given, short, room, reach, passes>>
-----------------------------------------------------------------------------
(* The readers. *)

Reading(s) == status = "reading" /\ todo # <<>> /\ Head(todo) = s

\* A slip: a read that is one byte short is taken for a whole one.
FitsAlmost(n) == pos + n <= size + 1

\* n bytes are there.
Fits(n) == pos + n <= size

\* They are not: the file descriptor is at the end of the file.
Short ==
    /\ pos' = size
    /\ short' = TRUE

Fail == status' = "failed" /\ UNCHANGED <<todo, left>>

\* The section is done.
Done == todo' = Tail(todo) /\ left' = 0

\* A field of fixed width, or a length and that many bytes.
ReadBytes(s) ==
    /\ Reading(s)
    /\ s \notin RecordSections
    /\ \E n \in Variable(s) :
          \/ /\ Fits(Width(s) + n)
             /\ pos' = pos + Width(s) + n
             /\ given' = given \cup {s}
             /\ Done
             /\ UNCHANGED <<status, short>>
          \/ ~Fits(Width(s) + n) /\ Short /\ Fail /\ UNCHANGED given
    /\ UNCHANGED <<size, version, num, room, reach, passes>>

\* A slip: no room for what second-level relocations add.
ReadCountOwnRoom(s) ==
    /\ Reading(s)
    /\ s \in RecordSections
    /\ left = 0
    /\ Fits(2)
    /\ pos' = pos + 2
    /\ given' = given \cup {s}
    /\ \E n \in Counts :
          /\ num' = IF s \in Kept THEN [num EXCEPT ![s] = n] ELSE num
          /\ room' = IF s = "reloc" THEN n ELSE room
          /\ IF n = 0 THEN Done ELSE left' = n /\ UNCHANGED todo
    /\ UNCHANGED <<size, version, status, short, reach, passes>>

\* A count.  relocs gets room for the relocations that its second-level ones
\* will add; their sum is a uint16_t.
ReadCount(s) ==
    /\ Reading(s)
    /\ s \in RecordSections
    /\ left = 0
    /\ Fits(2)
    /\ pos' = pos + 2
    /\ given' = given \cup {s}
    /\ \E n \in Counts :
          /\ num' = IF s \in Kept THEN [num EXCEPT ![s] = n] ELSE num
          /\ room' = IF s = "reloc" THEN (n + num["reloc3"]) % Wrap ELSE room
          /\ IF n = 0 THEN Done ELSE left' = n /\ UNCHANGED todo
    /\ UNCHANGED <<size, version, status, short, reach, passes>>

CountFails(s) ==
    /\ Reading(s)
    /\ s \in RecordSections
    /\ left = 0
    /\ ~Fits(2)
    /\ Short
    /\ Fail
    /\ UNCHANGED <<size, version, num, given, room, reach, passes>>

ReadRecord(s) ==
    /\ Reading(s)
    /\ left > 0
    /\ \E n \in Variable(s) : Fits(Width(s) + n) /\ pos' = pos + Width(s) + n
    /\ IF left = 1 THEN Done ELSE left' = left - 1 /\ UNCHANGED todo
    /\ reach' = IF s = "reloc" THEN reach + 1 ELSE reach
    /\ UNCHANGED <<size, version, status, num, given, short, room, passes>>

\* The file ends in the name or in the section of a symbol.
EndsInName(a, b) ==
    \/ Fits(2) /\ ~Fits(2 + a)
    \/ Fits(4 + a) /\ ~Fits(4 + a + b)

\* A slip: tables are read as symbols are.
RecordFailsTables(s) ==
    /\ Reading(s)
    /\ left > 0
    /\ \E a, b \in Lengths :
          /\ ~Fits(Width(s) + (IF s \in {"symbols", "table"} THEN a + b
                                ELSE IF s \in {"check", "func"} THEN a ELSE 0))
          /\ IF s \in {"symbols", "table"} /\ EndsInName(a, b) THEN Done /\ UNCHANGED status ELSE Fail
    /\ Short
    /\ UNCHANGED <<size, version, num, given, room, reach, passes>>

\* The file ends in a record.  read_symbols_data takes a short name for the
\* end of its section.
RecordFails(s) ==
    /\ Reading(s)
    /\ left > 0
    /\ \E a, b \in Lengths :
          /\ ~Fits(Width(s) + (IF s \in {"symbols", "table"} THEN a + b
                                ELSE IF s \in {"check", "func"} THEN a ELSE 0))
          /\ IF s = "symbols" /\ EndsInName(a, b) THEN Done /\ UNCHANGED status ELSE Fail
    /\ Short
    /\ UNCHANGED <<size, version, num, given, room, reach, passes>>

\* _zalloc finds no memory for what has been counted.
NoMemory ==
    /\ status = "reading"
    /\ status' = "exited"
    /\ UNCHANGED <<size, version, pos, todo, left, num, given, short, room, reach, passes>>

Loaded ==
    /\ status = "reading"
    /\ todo = <<>>
    /\ status' = "loaded"
    /\ UNCHANGED <<size, version, pos, todo, left, num, given, short, room, reach, passes>>
-----------------------------------------------------------------------------
(* The relocations to other patches. *)

Larger(a, b) == IF a > b THEN a ELSE b

\* The loop over relocs3 and the message of _cmd_apply4; it is made again by
\* _cmd_apply3 when the sandbox has dropped the patch, as it does when there
\* are dependencies.  An index beyond the dependencies ends the command.
Complete ==
    /\ status = "loaded"
    /\ passes = 0 \/ (passes = 1 /\ num["deps"] > 0)
    /\ \/ /\ num["reloc3"] = 0 \/ num["deps"] > 0
          /\ num' = [num EXCEPT !["reloc"] = (num["reloc"] + num["reloc3"]) % Wrap]
          /\ reach' = Larger(reach, num["reloc"] + num["reloc3"])
          /\ UNCHANGED status
       \/ /\ \E i \in 0 .. (num["reloc3"] - 1) :
                /\ i = 0 \/ num["deps"] > 0
                /\ reach' = Larger(reach, num["reloc"] + i)
          /\ status' = "failed"
          /\ UNCHANGED num
    /\ passes' = passes + 1
    /\ UNCHANGED <<size, version, pos, todo, left, given, short, room>>
-----------------------------------------------------------------------------
Next ==
    \/ Open \/ OpenFails \/ NoMemory \/ Loaded \/ Complete
    \/ \E s \in Sections :
          ReadBytes(s) \/ ReadCount(s) \/ CountFails(s) \/ ReadRecord(s) \/ RecordFails(s)

Spec == Init /\ [][Next]_vars
-----------------------------------------------------------------------------
\* Types of the state.
TypeOK ==
    /\ size \in Nat
    /\ version \in Versions
    /\ status \in {"new", "reading", "loaded", "failed", "exited"}
    /\ pos \in 0 .. size
    /\ todo \in Seq(Sections)
    /\ left \in 0 .. (Wrap - 1)
    /\ num \in [Kept -> 0 .. (Wrap - 1)]
    /\ given \subseteq Sections
    /\ short \in BOOLEAN
    /\ room \in 0 .. (Wrap - 1)
    /\ reach \in Nat
    /\ passes \in 0 .. 2

\* What is loaded is whole.  A file that ends too early is refused, although
\* read_symbols_data says that it has read the symbols of one
\* (patch_file.c:504): the sections that follow find the end of the file.  And
\* every member of struct patch has a value, from a section of its version or
\* from load_patch_file: the commands read members of all versions.
LoadedWhole == status = "loaded" => ~short /\ given = Sections

\* The array of relocations has room for what the first loop over relocs3
\* adds, and the message that is made then reads no further, unless the sum
\* of the two counts does not fit a uint16_t (patch_file.c:477).
RelocsFit ==
    [][passes = 0 /\ passes' = 1 /\ num["reloc"] + num["reloc3"] < Wrap
           => reach' <= room /\ num'["reloc"] <= room]_vars
=============================================================================
