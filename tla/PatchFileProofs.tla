--------------------------- MODULE PatchFileProofs ---------------------------
(***************************************************************************)
(* What load_patch_file accepts, for files of every size and content.  The *)
(* invariant says where a reader is: what is still to be read is the end   *)
(* of the order of the version, nothing of it has been read, and together  *)
(* with what has been it is all of struct patch.  After a short read that  *)
(* was not noticed the file is at its end, and a section is still to come. *)
(***************************************************************************)
EXTENDS PatchFile, SequenceTheorems, TLAPS

\* What is still to be read.
TodoInv ==
    /\ \A i, j \in 1 .. Len(todo) : todo[i] = todo[j] => i = j
    /\ \A i \in 1 .. Len(todo) : i > 1 \/ left = 0 => todo[i] \notin given
    /\ \A i, j \in 1 .. Len(todo) : i < j /\ todo[i] = "reloc" => todo[j] # "reloc3"
    /\ \A j \in 1 .. Len(todo) : "reloc" \in given => todo[j] # "reloc3"
    /\ todo # <<>> => todo[Len(todo)] # "symbols"
    /\ left > 0 => todo # <<>> /\ Head(todo) \in given

\* With what has been read, it is everything.
GivenInv ==
    /\ status = "reading" => \A s \in Sections : s \in given \/ \E i \in 1 .. Len(todo) : todo[i] = s
    /\ status = "loaded" => given = Sections

ShortInv ==
    /\ short /\ status = "reading" => pos = size /\ left = 0 /\ todo # <<>>
    /\ status = "new" => ~short
    /\ status = "loaded" => ~short

\* The array of relocations, until the first loop over relocs3.
RoomInv ==
    passes = 0 =>
        /\ "reloc" \notin given => reach = 0
        /\ "reloc" \in given => /\ room = (num["reloc"] + num["reloc3"]) % Wrap
                                /\ reach <= num["reloc"]
                                /\ left > 0 /\ Head(todo) = "reloc" => reach + left <= num["reloc"]

NewInv == status = "new" => left = 0 /\ reach = 0

IInv == TypeOK /\ TodoInv /\ GivenInv /\ ShortInv /\ RoomInv /\ NewInv
-----------------------------------------------------------------------------
(* Helpers. *)

LEMMA TailFacts ==
    ASSUME NEW S, NEW q \in Seq(S), q # <<>>
    PROVE  /\ Len(q) \in Nat \ {0}
           /\ Head(q) = q[1]
           /\ Tail(q) \in Seq(S)
           /\ Len(Tail(q)) = Len(q) - 1
           /\ \A i \in 1 .. Len(Tail(q)) : i + 1 \in 2 .. Len(q) /\ Tail(q)[i] = q[i + 1]
BY EmptySeq, HeadTailProperties

LEMMA WidthFacts ==
    ASSUME NEW s \in Sections
    PROVE  /\ Width(s) \in Nat \ {0}
           /\ \A n \in Variable(s) : n \in Nat
           /\ s \in {"crowbar", "refabs", "refxen", "tags", "blob"} <=> s \notin RecordSections
<1>1. Width(s) \in Nat \ {0}
  BY DEF Width, Sections, FixedSections, SizedSections, RecordSections
<1>2. Lengths \subseteq Nat
  BY SizesAssumption
<1>3. \A n \in Variable(s) : n \in Nat
  BY <1>2 DEF Variable
<1> QED
  BY <1>1, <1>3 DEF Sections, FixedSections, SizedSections, RecordSections

\* A sum of two counts as a uint16_t.
LEMMA ModFacts ==
    ASSUME NEW a \in 0 .. (Wrap - 1), NEW b \in 0 .. (Wrap - 1)
    PROVE  /\ (a + b) % Wrap \in 0 .. (Wrap - 1)
           /\ a + b < Wrap => (a + b) % Wrap = a + b
<1>1. Wrap \in Nat \ {0} /\ a \in Nat /\ b \in Nat
  BY SizesAssumption
<1>2. PICK x \in Nat : x = a + b
  BY <1>1
<1>3. x % Wrap \in 0 .. (Wrap - 1) /\ (x < Wrap => x % Wrap = x)
  BY <1>1
<1> QED
  BY <1>2, <1>3

\* The orders of the versions, and what load_patch_file sets before.
LEMMA OrderFacts ==
    ASSUME NEW v \in Versions
    PROVE  /\ Order(v) \in Seq(Sections)
           /\ Order(v) # <<>>
           /\ \A i, j \in 1 .. Len(Order(v)) : Order(v)[i] = Order(v)[j] => i = j
           /\ \A i \in 1 .. Len(Order(v)) : Order(v)[i] \notin Presets(v)
           /\ \A i, j \in 1 .. Len(Order(v)) : i < j /\ Order(v)[i] = "reloc" => Order(v)[j] # "reloc3"
           /\ "reloc" \notin Presets(v)
           /\ Presets(v) \subseteq Sections
           /\ Order(v)[Len(Order(v))] # "symbols"
           /\ \A s \in Sections : s \in Presets(v) \/ \E i \in 1 .. Len(Order(v)) : Order(v)[i] = s
<1>1. CASE v = 2
  BY <1>1 DEF Order, Presets, Sections, FixedSections,
    SizedSections, RecordSections
<1>2. CASE v = 3
  BY <1>2 DEF Order, Presets, Sections, FixedSections,
    SizedSections, RecordSections
<1>3. CASE v = 4
  BY <1>3 DEF Order, Presets, Sections, FixedSections,
    SizedSections, RecordSections
<1>4. CASE v = 5
  BY <1>4 DEF Order, Presets, Sections, FixedSections,
    SizedSections, RecordSections
<1>5. v \in 2 .. 5
  BY DEF Versions
<1> QED
  BY <1>1, <1>2, <1>3, <1>4, <1>5
-----------------------------------------------------------------------------
(* Steps. *)

\* Done drops the first section.
LEMMA DoneFacts ==
    ASSUME TypeOK, TodoInv, todo # <<>>, Done
    PROVE  /\ todo' \in Seq(Sections)
           /\ left' = 0
           /\ Head(todo) = todo[1] /\ todo[1] \in Sections
           /\ \A i \in 1 .. Len(todo') : /\ i + 1 \in 2 .. Len(todo) /\ i + 1 \in 1 .. Len(todo)
                                         /\ i + 1 > 1 /\ todo'[i] = todo[i + 1]
           /\ \A j \in 2 .. Len(todo) : j - 1 \in 1 .. Len(todo') /\ todo'[j - 1] = todo[j]
           /\ todo' # <<>> => todo'[Len(todo')] = todo[Len(todo)]
           /\ todo[1] = "symbols" => todo' # <<>>
<1>1. todo \in Seq(Sections) /\ todo' = Tail(todo) /\ left' = 0
  BY DEF TypeOK, Done
<1>2. /\ Len(todo) \in Nat \ {0}
      /\ Head(todo) = todo[1]
      /\ todo' \in Seq(Sections)
      /\ Len(todo') = Len(todo) - 1
      /\ \A i \in 1 .. Len(todo') : i + 1 \in 2 .. Len(todo) /\ todo'[i] = todo[i + 1]
  BY <1>1, TailFacts
<1>3. todo[1] \in Sections
  BY <1>1, <1>2
<1>4. \A i \in 1 .. Len(todo') : i + 1 \in 1 .. Len(todo) /\ i + 1 > 1
  BY <1>2
<1>5. ASSUME NEW j \in 2 .. Len(todo) PROVE j - 1 \in 1 .. Len(todo') /\ todo'[j - 1] = todo[j]
  <2>1. j - 1 \in 1 .. Len(todo') /\ (j - 1) + 1 = j
    BY <1>2
  <2> QED
    BY <1>2, <2>1
<1>6. ASSUME todo' # <<>> PROVE todo'[Len(todo')] = todo[Len(todo)]
  <2>1. Len(todo') \in Nat \ {0}
    BY <1>2, <1>6, TailFacts
  <2>2. Len(todo) \in 2 .. Len(todo) /\ Len(todo') = Len(todo) - 1
    BY <1>2, <2>1
  <2> QED
    BY <1>5, <2>2
<1>7. todo[1] = "symbols" => todo' # <<>>
  <2>1. SUFFICES ASSUME todo' = <<>> PROVE todo[1] # "symbols"
    OBVIOUS
  <2>2. Len(todo') = 0
    BY <2>1
  <2>3. Len(todo) = 1
    BY <1>2, <2>2
  <2> QED
    BY <2>3 DEF TodoInv
<1> QED
  BY <1>1, <1>2, <1>3, <1>4, <1>5, <1>6, <1>7

\* The parts of the invariant that speak of todo, when a section is done.
LEMMA DoneKeeps ==
    ASSUME TypeOK, TodoInv, GivenInv, status = "reading", todo # <<>>, Done,
           given' = given \cup {Head(todo)}, status' = "reading"
    PROVE  TodoInv' /\ GivenInv' /\ todo' \in Seq(Sections) /\ given' \subseteq Sections
<1>1. /\ todo' \in Seq(Sections)
      /\ left' = 0
      /\ Head(todo) = todo[1] /\ todo[1] \in Sections
      /\ \A i \in 1 .. Len(todo') : /\ i + 1 \in 2 .. Len(todo) /\ i + 1 \in 1 .. Len(todo)
                                    /\ i + 1 > 1 /\ todo'[i] = todo[i + 1]
      /\ \A j \in 2 .. Len(todo) : j - 1 \in 1 .. Len(todo') /\ todo'[j - 1] = todo[j]
      /\ todo' # <<>> => todo'[Len(todo')] = todo[Len(todo)]
  BY DoneFacts
<1>2. Len(todo) \in Nat \ {0} /\ 1 \in 1 .. Len(todo) /\ Len(todo') \in Nat
  <2>1. todo \in Seq(Sections)
    BY DEF TypeOK
  <2>2. Len(todo) \in Nat \ {0}
    BY <2>1, TailFacts
  <2> QED
    BY <1>1, <2>2
<1>3. given' = given \cup {todo[1]} /\ given' \subseteq Sections
  BY <1>1 DEF TypeOK
<1>4. \A i, j \in 1 .. Len(todo') : todo'[i] = todo'[j] => i = j
  <2>1. SUFFICES ASSUME NEW i \in 1 .. Len(todo'), NEW j \in 1 .. Len(todo'), todo'[i] = todo'[j]
                 PROVE  i = j
    OBVIOUS
  <2>2. i + 1 = j + 1
    BY <1>1, <2>1 DEF TodoInv
  <2> QED
    BY <2>2
<1>5. \A i \in 1 .. Len(todo') : todo'[i] \notin given'
  <2>1. SUFFICES ASSUME NEW i \in 1 .. Len(todo') PROVE todo'[i] \notin given'
    OBVIOUS
  <2>2. todo'[i] = todo[i + 1] /\ i + 1 \in 1 .. Len(todo) /\ i + 1 > 1 /\ i + 1 # 1
    BY <1>1
  <2>3. todo[i + 1] \notin given /\ todo[i + 1] # todo[1]
    BY <1>2, <2>2 DEF TodoInv
  <2> QED
    BY <1>3, <2>2, <2>3
<1>6. \A i, j \in 1 .. Len(todo') : i < j /\ todo'[i] = "reloc" => todo'[j] # "reloc3"
  <2>1. SUFFICES ASSUME NEW i \in 1 .. Len(todo'), NEW j \in 1 .. Len(todo'), i < j,
                        todo'[i] = "reloc"
                 PROVE  todo'[j] # "reloc3"
    OBVIOUS
  <2>2. i + 1 < j + 1 /\ i + 1 \in 1 .. Len(todo) /\ j + 1 \in 1 .. Len(todo)
        /\ todo[i + 1] = "reloc" /\ todo'[j] = todo[j + 1]
    BY <1>1, <2>1
  <2> QED
    BY <2>2 DEF TodoInv
<1>7. \A j \in 1 .. Len(todo') : "reloc" \in given' => todo'[j] # "reloc3"
  <2>1. SUFFICES ASSUME NEW j \in 1 .. Len(todo'), "reloc" \in given' PROVE todo'[j] # "reloc3"
    OBVIOUS
  <2>2. j + 1 \in 1 .. Len(todo) /\ todo'[j] = todo[j + 1] /\ 1 < j + 1
    BY <1>1
  <2>3. CASE "reloc" \in given
    BY <2>2, <2>3 DEF TodoInv
  <2>4. CASE todo[1] = "reloc"
    BY <1>2, <2>2, <2>4 DEF TodoInv
  <2> QED
    BY <1>3, <2>1, <2>3, <2>4
<1>8. todo' # <<>> => todo'[Len(todo')] # "symbols"
  BY <1>1 DEF TodoInv
<1>9. TodoInv'
  BY <1>1, <1>4, <1>5, <1>6, <1>7, <1>8 DEF TodoInv
<1>10. GivenInv'
  <2>1. SUFFICES ASSUME NEW s \in Sections, s \notin given'
                 PROVE  \E i \in 1 .. Len(todo') : todo'[i] = s
    BY DEF GivenInv
  <2>2. PICK j \in 1 .. Len(todo) : todo[j] = s
    BY <1>3, <2>1 DEF GivenInv
  <2>3. j \in 2 .. Len(todo)
    BY <1>2, <1>3, <2>1, <2>2
  <2> QED
    BY <1>1, <2>2, <2>3
<1> QED
  BY <1>1, <1>3, <1>9, <1>10

\* What one Next changes of the numbers.
NumbersOK ==
    /\ size' = size /\ version' = version
    /\ status' \in {"new", "reading", "loaded", "failed", "exited"}
    /\ pos' \in 0 .. size
    /\ left' \in 0 .. (Wrap - 1)
    /\ num' \in [Kept -> 0 .. (Wrap - 1)]
    /\ short' \in BOOLEAN
    /\ room' \in 0 .. (Wrap - 1)
    /\ reach' \in Nat
    /\ passes' \in 0 .. 2

LEMMA NumberTypes ==
    ASSUME TypeOK, Next
    PROVE  NumbersOK
<1> USE DEF TypeOK, NumbersOK
<1>1. Wrap \in Nat \ {0} /\ size \in Nat /\ pos \in Nat /\ pos <= size /\ num["reloc"] \in 0 .. (Wrap - 1)
      /\ num["reloc3"] \in 0 .. (Wrap - 1) /\ left \in 0 .. (Wrap - 1) /\ 0 \in 0 .. (Wrap - 1)
  BY SizesAssumption DEF Kept
<1>3. CASE Open \/ OpenFails \/ NoMemory \/ Loaded
  BY <1>1, <1>3 DEF Open, OpenFails, NoMemory, Loaded, Fits, CookieLen
<1>4. CASE Complete
  <2>1. /\ UNCHANGED <<size, version, pos, left, short, room>>
        /\ status' \in {"loaded", "failed"}
        /\ passes' \in 0 .. 2
    BY <1>4 DEF Complete
  <2>2. num' \in [Kept -> 0 .. (Wrap - 1)]
    <3>1. (num["reloc"] + num["reloc3"]) % Wrap \in 0 .. (Wrap - 1)
      BY <1>1, ModFacts
    <3> QED
      BY <1>4, <3>1 DEF Complete
  <2>3. reach' \in Nat
    <3>1. num["reloc"] + num["reloc3"] \in Nat /\ \A i \in 0 .. (num["reloc3"] - 1) : num["reloc"] + i \in Nat
      BY <1>1
    <3> QED
      BY <1>4, <3>1 DEF Complete, Larger
  <2> QED
    BY <2>1, <2>2, <2>3
<1>5. ASSUME NEW s \in Sections, ReadBytes(s) PROVE NumbersOK
  <2>1. PICK n \in Variable(s) :
            \/ Fits(Width(s) + n) /\ pos' = pos + Width(s) + n /\ Done /\ UNCHANGED <<status, short>>
            \/ Short /\ Fail
    BY <1>5 DEF ReadBytes
  <2>2. Width(s) \in Nat \ {0} /\ n \in Nat
    BY WidthFacts
  <2>3. UNCHANGED <<size, version, num, room, reach, passes>>
    BY <1>5 DEF ReadBytes
  <2>4. pos' \in 0 .. size
    <3>1. pos + Width(s) + n \in Nat /\ (Fits(Width(s) + n) <=> pos + Width(s) + n <= size)
      BY <1>1, <2>2 DEF Fits
    <3> QED
      BY <1>1, <2>1, <3>1 DEF Short
  <2>5. status' \in {status, "failed"} /\ left' \in {0, left} /\ short' \in {TRUE, short}
    BY <2>1 DEF Short, Fail, Done
  <2> QED
    BY <1>1, <2>3, <2>4, <2>5
<1>6. ASSUME NEW s \in Sections, ReadCount(s) PROVE NumbersOK
  <2>1. PICK n \in Counts :
            /\ num' = IF s \in Kept THEN [num EXCEPT ![s] = n] ELSE num
            /\ room' = IF s = "reloc" THEN (n + num["reloc3"]) % Wrap ELSE room
            /\ left' \in {0, n}
    BY <1>6 DEF ReadCount, Done
  <2>2. n \in 0 .. (Wrap - 1)
    BY SizesAssumption
  <2>3. (n + num["reloc3"]) % Wrap \in 0 .. (Wrap - 1)
    BY <1>1, <2>2, ModFacts
  <2>4. Fits(2) /\ pos' = pos + 2 /\ UNCHANGED <<size, version, status, short, reach, passes>>
    BY <1>6 DEF ReadCount
  <2> QED
    BY <1>1, <2>1, <2>2, <2>3, <2>4 DEF Fits
<1>7. ASSUME NEW s \in Sections, CountFails(s) PROVE NumbersOK
  BY <1>1, <1>7 DEF CountFails, Short, Fail
<1>8. ASSUME NEW s \in Sections, ReadRecord(s) PROVE NumbersOK
  <2>1. PICK n \in Variable(s) : Fits(Width(s) + n) /\ pos' = pos + Width(s) + n
    BY <1>8 DEF ReadRecord
  <2>2. Width(s) \in Nat \ {0} /\ n \in Nat
    BY WidthFacts
  <2>3. left' \in {0, left - 1} /\ left > 0 /\ reach' \in {reach, reach + 1}
        /\ UNCHANGED <<size, version, status, num, short, room, passes>>
    BY <1>8 DEF ReadRecord, Done
  <2> QED
    BY <1>1, <2>1, <2>2, <2>3 DEF Fits
<1>9. ASSUME NEW s \in Sections, RecordFails(s) PROVE NumbersOK
  <2>1. /\ status' \in {status, "failed"} /\ left' \in {0, left}
        /\ Short /\ UNCHANGED <<size, version, num, room, reach, passes>>
    BY <1>9 DEF RecordFails, Done, Fail
  <2> QED
    BY <1>1, <2>1 DEF Short
<1> QED
  BY <1>3, <1>4, <1>5, <1>6, <1>7, <1>8, <1>9 DEF Next

\* A section that fails leaves what is still said of a failed file.
LEMMA FailKeeps ==
    ASSUME IInv, status' \in {"failed", "exited"},
           UNCHANGED <<todo, left, num, given, room, reach, passes>>
    PROVE  TodoInv' /\ GivenInv' /\ ShortInv' /\ RoomInv'
BY DEF IInv, TodoInv, GivenInv, ShortInv, RoomInv

LEMMA OpenStep ==
    ASSUME IInv, Open
    PROVE  /\ TodoInv' /\ GivenInv' /\ ShortInv' /\ RoomInv'
           /\ todo' \in Seq(Sections) /\ given' \subseteq Sections
<1>1. /\ version \in Versions /\ left' = left /\ UNCHANGED <<num, short, room, reach, passes>>
      /\ todo' = Order(version) /\ given' = Presets(version) /\ status = "new" /\ status' = "reading"
  BY DEF Open, IInv, TypeOK
<1>2. left = 0 /\ ~short /\ reach = 0
  BY <1>1 DEF IInv, NewInv, ShortInv
<1>3. PICK q : q = Order(version)
  OBVIOUS
<1>4. PICK g : g = Presets(version)
  OBVIOUS
<1>5. /\ q \in Seq(Sections)
      /\ q # <<>>
      /\ \A i, j \in 1 .. Len(q) : q[i] = q[j] => i = j
      /\ \A i \in 1 .. Len(q) : q[i] \notin g
      /\ \A i, j \in 1 .. Len(q) : i < j /\ q[i] = "reloc" => q[j] # "reloc3"
      /\ "reloc" \notin g
      /\ g \subseteq Sections
      /\ q[Len(q)] # "symbols"
      /\ \A s \in Sections : s \in g \/ \E i \in 1 .. Len(q) : q[i] = s
  BY <1>1, <1>3, <1>4, OrderFacts
<1>6. TodoInv'
  BY <1>1, <1>2, <1>3, <1>4, <1>5 DEF TodoInv
<1>7. GivenInv' /\ ShortInv' /\ RoomInv'
  BY <1>1, <1>2, <1>3, <1>4, <1>5 DEF GivenInv, ShortInv, RoomInv
<1> QED
  BY <1>1, <1>3, <1>4, <1>5, <1>6, <1>7

\* While a file is read and no read came up short, a step that keeps the
\* counts and the array keeps what is said of them.
LEMMA RoomKeeps ==
    ASSUME RoomInv, left' = 0, UNCHANGED <<num, room, reach, passes>>,
           "reloc" \in given' <=> "reloc" \in given
    PROVE  RoomInv'
BY DEF RoomInv

LEMMA BytesStep ==
    ASSUME IInv, NEW s \in Sections, ReadBytes(s)
    PROVE  /\ TodoInv' /\ GivenInv' /\ ShortInv' /\ RoomInv'
           /\ todo' \in Seq(Sections) /\ given' \subseteq Sections
<1>1. /\ status = "reading" /\ todo # <<>> /\ Head(todo) = s /\ s \notin RecordSections
      /\ UNCHANGED <<size, version, num, room, reach, passes>>
  BY DEF ReadBytes, Reading
<1>2. PICK n \in Variable(s) :
          \/ /\ Fits(Width(s) + n)
             /\ given' = given \cup {s}
             /\ Done
             /\ UNCHANGED <<status, short>>
          \/ Fail /\ UNCHANGED given
  BY DEF ReadBytes
<1>3. CASE Fail /\ UNCHANGED given
  BY <1>1, <1>3, FailKeeps DEF Fail, IInv, TypeOK
<1>4. CASE /\ Fits(Width(s) + n)
           /\ given' = given \cup {s}
           /\ Done
           /\ UNCHANGED <<status, short>>
  <2>1. TodoInv' /\ GivenInv' /\ todo' \in Seq(Sections) /\ given' \subseteq Sections
    BY <1>1, <1>4, DoneKeeps DEF IInv
  <2>2. ~short
    <3>1. Width(s) \in Nat \ {0} /\ n \in Nat /\ pos \in Nat /\ size \in Nat
      BY WidthFacts DEF IInv, TypeOK
    <3>2. pos # size
      BY <1>4, <3>1 DEF Fits
    <3> QED
      BY <1>1, <3>2 DEF IInv, ShortInv
  <2>3. ShortInv'
    BY <1>1, <1>4, <2>2 DEF ShortInv
  <2>4. "reloc" \in given' <=> "reloc" \in given
    BY <1>1, <1>4 DEF RecordSections
  <2>5. RoomInv'
    BY <1>1, <1>4, <2>4, RoomKeeps DEF IInv, Done
  <2> QED
    BY <2>1, <2>3, <2>5
<1> QED
  BY <1>2, <1>3, <1>4

LEMMA CountStep ==
    ASSUME IInv, NEW s \in Sections, ReadCount(s)
    PROVE  /\ TodoInv' /\ GivenInv' /\ ShortInv' /\ RoomInv'
           /\ todo' \in Seq(Sections) /\ given' \subseteq Sections
<1>1. /\ status = "reading" /\ todo # <<>> /\ Head(todo) = s /\ s \in RecordSections
      /\ left = 0 /\ Fits(2) /\ given' = given \cup {s}
      /\ UNCHANGED <<size, version, status, short, reach, passes>>
  BY DEF ReadCount, Reading
<1>2. PICK n \in Counts :
          /\ num' = IF s \in Kept THEN [num EXCEPT ![s] = n] ELSE num
          /\ room' = IF s = "reloc" THEN (n + num["reloc3"]) % Wrap ELSE room
          /\ IF n = 0 THEN Done ELSE left' = n /\ UNCHANGED todo
  BY DEF ReadCount
<1>3. n \in Nat /\ TypeOK /\ TodoInv /\ GivenInv /\ RoomInv
  BY SizesAssumption DEF IInv
<1>4. /\ todo \in Seq(Sections) /\ Len(todo) \in Nat \ {0} /\ 1 \in 1 .. Len(todo) /\ todo[1] = s
  <2>1. todo \in Seq(Sections)
    BY <1>3 DEF TypeOK
  <2>2. Len(todo) \in Nat \ {0} /\ Head(todo) = todo[1]
    BY <1>1, <2>1, TailFacts
  <2> QED
    BY <1>1, <2>1, <2>2
<1>5. s \notin given
  BY <1>1, <1>3, <1>4 DEF TodoInv
<1>6. TodoInv' /\ GivenInv' /\ todo' \in Seq(Sections) /\ given' \subseteq Sections
  <2>1. CASE n = 0
    <3>1. Done
      BY <1>2, <2>1
    <3> QED
      BY <1>1, <1>3, <3>1, DoneKeeps
  <2>2. CASE n # 0
    <3>1. left' = n /\ todo' = todo
      BY <1>2, <2>2
    <3>2. \A i \in 1 .. Len(todo) : i > 1 => todo[i] # s /\ todo[i] \notin given
      BY <1>3, <1>4 DEF TodoInv
    <3>3. \A j \in 1 .. Len(todo) : "reloc" \in given' => todo[j] # "reloc3"
      <4>1. SUFFICES ASSUME NEW j \in 1 .. Len(todo), s = "reloc" PROVE todo[j] # "reloc3"
        BY <1>1, <1>3 DEF TodoInv
      <4>2. CASE j = 1
        BY <1>4, <4>1, <4>2
      <4>3. CASE j # 1
        BY <1>3, <1>4, <4>1, <4>3 DEF TodoInv
      <4> QED
        BY <4>2, <4>3
    <3>4. TodoInv'
      BY <1>1, <1>3, <2>2, <3>1, <3>2, <3>3 DEF TodoInv
    <3>5. GivenInv'
      BY <1>1, <1>3, <3>1 DEF GivenInv
    <3> QED
      BY <1>1, <1>3, <1>4, <3>1, <3>4, <3>5 DEF TypeOK
  <2> QED
    BY <2>1, <2>2
<1>7. ShortInv'
  <2>1. ~short
    <3>1. pos \in Nat /\ size \in Nat
      BY <1>3 DEF TypeOK
    <3>2. pos # size
      BY <1>1, <3>1 DEF Fits
    <3> QED
      BY <1>1, <3>2 DEF IInv, ShortInv
  <2> QED
    BY <1>1, <2>1 DEF ShortInv
<1>8. RoomInv'
  <2>1. SUFFICES ASSUME passes = 0
                 PROVE  /\ "reloc" \notin given' => reach = 0
                        /\ "reloc" \in given' =>
                              /\ room' = (num'["reloc"] + num'["reloc3"]) % Wrap
                              /\ reach <= num'["reloc"]
                              /\ left' > 0 /\ Head(todo') = "reloc" => reach + left' <= num'["reloc"]
    BY <1>1 DEF RoomInv
  <2>2. num \in [Kept -> 0 .. (Wrap - 1)] /\ left' \in {0, n} /\ (left' > 0 => todo' = todo)
    BY <1>2, <1>3 DEF TypeOK, Done
  <2>3. CASE s = "reloc"
    <3>1. reach = 0
      BY <1>3, <1>5, <2>1, <2>3 DEF RoomInv
    <3>2. num'["reloc"] = n /\ num'["reloc3"] = num["reloc3"] /\ room' = (n + num["reloc3"]) % Wrap
      BY <1>2, <2>2, <2>3 DEF Kept
    <3>3. "reloc" \in given'
      BY <1>1, <2>3
    <3>4. room' = (num'["reloc"] + num'["reloc3"]) % Wrap
      BY <3>2
    <3>5. n \in Nat
      BY <1>3
    <3>6. n <= n /\ 0 <= n /\ 0 + 0 <= n /\ 0 + n <= n
      BY <3>5
    <3>7. 0 <= num'["reloc"] /\ 0 + left' <= num'["reloc"]
      BY <2>2, <3>2, <3>6
    <3> QED
      BY <3>1, <3>3, <3>4, <3>7
  <2>4. CASE s = "reloc3"
    <3>1. "reloc" \notin given'
      BY <1>1, <1>3, <1>4, <2>4 DEF TodoInv
    <3> QED
      BY <1>1, <1>3, <2>1, <2>4, <3>1 DEF RoomInv
  <2>5. CASE s \notin {"reloc", "reloc3"}
    <3>1. num'["reloc"] = num["reloc"] /\ num'["reloc3"] = num["reloc3"] /\ room' = room
      BY <1>2, <2>2, <2>5 DEF Kept
    <3>2. "reloc" \in given' <=> "reloc" \in given
      BY <1>1, <2>5
    <3> QED
      BY <1>1, <1>3, <2>1, <2>2, <2>5, <3>1, <3>2 DEF RoomInv
  <2> QED
    BY <2>3, <2>4, <2>5
<1> QED
  BY <1>6, <1>7, <1>8

LEMMA RecordStep ==
    ASSUME IInv, NEW s \in Sections, ReadRecord(s)
    PROVE  /\ TodoInv' /\ GivenInv' /\ ShortInv' /\ RoomInv'
           /\ todo' \in Seq(Sections) /\ given' \subseteq Sections
<1>1. /\ status = "reading" /\ todo # <<>> /\ Head(todo) = s /\ left > 0
      /\ IF left = 1 THEN Done ELSE left' = left - 1 /\ UNCHANGED todo
      /\ reach' = IF s = "reloc" THEN reach + 1 ELSE reach
      /\ UNCHANGED <<size, version, status, num, given, short, room, passes>>
  BY DEF ReadRecord, Reading
<1>2. TypeOK /\ TodoInv /\ GivenInv /\ RoomInv /\ left \in Nat
  BY SizesAssumption DEF IInv, TypeOK
<1>3. given = given \cup {Head(todo)}
  BY <1>1, <1>2 DEF TodoInv
<1>4. TodoInv' /\ GivenInv' /\ todo' \in Seq(Sections) /\ given' \subseteq Sections
  <2>1. CASE left = 1
    <3>1. Done /\ given' = given \cup {Head(todo)} /\ status' = "reading"
      BY <1>1, <1>3, <2>1
    <3> QED
      BY <1>1, <1>2, <3>1, DoneKeeps
  <2>2. CASE left # 1
    <3>1. left' = left - 1 /\ todo' = todo /\ left' > 0
      BY <1>1, <1>2, <2>2
    <3> QED
      BY <1>1, <1>2, <3>1 DEF TodoInv, GivenInv, TypeOK
  <2> QED
    BY <2>1, <2>2
<1>5. ShortInv'
  <2>1. ~short
    BY <1>1 DEF IInv, ShortInv
  <2> QED
    BY <1>1, <2>1 DEF ShortInv
<1>6. RoomInv'
  <2>1. /\ left' \in {0, left - 1} /\ (left' > 0 => todo' = todo)
        /\ num["reloc"] \in Nat /\ reach \in Nat
    BY <1>1, <1>2, SizesAssumption DEF Done, TypeOK, Kept
  <2>2. CASE s = "reloc"
    <3>1. "reloc" \in given
      BY <1>1, <1>2, <2>2 DEF TodoInv
    <3> QED
      BY <1>1, <1>2, <2>1, <2>2, <3>1 DEF RoomInv
  <2>3. CASE s # "reloc"
    BY <1>1, <1>2, <2>1, <2>3 DEF RoomInv
  <2> QED
    BY <2>2, <2>3
<1> QED
  BY <1>4, <1>5, <1>6

LEMMA RecordFailsStep ==
    ASSUME IInv, NEW s \in Sections, RecordFails(s)
    PROVE  /\ TodoInv' /\ GivenInv' /\ ShortInv' /\ RoomInv'
           /\ todo' \in Seq(Sections) /\ given' \subseteq Sections
<1>1. /\ status = "reading" /\ todo # <<>> /\ Head(todo) = s /\ left > 0
      /\ Short /\ UNCHANGED <<size, version, num, given, room, reach, passes>>
      /\ Fail \/ (s = "symbols" /\ Done /\ UNCHANGED status)
  BY DEF RecordFails, Reading
<1>2. TypeOK /\ TodoInv /\ GivenInv /\ RoomInv
  BY DEF IInv
<1>3. CASE Fail
  BY <1>1, <1>2, <1>3, FailKeeps DEF Fail, TypeOK
<1>4. CASE s = "symbols" /\ Done /\ UNCHANGED status
  <2>1. given' = given \cup {Head(todo)}
    BY <1>1, <1>2 DEF TodoInv
  <2>2. TodoInv' /\ GivenInv' /\ todo' \in Seq(Sections) /\ given' \subseteq Sections
    BY <1>1, <1>2, <1>4, <2>1, DoneKeeps
  <2>3. todo' # <<>> /\ left' = 0
    BY <1>1, <1>2, <1>4, DoneFacts
  <2>4. ShortInv'
    BY <1>1, <1>4, <2>3 DEF ShortInv, Short
  <2>5. RoomInv'
    BY <1>1, <1>2, <2>3, RoomKeeps
  <2> QED
    BY <2>2, <2>4, <2>5
<1> QED
  BY <1>1, <1>3, <1>4

LEMMA NextStep ==
    ASSUME IInv, Next
    PROVE  IInv'
<1>1. NumbersOK
  BY NumberTypes DEF IInv
<1>2. ASSUME todo' \in Seq(Sections), given' \subseteq Sections PROVE TypeOK'
  BY <1>1, <1>2 DEF IInv, TypeOK, NumbersOK
<1>3. todo \in Seq(Sections) /\ given \subseteq Sections
  BY DEF IInv, TypeOK
<1>4. NewInv'
  BY DEF Next, Open, OpenFails, NoMemory, Loaded, Complete, ReadBytes, ReadCount, CountFails, ReadRecord,
    RecordFails, Reading, Fail, NewInv
<1>5. CASE Open
  BY <1>2, <1>4, <1>5, OpenStep DEF IInv
<1>6. CASE OpenFails \/ NoMemory
  BY <1>2, <1>3, <1>4, <1>6, FailKeeps DEF OpenFails, NoMemory, IInv
<1>7. CASE Loaded
  <2>1. status' = "loaded" /\ todo = <<>> /\ status = "reading"
        /\ UNCHANGED <<size, version, pos, todo, left, num, given, short, room, reach, passes>>
    BY <1>7 DEF Loaded
  <2>2. Len(todo) = 0
    BY <1>3, <2>1, EmptySeq
  <2>3. given = Sections
    <3>1. \A s \in Sections : s \in given
      BY <2>1, <2>2 DEF IInv, GivenInv
    <3> QED
      BY <1>3, <3>1
  <2>4. ~short
    BY <2>1 DEF IInv, ShortInv
  <2>5. TodoInv' /\ RoomInv'
    BY <2>1 DEF IInv, TodoInv, RoomInv
  <2>6. GivenInv' /\ ShortInv'
    BY <2>1, <2>3, <2>4 DEF GivenInv, ShortInv
  <2> QED
    BY <1>2, <1>3, <1>4, <2>1, <2>5, <2>6 DEF IInv
<1>8. CASE Complete
  <2>1. status = "loaded" /\ status' \in {"loaded", "failed"} /\ passes' # 0
        /\ UNCHANGED <<todo, left, given, short>>
    BY <1>8 DEF Complete, IInv, TypeOK
  <2>2. TodoInv' /\ GivenInv' /\ ShortInv' /\ RoomInv'
    BY <2>1 DEF IInv, TodoInv, GivenInv, ShortInv, RoomInv
  <2> QED
    BY <1>2, <1>3, <1>4, <2>1, <2>2 DEF IInv
<1>9. ASSUME NEW s \in Sections, ReadBytes(s) PROVE IInv'
  BY <1>2, <1>4, <1>9, BytesStep DEF IInv
<1>10. ASSUME NEW s \in Sections, ReadCount(s) PROVE IInv'
  BY <1>2, <1>4, <1>10, CountStep DEF IInv
<1>11. ASSUME NEW s \in Sections, CountFails(s) PROVE IInv'
  <2>1. status' = "failed" /\ UNCHANGED <<todo, left, num, given, room, reach, passes>>
    BY <1>11 DEF CountFails, Fail
  <2> QED
    BY <1>2, <1>3, <1>4, <2>1, FailKeeps DEF IInv
<1>12. ASSUME NEW s \in Sections, ReadRecord(s) PROVE IInv'
  BY <1>2, <1>4, <1>12, RecordStep DEF IInv
<1>13. ASSUME NEW s \in Sections, RecordFails(s) PROVE IInv'
  BY <1>2, <1>4, <1>13, RecordFailsStep DEF IInv
<1> QED
  BY <1>5, <1>6, <1>7, <1>8, <1>9, <1>10, <1>11, <1>12, <1>13 DEF Next

LEMMA Invariance == Spec => []IInv
<1>1. Init => IInv
  <2>1. SUFFICES ASSUME Init PROVE IInv
    OBVIOUS
  <2>2. todo \in Seq(Sections) /\ todo = <<>> /\ Len(todo) = 0
    BY <2>1, EmptySeq DEF Init
  <2>3. Wrap \in Nat \ {0} /\ size \in Nat
    BY <2>1, SizesAssumption DEF Init
  <2>4. 0 \in 0 .. size /\ 0 \in 0 .. (Wrap - 1)
    BY <2>3
  <2>5. num \in [Kept -> 0 .. (Wrap - 1)]
    BY <2>1, <2>4 DEF Init
  <2>6. given \subseteq Sections /\ version \in Versions
    BY <2>1 DEF Init
  <2>7. pos \in 0 .. size /\ left \in 0 .. (Wrap - 1) /\ room \in 0 .. (Wrap - 1)
    <3>1. pos = 0 /\ left = 0 /\ room = 0
      BY <2>1 DEF Init
    <3> QED
      BY <2>4, <3>1, Zenon
  <2>8. status = "new" /\ short \in BOOLEAN /\ reach \in Nat /\ passes \in 0 .. 2
    <3>1. status = "new" /\ short = FALSE /\ reach = 0 /\ passes = 0
      BY <2>1, Zenon DEF Init
    <3>2. short \in BOOLEAN
      BY <3>1, Zenon
    <3>3. reach \in Nat /\ passes \in 0 .. 2
      BY <3>1
    <3> QED
      BY <3>1, <3>2, <3>3
  <2>9. TypeOK
    BY <2>2, <2>3, <2>5, <2>6, <2>7, <2>8 DEF TypeOK
  <2>10. TodoInv
    BY <2>1, <2>2 DEF Init, TodoInv
  <2>11. GivenInv /\ ShortInv /\ RoomInv /\ NewInv
    BY <2>1 DEF Init, GivenInv, ShortInv, RoomInv, NewInv
  <2> QED
    BY <2>9, <2>10, <2>11 DEF IInv
<1>2. IInv /\ UNCHANGED vars => IInv'
  BY DEF vars, IInv, TypeOK, TodoInv, GivenInv, ShortInv, RoomInv, NewInv
<1>3. IInv /\ [Next]_vars => IInv'
  BY <1>2, NextStep
<1> QED
  BY <1>1, <1>3, PTL DEF Spec
-----------------------------------------------------------------------------
(* Theorems. *)

\* The state has its types: no reader goes beyond the end of the file.
THEOREM TypeCorrect == Spec => []TypeOK
<1>1. IInv => TypeOK
  BY DEF IInv
<1> QED
  BY <1>1, Invariance, PTL

\* No file that ends too early is loaded, in spite of patch_file.c:504, and
\* every member of struct patch has a value when the patch is loaded.
THEOREM LoadsWhole == Spec => []LoadedWhole
<1>1. IInv => LoadedWhole
  BY DEF IInv, ShortInv, GivenInv, LoadedWhole
<1> QED
  BY <1>1, Invariance, PTL

\* The array of relocations is long enough for one loop over relocs3.
THEOREM RelocsHaveRoom == Spec => RelocsFit
<1>1. IInv /\ [Next]_vars =>
          [passes = 0 /\ passes' = 1 /\ num["reloc"] + num["reloc3"] < Wrap
               => reach' <= room /\ num'["reloc"] <= room]_vars
  <2>1. SUFFICES ASSUME IInv, Next, passes = 0, passes' = 1, num["reloc"] + num["reloc3"] < Wrap
                 PROVE  reach' <= room /\ num'["reloc"] <= room
    BY DEF vars
  <2>2. Complete
    BY <2>1 DEF Next, Open, OpenFails, NoMemory, Loaded, ReadBytes, ReadCount, CountFails, ReadRecord,
      RecordFails
  <2>3. /\ num \in [Kept -> 0 .. (Wrap - 1)] /\ Wrap \in Nat \ {0} /\ reach \in Nat
        /\ num["reloc"] \in 0 .. (Wrap - 1) /\ num["reloc3"] \in 0 .. (Wrap - 1)
    BY <2>1, SizesAssumption DEF IInv, TypeOK, Kept
  <2>4. (num["reloc"] + num["reloc3"]) % Wrap = num["reloc"] + num["reloc3"]
    BY <2>1, <2>3, ModFacts
  <2>5. room = num["reloc"] + num["reloc3"] /\ reach <= num["reloc"]
    <3>1. "reloc" \in given
      BY <2>1, <2>2 DEF Complete, IInv, GivenInv, Sections, RecordSections
    <3> QED
      BY <2>1, <2>4, <3>1 DEF IInv, RoomInv
  <2>6. num'["reloc"] \in {num["reloc"], num["reloc"] + num["reloc3"]}
    BY <2>2, <2>3, <2>4 DEF Complete, Kept
  <2>7. reach' <= room
    <3>1. PICK m \in 0 .. num["reloc3"] : reach' = Larger(reach, num["reloc"] + m)
      <4>1. num["reloc3"] \in 0 .. num["reloc3"]
            /\ \A i \in 0 .. (num["reloc3"] - 1) : i \in 0 .. num["reloc3"]
        BY <2>3
      <4> QED
        BY <2>2, <4>1 DEF Complete
    <3> QED
      BY <2>3, <2>5, <3>1 DEF Larger
  <2> QED
    BY <2>3, <2>5, <2>6, <2>7
<1> QED
  BY <1>1, Invariance, PTL DEF Spec, RelocsFit
-----------------------------------------------------------------------------
(* The loader ends.  The readers loop over counts that the file gives, but *)
(* every record has bytes of its own: it is the size of the file that      *)
(* bounds the loops, not what it says.                                     *)

\* How often a loader can go on: it reads a byte at least, or ends a section,
\* or goes over to what follows the reading.
StepsLeft ==
    CASE status = "new" -> size + 10
      [] status = "reading" -> (size - pos) + Len(todo) + 3
      [] status = "loaded" -> 2 - passes
      [] OTHER -> 0

LEMMA OrderLength ==
    ASSUME NEW v \in Versions
    PROVE  Len(Order(v)) \in 0 .. 14
<1>1. v \in 2 .. 5
  BY DEF Versions
<1> QED
  BY <1>1 DEF Order

\* Where the file and the list of sections are after a step of a reader.
LEMMA ReaderMoves ==
    ASSUME IInv, NEW s \in Sections,
           ReadBytes(s) \/ ReadCount(s) \/ CountFails(s) \/ ReadRecord(s) \/ RecordFails(s)
    PROVE  /\ status = "reading" /\ size' = size
           /\ \/ status' = "failed"
              \/ status' = "reading" /\ pos' > pos /\ Len(todo') <= Len(todo)
              \/ status' = "reading" /\ pos' >= pos /\ Len(todo') < Len(todo)
<1>1. /\ pos \in Int /\ size \in Int /\ pos <= size /\ Width(s) \in Nat \ {0}
      /\ \A n \in Variable(s) : n \in Nat
      /\ todo \in Seq(Sections)
  BY WidthFacts DEF IInv, TypeOK
<1>2. status = "reading" /\ size' = size /\ todo # <<>>
  BY DEF ReadBytes, ReadCount, CountFails, ReadRecord, RecordFails, Reading
<1>3. Len(todo) \in Nat \ {0} /\ (Done => Len(todo') = Len(todo) - 1)
  BY <1>1, <1>2, TailFacts DEF Done
<1>4. CASE ReadBytes(s)
  <2>1. PICK n \in Variable(s) : (Done /\ pos' = pos + Width(s) + n /\ status' = status) \/ Fail
    BY <1>4 DEF ReadBytes
  <2> QED
    BY <1>1, <1>2, <1>3, <2>1 DEF Fail
<1>5. CASE ReadCount(s)
  BY <1>1, <1>2, <1>3, <1>5 DEF ReadCount
<1>6. CASE ReadRecord(s)
  <2>1. PICK n \in Variable(s) : pos' = pos + Width(s) + n
    BY <1>6 DEF ReadRecord
  <2>2. status' = status /\ (Done \/ todo' = todo)
    BY <1>6 DEF ReadRecord
  <2> QED
    BY <1>1, <1>2, <1>3, <2>1, <2>2
<1>7. CASE CountFails(s)
  BY <1>2, <1>7 DEF CountFails, Fail
<1>8. CASE RecordFails(s)
  <2>1. pos' = size /\ (Fail \/ (Done /\ status' = status))
    BY <1>8 DEF RecordFails, Short
  <2> QED
    BY <1>1, <1>2, <1>3, <2>1 DEF Fail
<1> QED
  BY <1>4, <1>5, <1>6, <1>7, <1>8

LEMMA StepsLeftNat == IInv => StepsLeft \in Nat
<1>1. SUFFICES ASSUME IInv PROVE StepsLeft \in Nat
  OBVIOUS
<1>2. /\ status \in {"new", "reading", "loaded", "failed", "exited"}
      /\ size \in Nat /\ pos \in 0 .. size /\ passes \in 0 .. 2 /\ Len(todo) \in Nat
  BY <1>1 DEF IInv, TypeOK
<1> QED
  BY <1>2 DEF StepsLeft

LEMMA StepsLeftFalls ==
    ASSUME IInv, IInv', Next
    PROVE  StepsLeft' < StepsLeft
<1>1. /\ size \in Nat /\ pos \in 0 .. size /\ passes \in 0 .. 2 /\ Len(todo) \in Nat
      /\ size' \in Nat /\ pos' \in 0 .. size' /\ passes' \in 0 .. 2 /\ Len(todo') \in Nat
  BY DEF IInv, TypeOK
<1>2. CASE Open
  <2>1. /\ status = "new" /\ status' = "reading" /\ size' = size /\ pos' = 8
        /\ todo' = Order(version) /\ version \in Versions
    BY <1>2 DEF Open, CookieLen, IInv, TypeOK
  <2>2. Len(todo') \in 0 .. 14
    BY <2>1, OrderLength
  <2>3. StepsLeft = size + 10
    BY <2>1 DEF StepsLeft
  <2>4. StepsLeft' = (size' - pos') + Len(todo') + 3
    BY <2>1 DEF StepsLeft
  <2>5. size' = size /\ pos' = 8
    BY <2>1
  <2>6. PICK n \in 0 .. 14 : n = Len(todo')
    BY <2>2
  <2>7. StepsLeft' = (size - 8) + n + 3
    BY <2>4, <2>5, <2>6
  <2>8. (size - 8) + n + 3 < size + 10
    BY <1>1
  <2> QED
    BY <2>3, <2>7, <2>8
<1>3. CASE OpenFails
  <2>1. status = "new" /\ status' = "failed"
    BY <1>3 DEF OpenFails
  <2>2. StepsLeft = size + 10 /\ StepsLeft' = 0
    BY <2>1 DEF StepsLeft
  <2> QED
    BY <1>1, <2>2
<1>4. CASE NoMemory
  <2>1. status = "reading" /\ status' = "exited"
    BY <1>4 DEF NoMemory
  <2>2. StepsLeft = (size - pos) + Len(todo) + 3 /\ StepsLeft' = 0
    BY <2>1 DEF StepsLeft
  <2> QED
    BY <1>1, <2>2
<1>5. CASE Loaded
  <2>1. status = "reading" /\ status' = "loaded"
    BY <1>5 DEF Loaded
  <2>2. StepsLeft = (size - pos) + Len(todo) + 3 /\ StepsLeft' = 2 - passes'
    BY <2>1 DEF StepsLeft
  <2> QED
    BY <1>1, <2>2
<1>6. CASE Complete
  <2>1. /\ status = "loaded" /\ status' \in {"loaded", "failed"} /\ passes' = passes + 1
        /\ passes \in {0, 1}
    BY <1>6 DEF Complete
  <2>2. StepsLeft = 2 - passes /\ StepsLeft' \in {0, 2 - passes'}
    BY <2>1 DEF StepsLeft
  <2> QED
    BY <1>1, <2>1, <2>2
<1>7. ASSUME NEW s \in Sections,
             ReadBytes(s) \/ ReadCount(s) \/ CountFails(s) \/ ReadRecord(s) \/ RecordFails(s)
      PROVE  StepsLeft' < StepsLeft
  <2>1. /\ status = "reading" /\ size' = size
        /\ \/ status' = "failed"
           \/ status' = "reading" /\ pos' > pos /\ Len(todo') <= Len(todo)
           \/ status' = "reading" /\ pos' >= pos /\ Len(todo') < Len(todo)
    BY <1>7, ReaderMoves
  <2>2. StepsLeft = (size - pos) + Len(todo) + 3
    BY <2>1 DEF StepsLeft
  <2>3. status' = "failed" => StepsLeft' = 0
    BY DEF StepsLeft
  <2>4. status' = "reading" => StepsLeft' = (size' - pos') + Len(todo') + 3
    BY DEF StepsLeft
  <2> QED
    BY <1>1, <2>1, <2>2, <2>3, <2>4
<1> QED
  BY <1>2, <1>3, <1>4, <1>5, <1>6, <1>7 DEF Next

\* No counts and lengths keep the loader reading: after size + 10 steps, at
\* most, of the reading and of the loops over relocs3 a patch file has been
\* loaded, refused or given up.
THEOREM LoadBounded ==
    Spec => /\ StepsLeft = size + 10
            /\ [](StepsLeft \in Nat)
            /\ [][StepsLeft' < StepsLeft]_vars
<1>1. Init => StepsLeft = size + 10
  BY DEF Init, StepsLeft
<1>2. IInv /\ IInv' /\ [Next]_vars => [StepsLeft' < StepsLeft]_vars
  BY StepsLeftFalls
<1> QED
  BY <1>1, <1>2, StepsLeftNat, Invariance, PTL DEF Spec
=============================================================================
