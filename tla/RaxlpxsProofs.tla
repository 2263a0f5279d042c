---------------------------- MODULE RaxlpxsProofs ----------------------------
(***************************************************************************)
(* What a command of raxlpxs has found out holds until it has acted on it, *)
(* for any number of commands, files and command lines.  The argument is   *)
(* the order of the queue: only the command at its head sends messages, so *)
(* only that one changes what is applied, and a command that is not at the *)
(* head has not searched for anything yet, or never gets another reply.    *)
(***************************************************************************)
EXTENDS Raxlpxs, SequenceTheorems, WellFoundedInduction,
    FiniteSetTheorems, TLAPS

Places == {"new", "info", "list", "find", "apply", "version", "date", "search", "deps", "send",
           "undo", "done", "closed", "killed"}

\* A command searches for a patch, and has one to search for.
GoalInv(c) ==
    /\ at[c] \in {"apply", "version"} => opts[c].apply \in Patches
    /\ at[c] \in {"search", "deps", "send"} => goal[c] # "none"
    /\ at[c] = "deps" => goal[c] # "undo"
    /\ goal[c] \in {"apply4", "apply3"} => opts[c].apply \in Patches
    /\ goal[c] = "undo" => opts[c].hash \in Patches /\ opts[c].undo
    /\ at[c] = "undo" => opts[c].undo

\* Its options are those of a command line.
LineInv == \A c \in Commands : \E line \in CommandLines : opts[c] = ReadOptions(line)

\* A command is in the queue once, and behind the head only before its first search.
QueueInv ==
    /\ \A i, j \in 1 .. Len(queue) : queue[i] = queue[j] => i = j
    /\ \A i \in 1 .. Len(queue) : at[queue[i]] # "new"
    /\ \A i \in 2 .. Len(queue) : at[queue[i]] \notin {"deps", "send"}

\* A command that is going to list has printed nothing, unless listings are full.
PrintedInv ==
    /\ \A c \in Commands : at[c] = "new" => printed[c] = <<>>
    /\ \A i \in 1 .. Len(queue) :
          at[queue[i]] \in {"info", "list"} /\ (i = 1 => Len(Listed) < MaxList3)
              => printed[queue[i]] = <<>>

IInv ==
    /\ TypeOK
    /\ \A c \in Commands : GoalInv(c)
    /\ QueueInv
    /\ PrintedInv
    /\ AppliedOnce
    /\ SearchStillTrue
    /\ LineInv
-----------------------------------------------------------------------------
(* What the helpers return. *)

LEMMA OptionFacts ==
    ASSUME TypeOK, NEW c \in Commands
    PROVE  /\ opts[c].apply \in Patches \cup {NoPatch}
           /\ opts[c].hash \in Patches \cup {NoPatch}
           /\ opts[c] \in AllOptions
<1>1. opts[c] \in AllOptions
  BY ConstantsAssumption DEF TypeOK
<1> QED
  BY <1>1 DEF AllOptions, AnyHash

\* A set of indices has a last one.
LEMMA LastIndex ==
    ASSUME NEW n \in Nat, NEW T \in SUBSET (1 .. n), T # {}
    PROVE  \E i \in T : \A j \in T : j <= i
<1> DEFINE Above(i) == {j \in T : j > i}
           Up == {Above(i) : i \in T}
<1>1. Up \subseteq FiniteSubsetsOf(T) /\ Up # {}
  <2>1. IsFiniteSet(1 .. n)
    BY FS_Interval
  <2>2. \A i \in T : Above(i) \subseteq T /\ IsFiniteSet(Above(i))
    BY <2>1, FS_Subset
  <2> QED
    BY <2>2 DEF FiniteSubsetsOf
<1>2. PICK u \in Up : \A w \in Up : <<w, u>> \notin StrictSubsetOrdering(T)
  <2>1. IsWellFoundedOn(StrictSubsetOrdering(T), FiniteSubsetsOf(T))
    BY FS_StrictSubsetOrderingWellFounded
  <2> HIDE DEF Up
  <2> QED
    BY <1>1, <2>1, WFMin
<1>3. PICK i \in T : u = Above(i)
  OBVIOUS
<1>4. ASSUME NEW j \in T, ~(j <= i) PROVE FALSE
  <2>0. /\ \A k \in T : k \in Int
        /\ j > i
    BY <1>4
  <2>1. j \in Above(i) /\ j \notin Above(j)
    BY <2>0
  <2>2. \A k \in T : k > j => k > i
    BY <2>0
  <2>3. Above(j) \subseteq Above(i)
    BY <2>2
  <2>4. <<Above(j), u>> \in StrictSubsetOrdering(T)
    BY <1>3, <2>1, <2>3 DEF StrictSubsetOrdering
  <2> QED
    BY <1>2, <2>4
<1> QED
  BY <1>4

LEMMA ArgumentFacts ==
    ASSUME NEW line \in Seq(Option), NEW names
    PROVE  /\ Argument(line, names) \in AnyHash
           /\ Given(line, names) =>
                 \E i \in 1 .. Len(line) :
                     /\ line[i].name \in names
                     /\ \A j \in 1 .. Len(line) : line[j].name \in names => j <= i
                     /\ Argument(line, names) = line[i].value
           /\ ~Given(line, names) => Argument(line, names) = NoPatch
<1>1. CASE ~Given(line, names)
  BY <1>1 DEF Argument, AnyHash
<1>2. CASE Given(line, names)
  <2>1. Len(line) \in Nat /\ \A i \in 1 .. Len(line) : line[i] \in Option
    BY ElementOfSeq
  <2>2. \E i \in 1 .. Len(line) :
            /\ line[i].name \in names
            /\ \A j \in 1 .. Len(line) : line[j].name \in names => j <= i
    <3>1. PICK T \in SUBSET (1 .. Len(line)) : T = {i \in 1 .. Len(line) : line[i].name \in names}
      OBVIOUS
    <3>2. T # {}
      BY <1>2, <3>1 DEF Given
    <3>3. \E i \in T : \A j \in T : j <= i
      BY <2>1, <3>2, LastIndex
    <3> QED
      BY <3>1, <3>3
  <2>3. PICK last \in 1 .. Len(line) :
            /\ line[last].name \in names
            /\ \A j \in 1 .. Len(line) : line[j].name \in names => j <= last
            /\ Argument(line, names) = line[last].value
    BY <1>2, <2>2 DEF Argument
  <2>4. line[last].value \in AnyHash
    BY <2>1, <2>3 DEF Option
  <2> QED
    BY <1>2, <2>3, <2>4
<1> QED
  BY <1>1, <1>2

\* What ReadOptions returns, and the cases in which one hash is that of one option.
LEMMA ReadFacts ==
    ASSUME NEW line \in CommandLines, NEW o, o = ReadOptions(line)
    PROVE  /\ o \in AllOptions
           /\ o.undo /\ ~o.find => o.hash = o.doomed
           /\ ~o.undo => o.hash = o.sought
<1>1. line \in Seq(Option)
  BY ConstantsAssumption
<1>2. \A names : Given(line, names) \in BOOLEAN /\ Argument(line, names) \in AnyHash
  <2>1. \A names : Given(line, names) \in BOOLEAN
    BY DEF Given
  <2>2. \A names : Argument(line, names) \in AnyHash
    BY <1>1, ArgumentFacts
  <2> QED
    BY <2>1, <2>2
<1>3. o \in AllOptions
  <2> DEFINE runs == Given(line, {"socket"}) /\ ~Given(line, {"help", "h"})
  <2>1. runs \in BOOLEAN
    OBVIOUS
  <2>2. /\ Given(line, {"info", "i", "u"}) \in BOOLEAN /\ Given(line, {"list", "l"}) \in BOOLEAN
        /\ Given(line, {"find", "f"}) \in BOOLEAN /\ Given(line, {"remove"}) \in BOOLEAN
    BY <1>2
  <2>3. /\ Argument(line, {"apply", "a"}) \in AnyHash
        /\ Argument(line, {"find", "f", "remove"}) \in AnyHash
        /\ Argument(line, {"find", "f"}) \in AnyHash /\ Argument(line, {"remove"}) \in AnyHash
    BY <1>2
  <2> QED
    BY <2>1, <2>2, <2>3 DEF ReadOptions, AllOptions
<1>4. ASSUME NEW names, NEW less, less \subseteq names, Given(line, less),
             \A i \in 1 .. Len(line) : line[i].name \in names => line[i].name \in less
      PROVE  Argument(line, names) = Argument(line, less)
  <2>1. PICK i \in 1 .. Len(line) :
            /\ line[i].name \in names
            /\ \A j \in 1 .. Len(line) : line[j].name \in names => j <= i
            /\ Argument(line, names) = line[i].value
    <3>1. Given(line, names)
      BY <1>4 DEF Given
    <3> QED
      BY <1>1, <3>1, ArgumentFacts
  <2>2. PICK k \in 1 .. Len(line) :
            /\ line[k].name \in less
            /\ \A j \in 1 .. Len(line) : line[j].name \in less => j <= k
            /\ Argument(line, less) = line[k].value
    BY <1>1, <1>4, ArgumentFacts
  <2>3. i <= k /\ k <= i
    BY <1>4, <2>1, <2>2
  <2>4. i = k
    BY <2>3
  <2> QED
    BY <2>1, <2>2, <2>4
<1>5. ASSUME o.undo, ~o.find PROVE o.hash = o.doomed
  <2>1. Given(line, {"remove"}) /\ ~Given(line, {"find", "f"})
    BY <1>5 DEF ReadOptions
  <2>2. \A i \in 1 .. Len(line) : line[i].name \in {"find", "f", "remove"} => line[i].name \in {"remove"}
    BY <2>1 DEF Given
  <2>3. Argument(line, {"find", "f", "remove"}) = Argument(line, {"remove"})
    BY <1>4, <2>1, <2>2
  <2> QED
    BY <2>3 DEF ReadOptions
<1>6. ASSUME ~o.undo PROVE o.hash = o.sought
  <2>1. ~Given(line, {"remove"})
    BY <1>6 DEF ReadOptions
  <2>2. \A i \in 1 .. Len(line) : line[i].name \in {"find", "f", "remove"} => line[i].name \in {"find", "f"}
    BY <2>1 DEF Given
  <2>3. CASE Given(line, {"find", "f"})
    <3>1. Argument(line, {"find", "f", "remove"}) = Argument(line, {"find", "f"})
      BY <1>4, <2>2, <2>3
    <3> QED
      BY <3>1 DEF ReadOptions
  <2>4. CASE ~Given(line, {"find", "f"})
    <3>1. ~Given(line, {"find", "f", "remove"})
      BY <2>2, <2>4 DEF Given
    <3>2. Argument(line, {"find", "f", "remove"}) = NoPatch /\ Argument(line, {"find", "f"}) = NoPatch
      BY <1>1, <2>4, <3>1, ArgumentFacts
    <3> QED
      BY <3>2 DEF ReadOptions
  <2> QED
    BY <2>3, <2>4
<1> QED
  BY <1>3, <1>5, <1>6

LEMMA OptionsTyped == {ReadOptions(line) : line \in CommandLines} \subseteq AllOptions
BY ReadFacts

LEMMA AfterFacts ==
    ASSUME NEW o, o.apply \in Patches \cup {NoPatch},
           NEW stage \in {"new", "info", "list", "find", "apply", "undo"}
    PROVE  /\ After(o, stage) \in {"info", "list", "find", "apply", "undo", "done"}
           /\ After(o, stage) = "apply" => o.apply \in Patches
           /\ After(o, stage) = "undo" => o.undo
           /\ After(o, stage) \in {"info", "list"} => stage \in {"new", "info"}
BY DEF After

LEMMA ListedFacts ==
    ASSUME applied \in Seq(Patches)
    PROVE  /\ Listed \in Seq(Patches)
           /\ Len(Listed) \in Nat
           /\ Len(Listed) <= MaxList
           /\ Len(Listed) < MaxList => Listed = applied
           /\ \A p : Holds(Listed, p) => Holds(applied, p)
<1>1. CASE Len(applied) <= MaxList
  BY <1>1 DEF Listed
<1>2. CASE ~(Len(applied) <= MaxList)
  <2>1. MaxList \in Nat /\ Len(applied) \in Nat
    BY ConstantsAssumption
  <2>2. Listed = SubSeq(applied, 1, MaxList)
    BY <1>2 DEF Listed
  <2>3. Listed \in Seq(Patches) /\ Len(Listed) = MaxList
    BY <1>2, <2>1, <2>2
  <2>4. \A i \in 1 .. Len(Listed) : i \in 1 .. Len(applied) /\ Listed[i] = applied[i]
    BY <1>2, <2>1, <2>2, <2>3
  <2>5. \A p : Holds(Listed, p) => Holds(applied, p)
    BY <2>4 DEF Holds
  <2> QED
    BY <2>1, <2>3, <2>5
<1> QED
  BY <1>1, <1>2

\* A sequence without its i-th element.
LEMMA RemoveFacts ==
    ASSUME NEW S, NEW q \in Seq(S), NEW i \in 1 .. Len(q),
           NEW w, w = [k \in 1 .. (Len(q) - 1) |-> IF k < i THEN q[k] ELSE q[k + 1]]
    PROVE  w \in Seq(S) /\ Len(w) = Len(q) - 1
<1>1. PICK n \in Nat : n = Len(q) - 1
  <2>1. Len(q) - 1 \in Nat
    OBVIOUS
  <2> QED
    BY <2>1
<1>2. w \in [1 .. n -> S]
  BY <1>1
<1>3. w \in Seq(S)
  BY <1>2, SeqDef
<1>4. Len(w) = n
  BY <1>2, <1>3
<1> QED
  BY <1>1, <1>3, <1>4

LEMMA WithoutFacts ==
    ASSUME applied \in Seq(Patches), AppliedOnce, NEW p \in Patches, Holds(applied, p)
    PROVE  /\ Without(p) \in Seq(Patches)
           /\ \A i, j \in 1 .. Len(Without(p)) : Without(p)[i] = Without(p)[j] => i = j
           /\ ~Holds(Without(p), p)
<1>1. PICK j \in 1 .. Len(applied) : applied[j] = p
  BY DEF Holds
<1>2. \A k \in 1 .. (j - 1) : applied[k] # p
  <2>1. Len(applied) \in Nat /\ \A k \in 1 .. (j - 1) : k \in 1 .. Len(applied) /\ k # j
    OBVIOUS
  <2> QED
    BY <1>1, <2>1 DEF AppliedOnce
<1>3. PICK i \in 1 .. Len(applied) :
          /\ applied[i] = p
          /\ Without(p) = [k \in 1 .. (Len(applied) - 1) |->
                              IF k < i THEN applied[k] ELSE applied[k + 1]]
  <2>1. \E m \in 1 .. Len(applied) : applied[m] = p /\ \A k \in 1 .. (m - 1) : applied[k] # p
    BY <1>1, <1>2
  <2> QED
    BY <2>1 DEF Without
<1>4. PICK w : w = Without(p)
  OBVIOUS
<1>5. w \in Seq(Patches) /\ Len(w) = Len(applied) - 1
  BY <1>3, <1>4, RemoveFacts
<1>6. PICK n \in Nat : n = Len(applied) /\ i \in 1 .. n
  OBVIOUS
<1>7. \A k, l \in 1 .. n : applied[k] = applied[l] => k = l
  BY <1>6 DEF AppliedOnce
<1>8. ASSUME NEW k \in 1 .. (n - 1)
      PROVE  \E m \in 1 .. n : m # i /\ w[k] = applied[m] /\ m = (IF k < i THEN k ELSE k + 1)
  <2>1. w[k] = IF k < i THEN applied[k] ELSE applied[k + 1]
    BY <1>3, <1>4, <1>6
  <2>2. CASE k < i
    BY <1>6, <2>1, <2>2
  <2>3. CASE ~(k < i)
    BY <1>6, <2>1, <2>3
  <2> QED
    BY <2>2, <2>3
<1>9. \A k \in 1 .. (n - 1) : w[k] # p
  BY <1>3, <1>6, <1>7, <1>8
<1>10. ASSUME NEW k \in 1 .. (n - 1), NEW l \in 1 .. (n - 1), w[k] = w[l]
       PROVE  k = l
  <2>1. PICK m \in 1 .. n : w[k] = applied[m] /\ m = (IF k < i THEN k ELSE k + 1)
    BY <1>8
  <2>2. PICK o \in 1 .. n : w[l] = applied[o] /\ o = (IF l < i THEN l ELSE l + 1)
    BY <1>8
  <2>3. m = o
    BY <1>7, <1>10, <2>1, <2>2
  <2> QED
    BY <1>6, <2>1, <2>2, <2>3
<1>11. \A k \in 1 .. Len(w) : k \in 1 .. (n - 1)
  BY <1>5, <1>6
<1> QED
  BY <1>4, <1>5, <1>9, <1>10, <1>11 DEF Holds

\* Without(p) loses nothing but p.
LEMMA WithoutOnly ==
    ASSUME applied \in Seq(Patches), NEW p \in Patches, Holds(applied, p),
           NEW q \in Patches, Holds(applied, q), ~Holds(Without(p), q), AppliedOnce
    PROVE  p = q
<1>1. PICK n \in Nat : n = Len(applied)
  OBVIOUS
<1>2. PICK i \in 1 .. n :
          /\ applied[i] = p
          /\ Without(p) = [k \in 1 .. (n - 1) |-> IF k < i THEN applied[k] ELSE applied[k + 1]]
  <2>1. PICK j \in 1 .. n : applied[j] = p
    BY <1>1 DEF Holds
  <2>2. \A k \in 1 .. (j - 1) : k \in 1 .. n /\ k # j
    OBVIOUS
  <2>3. \A k \in 1 .. (j - 1) : applied[k] # p
    BY <1>1, <2>1, <2>2 DEF AppliedOnce
  <2> QED
    BY <1>1, <2>1, <2>3 DEF Without
<1>3. PICK w : w = Without(p)
  OBVIOUS
<1>4. Len(w) = n - 1
  BY <1>1, <1>2, <1>3, RemoveFacts
<1>5. PICK j \in 1 .. n : applied[j] = q
  BY <1>1 DEF Holds
<1>6. CASE j < i
  <2>1. j \in 1 .. (n - 1) /\ w[j] = applied[j]
    BY <1>2, <1>3, <1>6
  <2> QED
    BY <1>3, <1>4, <1>5, <2>1 DEF Holds
<1>7. CASE j > i
  <2>1. PICK k \in 1 .. (n - 1) : k = j - 1
    BY <1>7
  <2>2. ~(k < i) /\ k + 1 = j
    BY <1>7, <2>1
  <2>3. w[k] = applied[j]
    BY <1>2, <1>3, <2>1, <2>2
  <2> QED
    BY <1>3, <1>4, <1>5, <2>1, <2>3 DEF Holds
<1> QED
  BY <1>2, <1>5, <1>6, <1>7

LEMMA PrependFacts ==
    ASSUME NEW S, NEW s \in Seq(S), NEW p \in S, NEW t, t = <<p>> \o s
    PROVE  /\ t \in Seq(S)
           /\ Len(t) = Len(s) + 1
           /\ t[1] = p
           /\ \A i \in 2 .. Len(t) : i - 1 \in 1 .. Len(s) /\ t[i] = s[i - 1]
<1>1. PICK h \in Seq(S) : h = <<p>>
  <2>1. <<p>> \in Seq(S)
    OBVIOUS
  <2> QED
    BY <2>1
<1>2. Len(h) = 1 /\ h[1] = p /\ t = h \o s
  BY <1>1
<1>3. t \in Seq(S) /\ Len(t) = 1 + Len(s)
  BY <1>2, ConcatProperties
<1>4. \A i \in 1 .. (1 + Len(s)) : t[i] = IF i <= 1 THEN h[i] ELSE s[i - 1]
  BY <1>2, ConcatProperties
<1> QED
  BY <1>2, <1>3, <1>4

LEMMA AskFacts ==
    ASSUME TypeOK, NEW c \in Commands, Ask(c)
    PROVE  /\ alive
           /\ queue # <<>>
           /\ Head(queue) = c
           /\ queue' = queue \/ queue' = Tail(queue)
           /\ count' \in 0 .. (Limit - 1)
<1>1. count \in 0 .. (Limit - 1) /\ Limit \in Nat \ {0}
  BY ConstantsAssumption DEF TypeOK
<1>2. count' \in 0 .. (Limit - 1)
  <2>1. CASE count + 1 < Limit
    BY <1>1, <2>1 DEF Ask
  <2>2. CASE ~(count + 1 < Limit)
    BY <1>1, <2>2 DEF Ask
  <2> QED
    BY <2>1, <2>2
<1> QED
  BY <1>2 DEF Ask
-----------------------------------------------------------------------------
(* What a step of one command leaves alone, and the types. *)

\* Where the commands are and what they have said.
Keeps(c) ==
    /\ at' \in [Commands -> Places]
    /\ said' \in [Commands -> [Says -> {"none", "ok", "error", "found", "not found", "unread"}]]
    /\ \A d \in Commands \ {c} : at'[d] = at[d] /\ said'[d] = said[d]

\* at and said after Finish.
LEMMA FinishFacts ==
    ASSUME TypeOK, NEW c \in Commands, NEW stage \in Says \ {"info"},
           NEW outcome \in {"ok", "error", "found", "not found", "unread"}, Finish(c, stage, outcome)
    PROVE  /\ Keeps(c)
           /\ at'[c] = After(opts[c], stage)
           /\ at'[c] \in {"find", "apply", "undo", "done"}
           /\ \A x \in Says : said'[c][x] = IF x = stage THEN outcome ELSE said[c][x]
<1>1. said' = [said EXCEPT ![c] = [said[c] EXCEPT ![stage] = outcome]]
  BY DEF Finish, Say
<1>2. said \in [Commands -> [Says -> {"none", "ok", "error", "found", "not found", "unread"}]]
  BY DEF TypeOK
<1>3. After(opts[c], stage) \in {"find", "apply", "undo", "done"}
  BY OptionFacts, AfterFacts DEF Says
<1>4. at' = [at EXCEPT ![c] = After(opts[c], stage)] /\ at \in [Commands -> Places]
  BY DEF Finish, Move, TypeOK, Places
<1>5. at' \in [Commands -> Places] /\ \A d \in Commands \ {c} : at'[d] = at[d]
  BY <1>3, <1>4 DEF Places
<1>6. /\ said' \in [Commands -> [Says -> {"none", "ok", "error", "found", "not found", "unread"}]]
      /\ \A d \in Commands \ {c} : said'[d] = said[d]
  BY <1>1, <1>2
<1>7. Keeps(c)
  BY <1>5, <1>6 DEF Keeps
<1> QED
  BY <1>1, <1>2, <1>3, <1>4, <1>7

\* Where a command goes on that could not read a reply.
LEMMA LookFacts ==
    ASSUME TypeOK, NEW c \in Commands, LookFails(c)
    PROVE  /\ Keeps(c)
           /\ Ask(c) /\ applied' = applied /\ alive' = alive
           /\ UNCHANGED <<opts, goal, dep, info, printed>>
           /\ at[c] \in {"info", "list", "find", "version", "date", "search", "deps"}
           /\ at'[c] \in {"date", "list", "find", "apply", "undo", "done"}
           /\ at'[c] = "list" => at[c] = "info"
           /\ at'[c] = "apply" => opts[c].apply \in Patches
           /\ at'[c] = "undo" => opts[c].undo
           /\ \A x \in Says : said'[c][x] \in {said[c][x], "unread"}
<1>1. Stage(c) \in Says
  BY DEF Stage, Says
<1>2. After(opts[c], Stage(c)) \in {"list", "find", "apply", "undo", "done"}
  <2>1. Stage(c) \in {"info", "list", "find", "apply", "undo"}
    BY <1>1 DEF Says
  <2> QED
    BY <2>1 DEF After
<1>3. /\ After(opts[c], Stage(c)) = "list" => at[c] \in {"info", "version"}
      /\ After(opts[c], Stage(c)) = "apply" => opts[c].apply \in Patches
      /\ After(opts[c], Stage(c)) = "undo" => opts[c].undo
  <2>1. Stage(c) = "info" => at[c] \in {"info", "version"}
    BY DEF Stage
  <2> QED
    BY <1>1, <2>1, OptionFacts, AfterFacts DEF Says
<1>4. said' = [said EXCEPT ![c] = [said[c] EXCEPT ![Stage(c)] = "unread"]]
  BY DEF LookFails, Say
<1>5. said \in [Commands -> [Says -> {"none", "ok", "error", "found", "not found", "unread"}]]
  BY DEF TypeOK
<1>6. /\ said' \in [Commands -> [Says -> {"none", "ok", "error", "found", "not found", "unread"}]]
      /\ \A d \in Commands \ {c} : said'[d] = said[d]
      /\ \A x \in Says : said'[c][x] \in {said[c][x], "unread"}
  BY <1>1, <1>4, <1>5
<1>7. PICK place \in Places : /\ Move(c, place)
                             /\ place = (IF at[c] = "version" THEN "date" ELSE After(opts[c], Stage(c)))
  BY <1>2 DEF LookFails, Places
<1>8. /\ at' \in [Commands -> Places] /\ at'[c] = place
      /\ \A d \in Commands \ {c} : at'[d] = at[d]
  BY <1>7 DEF Move, TypeOK, Places
<1>9. Keeps(c)
  BY <1>6, <1>8 DEF Keeps
<1>10. /\ Ask(c) /\ applied' = applied /\ alive' = alive
       /\ UNCHANGED <<opts, goal, dep, info, printed>>
       /\ at[c] \in {"info", "list", "find", "version", "date", "search", "deps"}
  BY DEF LookFails
<1> QED
  BY <1>2, <1>3, <1>6, <1>7, <1>8, <1>9, <1>10

\* The types of the rest of what they keep.
Framed(c) ==
    /\ opts' = opts
    /\ goal' \in [Commands -> {"none", "apply4", "apply3", "undo"}]
    /\ dep' \in [Commands -> Nat \ {0}]
    /\ info' \in [Commands -> BOOLEAN]
    /\ printed' \in [Commands -> Seq(Patches)]
    /\ \A d \in Commands \ {c} : goal'[d] = goal[d] /\ printed'[d] = printed[d]

LEMMA MoveKeeps ==
    ASSUME TypeOK, NEW c \in Commands, NEW place \in Places, Move(c, place), said' = said
    PROVE  Keeps(c)
BY DEF Keeps, TypeOK, Places, Move

LEMMA SameKeeps ==
    ASSUME TypeOK, NEW c \in Commands, UNCHANGED <<at, said>>
    PROVE  Keeps(c)
BY DEF Keeps, TypeOK, Places

LEMMA KeepsStep ==
    ASSUME TypeOK, NEW c \in Commands, Run(c) \/ Fault(c)
    PROVE  Keeps(c)
<1> USE DEF Places, Says
<1>0. \A stage \in {"new", "info", "list", "find", "apply", "undo"} : After(opts[c], stage) \in Places
  BY OptionFacts, AfterFacts
<1>1. CASE Start(c)
  BY <1>0, <1>1, MoveKeeps DEF Start
<1>2. CASE GetInfo(c)
  BY <1>0, <1>2, MoveKeeps DEF GetInfo
<1>3. CASE ListPage(c)
  BY <1>3, FinishFacts, SameKeeps DEF ListPage
<1>4. CASE Find(c)
  BY <1>4, FinishFacts DEF Find
<1>5. CASE Load(c)
  BY <1>5, FinishFacts, MoveKeeps DEF Load, Checked
<1>6. CASE GetVersion(c)
  BY <1>6, FinishFacts, MoveKeeps DEF GetVersion, Checked
<1>7. CASE Search(c)
  BY <1>7, FinishFacts, MoveKeeps, SameKeeps DEF Search
<1>8. CASE SearchDep(c)
  BY <1>8, FinishFacts, SameKeeps DEF SearchDep
<1>9. CASE Relocate(c)
  BY <1>9, FinishFacts, MoveKeeps DEF Relocate
<1>10. CASE SendApply(c)
  BY <1>10, MoveKeeps DEF SendApply
<1>11. CASE SendApply3(c)
  BY <1>11, FinishFacts DEF SendApply3
<1>12. CASE BeginUndo(c)
  BY <1>12, FinishFacts, MoveKeeps DEF BeginUndo
<1>13. CASE SendUndo(c)
  BY <1>13, FinishFacts DEF SendUndo
<1>14. CASE Close(c) \/ Refuse(c)
  BY <1>14, MoveKeeps DEF Close, Refuse
<1>15. CASE Kill(c)
  BY <1>15, MoveKeeps DEF Kill
<1>16. CASE Overrun(c)
  BY <1>16, MoveKeeps DEF Overrun
<1>17. CASE RefuseApply(c)
  BY <1>17, FinishFacts DEF RefuseApply
<1>18. CASE LookFails(c)
  BY <1>18, LookFacts
<1> QED
  BY <1>1, <1>2, <1>3, <1>4, <1>5, <1>6, <1>7, <1>8, <1>9, <1>10, <1>11, <1>12, <1>13, <1>14,
    <1>15, <1>16, <1>17, <1>18 DEF Run, Fault, NoRoom, Misread

LEMMA FramedStep ==
    ASSUME TypeOK, NEW c \in Commands, Run(c) \/ Fault(c)
    PROVE  Framed(c)
<1>1. CASE Start(c) \/ Find(c) \/ Relocate(c) \/ SendApply3(c) \/ SendUndo(c) \/ Close(c) \/ Refuse(c)
           \/ Kill(c) \/ Overrun(c) \/ RefuseApply(c) \/ LookFails(c)
  <2>1. UNCHANGED <<opts, goal, dep, info, printed>>
    BY <1>1 DEF Start, Find, Relocate, SendApply3, SendUndo, Close, Refuse, Kill, Overrun, RefuseApply, NoRoom, Misread, LookFails,
      server
  <2> QED
    BY <2>1 DEF Framed, TypeOK
<1>2. CASE GetInfo(c)
  BY <1>2 DEF Framed, TypeOK, GetInfo
<1>3. CASE ListPage(c)
  <2>1. printed[c] \o Listed \in Seq(Patches)
    <3>1. printed[c] \in Seq(Patches) /\ Listed \in Seq(Patches)
      BY ListedFacts DEF TypeOK
    <3> QED
      BY <3>1, ConcatProperties
  <2>2. /\ printed' = [printed EXCEPT ![c] = printed[c] \o Listed]
        /\ UNCHANGED <<opts, goal, dep, info>>
    BY <1>3 DEF ListPage
  <2> QED
    BY <2>1, <2>2 DEF Framed, TypeOK
<1>4. CASE Load(c)
  BY <1>4 DEF Framed, TypeOK, Load, Checked, server
<1>5. CASE GetVersion(c)
  BY <1>5 DEF Framed, TypeOK, GetVersion, Checked
<1>6. CASE Search(c)
  <2>1. /\ goal' = goal \/ goal' = [goal EXCEPT ![c] = "apply3"]
        /\ dep' = dep \/ dep' = [dep EXCEPT ![c] = 1]
        /\ UNCHANGED <<opts, info, printed>>
    BY <1>6 DEF Search
  <2>2. dep' \in [Commands -> Nat \ {0}]
    <3>1. dep \in [Commands -> Nat \ {0}]
      BY DEF TypeOK
    <3>2. 1 \in Nat \ {0}
      OBVIOUS
    <3> QED
      BY <2>1, <3>1, <3>2
  <2>3. /\ goal' \in [Commands -> {"none", "apply4", "apply3", "undo"}]
        /\ \A d \in Commands \ {c} : goal'[d] = goal[d]
    BY <2>1 DEF TypeOK
  <2> QED
    BY <2>1, <2>2, <2>3 DEF Framed, TypeOK
<1>7. CASE SearchDep(c)
  <2>1. /\ dep' = dep \/ dep' = [dep EXCEPT ![c] = dep[c] + 1]
        /\ UNCHANGED <<opts, goal, info, printed>>
    BY <1>7 DEF SearchDep
  <2>2. dep \in [Commands -> Nat \ {0}] /\ dep[c] + 1 \in Nat \ {0}
    <3>1. dep \in [Commands -> Nat \ {0}]
      BY DEF TypeOK
    <3>2. dep[c] \in Nat
      BY <3>1
    <3> QED
      BY <3>1, <3>2
  <2>3. dep' \in [Commands -> Nat \ {0}]
    BY <2>1, <2>2
  <2> QED
    BY <2>1, <2>3 DEF Framed, TypeOK
<1>8. CASE SendApply(c)
  BY <1>8 DEF Framed, TypeOK, SendApply
<1>9. CASE BeginUndo(c)
  BY <1>9 DEF Framed, TypeOK, BeginUndo, server
<1> QED
  BY <1>1, <1>2, <1>3, <1>4, <1>5, <1>6, <1>7, <1>8, <1>9 DEF Run, Fault, NoRoom, Misread
-----------------------------------------------------------------------------
(* What a step does to the queue and to the applied patches. *)

LEMMA QueueShape ==
    ASSUME TypeOK, NEW c \in Commands, Run(c) \/ Fault(c)
    PROVE  /\ count' \in 0 .. (Limit - 1)
           /\ \/ Start(c) /\ queue' = Append(queue, c)
              \/ queue' = queue
              \/ Ask(c) /\ queue' = Tail(queue)
<1>1. CASE Ask(c)
  BY <1>1, AskFacts
<1>2. CASE Start(c)
  BY <1>2 DEF Start, TypeOK
<1>3. CASE ~Ask(c) /\ ~Start(c)
  <2>1. queue' = queue /\ count' = count
    BY <1>3 DEF Run, Fault, GetInfo, ListPage, Find, Load, GetVersion, Search, SearchDep, Relocate,
      SendApply, SendApply3, BeginUndo, SendUndo, Close, Refuse, Kill, Overrun, RefuseApply, NoRoom, Misread, LookFails, server
  <2> QED
    BY <2>1 DEF TypeOK
<1> QED
  BY <1>1, <1>2, <1>3

LEMMA AppliedShape ==
    ASSUME TypeOK, NEW c \in Commands, Run(c) \/ Fault(c)
    PROVE  \/ applied' = applied
           \/ /\ Ask(c) /\ at[c] = "send" /\ goal[c] = "apply4"
              /\ applied' = <<opts[c].apply>> \o applied
           \/ /\ Ask(c) /\ at[c] = "send" /\ goal[c] = "undo"
              /\ Holds(applied, opts[c].hash) /\ applied' = Without(opts[c].hash)
<1>1. CASE SendApply(c)
  BY <1>1 DEF SendApply
<1>2. CASE SendUndo(c)
  BY <1>2 DEF SendUndo
<1>3. CASE ~SendApply(c) /\ ~SendUndo(c)
  BY <1>3 DEF Run, Fault, Start, GetInfo, ListPage, Find, Load, GetVersion, Search, SearchDep,
    Relocate, SendApply3, BeginUndo, Close, Refuse, Kill, Overrun, RefuseApply, NoRoom, Misread, LookFails, server
<1> QED
  BY <1>1, <1>2, <1>3

LEMMA AliveShape ==
    ASSUME TypeOK, NEW c \in Commands, Run(c) \/ Fault(c)
    PROVE  alive' \in BOOLEAN /\ (alive' => alive)
<1>1. CASE SendApply3(c) \/ RefuseApply(c)
  BY <1>1 DEF SendApply3, RefuseApply
<1>2. CASE ~SendApply3(c) /\ ~RefuseApply(c)
  <2>1. alive' = alive
    BY <1>2 DEF Run, Fault, Start, GetInfo, ListPage, Find, Load, GetVersion, Search, SearchDep,
      Relocate, SendApply, BeginUndo, SendUndo, Close, Refuse, Kill, Overrun, NoRoom, Misread, LookFails, server
  <2> QED
    BY <2>1 DEF TypeOK
<1> QED
  BY <1>1, <1>2

\* The applied patches stay a sequence without repetition.
LEMMA AppliedStep ==
    ASSUME TypeOK, AppliedOnce, SearchStillTrue, NEW c \in Commands, GoalInv(c), Run(c) \/ Fault(c)
    PROVE  applied' \in Seq(Patches) /\ AppliedOnce'
<1>1. CASE applied' = applied
  BY <1>1 DEF TypeOK, AppliedOnce
<1>2. CASE /\ Ask(c) /\ at[c] = "send" /\ goal[c] = "apply4"
           /\ applied' = <<opts[c].apply>> \o applied
  <2>1. opts[c].apply \in Patches /\ ~Holds(applied, opts[c].apply)
    BY <1>2, AskFacts DEF GoalInv, SearchStillTrue, Target
  <2>2. PICK p \in Patches : p = opts[c].apply
    BY <2>1
  <2>3. /\ applied' \in Seq(Patches)
        /\ Len(applied') = Len(applied) + 1
        /\ applied'[1] = p
        /\ \A i \in 2 .. Len(applied') : i - 1 \in 1 .. Len(applied) /\ applied'[i] = applied[i - 1]
    <3>1. applied \in Seq(Patches) /\ applied' = <<p>> \o applied
      BY <1>2, <2>2 DEF TypeOK
    <3> QED
      BY <3>1, PrependFacts
  <2>4. ASSUME NEW i \in 1 .. Len(applied'), NEW j \in 1 .. Len(applied'), applied'[i] = applied'[j]
        PROVE  i = j
    <3>1. \A k \in 1 .. Len(applied) : applied[k] # p
      BY <2>1, <2>2 DEF Holds
    <3>2. CASE i = 1 \/ j = 1
      BY <2>3, <2>4, <3>1, <3>2
    <3>3. CASE i # 1 /\ j # 1
      <4>1. i \in 2 .. Len(applied') /\ j \in 2 .. Len(applied')
        BY <3>3
      <4>2. applied[i - 1] = applied[j - 1]
        BY <2>3, <2>4, <4>1
      <4>3. i - 1 = j - 1
        BY <2>3, <4>1, <4>2 DEF AppliedOnce
      <4> QED
        BY <4>1, <4>3
    <3> QED
      BY <3>2, <3>3
  <2> QED
    BY <2>3, <2>4 DEF AppliedOnce
<1>3. CASE /\ Ask(c) /\ at[c] = "send" /\ goal[c] = "undo"
           /\ Holds(applied, opts[c].hash) /\ applied' = Without(opts[c].hash)
  <2>1. opts[c].hash \in Patches
    BY <1>3 DEF GoalInv
  <2>2. PICK q : q = Without(opts[c].hash)
    OBVIOUS
  <2>3. q \in Seq(Patches) /\ \A i, j \in 1 .. Len(q) : q[i] = q[j] => i = j
    BY <1>3, <2>1, <2>2, WithoutFacts DEF TypeOK
  <2> QED
    BY <1>3, <2>2, <2>3 DEF AppliedOnce
<1> QED
  BY <1>1, <1>2, <1>3, AppliedShape
-----------------------------------------------------------------------------
(* Where a step takes its command. *)

LEMMA PlaceStep ==
    ASSUME TypeOK, NEW c \in Commands, Run(c) \/ Fault(c)
    PROVE  /\ at'[c] # "new"
           /\ at[c] = "new" => Start(c) \/ Refuse(c)
           /\ at'[c] \in {"deps", "send"} => Ask(c) \/ at[c] = "deps"
<1>0. \A stage \in {"new", "info"} : After(opts[c], stage) \notin {"new", "deps", "send"}
  BY OptionFacts, AfterFacts
<1>1. ASSUME NEW place \in Places, Move(c, place) PROVE at'[c] = place
  BY <1>1 DEF Move, TypeOK
<1>2. ASSUME NEW stage \in Says, NEW outcome \in {"ok", "error", "found", "not found", "unread"},
             Finish(c, stage, outcome)
      PROVE  at'[c] \notin {"new", "deps", "send"}
  <2>1. at'[c] = After(opts[c], stage)
    BY <1>2 DEF Finish, Move, TypeOK
  <2> QED
    BY <2>1, OptionFacts, AfterFacts DEF Says
<1> USE DEF Says
<1>3. CASE Ask(c)
  <2>1. at[c] # "new" \/ Start(c) \/ Refuse(c)
    BY <1>3 DEF Run, Fault, GetInfo, ListPage, Find, Load, GetVersion, Search, SearchDep, Relocate,
      SendApply, SendApply3, BeginUndo, SendUndo, Close, Refuse, Kill, Overrun, RefuseApply, NoRoom, Misread, LookFails
  <2>2. CASE at' = at
    <3>1. Start(c) => at'[c] # "new"
      BY <1>0 DEF Start, Move, TypeOK
    <3>2. Refuse(c) => at'[c] # "new"
      BY <1>1 DEF Refuse, Places
    <3>3. at[c] # "new"
      <4>1. CASE Start(c) \/ Refuse(c)
        BY <2>2, <3>1, <3>2, <4>1
      <4> QED
        BY <2>1, <4>1
    <3> QED
      BY <1>3, <2>2, <3>3
  <2>3. CASE at' # at
    <3>1. at'[c] # "new"
      <4>1. CASE Start(c) \/ GetInfo(c)
        BY <1>0, <4>1 DEF Start, GetInfo, Move, TypeOK
      <4>2. CASE ListPage(c) \/ Find(c) \/ SendApply3(c) \/ SendUndo(c) \/ RefuseApply(c)
        BY <1>2, <2>3, <4>2 DEF ListPage, Find, SendApply3, SendUndo, RefuseApply
      <4>3. CASE Load(c) \/ GetVersion(c) \/ BeginUndo(c)
        BY <1>1, <1>2, <4>3 DEF Load, GetVersion, BeginUndo, Checked, Places
      <4>4. CASE Search(c) \/ SearchDep(c) \/ Relocate(c)
        BY <1>1, <1>2, <2>3, <4>4 DEF Search, SearchDep, Relocate, Places
      <4>5. CASE SendApply(c) \/ Close(c) \/ Refuse(c) \/ Kill(c) \/ Overrun(c)
        BY <1>1, <4>5 DEF SendApply, Close, Refuse, Kill, Overrun, Places
      <4>6. CASE LookFails(c)
        BY <4>6, LookFacts
      <4> QED
        BY <4>1, <4>2, <4>3, <4>4, <4>5, <4>6 DEF Run, Fault, NoRoom, Misread
    <3>2. LookFails(c) => at'[c] \notin {"new", "deps", "send"}
      BY LookFacts
    <3> QED
      BY <1>3, <2>1, <3>1, <3>2
  <2> QED
    BY <2>2, <2>3
<1>4. CASE ~Ask(c)
  <2>1. CASE Start(c)
    BY <1>0, <2>1 DEF Start, Move, TypeOK
  <2>2. CASE Load(c) \/ BeginUndo(c)
    BY <1>1, <1>2, <2>2 DEF Load, BeginUndo, Checked, Places
  <2>3. CASE Relocate(c)
    BY <1>1, <1>2, <2>3 DEF Relocate, Places
  <2>4. CASE Close(c) \/ Refuse(c) \/ Kill(c)
    BY <1>1, <2>4 DEF Close, Refuse, Kill, Places
  <2> QED
    BY <1>4, <2>1, <2>2, <2>3, <2>4 DEF Run, Fault, GetInfo, ListPage, Find, GetVersion, Search,
      SearchDep, SendApply, SendApply3, SendUndo, Overrun, RefuseApply, NoRoom, Misread, LookFails
<1> QED
  BY <1>3, <1>4

LEMMA UndoStep ==
    ASSUME TypeOK, NEW c \in Commands, GoalInv(c), Run(c) \/ Fault(c), at'[c] = "undo"
    PROVE  opts[c].undo
<1>0. \A stage \in {"new", "info", "list", "find", "apply", "undo"} :
          After(opts[c], stage) = "undo" => opts[c].undo
  BY OptionFacts, AfterFacts
<1>1. ASSUME NEW place \in Places, Move(c, place) PROVE at'[c] = place
  BY <1>1 DEF Move, TypeOK
<1>2. ASSUME NEW stage \in Says, NEW outcome, Finish(c, stage, outcome) PROVE opts[c].undo
  <2>1. at'[c] = After(opts[c], stage)
    BY <1>2 DEF Finish, Move, TypeOK
  <2> QED
    BY <1>0, <2>1 DEF Says
<1> USE DEF Says
<1>3. CASE at' = at
  BY <1>3 DEF GoalInv
<1>4. CASE Start(c) \/ GetInfo(c)
  BY <1>0, <1>4 DEF Start, GetInfo, Move, TypeOK
<1>5. CASE at' # at /\ (ListPage(c) \/ Find(c) \/ SendApply3(c) \/ SendUndo(c) \/ RefuseApply(c))
  BY <1>2, <1>5 DEF ListPage, Find, SendApply3, SendUndo, RefuseApply
<1>6. CASE Load(c) \/ GetVersion(c) \/ BeginUndo(c)
  BY <1>1, <1>2, <1>6 DEF Load, GetVersion, BeginUndo, Checked, Places
<1>7. CASE at' # at /\ (Search(c) \/ SearchDep(c) \/ Relocate(c))
  BY <1>1, <1>2, <1>7 DEF Search, SearchDep, Relocate, Places
<1>8. CASE SendApply(c) \/ Close(c) \/ Refuse(c) \/ Kill(c) \/ Overrun(c)
  BY <1>1, <1>8 DEF SendApply, Close, Refuse, Kill, Overrun, Places
<1>9. CASE LookFails(c)
  BY <1>9, LookFacts
<1> QED
  BY <1>3, <1>4, <1>5, <1>6, <1>7, <1>8, <1>9 DEF Run, Fault, NoRoom, Misread

LEMMA GoalStep ==
    ASSUME TypeOK, NEW c \in Commands, GoalInv(c), Run(c) \/ Fault(c)
    PROVE  GoalInv(c)'
<1>0. /\ opts' = opts
      /\ opts[c].apply \in Patches \cup {NoPatch} /\ opts[c].hash \in Patches \cup {NoPatch}
      /\ at'[c] = "undo" => opts[c].undo
  BY FramedStep, OptionFacts, UndoStep DEF Framed
<1>1. ASSUME NEW place \in Places, Move(c, place) PROVE at'[c] = place
  BY <1>1 DEF Move, TypeOK
<1>2. ASSUME NEW stage \in Says, NEW outcome \in {"ok", "error", "found", "not found", "unread"},
             Finish(c, stage, outcome)
      PROVE  /\ at'[c] \notin {"version", "search", "deps", "send"}
             /\ at'[c] = "apply" => opts[c].apply \in Patches
  <2>1. at'[c] = After(opts[c], stage)
    BY <1>2 DEF Finish, Move, TypeOK
  <2> QED
    BY <1>0, <2>1, AfterFacts DEF Says
<1> USE DEF Says
<1>3. CASE Start(c) \/ GetInfo(c)
  <2>1. at'[c] = After(opts[c], "new") \/ at'[c] = After(opts[c], "info")
    BY <1>3 DEF Start, GetInfo, Move, TypeOK
  <2>2. /\ at'[c] \notin {"version", "search", "deps", "send"}
        /\ at'[c] = "apply" => opts[c].apply \in Patches
    BY <1>0, <2>1, AfterFacts
  <2>3. goal' = goal
    BY <1>3 DEF Start, GetInfo
  <2> QED
    BY <1>0, <2>2, <2>3 DEF GoalInv
<1>4. CASE ListPage(c) \/ Find(c) \/ SendApply3(c) \/ SendUndo(c) \/ RefuseApply(c)
  <2>1. goal' = goal
    BY <1>4 DEF ListPage, Find, SendApply3, SendUndo, RefuseApply
  <2>2. \/ at' = at
        \/ /\ at'[c] \notin {"version", "search", "deps", "send"}
           /\ at'[c] = "apply" => opts[c].apply \in Patches
    BY <1>2, <1>4 DEF ListPage, Find, SendApply3, SendUndo, RefuseApply
  <2> QED
    BY <1>0, <2>1, <2>2 DEF GoalInv
<1>5. CASE Load(c) \/ GetVersion(c)
  <2>1. opts[c].apply \in Patches
    BY <1>5 DEF Load, GetVersion, GoalInv
  <2>2. \/ goal' = [goal EXCEPT ![c] = "apply4"] /\ at'[c] = "search"
        \/ goal' = goal /\ at'[c] \notin {"search", "deps", "send"}
    BY <1>1, <1>2, <1>5 DEF Load, GetVersion, Checked, Places
  <2> QED
    BY <1>0, <2>1, <2>2 DEF GoalInv, TypeOK
<1>6. CASE BeginUndo(c)
  <2>0. opts[c].undo
    BY <1>6 DEF BeginUndo, GoalInv
  <2>1. \/ goal' = [goal EXCEPT ![c] = "undo"] /\ at'[c] = "search" /\ opts[c].hash \in Patches
        \/ /\ goal' = goal /\ at'[c] \notin {"version", "search", "deps", "send"}
           /\ at'[c] = "apply" => opts[c].apply \in Patches
    BY <1>0, <1>1, <1>2, <1>6 DEF BeginUndo, Places
  <2> QED
    BY <1>0, <2>0, <2>1 DEF GoalInv, TypeOK
<1>7. CASE Search(c)
  <2>1. goal[c] # "none"
    BY <1>7 DEF Search, GoalInv
  <2>2. \/ goal' = [goal EXCEPT ![c] = "apply3"] /\ at' = at /\ goal[c] = "apply4"
        \/ goal' = goal /\ at'[c] \in {"search", "send"}
        \/ goal' = goal /\ at'[c] = "deps" /\ goal[c] # "undo"
        \/ /\ goal' = goal /\ at'[c] \notin {"version", "search", "deps", "send"}
           /\ at'[c] = "apply" => opts[c].apply \in Patches
    <3>1. goal[c] \in {"none", "apply4", "apply3", "undo"} /\ goal \in [Commands -> {"none", "apply4", "apply3", "undo"}]
      BY DEF TypeOK
    <3>2. Len(Listed) \in Nat /\ Len(Listed) <= MaxList /\ MaxList \in Nat
      BY ListedFacts, ConstantsAssumption DEF TypeOK
    <3>3. CASE Holds(Listed, Target(c))
      BY <1>1, <1>2, <1>7, <2>1, <3>1, <3>3 DEF Search, Places
    <3>4. CASE ~Holds(Listed, Target(c)) /\ Len(Listed) = MaxList
      BY <1>1, <1>2, <1>7, <2>1, <3>1, <3>4 DEF Search, Places
    <3>5. CASE ~Holds(Listed, Target(c)) /\ Len(Listed) # MaxList /\ goal[c] = "undo"
      <4>1. Len(Listed) < MaxList
        BY <3>2, <3>5
      <4>2. Finish(c, "undo", "error") /\ goal' = goal
        BY <1>7, <3>5, <4>1 DEF Search
      <4> QED
        BY <1>2, <4>2
    <3>6. CASE ~Holds(Listed, Target(c)) /\ Len(Listed) # MaxList /\ goal[c] # "undo"
      BY <1>1, <1>2, <1>7, <2>1, <3>1, <3>2, <3>6 DEF Search, Places
    <3> QED
      BY <3>3, <3>4, <3>5, <3>6
  <2> QED
    BY <1>0, <1>7, <2>1, <2>2 DEF GoalInv, TypeOK, Search
<1>8. CASE SearchDep(c) \/ Relocate(c)
  <2>1. goal' = goal /\ at[c] = "deps"
    BY <1>8 DEF SearchDep, Relocate
  <2>2. \/ at'[c] \in {"deps", "send"}
        \/ /\ at'[c] \notin {"version", "search", "deps", "send"}
           /\ at'[c] = "apply" => opts[c].apply \in Patches
    BY <1>1, <1>2, <1>8 DEF SearchDep, Relocate, Places
  <2> QED
    BY <1>0, <2>1, <2>2 DEF GoalInv
<1>9. CASE SendApply(c)
  <2>1. goal[c] = "apply4" /\ goal' = [goal EXCEPT ![c] = "apply3"] /\ at'[c] = "search"
    BY <1>1, <1>9 DEF SendApply, Places
  <2> QED
    BY <1>0, <2>1 DEF GoalInv, TypeOK
<1>10. CASE Close(c) \/ Refuse(c) \/ Kill(c) \/ Overrun(c)
  <2>1. goal' = goal /\ at'[c] \in {"closed", "killed"}
    BY <1>1, <1>10 DEF Close, Refuse, Kill, Overrun, Places
  <2> QED
    BY <1>0, <2>1 DEF GoalInv
<1>11. CASE LookFails(c)
  <2>1. /\ goal' = goal /\ at'[c] \in {"date", "list", "find", "apply", "undo", "done"}
        /\ at'[c] = "apply" => opts[c].apply \in Patches
    BY <1>11, LookFacts
  <2> QED
    BY <1>0, <2>1 DEF GoalInv
<1> QED
  BY <1>3, <1>4, <1>5, <1>6, <1>7, <1>8, <1>9, <1>10, <1>11 DEF Run, Fault, NoRoom, Misread

\* How a command comes to act on what it has found.
LEMMA SearchShape ==
    ASSUME TypeOK, NEW c \in Commands, GoalInv(c), Run(c) \/ Fault(c), at'[c] \in {"deps", "send"}
    PROVE  /\ applied' = applied
           /\ goal' = goal
           /\ \/ /\ Ask(c)
                 /\ goal[c] = "undo" <=> Holds(Listed, Target(c))
                 /\ ~Holds(Listed, Target(c)) => Len(Listed) < MaxList
              \/ at[c] = "deps"
<1>1. ASSUME NEW place \in Places, Move(c, place) PROVE at'[c] = place
  BY <1>1 DEF Move, TypeOK
<1>2. ASSUME NEW stage \in Says, NEW outcome \in {"ok", "error", "found", "not found", "unread"},
             Finish(c, stage, outcome)
      PROVE  at'[c] \notin {"deps", "send"}
  <2>1. at'[c] = After(opts[c], stage)
    BY <1>2 DEF Finish, Move, TypeOK
  <2> QED
    BY <2>1, OptionFacts, AfterFacts DEF Says
<1> USE DEF Says
<1>3. CASE Search(c)
  <2>1. /\ goal[c] \in {"apply4", "apply3", "undo"}
        /\ Ask(c) /\ at[c] = "search" /\ applied' = applied
    BY <1>3 DEF Search, GoalInv, TypeOK
  <2>2. Len(Listed) \in Nat /\ Len(Listed) <= MaxList /\ MaxList \in Nat
    BY ListedFacts, ConstantsAssumption DEF TypeOK
  <2>3. CASE Holds(Listed, Target(c)) /\ goal[c] = "undo"
    BY <1>3, <2>1, <2>3 DEF Search
  <2>4. CASE Holds(Listed, Target(c)) /\ goal[c] # "undo"
    <3>1. at' = at \/ Finish(c, "apply", "ok")
      BY <1>3, <2>1, <2>4 DEF Search
    <3> QED
      BY <1>2, <2>1, <3>1
  <2>5. CASE ~Holds(Listed, Target(c)) /\ Len(Listed) = MaxList
    BY <1>3, <2>1, <2>5 DEF Search
  <2>6. CASE ~Holds(Listed, Target(c)) /\ Len(Listed) # MaxList /\ goal[c] = "undo"
    <3>1. Len(Listed) < MaxList
      BY <2>2, <2>6
    <3>2. Finish(c, "undo", "error")
      BY <1>3, <2>6, <3>1 DEF Search
    <3> QED
      BY <1>2, <3>2
  <2>7. CASE ~Holds(Listed, Target(c)) /\ Len(Listed) # MaxList /\ goal[c] # "undo"
    <3>1. Len(Listed) < MaxList
      BY <2>2, <2>7
    <3>2. goal' = goal
      BY <1>3, <2>7, <3>1 DEF Search
    <3> QED
      BY <2>1, <2>7, <3>1, <3>2
  <2> QED
    BY <2>3, <2>4, <2>5, <2>6, <2>7
<1>4. CASE SearchDep(c)
  BY <1>4 DEF SearchDep
<1>5. CASE Relocate(c)
  BY <1>5 DEF Relocate, server
<1>6. CASE Start(c) \/ GetInfo(c)
  <2>1. at'[c] = After(opts[c], "new") \/ at'[c] = After(opts[c], "info")
    BY <1>6 DEF Start, GetInfo, Move, TypeOK
  <2> QED
    BY <2>1, OptionFacts, AfterFacts
<1>7. CASE ListPage(c) \/ Find(c) \/ SendApply3(c) \/ SendUndo(c) \/ RefuseApply(c)
  BY <1>2, <1>7 DEF ListPage, Find, SendApply3, SendUndo, RefuseApply
<1>8. CASE Load(c) \/ GetVersion(c) \/ BeginUndo(c)
  BY <1>1, <1>2, <1>8 DEF Load, GetVersion, BeginUndo, Checked, Places
<1>9. CASE SendApply(c) \/ Close(c) \/ Refuse(c) \/ Kill(c) \/ Overrun(c)
  BY <1>1, <1>9 DEF SendApply, Close, Refuse, Kill, Overrun, Places
<1>10. CASE LookFails(c)
  BY <1>10, LookFacts
<1> QED
  BY <1>3, <1>4, <1>5, <1>6, <1>7, <1>8, <1>9, <1>10 DEF Run, Fault, NoRoom, Misread

\* How a command comes to list.
LEMMA ListShape ==
    ASSUME TypeOK, NEW c \in Commands, Run(c) \/ Fault(c), at'[c] \in {"info", "list"}
    PROVE  /\ applied' = applied
           /\ \/ Start(c) /\ printed' = printed
              \/ Ask(c) /\ at[c] = "info" /\ printed' = printed
              \/ Ask(c) /\ ~(Len(Listed) < MaxList3)
<1>1. ASSUME NEW place \in Places, Move(c, place) PROVE at'[c] = place
  BY <1>1 DEF Move, TypeOK
<1>2. ASSUME NEW stage \in Says \ {"info"}, NEW outcome \in {"ok", "error", "found", "not found", "unread"},
             Finish(c, stage, outcome)
      PROVE  at'[c] \notin {"info", "list"}
  <2>1. at'[c] = After(opts[c], stage)
    BY <1>2 DEF Finish, Move, TypeOK
  <2> QED
    BY <2>1, OptionFacts, AfterFacts DEF Says
<1> USE DEF Says
<1>3. CASE Start(c)
  BY <1>3 DEF Start
<1>4. CASE GetInfo(c)
  BY <1>4 DEF GetInfo
<1>5. CASE ListPage(c)
  BY <1>2, <1>5 DEF ListPage
<1>6. CASE Find(c) \/ SendApply3(c) \/ SendUndo(c) \/ RefuseApply(c)
  BY <1>2, <1>6 DEF Find, SendApply3, SendUndo, RefuseApply
<1>7. CASE Load(c) \/ GetVersion(c) \/ BeginUndo(c)
  BY <1>1, <1>2, <1>7 DEF Load, GetVersion, BeginUndo, Checked, Places
<1>8. CASE SearchDep(c) \/ Relocate(c)
  BY <1>1, <1>2, <1>8 DEF SearchDep, Relocate, Places
<1>9. CASE Search(c)
  BY <1>1, <1>2, <1>9 DEF Search, Places
<1>10. CASE SendApply(c) \/ Close(c) \/ Refuse(c) \/ Kill(c) \/ Overrun(c)
  BY <1>1, <1>10 DEF SendApply, Close, Refuse, Kill, Overrun, Places
<1>11. CASE LookFails(c)
  BY <1>11, LookFacts
<1> QED
  BY <1>3, <1>4, <1>5, <1>6, <1>7, <1>8, <1>9, <1>10, <1>11 DEF Run, Fault, NoRoom, Misread
-----------------------------------------------------------------------------
(* The invariant is kept. *)

LEMMA TailFacts ==
    ASSUME NEW S, NEW q \in Seq(S), q # <<>>
    PROVE  /\ Len(q) \in Nat \ {0}
           /\ Head(q) = q[1]
           /\ Tail(q) \in Seq(S)
           /\ Len(Tail(q)) = Len(q) - 1
           /\ \A i \in 1 .. Len(Tail(q)) : i + 1 \in 2 .. Len(q) /\ Tail(q)[i] = q[i + 1]
BY EmptySeq, HeadTailProperties

LEMMA AppendShape ==
    ASSUME NEW S, NEW q \in Seq(S), NEW e \in S, NEW r, r = Append(q, e)
    PROVE  /\ r \in Seq(S)
           /\ Len(r) = Len(q) + 1
           /\ Len(q) \in Nat
           /\ \A i \in 1 .. Len(q) : r[i] = q[i]
           /\ r[Len(q) + 1] = e
BY AppendProperties

LEMMA QueueStep ==
    ASSUME TypeOK, QueueInv, NEW c \in Commands, GoalInv(c), Run(c) \/ Fault(c)
    PROVE  queue' \in Seq(Commands) /\ QueueInv'
<1>1. queue \in Seq(Commands) /\ at'[c] # "new"
  BY PlaceStep DEF TypeOK
<1>2. \A d \in Commands \ {c} : at'[d] = at[d]
  BY KeepsStep DEF Keeps
<1>3. \A i \in 1 .. Len(queue) : queue[i] \in Commands /\ at'[queue[i]] # "new"
  BY <1>1, <1>2 DEF QueueInv
<1>4. CASE Start(c) /\ queue' = Append(queue, c)
  <2>1. at[c] = "new"
    BY <1>4 DEF Start
  <2>2. \A i \in 1 .. Len(queue) : queue[i] # c
    BY <2>1 DEF QueueInv
  <2>3. at'[c] \notin {"deps", "send"}
    <3>1. at'[c] = After(opts[c], "new")
      BY <1>4 DEF Start, Move, TypeOK
    <3> QED
      BY <3>1, OptionFacts, AfterFacts
  <2>4. /\ queue' \in Seq(Commands)
        /\ Len(queue') = Len(queue) + 1
        /\ Len(queue) \in Nat
        /\ \A i \in 1 .. Len(queue) : queue'[i] = queue[i]
        /\ queue'[Len(queue) + 1] = c
    BY <1>1, <1>4, AppendShape
  <2>5. \A i \in 1 .. Len(queue') : i \in 1 .. Len(queue) \/ i = Len(queue) + 1
    BY <2>4
  <2>6. \A i, j \in 1 .. Len(queue') : queue'[i] = queue'[j] => i = j
    BY <2>2, <2>4, <2>5 DEF QueueInv
  <2>7. \A i \in 1 .. Len(queue') : at'[queue'[i]] # "new"
    BY <1>1, <1>3, <2>4, <2>5
  <2>8. ASSUME NEW i \in 2 .. Len(queue') PROVE at'[queue'[i]] \notin {"deps", "send"}
    <3>1. CASE i = Len(queue) + 1
      BY <2>3, <2>4, <3>1
    <3>2. CASE i # Len(queue) + 1
      <4>1. i \in 2 .. Len(queue) /\ queue'[i] = queue[i]
        BY <2>4, <3>2
      <4>2. queue[i] \in Commands \ {c}
        BY <1>3, <2>2, <4>1
      <4> QED
        BY <1>2, <4>1, <4>2 DEF QueueInv
    <3> QED
      BY <3>1, <3>2
  <2> QED
    BY <2>4, <2>6, <2>7, <2>8 DEF QueueInv
<1>5. CASE queue' = queue
  <2>1. ASSUME NEW i \in 2 .. Len(queue) PROVE at'[queue[i]] \notin {"deps", "send"}
    <3>1. Len(queue) \in Nat /\ i \in 1 .. Len(queue) /\ 1 \in 1 .. Len(queue) /\ i # 1
      BY <1>1
    <3>2. CASE queue[i] # c
      BY <1>2, <1>3, <2>1, <3>1, <3>2 DEF QueueInv
    <3>3. CASE queue[i] = c
      <4>1. ~Ask(c)
        <5>1. Ask(c) => Head(queue) = c /\ queue # <<>>
          BY AskFacts
        <5>2. queue # <<>> => Head(queue) = queue[1]
          BY <1>1, TailFacts
        <5> QED
          BY <3>1, <3>3, <5>1, <5>2 DEF QueueInv
      <4>2. at[c] # "deps"
        BY <3>3 DEF QueueInv
      <4> QED
        BY <3>3, <4>1, <4>2, PlaceStep
    <3> QED
      BY <3>2, <3>3
  <2> QED
    BY <1>1, <1>3, <1>5, <2>1 DEF QueueInv
<1>6. CASE Ask(c) /\ queue' = Tail(queue)
  <2>1. queue # <<>> /\ Head(queue) = c
    BY <1>6, AskFacts
  <2>2. /\ queue[1] = c
        /\ Len(queue) \in Nat \ {0}
        /\ queue' \in Seq(Commands)
        /\ Len(queue') = Len(queue) - 1
        /\ \A i \in 1 .. Len(queue') : i + 1 \in 2 .. Len(queue) /\ queue'[i] = queue[i + 1]
    BY <1>1, <1>6, <2>1, TailFacts
  <2>3. \A i \in 2 .. Len(queue) : i \in 1 .. Len(queue) /\ queue[i] \in Commands \ {c}
    BY <1>3, <2>2 DEF QueueInv
  <2>4. \A i, j \in 1 .. Len(queue') : queue'[i] = queue'[j] => i = j
    <3>1. SUFFICES ASSUME NEW i \in 1 .. Len(queue'), NEW j \in 1 .. Len(queue'),
                          queue'[i] = queue'[j]
                   PROVE  i = j
      OBVIOUS
    <3>2. i + 1 = j + 1
      BY <2>2, <2>3, <3>1 DEF QueueInv
    <3> QED
      BY <3>2
  <2>5. \A i \in 1 .. Len(queue') : at'[queue'[i]] \notin {"new", "deps", "send"}
    BY <1>2, <2>2, <2>3 DEF QueueInv
  <2>6. \A i \in 2 .. Len(queue') : i \in 1 .. Len(queue')
    BY <2>2
  <2> QED
    BY <2>2, <2>4, <2>5, <2>6 DEF QueueInv
<1> QED
  BY <1>4, <1>5, <1>6, QueueShape

\* What is at the head of the queue after a step.
LEMMA HeadStep ==
    ASSUME TypeOK, QueueInv, NEW c \in Commands, Run(c) \/ Fault(c),
           NEW i \in 1 .. Len(queue'), NEW d \in Commands, queue'[i] = d, d # c
    PROVE  /\ i = 1 /\ queue' # Tail(queue) =>
                  queue # <<>> /\ Head(queue) = d /\ queue[1] = d /\ ~Ask(c)
           /\ \/ queue' # Tail(queue) /\ i \in 1 .. Len(queue) /\ queue[i] = d
              \/ queue' = Tail(queue) /\ i + 1 \in 2 .. Len(queue) /\ queue[i + 1] = d
<1>1. queue \in Seq(Commands)
  BY DEF TypeOK
<1>2. Ask(c) => queue # <<>> /\ Head(queue) = c
  BY AskFacts
<1>3. CASE queue' = Tail(queue) /\ queue # <<>>
  BY <1>1, <1>3, TailFacts
<1>4. CASE queue' = queue
  <2>1. queue # <<>> /\ i \in 1 .. Len(queue)
    BY <1>1, <1>4, EmptySeq
  <2>2. queue # Tail(queue) /\ Head(queue) = queue[1]
    <3>1. PICK t : t = Tail(queue)
      OBVIOUS
    <3>2. Len(t) = Len(queue) - 1 /\ Len(queue) \in Nat \ {0} /\ Head(queue) = queue[1]
      BY <1>1, <2>1, <3>1, TailFacts
    <3>3. t # queue
      BY <3>2
    <3> QED
      BY <3>1, <3>2, <3>3
  <2> QED
    BY <1>2, <1>4, <2>1, <2>2
<1>5. CASE Start(c) /\ queue' = Append(queue, c)
  <2>1. /\ Len(queue') = Len(queue) + 1
        /\ Len(queue) \in Nat
        /\ \A j \in 1 .. Len(queue) : queue'[j] = queue[j]
        /\ queue'[Len(queue) + 1] = c
    BY <1>1, <1>5, AppendShape
  <2>2. i \in 1 .. Len(queue) /\ queue[i] = d
    BY <2>1
  <2>3. queue # <<>>
    BY <2>2, EmptySeq
  <2>4. Len(Tail(queue)) = Len(queue) - 1 /\ Head(queue) = queue[1]
    BY <1>1, <2>3, TailFacts
  <2>5. queue' # Tail(queue)
    BY <2>1, <2>4
  <2>6. ~Ask(c)
    <3>1. Ask(c) => queue[1] = c
      BY <1>2, <2>4
    <3>2. at[c] = "new" /\ 1 \in 1 .. Len(queue)
      BY <1>5, <2>1, <2>2 DEF Start
    <3> QED
      BY <3>1, <3>2 DEF QueueInv
  <2> QED
    BY <2>2, <2>3, <2>4, <2>5, <2>6
<1>6. Ask(c) => queue # <<>>
  BY <1>2
<1> QED
  BY <1>3, <1>4, <1>5, <1>6, QueueShape

\* A command that is served again has not left its place.
LEMMA ServedStep ==
    ASSUME TypeOK, QueueInv, NEW c \in Commands, Run(c) \/ Fault(c), ~Start(c),
           NEW i \in 1 .. Len(queue'), queue'[i] = c
    PROVE  queue' = queue /\ (Ask(c) => i = 1)
<1>1. queue \in Seq(Commands)
  BY DEF TypeOK
<1>2. ASSUME Ask(c) PROVE queue # <<>> /\ queue[1] = c /\ 1 \in 1 .. Len(queue)
  BY <1>1, <1>2, AskFacts, TailFacts
<1>3. CASE queue' = queue
  BY <1>2, <1>3 DEF QueueInv
<1>4. CASE Ask(c) /\ queue' = Tail(queue)
  <2>1. i + 1 \in 2 .. Len(queue) /\ queue[i + 1] = c
    BY <1>1, <1>2, <1>4, TailFacts
  <2>2. i + 1 = 1
    BY <1>2, <1>4, <2>1 DEF QueueInv
  <2> QED
    BY <2>1, <2>2
<1> QED
  BY <1>3, <1>4, QueueShape

LEMMA SearchStep ==
    ASSUME TypeOK, QueueInv, SearchStillTrue, NEW c \in Commands, GoalInv(c), Run(c) \/ Fault(c)
    PROVE  SearchStillTrue'
<1>1. SUFFICES ASSUME NEW d \in Commands, alive', queue' # <<>>, Head(queue') = d,
                      at'[d] \in {"deps", "send"}
               PROVE  goal'[d] = "undo" <=> Holds(applied', Target(d)')
  BY DEF SearchStillTrue
<1>2. queue' \in Seq(Commands) /\ alive /\ opts' = opts
  BY <1>1, QueueStep, AliveShape, FramedStep DEF Framed
<1>3. queue'[1] = d /\ 1 \in 1 .. Len(queue')
  BY <1>1, <1>2, TailFacts
<1>4. CASE d # c
  <2>1. at'[d] = at[d] /\ goal'[d] = goal[d]
    BY <1>4, KeepsStep, FramedStep DEF Keeps, Framed
  <2>2. queue' # Tail(queue)
    <3>1. ASSUME queue' = Tail(queue) PROVE 1 + 1 \in 2 .. Len(queue) /\ queue[1 + 1] = d
      BY <1>3, <1>4, <3>1, HeadStep
    <3> QED
      BY <1>1, <2>1, <3>1 DEF QueueInv
  <2>3. queue # <<>> /\ Head(queue) = d /\ ~Ask(c)
    BY <1>3, <1>4, <2>2, HeadStep
  <2>4. applied' = applied
    BY <2>3, AppliedShape
  <2>5. goal[d] = "undo" <=> Holds(applied, Target(d))
    BY <1>1, <1>2, <2>1, <2>3 DEF SearchStillTrue
  <2> QED
    BY <1>2, <2>1, <2>4, <2>5 DEF Target, Holds
<1>5. CASE d = c
  <2>1. /\ applied' = applied
        /\ goal' = goal
        /\ \/ /\ Ask(c)
              /\ goal[c] = "undo" <=> Holds(Listed, Target(c))
              /\ ~Holds(Listed, Target(c)) => Len(Listed) < MaxList
           \/ at[c] = "deps"
    BY <1>1, <1>5, SearchShape
  <2>2. goal[c] = "undo" <=> Holds(applied, Target(c))
    <3>1. CASE at[c] = "deps"
      <4>1. ~Start(c)
        BY <3>1 DEF Start
      <4>2. queue' = queue
        BY <1>3, <1>5, <4>1, ServedStep
      <4> QED
        BY <1>1, <1>2, <1>5, <3>1, <4>2 DEF SearchStillTrue
    <3>2. CASE at[c] # "deps"
      <4>1. applied \in Seq(Patches)
        BY DEF TypeOK
      <4>2. Len(Listed) < MaxList => Listed = applied
        BY <4>1, ListedFacts
      <4>3. Holds(Listed, Target(c)) => Holds(applied, Target(c))
        BY <4>1, ListedFacts
      <4> QED
        BY <2>1, <3>2, <4>2, <4>3
    <3> QED
      BY <3>1, <3>2
  <2> QED
    BY <1>2, <1>5, <2>1, <2>2 DEF Target, Holds
<1> QED
  BY <1>4, <1>5

LEMMA PrintedStep ==
    ASSUME TypeOK, QueueInv, PrintedInv, NEW c \in Commands, GoalInv(c), Run(c) \/ Fault(c)
    PROVE  PrintedInv'
<1>1. ASSUME NEW d \in Commands, at'[d] = "new" PROVE printed'[d] = <<>>
  <2>1. d # c
    BY <1>1, PlaceStep
  <2> QED
    BY <1>1, <2>1, KeepsStep, FramedStep DEF Keeps, Framed, PrintedInv
<1>2. SUFFICES ASSUME NEW i \in 1 .. Len(queue'), NEW d, d = queue'[i], at'[d] \in {"info", "list"},
                      i = 1 => Len(Listed') < MaxList3
               PROVE  printed'[d] = <<>>
  BY <1>1 DEF PrintedInv
<1>3. d \in Commands /\ queue' \in Seq(Commands)
  BY <1>2, QueueStep
<1>4. CASE d # c
  <2>1. at'[d] = at[d] /\ printed'[d] = printed[d]
    BY <1>3, <1>4, KeepsStep, FramedStep DEF Keeps, Framed
  <2>2. CASE queue' = Tail(queue)
    <3>1. i + 1 \in 2 .. Len(queue) /\ queue[i + 1] = d
      BY <1>2, <1>3, <1>4, <2>2, HeadStep
    <3>2. i + 1 \in 1 .. Len(queue) /\ i + 1 # 1
      BY <3>1
    <3> QED
      BY <1>2, <2>1, <3>1, <3>2 DEF PrintedInv
  <2>3. CASE queue' # Tail(queue)
    <3>1. i \in 1 .. Len(queue) /\ queue[i] = d
      BY <1>2, <1>3, <1>4, <2>3, HeadStep
    <3>2. i = 1 => ~Ask(c)
      BY <1>2, <1>3, <1>4, <2>3, HeadStep
    <3>3. i = 1 => Listed' = Listed
      BY <3>2, AppliedShape DEF Listed
    <3> QED
      BY <1>2, <2>1, <3>1, <3>3 DEF PrintedInv
  <2> QED
    BY <2>2, <2>3
<1>5. CASE d = c
  <2>1. /\ applied' = applied
        /\ \/ Start(c) /\ printed' = printed
           \/ Ask(c) /\ at[c] = "info" /\ printed' = printed
           \/ Ask(c) /\ ~(Len(Listed) < MaxList3)
    BY <1>2, <1>5, ListShape
  <2>2. Listed' = Listed
    BY <2>1 DEF Listed
  <2>3. CASE Start(c)
    BY <1>5, <2>3 DEF Start, PrintedInv
  <2>4. CASE ~Start(c) /\ Ask(c)
    <3>1. queue' = queue /\ i = 1
      BY <1>2, <1>5, <2>4, ServedStep
    <3>2. Len(Listed) < MaxList3
      BY <1>2, <2>2, <3>1
    <3>3. at[c] = "info" /\ printed' = printed
      BY <2>1, <2>4, <3>2
    <3> QED
      BY <1>2, <1>5, <3>1, <3>2, <3>3 DEF PrintedInv
  <2> QED
    BY <2>1, <2>3, <2>4
<1> QED
  BY <1>4, <1>5

LEMMA RunStep ==
    ASSUME IInv, NEW c \in Commands, Run(c) \/ Fault(c)
    PROVE  IInv'
<1>1. TypeOK /\ GoalInv(c) /\ QueueInv /\ PrintedInv /\ AppliedOnce /\ SearchStillTrue
  BY DEF IInv
<1>2. Keeps(c) /\ Framed(c)
  BY <1>1, KeepsStep, FramedStep
<1>3. applied' \in Seq(Patches) /\ AppliedOnce'
  BY <1>1, AppliedStep
<1>4. queue' \in Seq(Commands) /\ QueueInv'
  BY <1>1, QueueStep
<1>5. alive' \in BOOLEAN /\ count' \in 0 .. (Limit - 1)
  BY <1>1, AliveShape, QueueShape
<1>6. TypeOK'
  BY <1>1, <1>2, <1>3, <1>4, <1>5 DEF TypeOK, Keeps, Framed, Places
<1>7. ASSUME NEW d \in Commands PROVE GoalInv(d)'
  <2>1. CASE d = c
    BY <1>1, <2>1, GoalStep
  <2>2. CASE d # c
    <3>1. GoalInv(d)
      BY DEF IInv
    <3>2. at'[d] = at[d] /\ goal'[d] = goal[d] /\ opts' = opts
      BY <1>2, <2>2 DEF Keeps, Framed
    <3> QED
      BY <3>1, <3>2 DEF GoalInv
  <2> QED
    BY <2>1, <2>2
<1>8. SearchStillTrue' /\ PrintedInv'
  BY <1>1, SearchStep, PrintedStep
<1>9. LineInv'
  BY <1>2 DEF IInv, LineInv, Framed
<1> QED
  BY <1>3, <1>4, <1>6, <1>7, <1>8, <1>9 DEF IInv

LEMMA EndOfFileStep ==
    ASSUME IInv, EndOfFile
    PROVE  IInv'
<1>1. queue \in Seq(Commands) /\ queue # <<>> /\ queue' = Tail(queue)
      /\ UNCHANGED <<applied, alive, opts, at, goal, dep, info, printed, said>> /\ count' = 0
  BY DEF EndOfFile, IInv, TypeOK, client
<1>2. /\ queue' \in Seq(Commands)
      /\ Len(queue') = Len(queue) - 1 /\ Len(queue) \in Nat \ {0}
      /\ \A i \in 1 .. Len(queue') : i + 1 \in 2 .. Len(queue) /\ queue'[i] = queue[i + 1]
  BY <1>1, TailFacts
<1>3. TypeOK'
  <2>1. count' \in 0 .. (Limit - 1)
    BY <1>1, ConstantsAssumption
  <2> QED
    BY <1>1, <1>2, <2>1 DEF IInv, TypeOK
<1>4. \A d \in Commands : GoalInv(d)'
  BY <1>1 DEF IInv, GoalInv
<1>5. \A i \in 1 .. Len(queue') : i + 1 \in 1 .. Len(queue) /\ i + 1 # 1
  BY <1>2
<1>6. QueueInv'
  <2>1. ASSUME NEW i \in 1 .. Len(queue'), NEW j \in 1 .. Len(queue'), queue'[i] = queue'[j]
        PROVE  i = j
    <3>1. i + 1 = j + 1
      BY <1>2, <1>5, <2>1 DEF IInv, QueueInv
    <3> QED
      BY <3>1
  <2>2. \A i \in 1 .. Len(queue') : at[queue'[i]] \notin {"new", "deps", "send"}
    BY <1>2, <1>5 DEF IInv, QueueInv
  <2>3. \A i \in 2 .. Len(queue') : i \in 1 .. Len(queue')
    BY <1>2
  <2> QED
    BY <1>1, <2>1, <2>2, <2>3 DEF QueueInv
<1>7. PrintedInv'
  <2>1. \A i \in 1 .. Len(queue') : at[queue'[i]] \in {"info", "list"} => printed[queue'[i]] = <<>>
    BY <1>2, <1>5 DEF IInv, PrintedInv
  <2>2. \A d \in Commands : at[d] = "new" => printed[d] = <<>>
    BY DEF IInv, PrintedInv
  <2> QED
    BY <1>1, <2>1, <2>2 DEF PrintedInv
<1>8. SearchStillTrue'
  <2>1. SUFFICES ASSUME NEW d \in Commands, queue' # <<>>, Head(queue') = d, at[d] \in {"deps", "send"}
                 PROVE  FALSE
    BY <1>1 DEF SearchStillTrue
  <2>2. queue'[1] = d /\ 1 \in 1 .. Len(queue')
    BY <1>2, <2>1, TailFacts
  <2>3. 1 + 1 \in 2 .. Len(queue) /\ queue[1 + 1] = d
    BY <1>2, <2>2
  <2> QED
    BY <2>1, <2>3 DEF IInv, QueueInv
<1>9. AppliedOnce'
  BY <1>1 DEF IInv, AppliedOnce
<1>10. LineInv'
  BY <1>1 DEF IInv, LineInv
<1> QED
  BY <1>3, <1>4, <1>6, <1>7, <1>8, <1>9, <1>10 DEF IInv

LEMMA InitIInv == Init => IInv
<1> SUFFICES ASSUME Init PROVE IInv
  OBVIOUS
<1>1. queue = <<>> /\ queue \in Seq(Commands) /\ Len(queue) = 0
  BY DEF Init
<1>2. TypeOK
  <2>1. applied \in Seq(Patches) /\ count \in 0 .. (Limit - 1) /\ dep \in [Commands -> Nat \ {0}]
    BY ConstantsAssumption DEF Init
  <2>2. printed \in [Commands -> Seq(Patches)]
    BY DEF Init
  <2>3. said \in [Commands -> [Says -> {"none", "ok", "error", "found", "not found", "unread"}]]
    BY DEF Init
  <2>4. opts \in [Commands -> AllOptions]
    BY OptionsTyped DEF Init
  <2> QED
    BY <1>1, <2>1, <2>2, <2>3, <2>4 DEF Init, TypeOK
<1>3. AppliedOnce
  BY ConstantsAssumption DEF Init, AppliedOnce
<1>4. \A c \in Commands : GoalInv(c)
  BY DEF Init, GoalInv
<1>5. QueueInv /\ PrintedInv /\ SearchStillTrue
  BY <1>1 DEF Init, QueueInv, PrintedInv, SearchStillTrue
<1>6. LineInv
  BY DEF Init, LineInv
<1> QED
  BY <1>2, <1>3, <1>4, <1>5, <1>6 DEF IInv

LEMMA CutShortStep ==
    ASSUME IInv, CutShort
    PROVE  IInv'
<1>1. UNCHANGED <<applied, queue, count, opts, at, goal, dep, info, printed, said>> /\ alive' = FALSE
  BY DEF CutShort, client
<1> QED
  BY <1>1 DEF IInv, TypeOK, GoalInv, QueueInv, PrintedInv, Listed, AppliedOnce, SearchStillTrue,
    LineInv, Holds, Target

LEMMA NextStep == IInv /\ [Next]_vars => IInv'
<1> SUFFICES ASSUME IInv, [Next]_vars PROVE IInv'
  OBVIOUS
<1>1. CASE UNCHANGED vars
  BY <1>1 DEF vars, server, client, IInv, TypeOK, GoalInv, QueueInv, PrintedInv, Listed, AppliedOnce,
    SearchStillTrue, LineInv, Holds, Target
<1>2. CASE EndOfFile
  BY <1>2, EndOfFileStep
<1>4. CASE CutShort
  BY <1>4, CutShortStep
<1>3. ASSUME NEW c \in Commands, Run(c) \/ Fault(c) PROVE IInv'
  BY <1>3, RunStep
<1> QED
  BY <1>1, <1>2, <1>3, <1>4 DEF Next

LEMMA Invariance == Spec => []IInv
BY InitIInv, NextStep, PTL DEF Spec
-----------------------------------------------------------------------------
(* Theorems. *)

\* The state has its types, whatever the commands, the files and the faults.
THEOREM TypeCorrect == Spec => []TypeOK
<1>1. IInv => TypeOK
  BY DEF IInv
<1> QED
  BY <1>1, Invariance, PTL

\* However many commands apply a patch at the same time (raxlpxs.c:339), it
\* is in the list of the sandbox at most once.
THEOREM AppliesOnce == Spec => []AppliedOnce
<1>1. IInv => AppliedOnce
  BY DEF IInv
<1> QED
  BY <1>1, Invariance, PTL

\* What find_patch3 has found holds until the command sends its message.
THEOREM SearchHolds == Spec => []SearchStillTrue
<1>1. IInv => SearchStillTrue
  BY DEF IInv
<1> QED
  BY <1>1, Invariance, PTL

\* A listing that comes to its end is complete and without repetition.
THEOREM ListsAll == Spec => ListComplete
<1>1. IInv /\ [Next]_vars =>
          [\A c \in Commands : Tells(c, "list") => printed'[c] = applied]_vars
  <2>1. SUFFICES ASSUME IInv, Next, NEW c \in Commands, said'[c]["list"] \notin {said[c]["list"], "unread"}
                 PROVE  printed'[c] = applied
    BY DEF vars, server, client, Tells
  <2>2. TypeOK /\ QueueInv /\ PrintedInv
    BY <2>1 DEF IInv
  <2>3. Run(c) \/ Fault(c)
    <3>1. ~EndOfFile /\ ~CutShort
      BY <2>1 DEF EndOfFile, CutShort, client
    <3>2. ASSUME NEW d \in Commands, Run(d) \/ Fault(d) PROVE d = c
      BY <2>1, <2>2, <3>2, KeepsStep DEF Keeps
    <3> QED
      BY <2>1, <3>1, <3>2 DEF Next
  <2>4. ASSUME NEW stage \in Says \ {"list"}, NEW outcome, Say(c, stage, outcome) PROVE FALSE
    <3>1. said \in [Commands -> [Says -> {"none", "ok", "error", "found", "not found", "unread"}]]
      BY <2>2 DEF TypeOK
    <3>2. said'[c] = [said[c] EXCEPT ![stage] = outcome]
      BY <2>4, <3>1 DEF Say
    <3>3. said'[c]["list"] = said[c]["list"]
      BY <2>4, <3>1, <3>2 DEF Says
    <3> QED
      BY <2>1, <3>3
  <2>5. ListPage(c)
    <3> USE DEF Says
    <3>1. said' # said
      BY <2>1
    <3>2. ~(Start(c) \/ GetInfo(c) \/ SendApply(c) \/ Close(c) \/ Refuse(c) \/ Kill(c) \/ Overrun(c))
      BY <3>1 DEF Start, GetInfo, SendApply, Close, Refuse, Kill, Overrun
    <3>3. ~(Find(c) \/ SendApply3(c) \/ SendUndo(c) \/ RefuseApply(c))
      BY <2>4, <3>1 DEF Find, SendApply3, SendUndo, RefuseApply, Finish
    <3>4. ~(Load(c) \/ GetVersion(c) \/ BeginUndo(c))
      BY <2>4, <3>1 DEF Load, GetVersion, BeginUndo, Checked, Finish
    <3>5. ~(SearchDep(c) \/ Relocate(c))
      BY <2>4, <3>1 DEF SearchDep, Relocate, Finish
    <3>6. ~Search(c)
      BY <2>4, <3>1 DEF Search, Finish
    <3>7. ~LookFails(c)
      BY <2>1, <2>2, LookFacts
    <3> QED
      BY <2>3, <3>2, <3>3, <3>4, <3>5, <3>6, <3>7 DEF Run, Fault, NoRoom, Misread
  <2>6. Len(Listed) < MaxList3 /\ Ask(c) /\ printed' = [printed EXCEPT ![c] = printed[c] \o Listed]
    BY <2>1, <2>5 DEF ListPage
  <2>7. queue # <<>> /\ queue \in Seq(Commands) /\ queue[1] = c /\ 1 \in 1 .. Len(queue)
    <3>1. queue # <<>> /\ Head(queue) = c
      BY <2>2, <2>6, AskFacts
    <3>2. queue \in Seq(Commands)
      BY <2>2 DEF TypeOK
    <3> QED
      BY <3>1, <3>2, TailFacts
  <2>8. printed[c] = <<>>
    BY <2>5, <2>6, <2>7, <2>2 DEF PrintedInv, ListPage
  <2>9. Listed = applied /\ applied \in Seq(Patches)
    <3>1. applied \in Seq(Patches)
      BY <2>2 DEF TypeOK
    <3>2. Len(Listed) \in Nat /\ (Len(Listed) < MaxList => Listed = applied)
      BY <3>1, ListedFacts
    <3> QED
      BY <2>6, <3>1, <3>2, ConstantsAssumption
  <2>10. <<>> \o applied = applied
    BY <2>9, ConcatEmptySeq
  <2> QED
    BY <2>2, <2>6, <2>8, <2>9, <2>10 DEF TypeOK
<1> QED
  BY <1>1, Invariance, PTL DEF Spec, ListComplete

\* What a command says of an apply or an undo is what it has come to.
THEOREM SaysTheOutcome == Spec => OutcomeTrue
<1>1. IInv /\ [Next]_vars =>
          [\A c \in Commands :
              /\ /\ Tells(c, "apply")
                 /\ Desc[opts[c].apply].loads
                 /\ Desc[opts[c].apply].fits
                 /\ ~Desc[opts[c].apply].badrel
                 => (said'[c]["apply"] = "ok" <=> Holds(applied', opts[c].apply))
              /\ Tells(c, "undo") /\ opts[c].hash # NoPatch
                 => /\ said'[c]["undo"] = "ok" <=> Holds(applied, opts[c].hash)
                    /\ ~Holds(applied', opts[c].hash)]_vars
  <2>1. SUFFICES ASSUME IInv, Next, NEW c \in Commands
                 PROVE  /\ /\ said'[c]["apply"] \notin {said[c]["apply"], "unread"}
                           /\ Desc[opts[c].apply].loads
                           /\ Desc[opts[c].apply].fits
                           /\ ~Desc[opts[c].apply].badrel
                           => (said'[c]["apply"] = "ok" <=> Holds(applied', opts[c].apply))
                        /\ said'[c]["undo"] \notin {said[c]["undo"], "unread"} /\ opts[c].hash # NoPatch
                           => /\ said'[c]["undo"] = "ok" <=> Holds(applied, opts[c].hash)
                              /\ ~Holds(applied', opts[c].hash)
    BY DEF vars, server, client, Tells
  <2>2. TypeOK /\ QueueInv /\ SearchStillTrue /\ AppliedOnce /\ GoalInv(c)
    BY <2>1 DEF IInv
  <2>3. said \in [Commands -> [Says -> {"none", "ok", "error", "found", "not found", "unread"}]]
    BY <2>2 DEF TypeOK
  <2>4. CASE ~(Run(c) \/ Fault(c))
    <3>1. CASE EndOfFile \/ CutShort
      BY <3>1 DEF EndOfFile, CutShort, client
    <3>2. ASSUME NEW d \in Commands, Run(d) \/ Fault(d) PROVE said'[c] = said[c]
      BY <2>2, <2>4, <3>2, KeepsStep DEF Keeps
    <3> QED
      BY <2>1, <3>1, <3>2 DEF Next
  <2>5. CASE Run(c) \/ Fault(c)
    <3> USE DEF Says
    <3>1. ASSUME NEW stage \in Says, NEW outcome, Say(c, stage, outcome)
          PROVE  \A x \in Says : said'[c][x] = IF x = stage THEN outcome ELSE said[c][x]
      BY <2>3, <3>1 DEF Say
    <3>2. applied \in Seq(Patches) /\ goal[c] \in {"none", "apply4", "apply3", "undo"}
      BY <2>2 DEF TypeOK
    <3>3. ASSUME Ask(c), at[c] \in {"deps", "send"}
          PROVE  goal[c] = "undo" <=> Holds(applied, Target(c))
      BY <2>2, <3>3, AskFacts DEF SearchStillTrue
    <3>4. CASE Start(c) \/ GetInfo(c) \/ SendApply(c) \/ Close(c) \/ Refuse(c) \/ Kill(c) \/ Overrun(c)
      BY <3>4 DEF Start, GetInfo, SendApply, Close, Refuse, Kill, Overrun
    <3>5. CASE ListPage(c) \/ Find(c)
      <4>1. \A x \in {"apply", "undo"} : said'[c][x] = said[c][x]
        BY <3>1, <3>5 DEF ListPage, Find, Finish
      <4> QED
        BY <4>1
    <3>6. CASE Load(c) \/ GetVersion(c)
      <4>1. said'[c]["undo"] = said[c]["undo"]
        BY <3>1, <3>6 DEF Load, GetVersion, Checked, Finish
      <4>2. \/ said' = said
            \/ ~Desc[opts[c].apply].loads
            \/ ~Desc[opts[c].apply].fits
        BY <3>6 DEF Load, GetVersion, Checked
      <4> QED
        BY <4>1, <4>2
    <3>7. CASE Search(c)
      <4>1. /\ at[c] = "search" /\ applied' = applied
            /\ goal[c] \in {"apply4", "apply3", "undo"}
        BY <2>2, <3>2, <3>7 DEF Search, GoalInv
      <4>2. Len(Listed) \in Nat /\ Len(Listed) <= MaxList /\ MaxList \in Nat
        BY <3>2, ListedFacts, ConstantsAssumption
      <4>3. CASE Holds(Listed, Target(c))
        <5>1. said' = said \/ (goal[c] = "apply3" /\ Say(c, "apply", "ok"))
          BY <3>7, <4>1, <4>3 DEF Search, Finish
        <5>2. Holds(applied, Target(c))
          BY <3>2, <4>3, ListedFacts
        <5> QED
          BY <3>1, <4>1, <5>1, <5>2 DEF Target
      <4>4. CASE ~Holds(Listed, Target(c)) /\ Len(Listed) = MaxList
        BY <3>7, <4>1, <4>4 DEF Search
      <4>5. CASE ~Holds(Listed, Target(c)) /\ Len(Listed) # MaxList
        <5>1. Len(Listed) < MaxList
          BY <4>2, <4>5
        <5>2. said' = said \/ (goal[c] = "undo" /\ Say(c, "undo", "error"))
          BY <3>7, <4>1, <4>5, <5>1 DEF Search, Finish
        <5>3. Listed = applied
          BY <3>2, <5>1, ListedFacts
        <5>4. ~Holds(applied, Target(c))
          BY <4>5, <5>3
        <5> QED
          BY <3>1, <4>1, <5>2, <5>4 DEF Target
      <4> QED
        BY <4>3, <4>4, <4>5
    <3>8. CASE SearchDep(c)
      <4>1. at[c] = "deps" /\ Ask(c) /\ applied' = applied /\ goal[c] # "undo"
        BY <2>2, <3>8 DEF SearchDep, GoalInv
      <4>2. said' = said \/ Say(c, "apply", "error")
        BY <3>8 DEF SearchDep, Finish
      <4>3. ~Holds(applied, opts[c].apply)
        BY <3>3, <4>1 DEF Target
      <4> QED
        BY <3>1, <4>1, <4>2, <4>3
    <3>9. CASE Relocate(c)
      <4>1. said' = said \/ (Desc[opts[c].apply].badrel /\ Say(c, "apply", "error"))
        BY <3>9 DEF Relocate, Finish
      <4> QED
        BY <3>1, <4>1
    <3>10. CASE SendApply3(c) \/ RefuseApply(c)
      <4>1. /\ at[c] = "send" /\ Ask(c) /\ applied' = applied /\ goal[c] # "undo"
            /\ Say(c, "apply", "error")
        BY <3>10 DEF SendApply3, RefuseApply, Finish
      <4>2. ~Holds(applied, opts[c].apply)
        BY <3>3, <4>1 DEF Target
      <4> QED
        BY <3>1, <4>1, <4>2
    <3>11. CASE BeginUndo(c)
      <4>1. said' = said \/ (opts[c].hash = NoPatch /\ Say(c, "undo", "error"))
        BY <3>11 DEF BeginUndo, Finish
      <4> QED
        BY <3>1, <4>1
    <3>12. CASE SendUndo(c)
      <4>1. at[c] = "send" /\ Ask(c) /\ goal[c] = "undo" /\ opts[c].hash \in Patches
        BY <2>2, <3>12 DEF SendUndo, GoalInv
      <4>2. Holds(applied, opts[c].hash)
        BY <3>3, <4>1 DEF Target
      <4>3. applied' = Without(opts[c].hash) /\ Say(c, "undo", "ok")
        BY <3>12, <4>2 DEF SendUndo, Finish
      <4>4. ~Holds(Without(opts[c].hash), opts[c].hash)
        BY <2>2, <3>2, <4>1, <4>2, WithoutFacts
      <4>5. ~Holds(applied', opts[c].hash)
        BY <4>3, <4>4
      <4> QED
        BY <3>1, <4>2, <4>3, <4>5
    <3>13. CASE LookFails(c)
      BY <2>2, <3>13, LookFacts
    <3> QED
      BY <2>5, <3>4, <3>5, <3>6, <3>7, <3>8, <3>9, <3>10, <3>11, <3>12, <3>13
         DEF Run, Fault, NoRoom, Misread
  <2> QED
    BY <2>4, <2>5
<1> QED
  BY <1>1, Invariance, PTL DEF Spec, OutcomeTrue

\* What --remove does not name, and --find does not either, stays applied.
THEOREM UndoesNoMore == Spec => UndoesWhatIsAsked
<1>1. IInv /\ [Next]_vars =>
          [\A p \in Patches :
              Holds(applied, p) /\ ~Holds(applied', p) =>
                  \E c \in Commands : opts[c].undo /\ (opts[c].doomed = p \/ opts[c].find)]_vars
  <2>1. SUFFICES ASSUME IInv, Next, NEW p \in Patches, Holds(applied, p), ~Holds(applied', p)
                 PROVE  \E c \in Commands : opts[c].undo /\ (opts[c].doomed = p \/ opts[c].find)
    BY DEF vars, server, client
  <2>2. TypeOK /\ AppliedOnce /\ LineInv /\ \A c \in Commands : GoalInv(c)
    BY <2>1 DEF IInv
  <2>3. PICK c \in Commands : Run(c) \/ Fault(c)
    BY <2>1 DEF Next, EndOfFile, CutShort
  <2>4. applied \in Seq(Patches)
    BY <2>2 DEF TypeOK
  <2>5. CASE applied' = applied
    BY <2>1, <2>5
  <2>6. CASE applied' = <<opts[c].apply>> \o applied /\ opts[c].apply \in Patches
    <3>1. \A q \in Patches : Holds(applied, q) => Holds(<<opts[c].apply>> \o applied, q)
      <4>1. PICK e \in Patches : e = opts[c].apply
        BY <2>6
      <4>2. PICK t : t = <<e>> \o applied
        OBVIOUS
      <4>3. Len(applied) \in Nat /\ Len(t) = Len(applied) + 1
            /\ \A i \in 2 .. Len(t) : i - 1 \in 1 .. Len(applied) /\ t[i] = applied[i - 1]
        BY <2>4, <4>2, PrependFacts
      <4>4. \A i \in 1 .. Len(applied) : i + 1 \in 1 .. Len(t) /\ t[i + 1] = applied[i]
        BY <4>3
      <4>5. \A q \in Patches : Holds(applied, q) => Holds(t, q)
        BY <4>4 DEF Holds
      <4> QED
        BY <4>1, <4>2, <4>5
    <3> QED
      BY <2>1, <2>6, <3>1
  <2>7. CASE /\ goal[c] = "undo" /\ Holds(applied, opts[c].hash)
             /\ applied' = Without(opts[c].hash)
    <3>1. opts[c].hash \in Patches /\ opts[c].undo
      BY <2>2, <2>7 DEF GoalInv
    <3>2. opts[c].hash = p
      BY <2>1, <2>2, <2>4, <2>7, <3>1, WithoutOnly
    <3>3. ~opts[c].find => opts[c].hash = opts[c].doomed
      BY <2>2, <3>1, ReadFacts DEF LineInv
    <3> QED
      BY <3>1, <3>2, <3>3
  <2> QED
    BY <2>2, <2>3, <2>5, <2>6, <2>7, AppliedShape DEF GoalInv
<1> QED
  BY <1>1, Invariance, PTL DEF Spec, UndoesWhatIsAsked

\* A command that only looks for a patch says whether it is applied.
THEOREM FindsTruly == Spec => FindTrue
<1>1. IInv /\ [Next]_vars =>
          [\A c \in Commands :
              Tells(c, "find") /\ ~opts[c].undo /\ Len(applied) <= MaxList =>
                  (said'[c]["find"] = "found" <=> Holds(applied, opts[c].sought))]_vars
  <2>1. SUFFICES ASSUME IInv, Next, NEW c \in Commands, said'[c]["find"] \notin {said[c]["find"], "unread"},
                        ~opts[c].undo, Len(applied) <= MaxList
                 PROVE  said'[c]["find"] = "found" <=> Holds(applied, opts[c].sought)
    BY DEF vars, server, client, Tells
  <2>2. TypeOK /\ LineInv
    BY <2>1 DEF IInv
  <2>3. Run(c) \/ Fault(c)
    <3>1. ~EndOfFile /\ ~CutShort
      BY <2>1 DEF EndOfFile, CutShort, client
    <3>2. ASSUME NEW d \in Commands, Run(d) \/ Fault(d) PROVE d = c
      BY <2>1, <2>2, <3>2, KeepsStep DEF Keeps
    <3> QED
      BY <2>1, <3>1, <3>2 DEF Next
  <2>4. said \in [Commands -> [Says -> {"none", "ok", "error", "found", "not found", "unread"}]]
    BY <2>2 DEF TypeOK
  <2>5. ASSUME NEW stage \in Says \ {"find"}, NEW outcome, Say(c, stage, outcome) PROVE FALSE
    <3>1. said'[c] = [said[c] EXCEPT ![stage] = outcome]
      BY <2>4, <2>5 DEF Say
    <3>2. said'[c]["find"] = said[c]["find"]
      BY <2>4, <2>5, <3>1 DEF Says
    <3> QED
      BY <2>1, <3>2
  <2>6. Find(c)
    <3> USE DEF Says
    <3>1. said' # said
      BY <2>1
    <3>2. ~(Start(c) \/ GetInfo(c) \/ SendApply(c) \/ Close(c) \/ Refuse(c) \/ Kill(c) \/ Overrun(c))
      BY <3>1 DEF Start, GetInfo, SendApply, Close, Refuse, Kill, Overrun
    <3>3. ~(ListPage(c) \/ SendApply3(c) \/ SendUndo(c) \/ RefuseApply(c))
      BY <2>5, <3>1 DEF ListPage, SendApply3, SendUndo, RefuseApply, Finish
    <3>4. ~(Load(c) \/ GetVersion(c) \/ BeginUndo(c))
      BY <2>5, <3>1 DEF Load, GetVersion, BeginUndo, Checked, Finish
    <3>5. ~(SearchDep(c) \/ Relocate(c))
      BY <2>5, <3>1 DEF SearchDep, Relocate, Finish
    <3>6. ~Search(c)
      BY <2>5, <3>1 DEF Search, Finish
    <3>7. ~LookFails(c)
      BY <2>1, <2>2, LookFacts
    <3> QED
      BY <2>3, <3>2, <3>3, <3>4, <3>5, <3>6, <3>7 DEF Run, Fault, NoRoom, Misread
  <2>7. said'[c]["find"] = IF Holds(Listed, opts[c].hash) THEN "found" ELSE "not found"
    BY <2>4, <2>6 DEF Find, Finish, Say, Says
  <2>8. Listed = applied
    BY <2>1 DEF Listed
  <2>9. opts[c].hash = opts[c].sought
    BY <2>1, <2>2, ReadFacts DEF LineInv
  <2> QED
    BY <2>7, <2>8, <2>9
<1> QED
  BY <1>1, Invariance, PTL DEF Spec, FindTrue
-----------------------------------------------------------------------------
(* What CommandsEnd rests on besides fairness: a measure of what a command    *)
(* still does, which each of its steps lowers and no step of another command  *)
(* raises.                                                                    *)

\* Messages the session of c has left: none after its limit, when it is no
\* longer in the queue.
MessagesLeft(c) ==
    IF at[c] = "new" \/ \E i \in 2 .. Len(queue) : queue[i] = c THEN Limit
    ELSE IF queue # <<>> /\ queue[1] = c THEN Limit - count
    ELSE 0

\* The places in the order in which a command passes them between messages.
Rank ==
    [place \in Places |->
        CASE place = "closed" \/ place = "killed" -> 0
          [] place = "done" -> 1
          [] place = "search" \/ place = "send" -> 2
          [] place \in {"undo", "version", "date"} -> 3
          [] place = "apply" \/ place = "deps" -> 4
          [] place \in {"info", "list", "find"} -> 5
          [] place = "new" -> 6]

Effort(c) == 7 * MessagesLeft(c) + Rank[at[c]]

LEMMA EffortFacts ==
    ASSUME TypeOK, NEW c \in Commands
    PROVE  /\ MessagesLeft(c) \in 0 .. Limit
           /\ Rank[at[c]] \in 0 .. 6
           /\ Effort(c) \in 0 .. (7 * Limit + 6)
<1>1. Limit \in Nat \ {0} /\ count \in 0 .. (Limit - 1) /\ at[c] \in Places
  BY ConstantsAssumption DEF TypeOK, Places
<1>2. MessagesLeft(c) \in 0 .. Limit
  BY <1>1 DEF MessagesLeft
<1>3. Rank[at[c]] \in 0 .. 6
  BY <1>1 DEF Rank, Places
<1> QED
  BY <1>1, <1>2, <1>3 DEF Effort

LEMMA EffortFactsNext ==
    ASSUME TypeOK', NEW c \in Commands
    PROVE  /\ MessagesLeft(c)' \in 0 .. Limit
           /\ Rank[at'[c]] \in 0 .. 6
           /\ Effort(c)' \in 0 .. (7 * Limit + 6)
<1>1. Limit \in Nat \ {0} /\ count' \in 0 .. (Limit - 1) /\ at'[c] \in Places
  BY ConstantsAssumption DEF TypeOK, Places
<1>2. MessagesLeft(c)' \in 0 .. Limit
  <2>1. MessagesLeft(c)' \in {Limit, Limit - count', 0}
    BY DEF MessagesLeft
  <2>2. ASSUME NEW n \in 0 .. (Limit - 1) PROVE Limit - n \in 0 .. Limit
    BY <1>1, <2>2
  <2>3. Limit - count' \in 0 .. Limit
    BY <1>1, <2>2
  <2> QED
    BY <1>1, <2>1, <2>3
<1>3. Rank[at'[c]] \in 0 .. 6
  BY <1>1 DEF Rank, Places
<1> QED
  BY <1>1, <1>2, <1>3 DEF Effort

\* The command at the head is nowhere else in the queue.
LEMMA HeadOnce ==
    ASSUME TypeOK, QueueInv, queue # <<>>
    PROVE  /\ queue[1] = Head(queue) /\ 1 \in 1 .. Len(queue)
           /\ \A i \in 2 .. Len(queue) : queue[i] # queue[1]
           /\ at[queue[1]] # "new"
<1>1. Len(queue) \in Nat \ {0} /\ queue[1] = Head(queue)
  BY TailFacts DEF TypeOK
<1>2. \A i \in 2 .. Len(queue) : i \in 1 .. Len(queue) /\ i # 1
  BY <1>1
<1> QED
  BY <1>1, <1>2 DEF QueueInv

\* When the head is taken off, the next gets a session of its own.
LEMMA PopLeft ==
    ASSUME TypeOK, QueueInv, queue # <<>>, queue' = Tail(queue), count' = 0,
           NEW d \in Commands, at'[d] = "new" <=> at[d] = "new"
    PROVE  /\ MessagesLeft(d)' <= MessagesLeft(d)
           /\ d = queue[1] => MessagesLeft(d)' = 0
<1>1. /\ Len(queue) \in Nat \ {0} /\ Limit \in Nat \ {0} /\ count \in 0 .. (Limit - 1)
      /\ queue' \in Seq(Commands)
      /\ Len(queue') = Len(queue) - 1
      /\ \A i \in 1 .. Len(queue') : i + 1 \in 2 .. Len(queue) /\ queue'[i] = queue[i + 1]
  BY TailFacts, ConstantsAssumption DEF TypeOK
<1>2. queue' # <<>> => 1 \in 1 .. Len(queue')
  BY <1>1, EmptySeq
<1>3. \A i \in 2 .. Len(queue') : i \in 1 .. Len(queue')
  BY <1>1
<1>4. CASE at[d] = "new"
  <2>1. d # queue[1]
    BY <1>4, HeadOnce
  <2> QED
    BY <1>1, <1>4, <2>1 DEF MessagesLeft
<1>5. CASE at[d] # "new" /\ \E i \in 2 .. Len(queue) : queue[i] = d
  <2>1. MessagesLeft(d) = Limit /\ d # queue[1]
    BY <1>5, HeadOnce DEF MessagesLeft
  <2>2. MessagesLeft(d)' \in {Limit, 0}
    BY <1>1, <1>5 DEF MessagesLeft
  <2> QED
    BY <1>1, <2>1, <2>2
<1>6. CASE at[d] # "new" /\ ~\E i \in 2 .. Len(queue) : queue[i] = d
  <2>1. \A i \in 1 .. Len(queue') : queue'[i] # d
    BY <1>1, <1>6
  <2>2. MessagesLeft(d)' = 0
    BY <1>2, <1>3, <1>6, <2>1 DEF MessagesLeft
  <2> QED
    BY <1>1, <2>2, EffortFacts
<1> QED
  BY <1>4, <1>5, <1>6

\* A message is one less to send, and the last of the session takes the
\* command off the queue.
LEMMA AskLeft ==
    ASSUME TypeOK, QueueInv, NEW c \in Commands, Ask(c), at'[c] # "new"
    PROVE  MessagesLeft(c)' <= MessagesLeft(c) - 1
<1>1. /\ queue # <<>> /\ queue[1] = c /\ at[c] # "new"
      /\ \A i \in 2 .. Len(queue) : queue[i] # c
      /\ Limit \in Nat /\ count \in 0 .. (Limit - 1)
  BY AskFacts, HeadOnce, ConstantsAssumption DEF TypeOK
<1>2. MessagesLeft(c) = Limit - count
  BY <1>1 DEF MessagesLeft
<1>3. CASE count + 1 < Limit
  <2>1. queue' = queue /\ count' = count + 1
    BY <1>3 DEF Ask
  <2> QED
    BY <1>1, <1>2, <2>1 DEF MessagesLeft
<1>4. CASE ~(count + 1 < Limit)
  <2>1. queue' = Tail(queue) /\ count' = 0
    BY <1>4 DEF Ask
  <2>2. MessagesLeft(c)' = 0
    BY <1>1, <2>1, PopLeft
  <2> QED
    BY <1>1, <1>2, <2>2
<1> QED
  BY <1>3, <1>4

\* Between messages a command only goes on to later places.
LEMMA RankStep ==
    ASSUME TypeOK, NEW c \in Commands, Run(c) \/ Fault(c), ~Ask(c)
    PROVE  Rank[at'[c]] < Rank[at[c]]
<1>1. ASSUME NEW place \in Places, Move(c, place) PROVE at'[c] = place
  BY <1>1 DEF Move, TypeOK
<1>2. ASSUME NEW stage \in Says, NEW outcome \in {"ok", "error", "found", "not found", "unread"},
             Finish(c, stage, outcome)
      PROVE  at'[c] = After(opts[c], stage)
  BY <1>2 DEF Finish, Move, TypeOK
<1>3. at[c] \in Places
  BY DEF TypeOK, Places
<1>4. CASE Start(c)
  <2>1. at[c] = "new" /\ at'[c] = After(opts[c], "new")
    BY <1>4 DEF Start, Move, TypeOK
  <2>2. at'[c] \in {"info", "list", "find", "apply", "undo", "done"}
    BY <2>1, OptionFacts, AfterFacts
  <2> QED
    BY <2>1, <2>2 DEF Rank, Places
<1>5. CASE Load(c)
  <2>1. After(opts[c], "apply") \in {"undo", "done"}
    BY DEF After
  <2>2. at[c] = "apply" /\ at'[c] \in {"version", "search", "undo", "done"}
    BY <1>1, <1>2, <1>5, <2>1 DEF Load, Checked, Says, Places
  <2> QED
    BY <2>2 DEF Rank, Places
<1>6. CASE BeginUndo(c)
  <2>1. After(opts[c], "undo") = "done"
    BY DEF After
  <2>2. at[c] = "undo" /\ at'[c] \in {"search", "done"}
    BY <1>1, <1>2, <1>6, <2>1 DEF BeginUndo, Says, Places
  <2> QED
    BY <2>2 DEF Rank, Places
<1>7. CASE Relocate(c)
  <2>1. After(opts[c], "apply") \in {"undo", "done"}
    BY DEF After
  <2>2. at[c] = "deps" /\ at'[c] \in {"send", "undo", "done"}
    BY <1>1, <1>2, <1>7, <2>1 DEF Relocate, Says, Places
  <2> QED
    BY <2>2 DEF Rank, Places
<1>8. CASE Close(c)
  <2>1. at[c] = "done" /\ at'[c] = "closed"
    BY <1>1, <1>8 DEF Close, Places
  <2> QED
    BY <2>1 DEF Rank, Places
<1>9. CASE Refuse(c) \/ Kill(c)
  <2>1. at[c] \notin {"closed", "killed"} /\ at'[c] \in {"closed", "killed"}
    BY <1>1, <1>9 DEF Refuse, Kill, Places
  <2> QED
    BY <1>3, <2>1 DEF Rank, Places
<1> QED
  BY <1>4, <1>5, <1>6, <1>7, <1>8, <1>9 DEF Run, Fault, GetInfo, ListPage, Find, GetVersion, Search,
    SearchDep, SendApply, SendApply3, SendUndo, Overrun, RefuseApply, NoRoom, Misread, LookFails

\* Every step of a command lowers its own effort ...
LEMMA OwnEffort ==
    ASSUME IInv, NEW c \in Commands, Run(c) \/ Fault(c)
    PROVE  Effort(c)' < Effort(c)
<1>1. TypeOK /\ QueueInv /\ TypeOK' /\ QueueInv'
  BY RunStep DEF IInv
<1>2. /\ Limit \in Nat
      /\ MessagesLeft(c) \in 0 .. Limit /\ MessagesLeft(c)' \in 0 .. Limit
      /\ Rank[at[c]] \in 0 .. 6 /\ Rank[at'[c]] \in 0 .. 6
  BY <1>1, EffortFacts, EffortFactsNext, ConstantsAssumption
<1>3. CASE Ask(c)
  <2>1. MessagesLeft(c)' <= MessagesLeft(c) - 1
    BY <1>1, <1>3, PlaceStep, AskLeft
  <2> QED
    BY <1>2, <2>1 DEF Effort
<1>4. CASE ~Ask(c)
  <2>1. Rank[at'[c]] < Rank[at[c]]
    BY <1>1, <1>4, RankStep
  <2>2. MessagesLeft(c)' <= MessagesLeft(c)
    <3>1. CASE at[c] = "new"
      <4>1. MessagesLeft(c) = Limit
        BY <3>1 DEF MessagesLeft
      <4> QED
        BY <1>2, <4>1
    <3>2. CASE at[c] # "new"
      <4>1. at'[c] # "new" /\ ~Start(c)
        BY <1>1, <3>2, PlaceStep DEF Start
      <4>2. queue' = queue /\ count' = count
        BY <1>4, <4>1 DEF Run, Fault, GetInfo, ListPage, Find, Load, GetVersion, Search, SearchDep,
          Relocate, SendApply, SendApply3, BeginUndo, SendUndo, Close, Refuse, Kill, Overrun,
          RefuseApply, NoRoom, Misread, LookFails, server
      <4>3. MessagesLeft(c)' = MessagesLeft(c)
        BY <3>2, <4>1, <4>2 DEF MessagesLeft
      <4> QED
        BY <1>2, <4>3
    <3> QED
      BY <3>1, <3>2
  <2> QED
    BY <1>2, <2>1, <2>2 DEF Effort
<1> QED
  BY <1>3, <1>4

\* ... and raises no other's.
LEMMA OthersEffort ==
    ASSUME TypeOK, QueueInv, NEW c \in Commands, Run(c) \/ Fault(c), NEW d \in Commands, d # c
    PROVE  Effort(d)' <= Effort(d)
<1>1. at'[d] = at[d]
  BY KeepsStep DEF Keeps
<1>2. /\ Limit \in Nat \ {0} /\ count \in 0 .. (Limit - 1) /\ count' \in 0 .. (Limit - 1)
      /\ MessagesLeft(d) \in 0 .. Limit /\ Rank[at[d]] \in 0 .. 6
  BY EffortFacts, QueueShape, ConstantsAssumption DEF TypeOK
<1>3. MessagesLeft(d)' \in Nat /\ MessagesLeft(d)' <= MessagesLeft(d)
  <2>0. MessagesLeft(d)' \in Nat
    <3>1. MessagesLeft(d)' \in {Limit, Limit - count', 0}
      BY DEF MessagesLeft
    <3>2. ASSUME NEW n \in 0 .. (Limit - 1) PROVE Limit - n \in Nat
      BY <1>2, <3>2
    <3> QED
      <4>1. Limit - count' \in Nat
        BY <1>2, <3>2
      <4> QED
        BY <1>2, <3>1, <4>1
  <2>1. CASE Ask(c)
    <3>1. queue # <<>> /\ queue[1] = c /\ at[c] # "new"
      BY <2>1, AskFacts, HeadOnce
    <3>2. CASE count + 1 < Limit
      <4>1. queue' = queue
        BY <2>1, <3>2 DEF Ask
      <4>2. MessagesLeft(d)' = MessagesLeft(d)
        BY <1>1, <3>1, <4>1 DEF MessagesLeft
      <4> QED
        BY <1>2, <4>2
    <3>3. CASE ~(count + 1 < Limit)
      <4>1. queue' = Tail(queue) /\ count' = 0
        BY <2>1, <3>3 DEF Ask
      <4> QED
        BY <1>1, <2>0, <3>1, <4>1, PopLeft
    <3> QED
      BY <3>2, <3>3
  <2>2. CASE ~Ask(c) /\ Start(c)
    <3>1. at[c] = "new" /\ queue' = Append(queue, c) /\ count' = count
      BY <2>2 DEF Start
    <3>2. queue \in Seq(Commands)
      BY DEF TypeOK
    <3>3. /\ Len(queue') = Len(queue) + 1 /\ Len(queue) \in Nat
          /\ \A i \in 1 .. Len(queue) : queue'[i] = queue[i]
          /\ queue'[Len(queue) + 1] = c
      BY <3>1, <3>2, AppendShape
    <3>4. CASE queue = <<>>
      <4>1. Len(queue) = 0
        BY <3>4
      <4>2. \A i \in 1 .. Len(queue') : queue'[i] = c
        BY <3>3, <4>1
      <4>3. (\A i \in 2 .. Len(queue') : queue'[i] # d) /\ queue'[1] # d
        BY <3>3, <4>1, <4>2
      <4>4. MessagesLeft(d)' = IF at[d] = "new" THEN Limit ELSE 0
        BY <1>1, <4>3 DEF MessagesLeft
      <4>5. at[d] = "new" => MessagesLeft(d) = Limit
        BY DEF MessagesLeft
      <4> QED
        BY <1>2, <4>4, <4>5
    <3>5. CASE queue # <<>>
      <4>1. Len(queue) >= 1
        BY <3>2, <3>5, TailFacts
      <4>2. queue'[1] = queue[1] /\ queue' # <<>>
        BY <3>3, <4>1, EmptySeq
      <4>3. (\E i \in 2 .. Len(queue') : queue'[i] = d) <=> \E i \in 2 .. Len(queue) : queue[i] = d
        BY <3>3
      <4>4. MessagesLeft(d)' = MessagesLeft(d)
        BY <1>1, <3>1, <3>5, <4>2, <4>3 DEF MessagesLeft
      <4> QED
        BY <1>2, <4>4
    <3> QED
      BY <3>4, <3>5
  <2>3. CASE ~Ask(c) /\ ~Start(c)
    <3>1. queue' = queue /\ count' = count
      BY <2>3 DEF Run, Fault, GetInfo, ListPage, Find, Load, GetVersion, Search, SearchDep,
        Relocate, SendApply, SendApply3, BeginUndo, SendUndo, Close, Refuse, Kill, Overrun,
        RefuseApply, NoRoom, Misread, LookFails, server
    <3>2. MessagesLeft(d)' = MessagesLeft(d)
      BY <1>1, <3>1 DEF MessagesLeft
    <3> QED
      BY <1>2, <3>2
  <2> QED
    BY <2>1, <2>2, <2>3
<1> QED
  BY <1>1, <1>2, <1>3 DEF Effort

LEMMA CutShortEffort ==
    ASSUME TypeOK, CutShort, NEW d \in Commands
    PROVE  Effort(d)' <= Effort(d)
<1>1. UNCHANGED <<queue, count, at>>
  BY DEF CutShort, client
<1>2. Effort(d)' = Effort(d)
  BY <1>1 DEF Effort, MessagesLeft
<1>3. Effort(d) \in 0 .. (7 * Limit + 6) /\ Limit \in Nat
  BY EffortFacts, ConstantsAssumption
<1> QED
  BY <1>2, <1>3

LEMMA EndOfFileEffort ==
    ASSUME TypeOK, QueueInv, EndOfFile, NEW d \in Commands
    PROVE  Effort(d)' <= Effort(d)
<1>1. queue # <<>> /\ queue' = Tail(queue) /\ count' = 0 /\ at' = at
  BY DEF EndOfFile, client
<1>2. MessagesLeft(d)' <= MessagesLeft(d)
  BY <1>1, PopLeft
<1>3. Limit \in Nat \ {0} /\ MessagesLeft(d) \in 0 .. Limit /\ Rank[at[d]] \in 0 .. 6
  BY EffortFacts, ConstantsAssumption
<1>4. MessagesLeft(d)' \in 0 .. Limit
  BY <1>1, <1>3 DEF MessagesLeft
<1> QED
  BY <1>1, <1>2, <1>3, <1>4 DEF Effort

\* However many commands there are, in any order, whatever is applied: a
\* command takes at most 7 * Limit + 6 steps.  The listing that is asked for
\* again while it is full, and the search of a list as long as a reply, which
\* raxlpxs.c never gives up by itself, end with the session at the latest.
THEOREM CommandsBounded ==
    Spec => /\ [](\A c \in Commands : Effort(c) \in 0 .. (7 * Limit + 6))
            /\ [][\A c \in Commands :
                     /\ Effort(c)' <= Effort(c)
                     /\ Run(c) \/ Fault(c) => Effort(c)' < Effort(c)]_vars
<1>1. IInv => \A c \in Commands : Effort(c) \in 0 .. (7 * Limit + 6)
  BY EffortFacts DEF IInv
<1>2. IInv /\ [Next]_vars => [\A c \in Commands :
                                /\ Effort(c)' <= Effort(c)
                                /\ Run(c) \/ Fault(c) => Effort(c)' < Effort(c)]_vars
  <2> SUFFICES ASSUME IInv, Next, NEW c \in Commands
               PROVE  /\ Effort(c)' <= Effort(c)
                      /\ Run(c) \/ Fault(c) => Effort(c)' < Effort(c)
    OBVIOUS
  <2>1. TypeOK /\ QueueInv /\ IInv'
    BY NextStep DEF IInv
  <2>2. Run(c) \/ Fault(c) => Effort(c)' < Effort(c)
    BY OwnEffort
  <2>3. Effort(c) \in Int /\ Effort(c)' \in Int
    <3>1. Effort(c) \in 0 .. (7 * Limit + 6) /\ Effort(c)' \in 0 .. (7 * Limit + 6)
      BY <2>1, EffortFacts, EffortFactsNext DEF IInv
    <3>2. Limit \in Nat
      BY ConstantsAssumption
    <3> QED
      BY <3>1, <3>2
  <2>4. CASE EndOfFile
    BY <2>1, <2>2, <2>4, EndOfFileEffort
  <2>6. CASE CutShort
    BY <2>1, <2>2, <2>6, CutShortEffort
  <2>5. ASSUME NEW d \in Commands, Run(d) \/ Fault(d)
        PROVE  Effort(c)' <= Effort(c)
    <3>1. CASE c = d
      BY <2>2, <2>3, <2>5, <3>1
    <3>2. CASE c # d
      BY <2>1, <2>5, <3>2, OthersEffort
    <3> QED
      BY <3>1, <3>2
  <2> QED
    BY <2>2, <2>4, <2>5, <2>6 DEF Next
<1> QED
  BY <1>1, <1>2, Invariance, PTL DEF Spec
-----------------------------------------------------------------------------
(* The commands implement Registry.  A set is enough to say what they      *)
(* promise because of AppliedOnce; and that nothing enters twice, or is    *)
(* taken out that is not in, is the work of the searches.                  *)

InUse == {p \in Patches : Holds(applied, p)}

\* What a command that runs is told to apply, if it is a file that loads, is
\* made for this QEMU, has sound relocations, is not refused, and depends on
\* nothing: a patch that depends on others never enters.
Wanted ==
    {p \in Patches :
        /\ \E c \in Commands : opts[c].runs /\ opts[c].apply = p
        /\ Desc[p].loads /\ Desc[p].fits /\ ~Desc[p].badrel /\ ~Desc[p].refused
        /\ Desc[p].deps = <<>>}

\* What a command that runs keeps as the hash of its --remove.
Unwanted == {p \in Patches : \E c \in Commands : opts[c].runs /\ opts[c].undo /\ opts[c].hash = p}

Abstract == INSTANCE Registry WITH inUse <- InUse, wanted <- Wanted, unwanted <- Unwanted

\* What a command knows of its file.
FileInv(c) ==
    /\ at[c] \notin {"new", "closed", "killed"} => opts[c].runs
    /\ at[c] = "version" => Desc[opts[c].apply].loads
    /\ goal[c] \in {"apply4", "apply3"} => Desc[opts[c].apply].loads /\ Desc[opts[c].apply].fits
    /\ at[c] = "send" /\ goal[c] # "undo" => ~Desc[opts[c].apply].badrel

LEMMA FileStep ==
    ASSUME TypeOK, NEW c \in Commands, GoalInv(c), FileInv(c), Run(c) \/ Fault(c)
    PROVE  FileInv(c)'
<1>0. /\ opts' = opts
      /\ opts[c].apply \in Patches \cup {NoPatch}
      /\ at \in [Commands -> Places] /\ goal \in [Commands -> {"none", "apply4", "apply3", "undo"}]
  BY FramedStep, OptionFacts DEF Framed, TypeOK, Places
<1>1. ASSUME NEW place \in Places, Move(c, place) PROVE at'[c] = place
  BY <1>0, <1>1 DEF Move
<1>2. ASSUME NEW stage \in Says, NEW outcome, Finish(c, stage, outcome)
      PROVE  at'[c] \notin {"version", "send"}
  <2>1. at'[c] = After(opts[c], stage)
    BY <1>0, <1>2 DEF Finish, Move
  <2> QED
    BY <1>0, <2>1, AfterFacts DEF Says
<1> USE DEF Says
\* A command that does not run goes nowhere.
<1>3. at'[c] \notin {"new", "closed", "killed"} => opts[c].runs
  <2>1. at[c] \notin {"closed", "killed"}
    BY DEF Run, Fault, Start, GetInfo, ListPage, Find, Load, GetVersion, Search, SearchDep, Relocate,
      SendApply, SendApply3, BeginUndo, SendUndo, Close, Refuse, Kill, Overrun, RefuseApply, NoRoom, Misread, LookFails
  <2>2. Refuse(c) => at'[c] = "closed"
    BY <1>1 DEF Refuse, Places
  <2>3. at[c] = "new" => Start(c) \/ Refuse(c)
    BY PlaceStep
  <2> QED
    BY <2>1, <2>2, <2>3 DEF FileInv, Start
<1>4. ASSUME goal' = goal,
             at'[c] \in {"version", "send"} => at'[c] = at[c]
      PROVE  FileInv(c)'
  BY <1>0, <1>3, <1>4 DEF FileInv
<1>5. CASE Start(c) \/ GetInfo(c)
  <2>1. at'[c] = After(opts[c], "new") \/ at'[c] = After(opts[c], "info")
    BY <1>0, <1>5 DEF Start, GetInfo, Move
  <2>2. at'[c] \notin {"version", "send"} /\ goal' = goal
    BY <1>0, <1>5, <2>1, AfterFacts DEF Start, GetInfo
  <2> QED
    BY <1>4, <2>2
<1>6. CASE ListPage(c) \/ Find(c) \/ SendApply3(c) \/ SendUndo(c) \/ RefuseApply(c)
  <2>1. goal' = goal /\ (at' = at \/ at'[c] \notin {"version", "send"})
    BY <1>2, <1>6 DEF ListPage, Find, SendApply3, SendUndo, RefuseApply
  <2> QED
    BY <1>4, <2>1
<1>7. CASE Load(c) \/ GetVersion(c)
  <2>1. opts[c].apply \in Patches /\ (GetVersion(c) => Desc[opts[c].apply].loads)
    BY <1>7 DEF Load, GetVersion, GoalInv, FileInv
  <2>2. \/ /\ goal' = [goal EXCEPT ![c] = "apply4"] /\ at'[c] = "search"
           /\ Desc[opts[c].apply].loads /\ Desc[opts[c].apply].fits
        \/ goal' = goal /\ at'[c] = "version" /\ Desc[opts[c].apply].loads
        \/ goal' = goal /\ at'[c] \notin {"version", "send"}
    <3>1. CASE Checked(c) /\ Desc[opts[c].apply].loads
      BY <1>1, <1>2, <3>1 DEF Checked, Places
    <3>2. CASE ~Desc[opts[c].apply].loads
      <4>1. Finish(c, "apply", "error") /\ goal' = goal
        BY <1>7, <2>1, <3>2 DEF Load
      <4> QED
        BY <1>2, <4>1
    <3>3. CASE ~Checked(c)
      BY <1>1, <1>2, <1>7, <3>3 DEF Load, GetVersion, Places
    <3> QED
      BY <3>1, <3>2, <3>3
  <2> QED
    BY <1>0, <1>3, <2>1, <2>2 DEF FileInv
<1>8. CASE BeginUndo(c)
  <2>1. \/ goal' = [goal EXCEPT ![c] = "undo"] /\ at'[c] = "search"
        \/ goal' = goal /\ at'[c] \notin {"version", "send"}
    BY <1>1, <1>2, <1>8 DEF BeginUndo, Places
  <2> QED
    BY <1>0, <1>3, <2>1 DEF FileInv
<1>9. CASE Search(c)
  <2>1. \/ goal' = [goal EXCEPT ![c] = "apply3"] /\ goal[c] = "apply4" /\ at'[c] = "search"
        \/ goal' = goal /\ (at'[c] = "send" => goal[c] = "undo") /\ at'[c] # "version"
    <3>1. at[c] = "search"
      BY <1>9 DEF Search
    <3>2. CASE Holds(Listed, Target(c))
      <4>1. CASE goal[c] = "apply4"
        BY <1>0, <1>9, <3>1, <3>2, <4>1 DEF Search
      <4>2. CASE goal[c] = "apply3"
        BY <1>2, <1>9, <3>2, <4>2 DEF Search
      <4>3. CASE goal[c] = "undo"
        BY <1>1, <1>9, <3>2, <4>3 DEF Search, Places
      <4>4. goal[c] \in {"apply4", "apply3", "undo"}
        BY <1>0, <3>1 DEF GoalInv
      <4> QED
        BY <4>1, <4>2, <4>3, <4>4
    <3>3. CASE ~Holds(Listed, Target(c))
      <4>1. goal' = goal /\ (at' = at \/ at'[c] = "deps" \/ at'[c] \notin {"version", "send"})
        BY <1>1, <1>2, <1>9, <3>3 DEF Search, Places
      <4> QED
        BY <3>1, <4>1
    <3> QED
      BY <3>2, <3>3
  <2> QED
    BY <1>0, <1>3, <2>1 DEF FileInv
<1>10. CASE SearchDep(c) \/ Relocate(c)
  <2>1. /\ goal' = goal /\ at'[c] # "version"
        /\ at'[c] = "send" => ~Desc[opts[c].apply].badrel
    BY <1>1, <1>2, <1>10 DEF SearchDep, Relocate, Places
  <2> QED
    BY <1>0, <1>3, <2>1 DEF FileInv
<1>11. CASE SendApply(c)
  <2>1. goal[c] = "apply4" /\ goal' = [goal EXCEPT ![c] = "apply3"] /\ at'[c] = "search"
    BY <1>1, <1>11 DEF SendApply, Places
  <2> QED
    BY <1>0, <1>3, <2>1 DEF FileInv
<1>12. CASE Close(c) \/ Refuse(c) \/ Kill(c) \/ Overrun(c)
  <2>1. goal' = goal /\ at'[c] \in {"closed", "killed"}
    BY <1>1, <1>12 DEF Close, Refuse, Kill, Overrun, Places
  <2> QED
    BY <1>4, <2>1
<1>13. CASE LookFails(c)
  BY <1>4, <1>13, LookFacts
<1> QED
  BY <1>5, <1>6, <1>7, <1>8, <1>9, <1>10, <1>11, <1>12, <1>13 DEF Run, Fault, NoRoom, Misread

LEMMA FilesKnown == Spec => [](\A c \in Commands : FileInv(c))
<1>1. Init => \A c \in Commands : FileInv(c)
  BY DEF Init, FileInv
<1>2. IInv /\ (\A c \in Commands : FileInv(c)) /\ [Next]_vars => (\A c \in Commands : FileInv(c))'
  <2>1. SUFFICES ASSUME IInv, \A c \in Commands : FileInv(c), [Next]_vars, NEW c \in Commands
                 PROVE  FileInv(c)'
    OBVIOUS
  <2>2. CASE EndOfFile \/ CutShort \/ UNCHANGED vars
    BY <2>1, <2>2 DEF EndOfFile, CutShort, vars, client, FileInv
  <2>3. ASSUME NEW d \in Commands, Run(d) \/ Fault(d) PROVE FileInv(c)'
    <3>1. TypeOK /\ GoalInv(d)
      BY <2>1 DEF IInv
    <3>2. CASE c = d
      BY <2>1, <2>3, <3>1, <3>2, FileStep
    <3>3. CASE c # d
      <4>1. at'[c] = at[c] /\ goal'[c] = goal[c] /\ opts' = opts
        BY <2>3, <3>1, <3>3, KeepsStep, FramedStep DEF Keeps, Framed
      <4> QED
        BY <2>1, <4>1 DEF FileInv
    <3> QED
      BY <3>2, <3>3
  <2> QED
    BY <2>1, <2>2, <2>3 DEF Next
<1> QED
  BY <1>1, <1>2, Invariance, PTL DEF Spec

\* A message that puts a patch in is an Enter.
LEMMA EnterStep ==
    ASSUME IInv, NEW c \in Commands, FileInv(c), SendApply(c), applied' # applied
    PROVE  \E p \in Patches : Abstract!Enter(p)
<1>1. TypeOK /\ SearchStillTrue /\ GoalInv(c) /\ applied \in Seq(Patches)
  BY DEF IInv, TypeOK
<1>2. /\ Ask(c) /\ at[c] = "send" /\ goal[c] = "apply4" /\ opts' = opts
      /\ applied' = <<opts[c].apply>> \o applied
      /\ Desc[opts[c].apply].deps = <<>> /\ ~Desc[opts[c].apply].refused
  BY DEF SendApply
<1>3. PICK p \in Patches : p = opts[c].apply
  BY <1>1, <1>2 DEF GoalInv
<1>4. ~Holds(applied, p)
  BY <1>1, <1>2, <1>3, AskFacts DEF SearchStillTrue, Target
<1>5. p \in Wanted
  BY <1>2, <1>3 DEF Wanted, FileInv
<1>6. \A q \in Patches : Holds(applied', q) <=> q = p \/ Holds(applied, q)
  <2>1. PICK t : t = <<p>> \o applied
    OBVIOUS
  <2>2. /\ Len(applied) \in Nat /\ Len(t) = Len(applied) + 1 /\ t[1] = p
        /\ \A i \in 2 .. Len(t) : i - 1 \in 1 .. Len(applied) /\ t[i] = applied[i - 1]
    BY <1>1, <2>1, PrependFacts
  <2>3. \A i \in 1 .. Len(applied) : i + 1 \in 1 .. Len(t) /\ t[i + 1] = applied[i]
    BY <2>2
  <2>4. 1 \in 1 .. Len(t) /\ \A i \in 1 .. Len(t) : i = 1 \/ i \in 2 .. Len(t)
    BY <2>2
  <2>5. \A q \in Patches : Holds(t, q) <=> q = p \/ Holds(applied, q)
    BY <2>2, <2>3, <2>4 DEF Holds
  <2> QED
    BY <1>2, <1>3, <2>1, <2>5
<1>7. InUse' = InUse \cup {p} /\ p \notin InUse
  BY <1>4, <1>6 DEF InUse
<1>8. Wanted' = Wanted /\ Unwanted' = Unwanted
  BY <1>2 DEF Wanted, Unwanted
<1> QED
  BY <1>5, <1>7, <1>8 DEF Abstract!Enter

\* A message that takes one out is a Leave.
LEMMA LeaveStep ==
    ASSUME IInv, NEW c \in Commands, FileInv(c), SendUndo(c), applied' # applied
    PROVE  \E p \in Patches : Abstract!Leave(p)
<1>1. TypeOK /\ AppliedOnce /\ GoalInv(c) /\ applied \in Seq(Patches)
  BY DEF IInv, TypeOK
<1>2. /\ at[c] = "send" /\ goal[c] = "undo" /\ opts' = opts
      /\ Holds(applied, opts[c].hash) /\ applied' = Without(opts[c].hash)
  BY DEF SendUndo
<1>3. PICK p \in Patches : p = opts[c].hash
  BY <1>1, <1>2 DEF GoalInv
<1>4. p \in Unwanted /\ p \in InUse
  BY <1>1, <1>2, <1>3 DEF Unwanted, InUse, FileInv, GoalInv
<1>5. ~Holds(applied', p)
  BY <1>1, <1>2, <1>3, WithoutFacts
<1>6. \A q \in Patches : Holds(applied, q) /\ q # p => Holds(applied', q)
  BY <1>1, <1>2, <1>3, WithoutOnly
<1>7. \A q \in Patches : Holds(applied', q) => Holds(applied, q)
  <2>1. PICK i \in 1 .. Len(applied) :
            applied' = [k \in 1 .. (Len(applied) - 1) |-> IF k < i THEN applied[k] ELSE applied[k + 1]]
    <3>1. PICK j \in 1 .. Len(applied) : applied[j] = p
      BY <1>2, <1>3 DEF Holds
    <3>2. \A k \in 1 .. (j - 1) : k \in 1 .. Len(applied) /\ k # j
      BY <1>1
    <3>3. \A k \in 1 .. (j - 1) : applied[k] # p
      BY <1>1, <3>1, <3>2 DEF AppliedOnce
    <3> QED
      BY <1>2, <1>3, <3>1, <3>3 DEF Without
  <2>2. PICK n \in Nat : n = Len(applied)
    BY <1>1
  <2>3. Len(applied') = n - 1
    <3>1. PICK w : w = applied'
      OBVIOUS
    <3>2. Len(w) = Len(applied) - 1
      BY <1>1, <2>1, <3>1, RemoveFacts
    <3> QED
      BY <2>2, <3>1, <3>2
  <2>4. \A k \in 1 .. (n - 1) : /\ k \in 1 .. n /\ k + 1 \in 1 .. n
                                /\ applied'[k] = applied[k] \/ applied'[k] = applied[k + 1]
    BY <2>1, <2>2
  <2> QED
    BY <2>2, <2>3, <2>4 DEF Holds
<1>8. InUse' = InUse \ {p}
  BY <1>5, <1>6, <1>7 DEF InUse
<1>9. Wanted' = Wanted /\ Unwanted' = Unwanted
  BY <1>2 DEF Wanted, Unwanted
<1> QED
  BY <1>4, <1>8, <1>9 DEF Abstract!Leave

\* Together the commands of raxlpxs implement Registry: every change of what
\* is applied is one that somebody has asked for, and takes effect whole.
THEOREM ImplementsRegistry == Spec => Abstract!Spec
<1>1. Init => Abstract!Init
  BY DEF Abstract!Init, InUse, Wanted, Unwanted
<1>2. IInv /\ (\A c \in Commands : FileInv(c)) /\ [Next]_vars => [Abstract!Next]_(Abstract!vars)
  <2>1. SUFFICES ASSUME IInv, \A c \in Commands : FileInv(c), [Next]_vars
                 PROVE  [Abstract!Next]_(Abstract!vars)
    OBVIOUS
  <2>2. opts' = opts
    <3>1. ASSUME NEW c \in Commands, Run(c) \/ Fault(c) PROVE opts' = opts
      BY <2>1, <3>1, FramedStep DEF IInv, Framed
    <3> QED
      BY <2>1, <3>1 DEF Next, EndOfFile, CutShort, client, vars
  <2>3. CASE applied' = applied
    BY <2>2, <2>3 DEF Abstract!vars, InUse, Wanted, Unwanted
  <2>4. CASE applied' # applied
    <3>1. PICK c \in Commands : Run(c) \/ Fault(c)
      BY <2>1, <2>4 DEF Next, EndOfFile, CutShort, vars, server
    <3>2. SendApply(c) \/ SendUndo(c)
      BY <2>4, <3>1 DEF Run, Fault, Start, GetInfo, ListPage, Find, Load, GetVersion, Search, SearchDep,
        Relocate, SendApply3, BeginUndo, Close, Refuse, Kill, Overrun, RefuseApply, NoRoom, Misread, LookFails, server
    <3> QED
      BY <2>1, <2>4, <3>2, EnterStep, LeaveStep DEF Abstract!Next
  <2> QED
    BY <2>3, <2>4
<1> QED
  BY <1>1, <1>2, FilesKnown, Invariance, PTL DEF Spec, Abstract!Spec
-----------------------------------------------------------------------------
(* What Raxlpxs takes the listener for is Sessions, which the listener     *)
(* implements (ImplementsSessions of ListenerProofs): the two models agree *)
(* on whose turn it is.                                                    *)

Turns == IF alive THEN queue ELSE <<>>

Joined == {c \in Commands : opts[c].runs /\ at[c] # "new"}

Messages == IF alive THEN count ELSE 0

Server ==
    INSTANCE Sessions WITH Clients <- Commands, open <- alive, joined <- Joined,
                           queue <- Turns, count <- Messages

LEMMA JoinedStep ==
    ASSUME TypeOK, NEW c \in Commands, Run(c) \/ Fault(c)
    PROVE  Joined' = IF Start(c) THEN Joined \cup {c} ELSE Joined
<1>1. /\ opts' = opts /\ at'[c] # "new"
      /\ at[c] = "new" => Start(c) \/ Refuse(c)
      /\ \A d \in Commands \ {c} : at'[d] = at[d]
  BY FramedStep, PlaceStep, KeepsStep DEF Framed, Keeps
<1>2. CASE Start(c)
  <2>1. opts[c].runs
    BY <1>2 DEF Start
  <2> QED
    BY <1>1, <1>2, <2>1 DEF Joined
<1>3. CASE ~Start(c)
  <2>1. at[c] = "new" => ~opts[c].runs
    BY <1>1, <1>3 DEF Refuse
  <2> QED
    BY <1>1, <1>3, <2>1 DEF Joined
<1> QED
  BY <1>2, <1>3

LEMMA RunSessions ==
    ASSUME TypeOK, NEW c \in Commands, Run(c) \/ Fault(c)
    PROVE  [Server!Next]_(Server!vars)
<1>1. alive \in BOOLEAN /\ alive' \in BOOLEAN /\ (alive' => alive)
  BY AliveShape DEF TypeOK
<1>2. CASE Ask(c)
  <2>1. /\ alive /\ queue # <<>>
        /\ \/ count + 1 < Limit /\ count' = count + 1 /\ queue' = queue
           \/ count' = 0 /\ queue' = Tail(queue)
    BY <1>2 DEF Ask
  <2>2. Joined' = Joined
    <3>1. CASE ~Start(c)
      BY <3>1, JoinedStep
    <3>2. CASE Start(c)
      <4>1. queue' = Append(queue, c)
        BY <3>2 DEF Start
      <4>2. queue \in Seq(Commands)
        BY DEF TypeOK
      <4>3. Len(queue') = Len(queue) + 1 /\ Len(queue) \in Nat
        BY <4>1, <4>2, AppendShape
      <4>4. Len(Tail(queue)) = Len(queue) - 1
        BY <2>1, <4>2, TailFacts
      <4>5. queue' = queue \/ queue' = Tail(queue)
        BY <2>1
      <4>6. Len(queue') = Len(queue) \/ Len(queue') = Len(queue) - 1
        BY <4>4, <4>5
      <4> QED
        BY <4>3, <4>6
    <3> QED
      BY <3>1, <3>2
  <2>3. CASE ~alive'
    <3>1. Turns' = <<>> /\ Messages' = 0 /\ Turns = queue
      BY <2>1, <2>3 DEF Turns, Messages
    <3>2. alive' = FALSE
      BY <1>1, <2>3
    <3> QED
      BY <2>1, <2>2, <3>1, <3>2 DEF Server!Next, Server!End
  <2>4. CASE alive'
    <3>1. Turns' = queue' /\ Turns = queue /\ Messages' = count' /\ Messages = count
      BY <2>1, <2>4 DEF Turns, Messages
    <3>2. alive' = alive
      BY <1>1, <2>1, <2>4
    <3> QED
      BY <2>1, <2>2, <3>1, <3>2 DEF Server!Next, Server!Exchange, Server!Leave
  <2> QED
    BY <2>3, <2>4
<1>3. CASE Start(c) /\ ~Ask(c)
  <2>1. /\ queue' = Append(queue, c) /\ alive' = alive /\ count' = count
        /\ Joined' = Joined \cup {c} /\ c \notin Joined
    BY <1>3, JoinedStep DEF Start, Joined
  <2>2. Turns' = (IF alive THEN Append(Turns, c) ELSE Turns) /\ Messages' = Messages
    BY <2>1 DEF Turns, Messages
  <2> QED
    BY <2>1, <2>2 DEF Server!Next, Server!Join
<1>4. CASE ~Start(c) /\ ~Ask(c)
  <2>1. UNCHANGED <<queue, count, alive>>
    BY <1>4 DEF Run, Fault, GetInfo, ListPage, Find, Load, GetVersion, Search, SearchDep, Relocate,
      SendApply, SendApply3, BeginUndo, SendUndo, Close, Refuse, Kill, Overrun, RefuseApply, NoRoom, Misread, LookFails, server
  <2>2. Joined' = Joined
    BY <1>4, JoinedStep
  <2>3. Turns' = Turns /\ Messages' = Messages
    BY <2>1 DEF Turns, Messages
  <2> QED
    BY <2>1, <2>2, <2>3 DEF Server!vars
<1> QED
  BY <1>2, <1>3, <1>4

\* A command has its turn, and its at most Limit messages, as the listener
\* gives them out.
THEOREM ImplementsSessions == Spec => Server!Spec
<1>1. Init => Server!Init
  BY DEF Init, Server!Init, Turns, Joined, Messages
<1>2. IInv /\ [Next]_vars => [Server!Next]_(Server!vars)
  <2>1. SUFFICES ASSUME IInv, [Next]_vars PROVE [Server!Next]_(Server!vars)
    OBVIOUS
  <2>2. ASSUME NEW c \in Commands, Run(c) \/ Fault(c) PROVE [Server!Next]_(Server!vars)
    BY <2>1, <2>2, RunSessions DEF IInv
  <2>3. CASE EndOfFile
    <3>1. /\ alive /\ queue # <<>> /\ queue' = Tail(queue) /\ count' = 0 /\ alive' = alive
          /\ UNCHANGED <<opts, at>>
      BY <2>3 DEF EndOfFile, client
    <3>2. Turns = queue /\ Turns' = queue' /\ Messages' = 0 /\ Joined' = Joined
      BY <3>1 DEF Turns, Messages, Joined
    <3> QED
      BY <3>1, <3>2 DEF Server!Next, Server!Leave
  <2>4. CASE CutShort
    <3>1. alive /\ queue # <<>> /\ alive' = FALSE /\ UNCHANGED <<opts, at>>
      BY <2>4 DEF CutShort, client
    <3>2. Turns = queue /\ Turns' = <<>> /\ Messages' = 0 /\ Joined' = Joined
      BY <3>1 DEF Turns, Messages, Joined
    <3> QED
      BY <3>1, <3>2 DEF Server!Next, Server!End
  <2>5. CASE UNCHANGED vars
    <3>1. UNCHANGED <<queue, count, alive, opts, at>>
      BY <2>5 DEF vars, server, client
    <3> QED
      BY <3>1 DEF Server!vars, Turns, Messages, Joined
  <2> QED
    BY <2>1, <2>2, <2>3, <2>4, <2>5 DEF Next
<1> QED
  BY <1>1, <1>2, Invariance, PTL DEF Spec, Server!Spec
=============================================================================
