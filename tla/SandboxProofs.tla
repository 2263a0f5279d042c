---------------------------- MODULE SandboxProofs ----------------------------
(***************************************************************************)
(* What holds of the sandbox for every set of patches, locations and       *)
(* threads and any number of requests.                                     *)
(***************************************************************************)
EXTENDS Sandbox, FiniteSetTheorems, TLAPS

\* How the instance in work relates to the list, by the progress of the
\* request: an apply works on the youngest instance, not yet on the list; an
\* undo on one of the list.
Progress ==
    /\ list \subseteq 1 .. born
    /\ \A n \in 1 .. born : of[n] \in Patches
    /\ pc = "idle" => cur = 0
    /\ pc # "idle" => cur \in 1 .. born
    /\ pc \in {"map", "check", "deps", "swap"} => cur = born /\ cur \notin list
    /\ pc = "restore" => cur \in list
    /\ pc \in {"swap", "restore"} => todo \subseteq Writes(cur)
    /\ pc \notin {"swap", "restore"} => todo = {}

\* Until its exchange, a patch_write of a new instance keeps the new word.
NewWords ==
    /\ pc = "deps" => \A s \in Writes(cur) : data[cur][s] = cur
    /\ pc = "swap" => \A s \in todo : data[cur][s] = cur

SInv == TypeOK /\ Progress /\ NewWords /\ BlobsAccounted

LEMMA InitSInv == Init => SInv
<1> SUFFICES ASSUME Init PROVE SInv
  OBVIOUS
<1>1. TypeOK
  BY DescAssumption DEF Init, TypeOK, Instances, Words, Blank, Codes
<1>2. Progress /\ NewWords
  BY DEF Init, Progress, NewWords
<1>3. BlobsAccounted
  BY DEF Init, BlobsAccounted
<1> QED
  BY <1>1, <1>2, <1>3 DEF SInv

\* The patch of an instance that has been born is a patch file.
LEMMA PatchOf ==
    ASSUME SInv, NEW n \in 1 .. born
    PROVE  /\ n \in Instances
           /\ of[n] \in Patches
           /\ Writes(n) \subseteq Slots
           /\ HasBlob(n) \in BOOLEAN
<1>1. n \in Instances /\ of[n] \in Patches
  BY DescAssumption DEF SInv, TypeOK, Progress, Instances, Words
<1> QED
  BY <1>1, DescAssumption DEF Writes, HasBlob

\* What a return assigns.
LEMMA ReturnType ==
    ASSUME NEW op \in {"apply", "undo"}, NEW p \in Patches, NEW code \in Codes,
           Return(op, p, code)
    PROVE  /\ ret' \in [op : {"none", "apply", "undo"}, patch : Patches \cup {NoPatch}, code : Codes]
           /\ pc' = "idle" /\ cur' = 0 /\ todo' = {}
           /\ 0 \in Words
  BY DescAssumption DEF Return, Words

LEMMA StepTypeOK == SInv /\ [Next]_vars => TypeOK'
<1> SUFFICES ASSUME SInv, [Next]_vars PROVE TypeOK'
  OBVIOUS
<1> USE DEF SInv, TypeOK
<1>1. ASSUME NEW p \in Patches, ApplyRefused(p) PROVE TypeOK'
  BY <1>1, ReturnType DEF ApplyRefused, Codes
<1>2. ASSUME NEW p \in Patches, ApplyStart(p) PROVE TypeOK'
  BY <1>2, DescAssumption DEF ApplyStart, Words, Instances
<1>3. ASSUME NEW p \in Patches, UndoUnknown(p) PROVE TypeOK'
  BY <1>3, ReturnType DEF UndoUnknown, Codes
<1>4. ASSUME NEW p \in Patches, UndoFound(p) PROVE TypeOK'
  <2> PICK n \in list :
          IF HasDependents(n) \/ Writes(n) = {} THEN Return("undo", p, "ENXIO")
          ELSE pc' = "restore" /\ cur' = n /\ todo' = Writes(n) /\ UNCHANGED ret
    BY <1>4 DEF UndoFound
  <2>1. UNCHANGED <<text, list, of, data, mapped, born, at>>
    BY <1>4 DEF UndoFound
  <2>2. n \in Words /\ Writes(n) \subseteq Slots
    BY PatchOf DEF Progress, Instances, Words
  <2>3. CASE Return("undo", p, "ENXIO")
    BY <2>1, <2>3, ReturnType DEF Codes
  <2>4. CASE pc' = "restore" /\ cur' = n /\ todo' = Writes(n) /\ UNCHANGED ret
    BY <2>1, <2>2, <2>4
  <2> QED
    BY <2>3, <2>4
<1>5. CASE MapBlob
  BY <1>5, DescAssumption DEF MapBlob, Progress, Instances, Words
<1>6. CASE ReadWrites
  <2>1. [s \in Slots |-> IF s \in Writes(cur) THEN cur ELSE 0] \in [Slots -> Words]
    BY DescAssumption DEF Words
  <2> QED
    BY <1>6, <2>1 DEF ReadWrites
<1>7. ASSUME NEW code \in {"ERR_INVALID", "ERR_NOMEM"}, MapFails(code) \/ ReadFails(code)
      PROVE  TypeOK'
  <2>1. of[cur] \in Patches
    BY <1>7, PatchOf DEF MapFails, ReadFails, Progress
  <2> QED
    BY <1>7, <2>1, ReturnType DEF MapFails, ReadFails, Codes
<1>8. CASE DropDependent
  <2>1. Blank \in [Slots -> Words]
    BY DescAssumption DEF Blank, Words
  <2>2. of[cur] \in Patches
    BY <1>8, PatchOf DEF DropDependent, Progress
  <2> QED
    BY <1>8, <2>1, <2>2, ReturnType DEF DropDependent, Codes
<1>9. CASE StartSwap
  BY <1>9, PatchOf DEF StartSwap, Progress
<1>10. ASSUME NEW s \in Slots, Exchange(s) PROVE TypeOK'
  BY <1>10, PatchOf DEF Exchange, Progress
<1>11. CASE ApplyDone
  <2>1. of[cur] \in Patches /\ cur \in Instances
    BY <1>11, PatchOf DEF ApplyDone, Progress
  <2> QED
    BY <1>11, <2>1, ReturnType DEF ApplyDone, Codes
<1>12. CASE UndoDone
  <2>1. Blank \in [Slots -> Words]
    BY DescAssumption DEF Blank, Words
  <2>2. of[cur] \in Patches
    BY <1>12, PatchOf DEF UndoDone, Progress
  <2> QED
    BY <1>12, <2>1, <2>2, ReturnType DEF UndoDone, Codes
<1>13. CASE Run
  BY <1>13, DescAssumption DEF Run, Leave, Call, server, Words
<1>14. CASE UNCHANGED vars
  BY <1>14 DEF vars
<1> QED
  BY <1>1, <1>2, <1>3, <1>4, <1>5, <1>6, <1>7, <1>8, <1>9, <1>10, <1>11, <1>12, <1>13, <1>14
     DEF Next, Request, Serve
-----------------------------------------------------------------------------
\* The instances born so far keep their patch.
LEMMA OfKept ==
    ASSUME SInv, [Next]_vars, NEW n \in 1 .. born
    PROVE  of'[n] = of[n] /\ Writes(n)' = Writes(n) /\ HasBlob(n)' = HasBlob(n)
<1>1. of' = of \/ of' = [of EXCEPT ![born + 1] = of'[born + 1]]
  BY DEF Next, Request, Serve, Run, vars, server, ApplyRefused, ApplyStart, UndoUnknown,
         UndoFound, MapBlob, ReadWrites, MapFails, ReadFails, DropDependent, StartSwap,
         Exchange, ApplyDone, UndoDone, Call, Leave, SInv, TypeOK
<1>2. born \in Nat /\ n # born + 1 /\ n \in Instances
  BY DescAssumption DEF SInv, TypeOK, Words, Instances
<1>3. of'[n] = of[n]
  BY <1>1, <1>2 DEF SInv, TypeOK
<1> QED
  BY <1>3 DEF Writes, HasBlob

LEMMA StepProgress == SInv /\ [Next]_vars => Progress'
<1> SUFFICES ASSUME SInv, [Next]_vars PROVE Progress'
  OBVIOUS
<1>0. /\ born \in Nat /\ list \subseteq 1 .. born
      /\ \A n \in 1 .. born : of[n] \in Patches /\ of'[n] = of[n] /\ Writes(n)' = Writes(n)
  BY OfKept DEF SInv, TypeOK, Progress, Words
<1>1. ASSUME list' \subseteq 1 .. born, born' = born, pc' = "idle", cur' = 0, todo' = {}
      PROVE  Progress'
  BY <1>0, <1>1 DEF Progress
<1>2. ASSUME NEW p \in Patches, ApplyRefused(p) \/ UndoUnknown(p) PROVE Progress'
  BY <1>0, <1>1, <1>2 DEF ApplyRefused, UndoUnknown, Return
<1>3. ASSUME NEW p \in Patches, ApplyStart(p) PROVE Progress'
  <2>1. of'[born + 1] = p
    BY <1>3, DescAssumption DEF ApplyStart, SInv, TypeOK, Instances, Words
  <2>2. born' = born + 1 /\ cur' = born' /\ pc' = "map" /\ list' = list /\ todo' = {}
    BY <1>3 DEF ApplyStart, SInv, Progress
  <2> QED
    BY <1>0, <2>1, <2>2 DEF Progress
<1>4. ASSUME NEW p \in Patches, UndoFound(p) PROVE Progress'
  <2> PICK n \in list :
          IF HasDependents(n) \/ Writes(n) = {} THEN Return("undo", p, "ENXIO")
          ELSE pc' = "restore" /\ cur' = n /\ todo' = Writes(n) /\ UNCHANGED ret
    BY <1>4 DEF UndoFound
  <2>1. UNCHANGED <<list, born>>
    BY <1>4 DEF UndoFound
  <2>2. CASE Return("undo", p, "ENXIO")
    BY <1>0, <1>1, <2>1, <2>2 DEF Return
  <2>3. CASE pc' = "restore" /\ cur' = n /\ todo' = Writes(n) /\ UNCHANGED ret
    BY <1>0, <2>1, <2>3 DEF Progress
  <2> QED
    BY <2>2, <2>3
<1>5. CASE MapBlob \/ ReadWrites
  BY <1>0, <1>5 DEF MapBlob, ReadWrites, SInv, Progress
<1>6. ASSUME NEW code \in {"ERR_INVALID", "ERR_NOMEM"}, MapFails(code) \/ ReadFails(code)
      PROVE  Progress'
  BY <1>0, <1>1, <1>6 DEF MapFails, ReadFails, Return
<1>7. CASE DropDependent
  BY <1>0, <1>1, <1>7 DEF DropDependent, Return
<1>8. CASE StartSwap
  BY <1>0, <1>8 DEF StartSwap, SInv, Progress
<1>9. ASSUME NEW s \in Slots, Exchange(s) PROVE Progress'
  BY <1>0, <1>9 DEF Exchange, SInv, Progress
<1>10. CASE ApplyDone
  BY <1>0, <1>1, <1>10 DEF ApplyDone, Return, SInv, Progress
<1>11. CASE UndoDone
  BY <1>0, <1>1, <1>11 DEF UndoDone, Return
<1>12. CASE Run
  BY <1>0, <1>12 DEF Run, Call, Leave, server, SInv, Progress
<1>13. CASE UNCHANGED vars
  BY <1>0, <1>13 DEF vars, SInv, Progress
<1> QED
  BY <1>2, <1>3, <1>4, <1>5, <1>6, <1>7, <1>8, <1>9, <1>10, <1>11, <1>12, <1>13
     DEF Next, Request, Serve

LEMMA StepNewWords == SInv /\ [Next]_vars => NewWords'
<1> SUFFICES ASSUME SInv, [Next]_vars PROVE NewWords'
  OBVIOUS
<1>1. pc' \notin {"deps", "swap"} => NewWords'
  BY DEF NewWords
<1>2. ASSUME NEW p \in Patches, ApplyRefused(p) \/ ApplyStart(p) \/ UndoUnknown(p) \/ UndoFound(p)
      PROVE  NewWords'
  BY <1>1, <1>2 DEF ApplyRefused, ApplyStart, UndoUnknown, UndoFound, Return
<1>3. CASE MapBlob \/ DropDependent \/ ApplyDone \/ UndoDone
  BY <1>1, <1>3 DEF MapBlob, DropDependent, ApplyDone, UndoDone, Return
<1>4. ASSUME NEW code \in {"ERR_INVALID", "ERR_NOMEM"}, MapFails(code) \/ ReadFails(code)
      PROVE  NewWords'
  BY <1>1, <1>4 DEF MapFails, ReadFails, Return
<1>5. CASE ReadWrites
  <2>1. cur \in Instances /\ cur' = cur /\ pc' = "deps" /\ Writes(cur)' = Writes(cur)
        /\ Writes(cur) \subseteq Slots
    BY <1>5, PatchOf, OfKept DEF ReadWrites, SInv, Progress
  <2>2. data'[cur] = [s \in Slots |-> IF s \in Writes(cur) THEN cur ELSE 0]
    BY <1>5, <2>1 DEF ReadWrites, SInv, TypeOK
  <2> QED
    BY <2>1, <2>2 DEF NewWords
<1>6. CASE StartSwap
  BY <1>6 DEF StartSwap, NewWords, SInv
<1>7. ASSUME NEW s \in Slots, Exchange(s) PROVE NewWords'
  <2>1. /\ cur' = cur /\ pc' = pc /\ pc \in {"swap", "restore"} /\ todo' = todo \ {s}
        /\ data' = [data EXCEPT ![cur] = [data[cur] EXCEPT ![s] = text[s]]]
    BY <1>7 DEF Exchange
  <2>2. cur \in Instances /\ todo \subseteq Slots
    BY <2>1, PatchOf DEF SInv, TypeOK, Progress
  <2>3. \A r \in todo' : data'[cur][r] = data[cur][r]
    BY <2>1, <2>2 DEF SInv, TypeOK
  <2> QED
    BY <2>1, <2>3 DEF NewWords, SInv
<1>8. CASE Run \/ UNCHANGED vars
  BY <1>8 DEF Run, Call, Leave, server, vars, NewWords, SInv, Writes
<1> QED
  BY <1>2, <1>3, <1>4, <1>5, <1>6, <1>7, <1>8 DEF Next, Request, Serve

\* The instance whose blob is mapped although it is not on the list.
Pending == IF pc \in {"check", "deps", "swap"} THEN {cur} ELSE {}

LEMMA StepBlobsAccounted == SInv /\ [Next]_vars => BlobsAccounted'
<1> SUFFICES ASSUME SInv, [Next]_vars PROVE BlobsAccounted'
  OBVIOUS
<1>0. /\ list \subseteq 1 .. born /\ born \in Nat
      /\ pc # "idle" => cur \in 1 .. born
      /\ mapped = {n \in list \cup Pending : HasBlob(n)}
      /\ \A n \in 1 .. born : HasBlob(n)' = HasBlob(n)
  BY OfKept DEF SInv, TypeOK, Progress, BlobsAccounted, Pending, Words
<1>1. ASSUME list' \subseteq 1 .. born, Pending' \subseteq 1 .. born,
             mapped' = {n \in list' \cup Pending' : HasBlob(n)}
      PROVE  BlobsAccounted'
  BY <1>0, <1>1 DEF BlobsAccounted, Pending
<1>2. ASSUME NEW p \in Patches, ApplyRefused(p) \/ ApplyStart(p) \/ UndoUnknown(p) \/ UndoFound(p)
      PROVE  BlobsAccounted'
  <2>1. pc = "idle" /\ pc' \in {"idle", "map", "restore"} /\ list' = list /\ mapped' = mapped
    BY <1>2 DEF ApplyRefused, ApplyStart, UndoUnknown, UndoFound, Return
  <2> QED
    BY <1>0, <1>1, <2>1 DEF Pending
<1>3. CASE MapBlob
  BY <1>0, <1>1, <1>3 DEF MapBlob, Pending
<1>4. CASE ReadWrites \/ StartSwap
  BY <1>0, <1>1, <1>4 DEF ReadWrites, StartSwap, Pending
<1>5. ASSUME NEW code \in {"ERR_INVALID", "ERR_NOMEM"}, MapFails(code) \/ ReadFails(code)
      PROVE  BlobsAccounted'
  BY <1>0, <1>1, <1>5 DEF MapFails, ReadFails, Return, Pending, SInv, Progress
<1>6. CASE DropDependent
  BY <1>0, <1>1, <1>6 DEF DropDependent, Return, Pending, SInv, Progress
<1>7. ASSUME NEW s \in Slots, Exchange(s) PROVE BlobsAccounted'
  BY <1>0, <1>1, <1>7 DEF Exchange, Pending
<1>8. CASE ApplyDone
  BY <1>0, <1>1, <1>8 DEF ApplyDone, Return, Pending
<1>9. CASE UndoDone
  BY <1>0, <1>1, <1>9 DEF UndoDone, Return, Pending
<1>10. CASE Run \/ UNCHANGED vars
  BY <1>0, <1>1, <1>10 DEF Run, Call, Leave, server, vars, Pending
<1> QED
  BY <1>2, <1>3, <1>4, <1>5, <1>6, <1>7, <1>8, <1>9, <1>10 DEF Next, Request, Serve

LEMMA StepSInv == SInv /\ [Next]_vars => SInv'
  BY StepTypeOK, StepProgress, StepNewWords, StepBlobsAccounted DEF SInv

LEMMA Invariance == Spec => []SInv
  BY InitSInv, StepSInv, PTL DEF Spec

\* The state keeps its types, whatever the order of requests.
THEOREM TypeCorrect == Spec => []TypeOK
<1>1. SInv => TypeOK
  BY DEF SInv
<1> QED
  BY <1>1, Invariance, PTL

\* The blobs that are mapped are those of the applied patches and of the one
\* in work: no error path of xenlp_apply4 leaks a blob or unmaps one in use.
THEOREM NoBlobLost == Spec => []BlobsAccounted
<1>1. SInv => BlobsAccounted
  BY DEF SInv
<1> QED
  BY <1>1, Invariance, PTL
-----------------------------------------------------------------------------
\* Words are numbers of instances born so far, and no word of an apply is
\* anywhere before its writes are read.
OldWords ==
    \A s \in Slots :
        /\ text[s] <= born
        /\ pc \in {"map", "check"} => text[s] # cur
        /\ \A n \in Holders(s) :
              /\ data[n][s] <= born
              /\ pc \in {"map", "check"} => data[n][s] # cur

WInv == SInv /\ OldWords /\ NoWordTwice

LEMMA InitWInv == Init => WInv
<1> SUFFICES ASSUME Init PROVE WInv
  OBVIOUS
<1>1. \A s \in Slots : Holders(s) = {}
  BY DEF Init, Holders
<1>2. OldWords /\ NoWordTwice
  BY <1>1 DEF Init, OldWords, NoWordTwice, Blank
<1> QED
  BY <1>2, InitSInv DEF WInv

\* Nothing is lost when words stay and fewer instances hold one.
LEMMA WordsKept ==
    ASSUME OldWords, NoWordTwice, text' = text, born' = born,
           pc' \in {"map", "check"} => pc \in {"map", "check"} /\ cur' = cur,
           \A s \in Slots : \A n \in Holders(s)' : n \in Holders(s) /\ data'[n][s] = data[n][s]
    PROVE  OldWords' /\ NoWordTwice'
<1>1. OldWords'
  BY DEF OldWords
<1>2. NoWordTwice'
  BY DEF NoWordTwice
<1> QED
  BY <1>1, <1>2

\* Who holds a word after a step.
LEMMA HoldersNext ==
    ASSUME SInv, [Next]_vars, NEW s \in Slots, NEW n \in 1 .. born
    PROVE  /\ n \in Instances
           /\ n \in Holders(s) <=> (n \in list \/ (pc \in {"deps", "swap"} /\ n = cur)) /\ s \in Writes(n)
           /\ n \in Holders(s)' <=> (n \in list' \/ (pc' \in {"deps", "swap"} /\ n = cur')) /\ s \in Writes(n)
<1>1. n \in Instances /\ Writes(n)' = Writes(n)
  BY PatchOf, OfKept
<1> QED
  BY <1>1 DEF Holders, Instances

\* Holders are among the instances born so far.
LEMMA HoldersBorn ==
    ASSUME SInv, NEW s \in Slots
    PROVE  /\ born \in Nat
           /\ Holders(s) \subseteq 1 .. born
           /\ \A n \in Holders(s) : n \in Instances /\ s \in Writes(n) /\ data[n][s] \in Nat
           /\ text[s] \in Nat
<1>1. born \in Nat /\ text[s] \in Nat
  BY DEF SInv, TypeOK, Words
<1>2. ASSUME NEW n \in Holders(s)
      PROVE  n \in Instances /\ s \in Writes(n) /\ data[n][s] \in Nat /\ n \in 1 .. born
  BY <1>2 DEF Holders, SInv, TypeOK, Progress, Words
<1> QED
  BY <1>1, <1>2

LEMMA ExchangeWords ==
    ASSUME WInv, [Next]_vars, NEW s \in Slots, Exchange(s)
    PROVE  OldWords' /\ NoWordTwice'
<1>1. /\ cur' = cur /\ pc' = pc /\ pc \in {"swap", "restore"} /\ list' = list /\ born' = born
      /\ text' = [text EXCEPT ![s] = data[cur][s]]
      /\ data' = [data EXCEPT ![cur] = [data[cur] EXCEPT ![s] = text[s]]]
      /\ s \in todo
  BY DEF Exchange
<1>2. /\ cur \in 1 .. born /\ cur \in Instances /\ s \in Writes(cur)
      /\ list \subseteq 1 .. born
      /\ pc = "restore" => cur \in list
  BY <1>1, PatchOf DEF WInv, SInv, Progress
<1>3. cur \in Holders(s)
  BY <1>1, <1>2 DEF Holders
<1>4. \A r \in Slots : Holders(r)' = Holders(r)
  <2> SUFFICES ASSUME NEW r \in Slots PROVE Holders(r)' = Holders(r)
    OBVIOUS
  <2>1. \A n \in 1 .. born : n \in Holders(r)' <=> n \in Holders(r)
    BY <1>1, HoldersNext DEF WInv
  <2>2. Holders(r) \subseteq 1 .. born /\ Holders(r)' \subseteq 1 .. born
    BY <1>1, <1>2, HoldersBorn DEF WInv, Holders
  <2> QED
    BY <2>1, <2>2
<1>5. text'[s] = data[cur][s] /\ data'[cur][s] = text[s]
  BY <1>1, <1>2 DEF WInv, SInv, TypeOK
<1>6. \A r \in Slots : r # s => text'[r] = text[r] /\ \A n \in Instances : data'[n][r] = data[n][r]
  BY <1>1, <1>2 DEF WInv, SInv, TypeOK
<1>7. \A n \in Instances : n # cur => data'[n][s] = data[n][s]
  BY <1>1, <1>2 DEF WInv, SInv, TypeOK
<1>8. \A r \in Slots : Holders(r) \subseteq Instances
  BY DEF Holders
<1>9. OldWords'
  <2> SUFFICES ASSUME NEW r \in Slots
               PROVE  text'[r] <= born /\ \A n \in Holders(r) : data'[n][r] <= born
    BY <1>1, <1>4 DEF OldWords
  <2> QED
    BY <1>3, <1>5, <1>6, <1>7, <1>8 DEF WInv, OldWords
<1>10. NoWordTwice'
  <2> SUFFICES ASSUME NEW r \in Slots, NEW n \in Holders(r)
               PROVE  /\ data'[n][r] # text'[r]
                      /\ \A m \in Holders(r) : m # n => data'[m][r] # data'[n][r]
    BY <1>4 DEF NoWordTwice
  <2>1. /\ data[n][r] # text[r]
        /\ \A m \in Holders(r) : m # n => data[m][r] # data[n][r]
        /\ \A m \in Holders(r) : data[m][r] # text[r]
    BY DEF WInv, NoWordTwice
  <2>2. CASE r # s
    BY <2>1, <2>2, <1>6, <1>8
  <2>3. CASE r = s /\ n = cur
    BY <2>1, <2>3, <1>5, <1>7, <1>8
  <2>4. CASE r = s /\ n # cur
    BY <2>1, <2>4, <1>3, <1>5, <1>7, <1>8
  <2> QED
    BY <2>2, <2>3, <2>4
<1> QED
  BY <1>9, <1>10

LEMMA ReadWords ==
    ASSUME WInv, [Next]_vars, ReadWrites
    PROVE  OldWords' /\ NoWordTwice'
<1>1. /\ pc = "check" /\ pc' = "deps" /\ cur' = cur /\ list' = list /\ born' = born /\ text' = text
      /\ data' = [data EXCEPT ![cur] = [s \in Slots |-> IF s \in Writes(cur) THEN cur ELSE 0]]
  BY DEF ReadWrites
<1>2. cur = born /\ cur \in 1 .. born /\ cur \in Instances /\ cur \notin list /\ list \subseteq 1 .. born
  BY <1>1, PatchOf DEF WInv, SInv, Progress
<1>3. ASSUME NEW s \in Slots, NEW n \in Holders(s)'
      PROVE  \/ n = cur /\ data'[n][s] = cur
             \/ n # cur /\ n \in Holders(s) /\ data'[n][s] = data[n][s]
  <2>1. n \in 1 .. born
    BY <1>1, <1>2, <1>3 DEF Holders
  <2>2. /\ n \in Instances /\ s \in Writes(n)
        /\ n \in list \/ n = cur
        /\ n \in list => n \in Holders(s)
    BY <2>1, <1>1, <1>3, HoldersNext DEF WInv
  <2>3. CASE n = cur
    BY <2>2, <2>3, <1>1, <1>2 DEF WInv, SInv, TypeOK
  <2>4. CASE n # cur
    BY <2>2, <2>4, <1>1, <1>2 DEF WInv, SInv, TypeOK
  <2> QED
    BY <2>3, <2>4
<1>4. OldWords'
  <2> SUFFICES ASSUME NEW s \in Slots
               PROVE  text[s] <= born /\ \A n \in Holders(s)' : data'[n][s] <= born
    BY <1>1 DEF OldWords
  <2> QED
    BY <1>2, <1>3 DEF WInv, OldWords
<1>5. NoWordTwice'
  <2> SUFFICES ASSUME NEW s \in Slots, NEW n \in Holders(s)'
               PROVE  /\ data'[n][s] # text[s]
                      /\ \A m \in Holders(s)' : m # n => data'[m][s] # data'[n][s]
    BY <1>1 DEF NoWordTwice
  <2>1. text[s] # cur /\ \A k \in Holders(s) : data[k][s] # cur
    BY <1>1 DEF WInv, OldWords
  <2>2. \A k \in Holders(s) : data[k][s] # text[s]
    BY DEF WInv, NoWordTwice
  <2>3. data'[n][s] # text[s]
    BY <1>3, <2>1, <2>2
  <2>4. ASSUME NEW m \in Holders(s)', m # n PROVE data'[m][s] # data'[n][s]
    <3>1. CASE m = cur \/ n = cur
      BY <1>3, <2>1, <2>4, <3>1
    <3>2. CASE m # cur /\ n # cur
      <4>1. m \in Holders(s) /\ n \in Holders(s) /\ data'[m][s] = data[m][s] /\ data'[n][s] = data[n][s]
        BY <1>3, <2>4, <3>2
      <4> QED
        BY <4>1, <2>4 DEF WInv, NoWordTwice
    <3> QED
      BY <3>1, <3>2
  <2> QED
    BY <2>3, <2>4
<1> QED
  BY <1>4, <1>5

LEMMA StepWInv == WInv /\ [Next]_vars => WInv'
<1> SUFFICES ASSUME WInv, [Next]_vars PROVE OldWords' /\ NoWordTwice'
  BY StepSInv DEF WInv
<1>0. /\ SInv /\ OldWords /\ NoWordTwice /\ born \in Nat
      /\ \A s \in Slots : \A n \in Holders(s) : n \in 1 .. born
      /\ list \subseteq 1 .. born
      /\ pc # "idle" => cur \in 1 .. born
  BY HoldersBorn DEF WInv, SInv, Progress, TypeOK, Words
\* A step after which nobody holds a word who did not before.
<1>1. ASSUME text' = text, born' = born,
             list' \subseteq list \cup (IF pc = "swap" THEN {cur} ELSE {}),
             pc' \in {"map", "check"} => pc \in {"map", "check"} /\ cur' = cur,
             pc' \in {"deps", "swap"} => pc \in {"deps", "swap"} /\ cur' = cur,
             \A n \in list' \cup (IF pc' \in {"deps", "swap"} THEN {cur'} ELSE {}) :
                data'[n] = data[n]
      PROVE  OldWords' /\ NoWordTwice'
  <2> SUFFICES ASSUME NEW s \in Slots, NEW n \in Holders(s)'
               PROVE  n \in Holders(s) /\ data'[n][s] = data[n][s]
    BY <1>0, <1>1, WordsKept
  <2>1. n \in list' \/ (pc' \in {"deps", "swap"} /\ n = cur')
    BY DEF Holders
  <2>2. n \in list \/ (pc \in {"deps", "swap"} /\ n = cur)
    BY <2>1, <1>1
  <2>3. n \in 1 .. born
    BY <2>2, <1>0
  <2>4. n \in Holders(s)
    BY <2>2, <2>3, <1>0, HoldersNext
  <2> QED
    BY <2>1, <2>4, <1>1
<1>2. ASSUME NEW p \in Patches, ApplyRefused(p) \/ UndoUnknown(p) \/ UndoFound(p)
      PROVE  OldWords' /\ NoWordTwice'
  <2>1. /\ pc' \in {"idle", "restore"} /\ list' = list /\ data' = data /\ text' = text /\ born' = born
    BY <1>2 DEF ApplyRefused, UndoUnknown, UndoFound, Return
  <2> QED
    BY <2>1, <1>1
<1>3. ASSUME NEW p \in Patches, ApplyStart(p) PROVE OldWords' /\ NoWordTwice'
  <2>1. /\ pc = "idle" /\ pc' = "map" /\ cur' = born + 1 /\ born' = born + 1
        /\ list' = list /\ data' = data /\ text' = text
    BY <1>3 DEF ApplyStart
  <2>2. \A s \in Slots : Holders(s)' \subseteq Holders(s)
    <3> SUFFICES ASSUME NEW s \in Slots, NEW n \in Holders(s)' PROVE n \in Holders(s)
      OBVIOUS
    <3>1. n \in list
      BY <2>1 DEF Holders
    <3> QED
      BY <3>1, <2>1, <1>0, HoldersNext
  <2>3. ASSUME NEW s \in Slots PROVE text[s] \in Nat /\ \A n \in Holders(s) : data[n][s] \in Nat
    BY <1>0, HoldersBorn
  <2>4. OldWords'
    BY <2>1, <2>2, <2>3, <1>0 DEF OldWords
  <2>5. NoWordTwice'
    BY <2>1, <2>2, <1>0 DEF NoWordTwice
  <2> QED
    BY <2>4, <2>5
<1>4. CASE MapBlob \/ StartSwap
  BY <1>1, <1>4 DEF MapBlob, StartSwap
<1>5. ASSUME NEW code \in {"ERR_INVALID", "ERR_NOMEM"}, MapFails(code) \/ ReadFails(code)
      PROVE  OldWords' /\ NoWordTwice'
  BY <1>1, <1>5 DEF MapFails, ReadFails, Return
<1>6. CASE ReadWrites
  BY <1>6, ReadWords
<1>7. CASE DropDependent
  <2>1. cur \notin list /\ pc' = "idle" /\ list' = list /\ text' = text /\ born' = born
    BY <1>7 DEF DropDependent, Return, WInv, SInv, Progress
  <2>2. \A n \in list' : data'[n] = data[n]
    BY <1>7, <2>1, <1>0 DEF DropDependent, SInv, TypeOK
  <2> QED
    BY <2>1, <2>2, <1>1
<1>8. ASSUME NEW s \in Slots, Exchange(s) PROVE OldWords' /\ NoWordTwice'
  BY <1>8, ExchangeWords
<1>9. CASE ApplyDone
  <2>1. pc' = "idle" /\ list' = list \cup {cur} /\ pc = "swap" /\ data' = data /\ text' = text /\ born' = born
    BY <1>9 DEF ApplyDone, Return
  <2> QED
    BY <2>1, <1>1
<1>10. CASE UndoDone
  <2>1. pc' = "idle" /\ list' = list \ {cur} /\ text' = text /\ born' = born
    BY <1>10 DEF UndoDone, Return
  <2>2. \A n \in list' : data'[n] = data[n]
    BY <1>10, <2>1, <1>0 DEF UndoDone, SInv, TypeOK
  <2> QED
    BY <2>1, <2>2, <1>1
<1>11. CASE Run \/ UNCHANGED vars
  BY <1>1, <1>11 DEF Run, Call, Leave, server, vars
<1> QED
  BY <1>2, <1>3, <1>4, <1>5, <1>6, <1>7, <1>8, <1>9, <1>10, <1>11 DEF Next, Request, Serve

\* Whatever the order of requests, an exchange never duplicates a word.
THEOREM WordsOnce == Spec => []NoWordTwice
<1>1. Spec => []WInv
  BY InitWInv, StepWInv, PTL DEF Spec
<1>2. WInv => NoWordTwice
  BY DEF WInv
<1> QED
  BY <1>1, <1>2, PTL
-----------------------------------------------------------------------------
\* While an undo runs under the operator's discipline, no newer patch writes
\* a location of the one undone.
UndoOnTop ==
    pc = "restore" => \A m \in list : m > cur => Writes(m) \cap Writes(cur) = {}

DInv == SInv /\ TextChain /\ UndoOnTop

LEMMA InitDInv == Init => DInv
<1> SUFFICES ASSUME Init PROVE DInv
  OBVIOUS
<1>1. \A n, s : ~InForce(n, s)
  BY DEF Init, InForce
<1>2. TextChain
  BY <1>1 DEF Init, TextChain, TopBelow, Blank
<1> QED
  BY <1>2, InitSInv DEF DInv, UndoOnTop, Init

\* The chain only depends on the words and on which of them are in force.
LEMMA ChainKept ==
    ASSUME TextChain, text' = text,
           \A n \in Instances, s \in Slots : InForce(n, s)' <=> InForce(n, s),
           \A s \in Slots : text[s] \in Words,
           \A n \in Instances, s \in Slots :
              InForce(n, s) => data'[n][s] = data[n][s] /\ data[n][s] \in Words
    PROVE  TextChain'
<1>1. ASSUME NEW w \in Words, NEW n, NEW s \in Slots, TopBelow(w, n, s) PROVE TopBelow(w, n, s)'
  <2>1. w # 0 => w \in Instances
    BY DescAssumption DEF Words, Instances
  <2> QED
    BY <1>1, <2>1 DEF TopBelow
<1> QED
  BY <1>1 DEF TextChain

\* Every step but an exchange leaves the words in force as they are.
LEMMA ForceKept ==
    ASSUME SInv, [Next]_vars, \A s \in Slots : ~Exchange(s)
    PROVE  /\ text' = text
           /\ \A n \in Instances, s \in Slots :
                /\ InForce(n, s)' <=> InForce(n, s)
                /\ InForce(n, s) => data'[n] = data[n]
<1>0. /\ list \subseteq 1 .. born /\ born \in Nat
      /\ pc # "idle" => cur \in 1 .. born
      /\ \A n \in 1 .. born : Writes(n)' = Writes(n)
  BY OfKept DEF SInv, TypeOK, Progress, Words
<1>1. ASSUME NEW p \in Patches, ApplyRefused(p) \/ ApplyStart(p) \/ UndoUnknown(p) \/ UndoFound(p)
      PROVE  /\ text' = text /\ data' = data
             /\ \A n \in Instances, s \in Slots : InForce(n, s)' <=> InForce(n, s)
  <2>1. /\ text' = text /\ data' = data /\ list' = list
        /\ pc = "idle" /\ pc' \in {"idle", "map", "restore"}
        /\ pc' = "restore" => cur' \in list /\ todo' = Writes(cur')
    BY <1>1 DEF ApplyRefused, ApplyStart, UndoUnknown, UndoFound, Return
  <2> QED
    BY <1>0, <2>1 DEF InForce
<1>2. CASE MapBlob
  BY <1>0, <1>2 DEF MapBlob, InForce
<1>3. CASE ReadWrites
  <2>1. /\ text' = text /\ list' = list /\ pc = "check" /\ pc' = "deps"
        /\ \A n \in Instances \ {cur} : data'[n] = data[n]
    BY <1>3 DEF ReadWrites, SInv, TypeOK
  <2> QED
    BY <1>0, <2>1 DEF InForce, SInv, Progress
<1>4. ASSUME NEW code \in {"ERR_INVALID", "ERR_NOMEM"}, MapFails(code) \/ ReadFails(code)
      PROVE  /\ text' = text /\ data' = data
             /\ \A n \in Instances, s \in Slots : InForce(n, s)' <=> InForce(n, s)
  BY <1>0, <1>4 DEF MapFails, ReadFails, Return, InForce
<1>5. CASE DropDependent
  <2>1. /\ text' = text /\ list' = list /\ pc = "deps" /\ pc' = "idle"
        /\ \A n \in Instances \ {cur} : data'[n] = data[n]
    BY <1>5 DEF DropDependent, Return, SInv, TypeOK
  <2> QED
    BY <1>0, <2>1 DEF InForce, SInv, Progress
<1>6. CASE StartSwap
  BY <1>0, <1>6 DEF StartSwap, InForce
<1>7. CASE ApplyDone
  BY <1>0, <1>7 DEF ApplyDone, Return, InForce, SInv, Progress
<1>8. CASE UndoDone
  <2>1. /\ text' = text /\ list' = list \ {cur} /\ pc = "restore" /\ todo = {} /\ pc' = "idle"
        /\ \A n \in Instances \ {cur} : data'[n] = data[n]
    BY <1>8 DEF UndoDone, Return, SInv, TypeOK
  <2> QED
    BY <1>0, <2>1 DEF InForce, SInv, Progress
<1>9. CASE Run \/ UNCHANGED vars
  BY <1>0, <1>9 DEF Run, Call, Leave, server, vars, InForce, Writes
<1> QED
  BY <1>1, <1>2, <1>3, <1>4, <1>5, <1>6, <1>7, <1>8, <1>9 DEF Next, Request, Serve

\* An exchange puts the youngest word on top of its location, or takes the
\* top one off.
LEMMA ExchangeChain ==
    ASSUME DInv, NEW s \in Slots, Exchange(s)
    PROVE  TextChain'
<1> DEFINE top == MaxApplies + 1
           \* What is in force after the step, and the chain in its terms.
           ForceFor(r) == {n \in Instances : InForce(n, r)'}
           Below(w, k, r) == /\ w = 0 \/ (w < k /\ w \in ForceFor(r))
                             /\ \A m \in ForceFor(r) : m < k => m <= w
<1>0. /\ list \subseteq 1 .. born /\ born \in Nat /\ born <= MaxApplies /\ MaxApplies \in Nat
      /\ cur \in 1 .. born /\ cur \in Instances
      /\ s \in todo /\ s \in Writes(cur)
      /\ pc \in {"swap", "restore"} /\ pc' = pc /\ cur' = cur /\ list' = list /\ of' = of
      /\ todo' = todo \ {s}
  BY DescAssumption DEF Exchange, DInv, SInv, TypeOK, Progress, Words, Instances
<1>1. /\ text' = [text EXCEPT ![s] = data[cur][s]]
      /\ data' = [data EXCEPT ![cur] = [data[cur] EXCEPT ![s] = text[s]]]
      /\ text \in [Slots -> Words] /\ data \in [Instances -> [Slots -> Words]]
  BY DEF Exchange, DInv, SInv, TypeOK
<1>2. /\ text'[s] = data[cur][s] /\ data'[cur][s] = text[s]
      /\ \A r \in Slots \ {s} : text'[r] = text[r]
      /\ \A n \in Instances, r \in Slots : n # cur \/ r # s => data'[n][r] = data[n][r]
  BY <1>0, <1>1
<1>3. \A n \in Instances : Writes(n)' = Writes(n)
  BY <1>0 DEF Writes
<1>4. \A n \in Instances, r \in Slots \ {s} : InForce(n, r)' <=> InForce(n, r)
  BY <1>0, <1>3 DEF InForce
<1>5. \A w \in Words : w # 0 => w \in Instances
  BY DEF Words, Instances
<1>6. \A n \in Instances, r \in Slots : InForce(n, r) => n \in 1 .. born
  BY <1>0 DEF InForce
<1>7. ASSUME NEW r \in Slots \ {s}
      PROVE  /\ Below(text'[r], top, r)
             /\ \A n \in ForceFor(r) : Below(data'[n][r], n, r)
  <2>1. ASSUME NEW w \in Words, NEW n, TopBelow(w, n, r) PROVE Below(w, n, r)
    BY <1>4, <1>5, <2>1 DEF TopBelow
  <2>2. /\ TopBelow(text[r], top, r)
        /\ \A n \in Instances : InForce(n, r) => TopBelow(data[n][r], n, r)
    BY DEF DInv, TextChain
  <2> QED
    BY <1>1, <1>2, <1>4, <2>1, <2>2
<1>8. /\ TopBelow(text[s], top, s)
      /\ \A n \in Instances : InForce(n, s) => TopBelow(data[n][s], n, s)
  BY DEF DInv, TextChain
<1>9. text[s] \in Words /\ \A n \in Instances : data[n][s] \in Words
  BY <1>1
<1>10. (\A r \in Slots : /\ Below(text'[r], top, r)
                         /\ \A n \in ForceFor(r) : Below(data'[n][r], n, r)) => TextChain'
  BY DEF TextChain, TopBelow, InForce
<1>11. CASE pc = "swap"
  <2>1. data[cur][s] = cur /\ cur = born /\ cur \notin list
    BY <1>0, <1>11 DEF DInv, SInv, NewWords, Progress
  <2>2. \A n \in Instances : InForce(n, s)' <=> InForce(n, s) \/ n = cur
    BY <1>0, <1>3, <1>11 DEF InForce
  <2>3. ASSUME NEW n \in Instances, InForce(n, s) PROVE n < cur
    <3>1. n \in list \/ (n = cur /\ s \notin todo)
      BY <2>3 DEF InForce
    <3>2. n \in list
      BY <3>1, <1>0
    <3>3. n \in 1 .. born /\ n # born
      BY <3>2, <1>0, <2>1
    <3> QED
      BY <3>3, <1>0, <2>1
  <2>4. Below(cur, top, s)
    BY <1>0, <2>2, <2>3 DEF TopBelow, Instances
  <2>5. Below(text[s], cur, s)
    BY <1>0, <1>5, <1>8, <1>9, <2>2, <2>3 DEF TopBelow, Instances
  <2>6. ASSUME NEW n \in Instances, InForce(n, s) PROVE Below(data[n][s], n, s)
    BY <1>0, <1>5, <1>8, <1>9, <2>2, <2>3, <2>6 DEF TopBelow, Instances, Words
  <2>7. /\ Below(text'[s], top, s)
        /\ \A n \in ForceFor(s) : Below(data'[n][s], n, s)
    BY <1>2, <2>1, <2>2, <2>3, <2>4, <2>5, <2>6 DEF Instances
  <2> QED
    BY <1>7, <1>10, <2>7
<1>12. CASE pc = "restore"
  <2>1. cur \in list /\ \A m \in list : m > cur => Writes(m) \cap Writes(cur) = {}
    BY <1>12 DEF DInv, SInv, Progress, UndoOnTop
  <2>2. InForce(cur, s) /\ \A n \in Instances : InForce(n, s) => n <= cur
    BY <1>0, <1>12, <2>1 DEF InForce, Instances
  <2>3. \A n \in Instances : InForce(n, s)' <=> InForce(n, s) /\ n # cur
    BY <1>0, <1>3, <1>12 DEF InForce
  <2>4. TopBelow(data[cur][s], cur, s)
    BY <1>0, <1>8, <2>2
  <2>5. Below(data[cur][s], top, s)
    BY <1>0, <1>5, <1>9, <2>2, <2>3, <2>4 DEF TopBelow, Instances, Words
  <2>6. ASSUME NEW n \in Instances, InForce(n, s), n # cur PROVE Below(data[n][s], n, s)
    BY <1>0, <1>5, <1>8, <1>9, <2>2, <2>3, <2>6 DEF TopBelow, Instances, Words
  <2>7. /\ Below(text'[s], top, s)
        /\ \A n \in ForceFor(s) : Below(data'[n][s], n, s)
    BY <1>2, <2>3, <2>5, <2>6
  <2> QED
    BY <1>7, <1>10, <2>7
<1> QED
  BY <1>0, <1>11, <1>12

LEMMA StepUndoOnTop == DInv /\ [DisciplinedNext]_vars => UndoOnTop'
<1> SUFFICES ASSUME DInv, [DisciplinedNext]_vars, pc' = "restore"
             PROVE  \A m \in list' : m > cur' => Writes(m)' \cap Writes(cur)' = {}
  BY DEF UndoOnTop
<1>0. SInv /\ [Next]_vars
  BY DEF DInv, DisciplinedNext
<1>1. \A n \in 1 .. born : Writes(n)' = Writes(n)
  BY <1>0, OfKept
<1>2. \/ pc = "idle" /\ cur' \in list
      \/ pc = "restore" /\ cur' = cur
  BY <1>0 DEF Next, Request, Serve, Run, vars, server, ApplyRefused, ApplyStart, UndoUnknown,
         UndoFound, MapBlob, ReadWrites, MapFails, ReadFails, DropDependent, StartSwap,
         Exchange, ApplyDone, UndoDone, Call, Leave, Return
<1>3. list' = list
  BY <1>0 DEF Next, Request, Serve, Run, vars, server, ApplyRefused, ApplyStart, UndoUnknown,
         UndoFound, MapBlob, ReadWrites, MapFails, ReadFails, DropDependent, StartSwap,
         Exchange, ApplyDone, UndoDone, Call, Leave, Return
<1>4. list \subseteq 1 .. born /\ (pc = "restore" => cur \in list)
  BY <1>0 DEF SInv, Progress
<1>5. cur' \in list /\ \A m \in list : m > cur' => Writes(m) \cap Desc[of[cur']].writes = {}
  <2>1. CASE pc = "idle"
    <3>1. cur' \in list
      BY <1>2, <2>1
    <3>2. NewestFirst
      BY <2>1 DEF DisciplinedNext, vars
    <3>3. \A m \in list : m > cur' => Writes(m) \cap Writes(cur') = {}
      BY <2>1, <3>2 DEF NewestFirst
    <3> QED
      BY <3>1, <3>3 DEF Writes
  <2>2. CASE pc = "restore"
    <3>1. \A m \in list : m > cur => Writes(m) \cap Writes(cur) = {}
      BY <2>2 DEF DInv, UndoOnTop
    <3>2. cur' = cur /\ cur \in list
      BY <1>2, <1>4, <2>2
    <3> QED
      BY <3>1, <3>2 DEF Writes
  <2> QED
    BY <1>2, <2>1, <2>2
<1>6. of'[cur'] = of[cur']
  BY <1>4, <1>5, <1>0, OfKept
<1>7. Writes(cur)' = Desc[of[cur']].writes
  BY <1>6 DEF Writes
<1> QED
  BY <1>1, <1>3, <1>4, <1>5, <1>7

LEMMA StepDInv == DInv /\ [DisciplinedNext]_vars => DInv'
<1> SUFFICES ASSUME DInv, [DisciplinedNext]_vars PROVE DInv'
  OBVIOUS
<1>1. SInv /\ [Next]_vars
  BY DEF DInv, DisciplinedNext
<1>2. SInv'
  BY <1>1, StepSInv
<1>3. UndoOnTop'
  BY StepUndoOnTop
<1>4. TextChain'
  <2>1. CASE \E s \in Slots : Exchange(s)
    BY <2>1, ExchangeChain
  <2>2. CASE \A s \in Slots : ~Exchange(s)
    <3>1. /\ \A s \in Slots : text[s] \in Words
          /\ \A n \in Instances, s \in Slots : data[n][s] \in Words
      BY <1>1 DEF SInv, TypeOK
    <3>2. /\ text' = text
          /\ \A n \in Instances, s \in Slots : InForce(n, s)' <=> InForce(n, s)
          /\ \A n \in Instances, s \in Slots :
                InForce(n, s) => data'[n][s] = data[n][s] /\ data[n][s] \in Words
      BY <1>1, <2>2, <3>1, ForceKept
    <3> QED
      BY <3>1, <3>2, ChainKept DEF DInv
  <2> QED
    BY <2>1, <2>2
<1> QED
  BY <1>2, <1>3, <1>4 DEF DInv

LEMMA DisciplinedInvariance == DisciplinedSpec => []DInv
  BY InitDInv, StepDInv, PTL DEF DisciplinedSpec

\* When patches that share locations are undone newest first, every location
\* holds the newest word in force and every patch_write the word below it.
THEOREM Chain == DisciplinedSpec => []TextChain
<1>1. DInv => TextChain
  BY DEF DInv
<1> QED
  BY <1>1, DisciplinedInvariance, PTL

\* ... so that no thread is sent into an unmapped blob ...
THEOREM NoDangling == DisciplinedSpec => []NoDanglingTrampoline
<1>1. DInv => NoDanglingTrampoline
  <2> SUFFICES ASSUME DInv, NEW s \in Slots, text[s] # 0, HasBlob(text[s])
               PROVE  text[s] \in mapped
    BY DEF NoDanglingTrampoline
  <2>1. InForce(text[s], s)
    BY DEF DInv, TextChain, TopBelow
  <2>2. text[s] \in list \/ (pc = "swap" /\ text[s] = cur)
    BY <2>1 DEF InForce
  <2> QED
    BY <2>2 DEF DInv, SInv, BlobsAccounted
<1> QED
  BY <1>1, DisciplinedInvariance, PTL

\* Between requests, a function runs the newest applied patch that writes it,
\* and QEMU's own code if none does: failed and undone patches leave no trace.
RestoredAtRest ==
    pc = "idle" =>
        \A s \in Slots :
            LET writers == {n \in list : s \in Writes(n)}
            IN  IF writers = {} THEN text[s] = 0
                ELSE text[s] \in writers /\ \A n \in writers : n <= text[s]

\* At rest the chain is just this, whatever has failed or been undone before.
THEOREM Restored == DisciplinedSpec => []RestoredAtRest
<1>1. DInv => RestoredAtRest
  <2> SUFFICES ASSUME DInv, pc = "idle", NEW s \in Slots
               PROVE  LET writers == {n \in list : s \in Writes(n)}
                      IN  IF writers = {} THEN text[s] = 0
                          ELSE text[s] \in writers /\ \A n \in writers : n <= text[s]
    BY DEF RestoredAtRest
  <2>1. \A n : InForce(n, s) <=> n \in list /\ s \in Writes(n)
    BY DEF InForce
  <2>2. list \subseteq Instances /\ MaxApplies \in Nat /\ \A n \in Instances : n \in Nat /\ 1 <= n /\ n < MaxApplies + 1
    BY DescAssumption DEF DInv, SInv, TypeOK, Instances
  <2>3. /\ text[s] = 0 \/ InForce(text[s], s)
        /\ \A m \in Instances : InForce(m, s) => m <= text[s]
    BY <2>2 DEF DInv, TextChain, TopBelow
  <2> QED
    BY <2>1, <2>2, <2>3
<1> QED
  BY <1>1, DisciplinedInvariance, PTL
-----------------------------------------------------------------------------
\* An undo works on the newest instance of its patch, and no patch without a
\* patch_write ever becomes an instance.
UndoNewest ==
    /\ pc = "restore" => Newest(of[cur], cur)
    /\ \A n \in 1 .. born : Writes(n) # {}

AInv == SInv /\ UndoNewest

LEMMA StepAInv == AInv /\ [Next]_vars => AInv'
<1> SUFFICES ASSUME AInv, [Next]_vars PROVE UndoNewest'
  BY StepSInv DEF AInv
<1>0. SInv /\ list \subseteq 1 .. born
  BY DEF AInv, SInv, Progress
<1>1. \A n \in 1 .. born : of'[n] = of[n] /\ Writes(n)' = Writes(n)
  BY <1>0, OfKept
<1>2. \A n \in (1 .. born)' : Writes(n)' # {}
  <2>1. CASE \E p \in Patches : ApplyStart(p)
    <3> PICK p \in Patches : ApplyStart(p)
      BY <2>1
    <3>1. born' = born + 1 /\ born \in Nat /\ born < MaxApplies /\ Desc[p].writes # {}
          /\ of' = [of EXCEPT ![born + 1] = p]
      BY <1>0, DescAssumption DEF ApplyStart, SInv, TypeOK, Words
    <3>2. of'[born + 1] = p
      BY <1>0, <3>1, DescAssumption DEF SInv, TypeOK, Instances
    <3> SUFFICES ASSUME NEW n \in 1 .. born' PROVE Desc[of'[n]].writes # {}
      BY DEF Writes
    <3>3. CASE n = born + 1
      BY <3>1, <3>2, <3>3
    <3>4. CASE n \in 1 .. born
      BY <1>1, <3>4 DEF AInv, UndoNewest, Writes
    <3> QED
      BY <3>1, <3>3, <3>4
  <2>2. CASE ~\E p \in Patches : ApplyStart(p)
    <3>1. born' = born
      BY <2>2 DEF Next, Request, Serve, Run, vars, server, ApplyRefused, UndoUnknown,
             UndoFound, MapBlob, ReadWrites, MapFails, ReadFails, DropDependent, StartSwap,
             Exchange, ApplyDone, UndoDone, Call, Leave
    <3> QED
      BY <1>1, <3>1 DEF AInv, UndoNewest
  <2> QED
    BY <2>1, <2>2
<1>3. ASSUME pc' = "restore" PROVE Newest(of[cur], cur)'
  <2>1. /\ list' = list
        /\ \/ \E p \in Patches : Newest(p, cur')
           \/ Newest(of[cur], cur) /\ cur' = cur
    BY <1>3 DEF Next, Request, Serve, Run, vars, server, ApplyRefused, ApplyStart, UndoUnknown,
           UndoFound, MapBlob, ReadWrites, MapFails, ReadFails, DropDependent, StartSwap,
           Exchange, ApplyDone, UndoDone, Call, Leave, Return, AInv, UndoNewest
  <2>2. cur' \in list /\ \A m \in list : of[m] = of[cur'] => m <= cur'
    BY <2>1 DEF Newest
  <2>3. of'[cur'] = of[cur'] /\ \A m \in list : of'[m] = of[m]
    BY <1>0, <1>1, <2>2
  <2> QED
    BY <2>1, <2>2, <2>3 DEF Newest
<1> QED
  BY <1>2, <1>3 DEF UndoNewest

LEMMA AbstractInvariance == Spec => []AInv
<1>1. Init => AInv
  BY InitSInv DEF AInv, UndoNewest, Init
<1> QED
  BY <1>1, StepAInv, PTL DEF Spec

\* Without dependencies, a return code of OK means that the patch is applied,
\* an error that it is not.
THEOREM Truthful ==
    ASSUME \A p \in Patches : Desc[p].deps = {}
    PROVE  Spec => TruthfulReturn
<1>1. SInv /\ [Next]_vars =>
        [pc \notin {"idle", "restore"} /\ pc' = "idle" => (ret'.code = "OK" <=> cur \in list')]_vars
  <2> SUFFICES ASSUME SInv, [Next]_vars, pc \notin {"idle", "restore"}, pc' = "idle"
               PROVE  ret'.code = "OK" <=> cur \in list'
    OBVIOUS
  <2>1. cur \in 1 .. born /\ of[cur] \in Patches
    BY DEF SInv, Progress, TypeOK
  <2>2. \/ \E code \in {"ERR_INVALID", "ERR_NOMEM"} : MapFails(code) \/ ReadFails(code)
        \/ ApplyDone
    BY <2>1 DEF Next, Request, Serve, Run, vars, server, ApplyRefused, ApplyStart, UndoUnknown,
           UndoFound, MapBlob, ReadWrites, DropDependent, StartSwap, Exchange, UndoDone, Call, Leave
  <2> QED
    BY <2>2 DEF MapFails, ReadFails, ApplyDone, Return, SInv, Progress
<1> QED
  BY <1>1, Invariance, PTL DEF Spec, TruthfulReturn

\* The refinement mapping: what the list looks like from outside.
Shown == {[id |-> n, patch |-> of[n]] : n \in list}

LEMMA ShownKept ==
    ASSUME SInv, [Next]_vars, list' = list
    PROVE  Shown' = Shown
<1>1. \A n \in list : of'[n] = of[n]
  BY OfKept DEF SInv, Progress
<1> QED
  BY <1>1 DEF Shown

LEMMA ApplyImplements ==
    ASSUME AInv, [Next]_vars, ApplyDone
    PROVE  \E p \in Patches : Abstract!Apply(p)
<1>1. /\ cur = born /\ cur \notin list /\ list \subseteq 1 .. born /\ cur \in Instances
      /\ of[cur] \in Patches /\ born \in Nat
  BY PatchOf DEF AInv, SInv, TypeOK, Progress, ApplyDone, Words
<1>2. /\ list' = list \cup {cur} /\ of' = of
      /\ ret' = [op |-> "apply", patch |-> of[cur], code |-> "OK"]
  BY DEF ApplyDone, Return
<1>3. Shown' = Shown \cup {[id |-> cur, patch |-> of[cur]]}
  BY <1>2 DEF Shown
<1>4. \A a \in Shown : a.id < cur
  <2>1. \A n \in list : n < cur
    BY <1>1
  <2> QED
    BY <2>1 DEF Shown
<1> QED
  BY <1>1, <1>2, <1>3, <1>4 DEF Abstract!Apply, Abstract!Answer, Shown

LEMMA UndoImplements ==
    ASSUME AInv, [Next]_vars, UndoDone
    PROVE  \E p \in Patches : Abstract!Undo(p)
<1>1. cur \in list /\ of[cur] \in Patches /\ \A m \in list : of[m] = of[cur] => m <= cur
  BY PatchOf DEF AInv, SInv, Progress, UndoDone, UndoNewest, Newest
<1>2. /\ list' = list \ {cur} /\ of' = of
      /\ ret' = [op |-> "undo", patch |-> of[cur], code |-> "OK"]
  BY DEF UndoDone, Return
<1> DEFINE a == [id |-> cur, patch |-> of[cur]]
<1>3. Shown' = Shown \ {a}
  <2>1. \A n \in list : [id |-> n, patch |-> of[n]] = a <=> n = cur
    OBVIOUS
  <2> QED
    BY <1>2, <2>1 DEF Shown
<1>4. /\ a \in Shown /\ a.patch = of[cur]
      /\ \A b \in Shown : b.patch = of[cur] => b.id <= a.id
  BY <1>1 DEF Shown
<1> QED
  BY <1>1, <1>2, <1>3, <1>4 DEF Abstract!Undo, Abstract!Answer, Shown

\* Every request, however many steps it takes and wherever it fails, changes
\* the set of applied patches as PatchSet says, if no patch has dependencies.
THEOREM Refinement ==
    ASSUME \A p \in Patches : Desc[p].deps = {}
    PROVE  Spec => AbstractSpec
<1>1. Init => Abstract!Init
  BY DEF Init, Abstract!Init
<1>2. AInv /\ [Next]_vars => [Abstract!Next]_(Abstract!vars)
  <2> SUFFICES ASSUME AInv, [Next]_vars PROVE [Abstract!Next]_(Abstract!vars)
    OBVIOUS
  <2>0. SInv /\ (pc # "idle" => of[cur] \in Patches)
    BY DEF AInv, SInv, Progress
  <2>1. ASSUME list' = list, ret' = ret PROVE UNCHANGED Abstract!vars
    BY <2>0, <2>1, ShownKept DEF Abstract!vars, Shown
  <2>2. ASSUME NEW p \in Patches, NEW code \in {"ERR_INVALID", "ERR_NOMEM"},
               list' = list, Return("apply", p, code)
        PROVE  Abstract!Next
    BY <2>0, <2>2, ShownKept DEF Abstract!Next, Abstract!ApplyFails, Abstract!Answer, Return, Shown
  <2>3. ASSUME NEW p \in Patches, ApplyRefused(p) PROVE Abstract!Next
    BY <2>2, <2>3 DEF ApplyRefused
  <2>4. ASSUME NEW p \in Patches, UndoUnknown(p) PROVE Abstract!Next
    <3>1. /\ list' = list /\ ret' = [op |-> "undo", patch |-> p, code |-> "ENOENT"]
          /\ \A a \in Shown : a.patch # p
      BY <2>4 DEF UndoUnknown, Return, Shown
    <3> QED
      BY <2>0, <3>1, ShownKept DEF Abstract!Next, Abstract!UndoUnknown, Abstract!Answer, Shown
  <2>5. ASSUME NEW p \in Patches, UndoFound(p) PROVE list' = list /\ ret' = ret
    <3>1. \A n \in list : ~HasDependents(n) /\ Writes(n) # {}
      BY <2>0 DEF HasDependents, SInv, Progress, AInv, UndoNewest
    <3> QED
      BY <2>5, <3>1 DEF UndoFound
  <2>6. ASSUME NEW code \in {"ERR_INVALID", "ERR_NOMEM"}, MapFails(code) \/ ReadFails(code)
        PROVE  Abstract!Next
    BY <2>0, <2>2, <2>6 DEF MapFails, ReadFails
  <2>7. CASE ApplyDone
    BY <2>7, ApplyImplements DEF Abstract!Next
  <2>8. CASE UndoDone
    BY <2>8, UndoImplements DEF Abstract!Next
  <2>9. ~DropDependent
    BY <2>0 DEF DropDependent
  <2>10. ASSUME \/ \E p \in Patches : ApplyStart(p)
                \/ MapBlob \/ ReadWrites \/ StartSwap
                \/ \E s \in Slots : Exchange(s)
                \/ Run \/ UNCHANGED vars
         PROVE  list' = list /\ ret' = ret
    BY <2>10 DEF ApplyStart, MapBlob, ReadWrites, StartSwap, Exchange, Run, Call, Leave, server, vars
  <2> QED
    BY <2>1, <2>3, <2>4, <2>5, <2>6, <2>7, <2>8, <2>9, <2>10 DEF Next, Request, Serve
<1> QED
  BY <1>1, <1>2, AbstractInvariance, PTL DEF Spec, AbstractSpec, Abstract!Spec

\* The discipline costs nothing when no two patches write a common location:
\* then the code itself keeps to it, as an undo takes the newest instance of
\* its patch.  All of the above holds for such patches in any order.
THEOREM DisjointPatches ==
    ASSUME \A p, q \in Patches : p # q => Desc[p].writes \cap Desc[q].writes = {}
    PROVE  Spec => DisciplinedSpec
<1>1. SInv /\ [Next]_vars => [DisciplinedNext]_vars
  <2> SUFFICES ASSUME SInv, Next PROVE NewestFirst
    BY DEF DisciplinedNext
  <2> SUFFICES ASSUME pc = "idle", pc' = "restore", NEW m \in list, m > cur'
               PROVE  Writes(m) \cap Desc[of[cur']].writes = {}
    BY DEF NewestFirst, Writes
  <2>1. \E p \in Patches : UndoFound(p)
    BY DEF Next, Request, Serve, Run, server, ApplyRefused, ApplyStart, UndoUnknown,
           MapBlob, ReadWrites, MapFails, ReadFails, DropDependent, StartSwap,
           Exchange, ApplyDone, UndoDone, Call, Leave, Return
  <2>2. \E p \in Patches : Newest(p, cur')
    BY <2>1 DEF UndoFound, Return
  <2>3. cur' \in list /\ (of[m] = of[cur'] => m <= cur')
    BY <2>2 DEF Newest
  <2>4. of[m] \in Patches /\ of[cur'] \in Patches /\ m \in Nat /\ cur' \in Nat
    BY <2>3 DEF SInv, Progress, TypeOK, Words
  <2> QED
    BY <2>3, <2>4 DEF Writes
<1> QED
  BY <1>1, Invariance, PTL DEF Spec, DisciplinedSpec
-----------------------------------------------------------------------------
(* What Answered rests on besides fairness: a request has a bound on the      *)
(* steps it still takes, which every step of the listener thread lowers and   *)
(* no step of another thread raises.                                          *)

\* Mapping, reading, checking the dependencies, one exchange per patch_write
\* and the return.
StepsLeft ==
    CASE pc = "idle" -> 0
      [] pc = "map" -> 4 + Cardinality(Writes(cur))
      [] pc = "check" -> 3 + Cardinality(Writes(cur))
      [] pc = "deps" -> 2 + Cardinality(Writes(cur))
      [] pc \in {"swap", "restore"} -> 1 + Cardinality(todo)

LEMMA StepsLeftBounds ==
    ASSUME SInv, IsFiniteSet(Slots)
    PROVE  /\ StepsLeft \in Nat
           /\ StepsLeft = 0 <=> pc = "idle"
           /\ StepsLeft <= 4 + Cardinality(Slots)
<1>1. todo \subseteq Slots /\ pc \in {"idle", "map", "check", "deps", "swap", "restore"}
  BY DEF SInv, TypeOK
<1>2. Cardinality(Slots) \in Nat
  BY FS_CardinalityType
<1>3. Cardinality(todo) \in Nat /\ Cardinality(todo) <= Cardinality(Slots)
  BY <1>1, FS_Subset, FS_CardinalityType
<1>4. ASSUME pc # "idle"
      PROVE  Cardinality(Writes(cur)) \in Nat /\ Cardinality(Writes(cur)) <= Cardinality(Slots)
  <2>1. Writes(cur) \subseteq Slots
    BY <1>4, PatchOf DEF SInv, Progress
  <2> QED
    BY <2>1, FS_Subset, FS_CardinalityType
<1> QED
  BY <1>1, <1>2, <1>3, <1>4 DEF StepsLeft

LEMMA ServeLowers ==
    ASSUME SInv, IsFiniteSet(Slots), Serve
    PROVE  StepsLeft' < StepsLeft
<1> DEFINE size == Cardinality(Writes(cur))
<1>1. StepsLeft \in Nat /\ (pc # "idle" => StepsLeft > 0)
  BY StepsLeftBounds
<1>2. ASSUME pc' = "idle", pc # "idle" PROVE StepsLeft' < StepsLeft
  BY <1>1, <1>2 DEF StepsLeft
<1>3. ASSUME pc # "idle", of' = of, cur' = cur
      PROVE  size \in Nat /\ size' = size
  <2>1. Writes(cur) \subseteq Slots
    BY <1>3, PatchOf DEF SInv, Progress
  <2> QED
    BY <1>3, <2>1, FS_Subset, FS_CardinalityType DEF Writes
<1>4. CASE MapBlob
  BY <1>3, <1>4 DEF MapBlob, StepsLeft
<1>5. CASE ReadWrites
  BY <1>3, <1>5 DEF ReadWrites, StepsLeft
<1>6. ASSUME NEW code \in {"ERR_INVALID", "ERR_NOMEM"}, MapFails(code) \/ ReadFails(code)
      PROVE  StepsLeft' < StepsLeft
  BY <1>2, <1>6 DEF MapFails, ReadFails, Return
<1>7. CASE DropDependent
  BY <1>2, <1>7 DEF DropDependent, Return
<1>8. CASE StartSwap
  BY <1>3, <1>8 DEF StartSwap, StepsLeft
<1>9. ASSUME NEW s \in Slots, Exchange(s) PROVE StepsLeft' < StepsLeft
  <2>1. /\ pc \in {"swap", "restore"} /\ pc' = pc
        /\ s \in todo /\ todo \subseteq Slots /\ todo' = todo \ {s}
    BY <1>9 DEF Exchange, SInv, TypeOK
  <2>2. IsFiniteSet(todo) /\ Cardinality(todo) \in Nat
    BY <2>1, FS_Subset, FS_CardinalityType
  <2>3. Cardinality(todo') = Cardinality(todo) - 1
    BY <2>1, <2>2, FS_RemoveElement
  <2> QED
    BY <2>1, <2>2, <2>3 DEF StepsLeft
<1>10. CASE ApplyDone \/ UndoDone
  BY <1>2, <1>10 DEF ApplyDone, UndoDone, Return
<1> QED
  BY <1>4, <1>5, <1>6, <1>7, <1>8, <1>9, <1>10 DEF Serve

\* However many threads run meanwhile, a request takes at most 4 steps and one
\* per location: swap_trampolines terminates, and no step goes back to an
\* earlier point of xenlp_apply4 or xenlp_undo4.
THEOREM RequestsBounded ==
    ASSUME IsFiniteSet(Slots)
    PROVE  Spec => /\ [](/\ StepsLeft \in 0 .. 4 + Cardinality(Slots)
                         /\ StepsLeft = 0 <=> pc = "idle")
                   /\ [][/\ Serve => StepsLeft' < StepsLeft
                         /\ Run => StepsLeft' = StepsLeft]_vars
<1>1. Cardinality(Slots) \in Nat
  BY FS_CardinalityType
<1>2. SInv => /\ StepsLeft \in 0 .. 4 + Cardinality(Slots)
              /\ StepsLeft = 0 <=> pc = "idle"
  BY <1>1, StepsLeftBounds
<1>3. SInv /\ [Next]_vars => [/\ Serve => StepsLeft' < StepsLeft
                              /\ Run => StepsLeft' = StepsLeft]_vars
  <2>1. Run => StepsLeft' = StepsLeft
    BY DEF Run, Call, Leave, server, StepsLeft, Writes
  <2> QED
    BY <2>1, ServeLowers
<1> QED
  BY <1>2, <1>3, Invariance, PTL DEF Spec
-----------------------------------------------------------------------------
(* The run sandbox_threads finds a thread in an unmapped blob.  Which steps    *)
(* can do that to a thread: the applies cannot, although several of their      *)
(* error paths unmap, because a blob is not entered before its trampolines are *)
(* written, and none is unmapped after that; and a thread cannot do it to      *)
(* itself, because no trampoline leads into a blob that is gone.               *)

\* No thread is in the blob of a patch before its trampolines are written.
NotEnteredYet == pc \in {"map", "check", "deps"} => \A t \in Threads : at[t] # cur

\* A thread is in a blob that there has been.
EntersBorn == \A t \in Threads : at[t] <= born

EInv == DInv /\ EntersBorn /\ NotEnteredYet

\* Where a call can take a thread.
LEMMA CallTarget ==
    ASSUME DInv, NEW s \in Slots, text[s] # 0, HasBlob(text[s])
    PROVE  /\ text[s] \in mapped
           /\ text[s] <= born
           /\ pc \in {"map", "check", "deps"} => text[s] # cur
<1>1. InForce(text[s], s)
  BY DEF DInv, TextChain, TopBelow
<1>2. text[s] \in list \/ (pc = "swap" /\ text[s] = cur)
  BY <1>1 DEF InForce
<1>3. born \in Nat /\ list \subseteq 1 .. born /\ (pc # "idle" => cur \in 1 .. born)
  BY DEF DInv, SInv, TypeOK, Words, Progress
<1>4. text[s] \in mapped
  BY <1>2 DEF DInv, SInv, BlobsAccounted
<1>5. text[s] \in 1 .. born
  BY <1>2, <1>3
<1>6. pc \in {"map", "check", "deps"} => text[s] # cur
  BY <1>2 DEF DInv, SInv, Progress
<1> QED
  BY <1>3, <1>4, <1>5, <1>6

\* What one step does to the threads and to the blobs they are in.
LEMMA StepEInv ==
    ASSUME EInv, [DisciplinedNext]_vars
    PROVE  /\ EntersBorn' /\ NotEnteredYet'
           /\ \A t \in Threads : Stranded(t)' =>
                  Stranded(t) \/ (pc = "restore" /\ todo = {} /\ at[t] = cur)
<1> DEFINE Kept == \A t \in Threads : Stranded(t)' =>
                      Stranded(t) \/ (pc = "restore" /\ todo = {} /\ at[t] = cur)
<1>0. /\ DInv /\ SInv /\ [Next]_vars /\ EntersBorn /\ NotEnteredYet
      /\ born \in Nat
      /\ at \in [Threads -> Words] /\ \A t \in Threads : at[t] \in Nat
  BY DEF EInv, DInv, DisciplinedNext, SInv, TypeOK, Words
<1> SUFFICES EntersBorn' /\ NotEnteredYet' /\ Kept
  OBVIOUS
<1> USE DEF EntersBorn, NotEnteredYet, Stranded
<1>2. ASSUME NEW p \in Patches, ApplyRefused(p) \/ UndoUnknown(p) \/ UndoFound(p)
      PROVE  EntersBorn' /\ NotEnteredYet' /\ Kept
  BY <1>0, <1>2 DEF ApplyRefused, UndoUnknown, UndoFound, Return
<1>3. ASSUME NEW p \in Patches, ApplyStart(p)
      PROVE  EntersBorn' /\ NotEnteredYet' /\ Kept
  <2>1. /\ cur' = born + 1 /\ born' = born + 1 /\ mapped' = mapped /\ at' = at
    BY <1>3 DEF ApplyStart
  <2>2. \A t \in Threads : at[t] <= born + 1 /\ at[t] # born + 1
    BY <1>0
  <2> QED
    BY <2>1, <2>2
<1>4. CASE MapBlob \/ ReadWrites \/ StartSwap
  BY <1>0, <1>4 DEF MapBlob, ReadWrites, StartSwap
\* The three ways an apply unmaps what it has mapped: nobody is in there.
<1>5. ASSUME NEW code \in {"ERR_INVALID", "ERR_NOMEM"}, MapFails(code) \/ ReadFails(code)
      PROVE  EntersBorn' /\ NotEnteredYet' /\ Kept
  BY <1>0, <1>5 DEF MapFails, ReadFails, Return
<1>6. CASE DropDependent
  BY <1>0, <1>6 DEF DropDependent, Return
<1>7. ASSUME NEW s \in Slots, Exchange(s) PROVE EntersBorn' /\ NotEnteredYet' /\ Kept
  BY <1>0, <1>7 DEF Exchange
<1>8. CASE ApplyDone
  BY <1>0, <1>8 DEF ApplyDone, Return
<1>9. CASE UndoDone
  BY <1>0, <1>9 DEF UndoDone, Return
<1>10. ASSUME NEW t \in Threads, Leave(t) PROVE EntersBorn' /\ NotEnteredYet' /\ Kept
  <2>1. at' = [at EXCEPT ![t] = 0] /\ mapped' = mapped /\ pc' = pc /\ cur' = cur /\ born' = born
    BY <1>10 DEF Leave, server
  <2>2. at'[t] = 0 /\ \A u \in Threads \ {t} : at'[u] = at[u]
    BY <1>0, <2>1
  <2>3. pc # "idle" => cur # 0
    BY <1>0 DEF SInv, Progress
  <2> QED
    BY <1>0, <2>1, <2>2, <2>3
<1>11. ASSUME NEW t \in Threads, NEW s \in Slots, Call(t, s)
       PROVE  EntersBorn' /\ NotEnteredYet' /\ Kept
  <2>1. /\ at' = [at EXCEPT ![t] = text[s]] /\ mapped' = mapped /\ pc' = pc /\ cur' = cur
        /\ born' = born /\ text[s] # 0 /\ HasBlob(text[s])
    BY <1>11 DEF Call, server
  <2>2. at'[t] = text[s] /\ \A u \in Threads \ {t} : at'[u] = at[u]
    BY <1>0, <2>1
  <2>3. /\ text[s] \in mapped /\ text[s] <= born
        /\ pc \in {"map", "check", "deps"} => text[s] # cur
    BY <1>0, <2>1, CallTarget
  <2> QED
    BY <1>0, <2>1, <2>2, <2>3
<1>12. CASE UNCHANGED vars
  BY <1>0, <1>12 DEF vars
<1> QED
  BY <1>0, <1>2, <1>3, <1>4, <1>5, <1>6, <1>7, <1>8, <1>9, <1>10, <1>11, <1>12
     DEF Next, Request, Serve, Run

\* Whatever is applied, refused, dropped, fails or is undone newest first, and
\* whoever calls and leaves meanwhile: a thread loses the blob under it to
\* nothing but the munmap at the end of the undo of that patch.
THEOREM OnlyUndosStrand == DisciplinedSpec => StrandedByUndo
<1>1. Init => EInv
  BY InitDInv DEF EInv, Init, EntersBorn, NotEnteredYet
<1>2. EInv /\ [DisciplinedNext]_vars => EInv'
  BY StepDInv, StepEInv DEF EInv
<1>3. EInv /\ [DisciplinedNext]_vars =>
        [\A t \in Threads : Stranded(t)' =>
            \/ Stranded(t)
            \/ pc = "restore" /\ todo = {} /\ at[t] = cur]_vars
  BY StepEInv
<1> QED
  BY <1>1, <1>2, <1>3, PTL DEF DisciplinedSpec, StrandedByUndo
=============================================================================
