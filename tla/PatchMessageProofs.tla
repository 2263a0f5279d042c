------------------------- MODULE PatchMessageProofs -------------------------
(***************************************************************************)
(* That jumps and calls go where they should, for every address of the     *)
(* text, every place of the blob and every width of a displacement.  The   *)
(* arithmetic is in the first lemmas: a 32-bit displacement is right as    *)
(* soon as its value fits, whatever has wrapped around on the way.         *)
(***************************************************************************)
EXTENDS PatchMessage, TLAPS

\* The displacements as they are linked.
Jump(i) == file.refabs + file.funcs[i].newrel - file.funcs[i].oldabs - JumpLen
LinkedCall(i) == file.relocs[i].target - (file.refabs + file.relocs[i].off + Int32Len)

Unread == {"loaded", "written", "filled", "sent", "failed"}
Reading == {"received", "mapped", "relocated", "checked", "dropped", "applied"}
Relocated == {"relocated", "checked", "applied"}

\* The message, from where it is filled.
LayoutInv ==
    /\ len <= room
    /\ phase \in {"filled", "sent"} \cup Reading /\ version = 4 =>
          /\ at["blob"] = Apply4Len
          /\ at["relocs"] = Apply4Len + file.bloblen
          /\ at["writes"] = Apply4Len + file.bloblen + RelocLen * Len(file.relocs)
          /\ Apply4Len + file.bloblen <= len
          /\ at["writes"] + HashLen * file.numdeps + TagLen(file) <= len
    /\ phase \in {"sent"} \cup Reading => ~TooLong(MessageHdrLen + len)

\* The server only acts on a message of _cmd_apply4.
HeaderInv ==
    /\ phase \in Reading => version = 4 /\ hdr = Header(file, 4) /\ Sane(hdr)
    /\ phase = "dropped" \/ version = 3 => file.numdeps > 0

\* The reads of dependencies and tags, as WithinBuffer has them.
ReadsFit ==
    /\ seen["deps"] # 0 => seen["deps"] + HashLen * hdr.numdeps <= len
    /\ seen["tags"] # 0 => seen["tags"] + hdr.taglen <= len /\ hdr.taglen < MaxTags

SeenInv ==
    /\ phase \in Unread \cup {"received"} => \A p \in Parts : seen[p] = 0
    /\ phase = "received" => ptr = Apply4Len
    /\ phase = "mapped" => /\ ptr = Apply4Len + file.bloblen
                           /\ seen["relocs"] = 0 /\ seen["writes"] = 0
    /\ phase = "relocated" => /\ ptr = Apply4Len + file.bloblen + RelocLen * Len(file.relocs)
                              /\ seen["writes"] = 0
    /\ phase = "checked" => ptr = at["writes"]
    /\ phase # "dropped" => seen["deps"] = 0
    /\ phase # "applied" => seen["tags"] = 0
    /\ InPlace
    /\ ReadsFit

\* Where the blob is, and by how much text and blob have moved.
PlaceInv ==
    /\ phase \in {"mapped"} \cup Relocated =>
          IF file.bloblen > 0
          THEN blob \in Addrs /\ constant = Start - file.refabs /\ relocrel = Int32(blob - Start)
          ELSE blob = 0 /\ constant = 0 /\ relocrel = 0
    /\ phase \in Unread \cup {"received"} => constant = 0 /\ relocrel = 0 /\ DOMAIN calls = {}
    /\ phase \in Unread \cup {"received", "dropped"} => blob = 0

CallsInv ==
    /\ phase \in {"mapped"} \cup Relocated /\ file.bloblen > 0 => DOMAIN calls = DOMAIN file.relocs
    /\ phase = "mapped" => \A i \in DOMAIN calls : calls[i] = Int32(LinkedCall(i))
    /\ phase \in Relocated => \A i \in DOMAIN calls : calls[i] = Int32(Int32(LinkedCall(i)) - relocrel)
    /\ phase \in Relocated =>
          \A i \in DOMAIN file.relocs : file.relocs[i].off + Int32Len <= file.bloblen

JumpsInv ==
    /\ phase \in {"written", "filled", "sent", "received", "mapped", "relocated"} =>
          \A i \in DOMAIN file.funcs :
              writes[i].hvabs = file.funcs[i].oldabs /\ writes[i].disp = Int32(Jump(i))
    /\ phase \in {"checked", "applied"} =>
          \A i \in DOMAIN file.funcs :
              /\ writes[i].hvabs = file.funcs[i].oldabs + constant
              /\ InText(writes[i].hvabs)
              /\ writes[i].disp = Int32(Int32(Jump(i)) + relocrel)

IInv == TypeOK /\ file \in Files /\ LayoutInv /\ HeaderInv /\ SeenInv /\ PlaceInv /\ CallsInv /\ JumpsInv
-----------------------------------------------------------------------------
(* Displacements. *)

LEMMA DivMod ==
    ASSUME NEW n \in Nat \ {0}, NEW x \in Int
    PROVE  \E q \in Int, r \in 0 .. (n - 1) : x = q * n + r /\ x % n = r
OBVIOUS

LEMMA ModUnique ==
    ASSUME NEW n \in Nat \ {0}, NEW r \in 0 .. (n - 1), NEW k \in Int
    PROVE  (r + k * n) % n = r
<1>1. PICK x \in Int : x = r + k * n
  OBVIOUS
<1>2. PICK q \in Int, s \in 0 .. (n - 1) : x = q * n + s /\ x % n = s
  OBVIOUS
<1>3. PICK d \in Int : d = k - q
  OBVIOUS
<1>4. d * n = s - r
  BY <1>1, <1>2, <1>3
<1>5. CASE d >= 1
  <2>1. d * n >= n
    BY <1>5
  <2> QED
    BY <1>4, <2>1
<1>6. CASE d <= -1
  <2>1. d * n <= -n
    BY <1>6
  <2> QED
    BY <1>4, <2>1
<1>7. CASE d = 0
  BY <1>1, <1>2, <1>4, <1>7
<1> QED
  BY <1>3, <1>5, <1>6, <1>7

LEMMA ModPeriod ==
    ASSUME NEW n \in Nat \ {0}, NEW x \in Int, NEW k \in Int
    PROVE  (x + k * n) % n = x % n
<1>1. PICK q \in Int, r \in 0 .. (n - 1) : x = q * n + r /\ x % n = r
  OBVIOUS
<1>2. PICK m \in Int : m = q + k
  OBVIOUS
<1>3. x + k * n = r + m * n
  BY <1>1, <1>2
<1> QED
  BY <1>1, <1>3, ModUnique

LEMMA Int32Range ==
    ASSUME NEW x \in Int
    PROVE  Int32(x) \in -Half .. (Half - 1)
<1>1. Half \in Nat \ {0} /\ Wrap \in Nat \ {0} /\ Wrap = 2 * Half
  BY MessageAssumption DEF Wrap
<1>2. PICK y \in Int : y = x + Half
  BY <1>1
<1>3. PICK r \in 0 .. (Wrap - 1) : y % Wrap = r
  BY <1>1
<1> QED
  BY <1>1, <1>2, <1>3 DEF Int32

\* A displacement that fits is its own value.
LEMMA Int32Fits ==
    ASSUME NEW x \in Int, -Half <= x, x < Half
    PROVE  Int32(x) = x
<1>1. Half \in Nat \ {0} /\ Wrap \in Nat \ {0} /\ Wrap = 2 * Half
  BY MessageAssumption DEF Wrap
<1>2. PICK y \in 0 .. (Wrap - 1) : y = x + Half
  BY <1>1
<1>3. y % Wrap = y
  BY <1>1
<1> QED
  BY <1>1, <1>2, <1>3 DEF Int32

\* What wraps around in a summand does not show in the sum.
LEMMA Int32Sum ==
    ASSUME NEW x \in Int, NEW y \in Int
    PROVE  Int32(Int32(x) + y) = Int32(x + y)
<1>1. Half \in Nat \ {0} /\ Wrap \in Nat \ {0}
  BY MessageAssumption DEF Wrap
<1>2. PICK a \in Int : a = x + Half
  BY <1>1
<1>3. PICK q \in Int, r \in 0 .. (Wrap - 1) : a = q * Wrap + r /\ a % Wrap = r
  BY <1>1, DivMod
<1>4. Int32(x) = r - Half
  BY <1>2, <1>3 DEF Int32
<1>5. PICK b \in Int : b = r + y
  BY <1>1, <1>3
<1>6. Int32(x) + y + Half = b
  BY <1>1, <1>3, <1>4, <1>5
<1>7. x + y + Half = b + q * Wrap
  BY <1>1, <1>2, <1>3, <1>5
<1>8. (b + q * Wrap) % Wrap = b % Wrap
  BY <1>1, ModPeriod
<1> QED
  BY <1>6, <1>7, <1>8 DEF Int32

LEMMA Int32Difference ==
    ASSUME NEW x \in Int, NEW y \in Int
    PROVE  Int32(Int32(x) - Int32(y)) = Int32(x - y)
<1>1. Half \in Nat \ {0} /\ Wrap \in Nat \ {0}
  BY MessageAssumption DEF Wrap
<1>2. PICK a \in Int : a = y + Half
  BY <1>1
<1>3. PICK q \in Int, r \in 0 .. (Wrap - 1) : a = q * Wrap + r /\ a % Wrap = r
  BY <1>1, DivMod
<1>4. PICK m \in Int : m = r - Half
  BY <1>1, <1>3
<1>5. Int32(y) = m /\ y = q * Wrap + m
  BY <1>1, <1>2, <1>3, <1>4 DEF Int32
<1>6. PICK z \in Int : z = -m
  OBVIOUS
<1>7. Int32(Int32(x) + z) = Int32(x + z)
  BY Int32Sum
<1>8. PICK j \in Int : j = -q
  OBVIOUS
<1>9. j * Wrap = -(q * Wrap)
  BY <1>1, <1>8
<1>10. PICK c \in Int : c = x + z + Half
  BY <1>1
<1>11. x - y + Half = c + j * Wrap
  BY <1>1, <1>5, <1>6, <1>9, <1>10
<1>12. (c + j * Wrap) % Wrap = c % Wrap
  BY <1>1, ModPeriod
<1>13. Int32(x - y) = Int32(x + z)
  BY <1>10, <1>11, <1>12 DEF Int32
<1>14. Int32(x) \in Int
  BY <1>1, Int32Range
<1>15. Int32(x) - Int32(y) = Int32(x) + z
  BY <1>5, <1>6, <1>14
<1> QED
  BY <1>7, <1>13, <1>15

LEMMA Int32Both ==
    ASSUME NEW x \in Int, NEW y \in Int
    PROVE  Int32(Int32(x) + Int32(y)) = Int32(x + y)
<1>1. PICK a \in Int : a = Int32(x)
  BY Int32Range, MessageAssumption
<1>2. PICK b \in Int : b = Int32(y)
  BY Int32Range, MessageAssumption
<1>3. Int32(a + b) = Int32(x + b)
  BY <1>1, Int32Sum
<1>4. Int32(b + x) = Int32(y + x)
  BY <1>2, Int32Sum
<1>5. x + b = b + x /\ y + x = x + y
  OBVIOUS
<1> QED
  BY <1>1, <1>2, <1>3, <1>4, <1>5
-----------------------------------------------------------------------------
(* Files. *)

LEMMA Elements ==
    ASSUME NEW S, NEW q \in Seq(S)
    PROVE  /\ Len(q) \in Nat
           /\ DOMAIN q = 1 .. Len(q)
           /\ \A i \in DOMAIN q : q[i] \in S
OBVIOUS

LEMMA FileFacts ==
    ASSUME file \in Files
    PROVE  /\ file \in File /\ Linked(file)
           /\ file.refabs \in Nat /\ file.bloblen \in Nat /\ file.taglen \in Nat
           /\ file.numexctblents \in Nat /\ file.numpreexctblents \in Nat /\ file.numdeps \in Nat
           /\ Len(file.relocs) \in Nat /\ Len(file.funcs) \in Nat
           /\ \A i \in DOMAIN file.relocs : /\ file.relocs[i].off \in Nat
                                            /\ file.relocs[i].target \in Nat
                                            /\ LinkedCall(i) \in Int
           /\ \A i \in DOMAIN file.funcs : /\ file.funcs[i].oldabs \in Nat
                                           /\ file.funcs[i].newrel \in Nat
                                           /\ Jump(i) \in Int
           /\ TagLen(file) \in Nat
           /\ file.relocs = <<>> => DOMAIN file.relocs = {}
<1>1. file \in File /\ Linked(file)
  BY MessageAssumption
<1>2. /\ file.refabs \in Nat /\ file.bloblen \in Nat /\ file.taglen \in Nat
      /\ file.numexctblents \in Nat /\ file.numpreexctblents \in Nat /\ file.numdeps \in Nat
      /\ file.relocs \in Seq([off : Nat, target : Nat])
      /\ file.funcs \in Seq([oldabs : Nat, newrel : Nat])
  BY <1>1 DEF File
<1>3. Len(file.relocs) \in Nat /\ Len(file.funcs) \in Nat
  BY <1>2
<1>4. \A i \in DOMAIN file.relocs : file.relocs[i].off \in Nat /\ file.relocs[i].target \in Nat
  <2>1. \A i \in DOMAIN file.relocs : file.relocs[i] \in [off : Nat, target : Nat]
    BY <1>2, Elements
  <2> QED
    BY <2>1
<1>5. \A i \in DOMAIN file.funcs : file.funcs[i].oldabs \in Nat /\ file.funcs[i].newrel \in Nat
  <2>1. \A i \in DOMAIN file.funcs : file.funcs[i] \in [oldabs : Nat, newrel : Nat]
    BY <1>2, Elements
  <2> QED
    BY <2>1
<1>6. \A i \in DOMAIN file.relocs : LinkedCall(i) \in Int
  <2>1. SUFFICES ASSUME NEW i \in DOMAIN file.relocs PROVE LinkedCall(i) \in Int
    OBVIOUS
  <2>2. PICK a \in Nat : a = file.relocs[i].target
    BY <1>4, <2>1
  <2>3. PICK b \in Nat : b = file.relocs[i].off
    BY <1>4, <2>1
  <2>4. PICK c \in Nat : c = file.refabs
    BY <1>2
  <2>5. a - (c + b + 4) \in Int
    OBVIOUS
  <2> QED
    BY <2>2, <2>3, <2>4, <2>5 DEF LinkedCall, Int32Len
<1>7. \A i \in DOMAIN file.funcs : Jump(i) \in Int
  <2>1. SUFFICES ASSUME NEW i \in DOMAIN file.funcs PROVE Jump(i) \in Int
    OBVIOUS
  <2>2. PICK a \in Nat : a = file.funcs[i].oldabs
    BY <1>5, <2>1
  <2>3. PICK b \in Nat : b = file.funcs[i].newrel
    BY <1>5, <2>1
  <2>4. PICK c \in Nat : c = file.refabs
    BY <1>2
  <2>5. c + b - a - 5 \in Int
    OBVIOUS
  <2> QED
    BY <2>2, <2>3, <2>4, <2>5 DEF Jump, JumpLen
<1>8. TagLen(file) \in Nat
  BY <1>2, MessageAssumption DEF TagLen
<1>9. file.relocs = <<>> => DOMAIN file.relocs = {}
  BY <1>2
<1> QED
  BY <1>1, <1>2, <1>3, <1>4, <1>5, <1>6, <1>7, <1>8, <1>9
-----------------------------------------------------------------------------
(* The steps. *)

\* A message that is sent has a blob that read_patch_data will map.
LEMMA ShortBlob ==
    ASSUME IInv, phase = "received"
    PROVE  hdr.bloblen = file.bloblen /\ file.bloblen < MaxPatch
<1>1. /\ version = 4 /\ hdr = Header(file, 4)
      /\ Apply4Len + file.bloblen <= len /\ ~TooLong(MessageHdrLen + len)
  BY DEF IInv, HeaderInv, LayoutInv, Reading
<1>2. PICK a \in Nat, b \in Nat : a = file.bloblen /\ b = len
  BY FileFacts DEF IInv, TypeOK
<1>3. 64 + a <= b /\ ~(16 + b > AllocSize)
  BY <1>1, <1>2 DEF Apply4Len, TooLong, MessageHdrLen
<1>4. a < MaxPatch
  BY <1>3, MessageAssumption
<1>5. hdr.bloblen = file.bloblen
  BY <1>1 DEF Header
<1> QED
  BY <1>2, <1>4, <1>5

LEMMA WrittenStep ==
    ASSUME IInv, PatchWrites
    PROVE  IInv'
<1>1. /\ phase = "loaded" /\ phase' = "written"
      /\ writes' = [i \in DOMAIN file.funcs |->
                       [hvabs |-> file.funcs[i].oldabs, disp |-> Int32(Jump(i))]]
      /\ UNCHANGED <<file, version, room, at, len, hdr, ptr, seen, blob, constant, relocrel, calls>>
  BY DEF PatchWrites, Jump
<1>2. \A i \in DOMAIN file.funcs :
          /\ writes'[i].hvabs = file.funcs[i].oldabs /\ writes'[i].disp = Int32(Jump(i))
          /\ writes'[i].hvabs \in Int /\ writes'[i].disp \in -Half .. (Half - 1)
  <2>1. SUFFICES ASSUME NEW i \in DOMAIN file.funcs
                 PROVE  /\ writes'[i].hvabs = file.funcs[i].oldabs /\ writes'[i].disp = Int32(Jump(i))
                        /\ writes'[i].hvabs \in Int /\ writes'[i].disp \in -Half .. (Half - 1)
    OBVIOUS
  <2>2. Jump(i) \in Int /\ file.funcs[i].oldabs \in Nat
    BY <2>1, FileFacts DEF IInv
  <2>3. Int32(Jump(i)) \in -Half .. (Half - 1)
    BY <2>2, Int32Range
  <2> QED
    BY <1>1, <2>1, <2>2, <2>3
<1>3. TypeOK'
  BY <1>1, <1>2 DEF IInv, TypeOK
<1>4. LayoutInv' /\ HeaderInv' /\ SeenInv' /\ PlaceInv' /\ CallsInv'
  BY <1>1 DEF IInv, LayoutInv, HeaderInv, SeenInv, PlaceInv, CallsInv, Reading, Unread, Relocated,
    InPlace, ReadsFit
<1>5. JumpsInv'
  BY <1>1, <1>2 DEF JumpsInv, Jump
<1> QED
  BY <1>1, <1>3, <1>4, <1>5 DEF IInv

LEMMA FillStep ==
    ASSUME IInv, Fill
    PROVE  IInv'
<1>1. /\ phase = "written" /\ phase' = "filled"
      /\ UNCHANGED <<file, version, writes, hdr, ptr, seen, blob, constant, relocrel, calls>>
  BY DEF Fill
<1>2. PICK b \in Nat, r \in Nat, w \in Nat, x \in Nat, e \in Nat, d \in Nat, g \in Nat :
          /\ b = file.bloblen /\ r = Len(file.relocs) /\ w = Len(file.funcs) /\ x = file.numexctblents
          /\ e = file.numpreexctblents /\ d = file.numdeps /\ g = TagLen(file)
  BY FileFacts DEF IInv
<1>3. version \in {3, 4}
  BY DEF IInv, TypeOK
<1>4. /\ len' \in Nat /\ room' \in Nat /\ len' <= room' /\ at' \in [Parts -> Nat]
      /\ version = 4 => /\ at'["blob"] = 64 /\ at'["relocs"] = 64 + b
                        /\ at'["writes"] = 64 + b + 4 * r /\ 64 + b <= len'
                        /\ at'["writes"] + 24 * d + g <= len'
  <2>1. CASE version = 4
    <3>1. /\ at' = [p \in Parts |->
                       CASE p = "blob" -> 64 [] p = "relocs" -> 64 + b
                         [] p = "writes" -> 64 + b + 4 * r [] p = "exc" -> 64 + b + 4 * r + 24 * w
                         [] p = "preexc" -> 64 + b + 4 * r + 24 * w + 8 * x
                         [] p = "deps" -> 64 + b + 4 * r + 24 * w + 8 * x + 8 * e
                         [] p = "tags" -> 64 + b + 4 * r + 24 * w + 8 * x + 8 * e + 24 * d]
          /\ len' = 64 + b + 4 * r + 24 * w + 8 * x + 8 * e + 24 * d + g
          /\ room' = 64 + 8 * (x + e) + b + 4 * r + 24 * w + 40 * d + g
      BY <1>2, <2>1 DEF Fill, BufLen, Apply4Len, RelocLen, WriteLen, ExcLen, HashLen, DependencyLen
    <3>2. len' \in Nat /\ room' \in Nat /\ len' <= room' /\ 64 + b <= len'
      BY <3>1
    <3>3. at' \in [Parts -> Nat]
      BY <3>1 DEF Parts
    <3>4. at'["blob"] = 64 /\ at'["relocs"] = 64 + b /\ at'["writes"] = 64 + b + 4 * r
      BY <3>1 DEF Parts
    <3>5. 64 + b + 4 * r + 24 * d + g <= len'
      BY <3>1
    <3> QED
      BY <3>2, <3>3, <3>4, <3>5
  <2>2. CASE version = 3
    <3>1. /\ at' = [p \in Parts |->
                       CASE p = "blob" -> 56 [] p = "relocs" -> 56 + b
                         [] p = "writes" -> 56 + b + 4 * r [] p = "exc" -> 56 + b + 4 * r + 24 * w
                         [] p = "preexc" -> 56 + b + 4 * r + 24 * w
                         [] p = "deps" -> 56 + b + 4 * r + 24 * w
                         [] p = "tags" -> 56 + b + 4 * r + 24 * w + 24 * d]
          /\ len' = 56 + b + 4 * r + 24 * w + 24 * d + g
          /\ room' = 56 + b + 4 * r + 24 * w + 40 * d + g
      BY <1>2, <2>2 DEF Fill, BufLen, Apply3Len, RelocLen, WriteLen, ExcLen, HashLen, DependencyLen
    <3>2. len' \in Nat /\ room' \in Nat /\ len' <= room'
      BY <3>1
    <3>3. at' \in [Parts -> Nat]
      BY <3>1 DEF Parts
    <3> QED
      BY <2>2, <3>2, <3>3
  <2> QED
    BY <1>3, <2>1, <2>2
<1>5. TypeOK'
  BY <1>1, <1>4 DEF IInv, TypeOK
<1>6. LayoutInv'
  BY <1>1, <1>2, <1>4 DEF LayoutInv, Reading, Apply4Len, RelocLen, HashLen, TagLen
<1>7. SeenInv'
  BY <1>1 DEF IInv, SeenInv, Unread, InPlace, ReadsFit, Parts
<1>8. HeaderInv' /\ PlaceInv' /\ CallsInv' /\ JumpsInv'
  BY <1>1 DEF IInv, HeaderInv, PlaceInv, CallsInv, JumpsInv, Reading, Unread, Relocated, Jump
<1> QED
  BY <1>1, <1>5, <1>6, <1>7, <1>8 DEF IInv

LEMMA SendStep ==
    ASSUME IInv, Send
    PROVE  IInv'
<1>1. /\ phase = "filled" /\ phase' = "sent" /\ ~TooLong(MessageHdrLen + len)
      /\ UNCHANGED <<file, version, writes, room, at, len>>
      /\ UNCHANGED <<hdr, ptr, seen, blob, constant, relocrel, calls>>
  BY DEF Send, client
<1>2. TypeOK' /\ HeaderInv' /\ PlaceInv' /\ CallsInv' /\ JumpsInv'
  BY <1>1 DEF IInv, TypeOK, HeaderInv, PlaceInv, CallsInv, JumpsInv, Reading, Unread, Relocated, Jump
<1>3. LayoutInv' /\ SeenInv'
  BY <1>1 DEF IInv, LayoutInv, TooLong, SeenInv, Reading, Unread, InPlace, ReadsFit
<1> QED
  BY <1>1, <1>2, <1>3 DEF IInv

\* The ways in which it ends without a patch.
LEMMA EndStep ==
    ASSUME IInv, SendFails \/ RelocateFails \/ ReadWritesFails \/ NoMemory
    PROVE  IInv'
<1>1. /\ phase \notin {"loaded", "dropped", "applied"}
      /\ \/ phase' = "refused" /\ blob' = 0
         \/ phase' = "failed" /\ blob' = blob /\ phase = "filled"
      /\ UNCHANGED <<file, version, writes, room, at, len>>
      /\ UNCHANGED <<hdr, ptr, seen, constant, relocrel, calls>>
  BY DEF SendFails, RelocateFails, ReadWritesFails, NoMemory, client
<1>2. TypeOK'
  BY <1>1 DEF IInv, TypeOK
<1>3. HeaderInv' /\ PlaceInv' /\ CallsInv' /\ JumpsInv'
  BY <1>1 DEF IInv, HeaderInv, PlaceInv, CallsInv, JumpsInv, Reading, Unread, Relocated
<1>4. LayoutInv' /\ SeenInv'
  BY <1>1 DEF IInv, LayoutInv, SeenInv, Reading, Unread, InPlace, ReadsFit
<1> QED
  BY <1>1, <1>2, <1>3, <1>4 DEF IInv

LEMMA AgainStep ==
    ASSUME IInv, Again
    PROVE  IInv'
<1>1. /\ phase = "dropped" /\ phase' = "loaded" /\ version' = 3
      /\ ptr' = 0 /\ seen' = Nowhere /\ constant' = 0 /\ relocrel' = 0 /\ calls' = <<>>
      /\ UNCHANGED <<file, writes, room, at, len, blob>>
  BY DEF Again
<1>2. /\ 0 \in -Half .. (Half - 1) /\ DOMAIN calls' = {}
      /\ seen' \in [Parts -> Nat] /\ \A p \in Parts : seen'[p] = 0
  <2>1. 0 \in -Half .. (Half - 1)
    BY MessageAssumption
  <2>2. DOMAIN calls' = {}
    BY <1>1
  <2>3. seen' \in [Parts -> Nat] /\ \A p \in Parts : seen'[p] = 0
    BY <1>1 DEF Nowhere
  <2> QED
    BY <2>1, <2>2, <2>3
<1>3. TypeOK'
  BY <1>1, <1>2 DEF IInv, TypeOK
<1>4. HeaderInv' /\ PlaceInv' /\ CallsInv' /\ JumpsInv'
  BY <1>1, <1>2 DEF IInv, HeaderInv, PlaceInv, CallsInv, JumpsInv, Reading, Unread, Relocated
<1>5. LayoutInv'
  BY <1>1 DEF IInv, LayoutInv, Reading
<1>6. SeenInv'
  BY <1>1, <1>2 DEF SeenInv, InPlace, ReadsFit, Unread, Parts
<1> QED
  BY <1>1, <1>3, <1>4, <1>5, <1>6 DEF IInv

\* A struct xenlp_apply3 is refused: its numdeps is read as numpreexctblents.
LEMMA ReceiveStep ==
    ASSUME IInv, Receive
    PROVE  IInv'
<1>1. /\ phase = "sent"
      /\ UNCHANGED <<file, version, writes, room, at, len>>
      /\ UNCHANGED <<seen, blob, constant, relocrel, calls>>
      /\ \/ /\ ~TooLong(MessageHdrLen + len) /\ Sane(Header(file, version))
            /\ hdr' = Header(file, version) /\ ptr' = Apply4Len /\ phase' = "received"
         \/ phase' = "refused" /\ UNCHANGED <<hdr, ptr>>
  BY DEF Receive, client
<1>2. version \in {3, 4} /\ file.numdeps \in Nat
  BY FileFacts DEF IInv, TypeOK
<1>3. CASE phase' = "refused"
  <2>1. UNCHANGED <<hdr, ptr>>
    BY <1>1, <1>3
  <2>2. TypeOK' /\ HeaderInv' /\ PlaceInv' /\ CallsInv' /\ JumpsInv'
    BY <1>1, <1>3, <2>1 DEF IInv, TypeOK, HeaderInv, PlaceInv, CallsInv, JumpsInv, Reading, Unread, Relocated
  <2>3. LayoutInv' /\ SeenInv'
    BY <1>1, <1>3, <2>1 DEF IInv, LayoutInv, SeenInv, Reading, Unread, InPlace, ReadsFit
  <2> QED
    BY <1>1, <2>2, <2>3 DEF IInv
<1>4. CASE phase' = "received"
  <2>1. /\ ~TooLong(MessageHdrLen + len) /\ Sane(Header(file, version))
        /\ hdr' = Header(file, version) /\ ptr' = Apply4Len
    BY <1>1, <1>4
  <2>2. version = 4
    <3>1. SUFFICES ASSUME version = 3 PROVE FALSE
      BY <1>2
    <3>2. file.numdeps > 0
      BY <3>1 DEF IInv, HeaderInv
    <3>3. Header(file, 3).numpreexctblents = file.numdeps
      BY DEF Header
    <3>4. Header(file, 3).numpreexctblents = 0
      BY <2>1, <3>1 DEF Sane
    <3> QED
      BY <1>2, <3>2, <3>3, <3>4
  <2>3. HeaderInv'
    BY <1>1, <1>4, <2>1, <2>2 DEF HeaderInv
  <2>4. TypeOK' /\ PlaceInv' /\ CallsInv' /\ JumpsInv'
    <3>1. 64 \in Nat
      OBVIOUS
    <3> QED
      BY <1>1, <1>4, <2>1, <3>1 DEF IInv, TypeOK, PlaceInv, CallsInv, JumpsInv, Unread, Relocated, Jump,
        Apply4Len
  <2>5. LayoutInv'
    BY <1>1, <1>4, <2>1 DEF IInv, LayoutInv, TooLong, Reading
  <2>6. SeenInv'
    BY <1>1, <1>4, <2>1 DEF IInv, SeenInv, Unread, InPlace, ReadsFit, Parts
  <2> QED
    BY <1>1, <2>3, <2>4, <2>5, <2>6 DEF IInv
<1> QED
  BY <1>1, <1>3, <1>4

LEMMA MapStep ==
    ASSUME IInv, MapBlob
    PROVE  IInv'
<1>1. /\ phase = "received" /\ phase' = "mapped"
      /\ UNCHANGED <<file, version, writes, room, at, len, hdr>>
  BY DEF MapBlob, client
<1>2. hdr.bloblen = file.bloblen /\ file.bloblen < MaxPatch
  BY <1>1, ShortBlob
<1>3. /\ version = 4 /\ ptr = Apply4Len /\ ptr \in Nat /\ file.bloblen \in Nat
      /\ seen \in [Parts -> Nat] /\ \A p \in Parts : seen[p] = 0
      /\ at["blob"] = Apply4Len
  BY <1>1, FileFacts DEF IInv, TypeOK, HeaderInv, SeenInv, LayoutInv, Reading
<1>4. \A i \in DOMAIN file.relocs : LinkedCall(i) \in Int
  BY FileFacts DEF IInv
<1>5. CASE file.bloblen > 0
  <2>1. /\ blob' \in Addrs /\ seen' = [seen EXCEPT !["blob"] = ptr]
        /\ ptr' = ptr + file.bloblen /\ constant' = Start - hdr.refabs
        /\ relocrel' = Int32(blob' - Start)
        /\ calls' = [i \in DOMAIN file.relocs |-> Int32(LinkedCall(i))]
    BY <1>2, <1>3, <1>5 DEF MapBlob, LinkedCall
  <2>2. hdr.refabs = file.refabs
    BY <1>1 DEF IInv, HeaderInv, Reading, Header
  <2>3. constant' \in Int /\ blob' - Start \in Int /\ ptr' \in Nat
    <3>1. PICK a \in Nat : a = file.refabs
      BY FileFacts DEF IInv
    <3>2. PICK b \in Nat : b = blob'
      BY <2>1, MessageAssumption
    <3>3. Start - a \in Int /\ b - Start \in Int
      BY MessageAssumption
    <3> QED
      BY <1>3, <2>1, <2>2, <3>1, <3>2, <3>3
  <2>4. relocrel' \in -Half .. (Half - 1)
    BY <2>1, <2>3, Int32Range
  <2>5. \A i \in DOMAIN calls' : calls'[i] = Int32(LinkedCall(i)) /\ calls'[i] \in -Half .. (Half - 1)
    BY <1>4, <2>1, Int32Range
  <2>6. seen' \in [Parts -> Nat] /\ seen'["blob"] = ptr /\ \A p \in Parts : p # "blob" => seen'[p] = 0
    BY <1>3, <2>1 DEF Parts
  <2>7. TypeOK'
    BY <1>1, <2>1, <2>3, <2>4, <2>5, <2>6 DEF IInv, TypeOK
  <2>8. CallsInv'
    BY <1>1, <2>1, <2>5 DEF CallsInv, Relocated, LinkedCall
  <2>9. PlaceInv'
    BY <1>1, <1>5, <2>1, <2>2 DEF PlaceInv, Unread
  <2>10. SeenInv'
    BY <1>1, <1>3, <2>1, <2>6 DEF SeenInv, Unread, InPlace, ReadsFit, Parts
  <2>11. HeaderInv' /\ LayoutInv' /\ JumpsInv'
    BY <1>1 DEF IInv, HeaderInv, LayoutInv, JumpsInv, Reading, Jump, TooLong
  <2> QED
    BY <1>1, <2>7, <2>8, <2>9, <2>10, <2>11 DEF IInv
<1>6. CASE ~(file.bloblen > 0)
  <2>1. file.bloblen = 0 /\ UNCHANGED <<blob, seen, ptr, constant, relocrel, calls>>
    BY <1>2, <1>3, <1>6 DEF MapBlob
  <2>2. TypeOK'
    BY <1>1, <2>1 DEF IInv, TypeOK
  <2>3. PlaceInv' /\ CallsInv'
    BY <1>1, <2>1 DEF IInv, PlaceInv, CallsInv, Unread, Relocated
  <2>4. SeenInv'
    <3>1. ptr' = Apply4Len + file.bloblen
      BY <1>3, <2>1 DEF Apply4Len
    <3> QED
      BY <1>1, <1>3, <2>1, <3>1 DEF SeenInv, Unread, InPlace, ReadsFit, Parts
  <2>5. HeaderInv' /\ LayoutInv' /\ JumpsInv'
    BY <1>1 DEF IInv, HeaderInv, LayoutInv, JumpsInv, Reading, Jump, TooLong
  <2> QED
    BY <1>1, <2>2, <2>3, <2>4, <2>5 DEF IInv
<1> QED
  BY <1>5, <1>6

\* The test of an offset is right for blobs of four bytes and more.
LEMMA OffsetsFit ==
    ASSUME NEW b \in Nat, b >= 4, NEW off \in Nat, off <= UInt32(b - Int32Len)
    PROVE  off + Int32Len <= b
<1>1. PICK x \in Int : x = b - 4 /\ x >= 0
  OBVIOUS
<1>2. Wrap \in Nat \ {0}
  BY MessageAssumption DEF Wrap
<1>3. PICK q \in Int, r \in 0 .. (Wrap - 1) : x = q * Wrap + r /\ x % Wrap = r
  BY <1>2, DivMod
<1>4. PICK p \in Int : p = q * Wrap
  BY <1>2
<1>5. CASE q >= 0
  <2>1. p >= 0
    BY <1>2, <1>4, <1>5
  <2>2. r <= x
    BY <1>3, <1>4, <2>1
  <2> QED
    BY <1>1, <1>3, <2>2 DEF UInt32, Int32Len
<1>6. CASE q <= -1
  <2>1. p <= -Wrap
    BY <1>2, <1>4, <1>6
  <2> QED
    BY <1>1, <1>2, <1>3, <1>4, <2>1
<1> QED
  BY <1>5, <1>6

LEMMA RelocateStep ==
    ASSUME IInv, Relocate
    PROVE  IInv'
<1>1. /\ phase = "mapped" /\ phase' = "relocated"
      /\ \A i \in DOMAIN file.relocs : file.relocs[i].off <= UInt32(hdr.bloblen - Int32Len)
      /\ calls' = [i \in DOMAIN calls |-> Int32(calls[i] - relocrel)]
      /\ seen' = [seen EXCEPT !["relocs"] = ptr]
      /\ ptr' = ptr + RelocLen * hdr.numrelocs
      /\ UNCHANGED <<file, version, writes, room, at, len, hdr, blob, constant, relocrel>>
  BY DEF Relocate, OffsetOK, client
<1>2. hdr = Header(file, 4) /\ version = 4
  BY <1>1 DEF IInv, HeaderInv, Reading
<1>3. hdr.bloblen = file.bloblen /\ hdr.numrelocs = Len(file.relocs)
  BY <1>2 DEF Header
<1>4. /\ DOMAIN calls \subseteq DOMAIN file.relocs
      /\ \A i \in DOMAIN calls : calls[i] = Int32(LinkedCall(i)) /\ calls[i] \in Int
      /\ relocrel \in Int /\ ptr \in Nat /\ seen \in [Parts -> Nat]
      /\ ptr = Apply4Len + file.bloblen /\ seen["writes"] = 0 /\ InPlace
      /\ at["relocs"] = Apply4Len + file.bloblen
  BY <1>1, <1>2, MessageAssumption DEF IInv, TypeOK, CallsInv, SeenInv, LayoutInv, Reading
<1>5. Len(file.relocs) \in Nat /\ file.bloblen \in Nat
  BY FileFacts DEF IInv
<1>6. \A i \in DOMAIN calls' :
         calls'[i] = Int32(Int32(LinkedCall(i)) - relocrel) /\ calls'[i] \in -Half .. (Half - 1)
  <2>1. SUFFICES ASSUME NEW i \in DOMAIN calls
                 PROVE  /\ Int32(calls[i] - relocrel) = Int32(Int32(LinkedCall(i)) - relocrel)
                        /\ Int32(calls[i] - relocrel) \in -Half .. (Half - 1)
    BY <1>1
  <2>2. calls[i] - relocrel \in Int
    BY <1>4, <2>1
  <2> QED
    BY <1>4, <2>1, <2>2, Int32Range
<1>7. \A i \in DOMAIN file.relocs : file.relocs[i].off + Int32Len <= file.bloblen
  <2>1. SUFFICES ASSUME NEW i \in DOMAIN file.relocs
                 PROVE  file.relocs[i].off + Int32Len <= file.bloblen
    OBVIOUS
  <2>2. file.bloblen >= 4 /\ file.relocs[i].off \in Nat
    BY <2>1, FileFacts DEF IInv, Linked, Int32Len
  <2> QED
    BY <1>1, <1>3, <1>5, <2>1, <2>2, OffsetsFit
<1>8. TypeOK'
  <2>1. ptr' \in Nat
    BY <1>1, <1>3, <1>4, <1>5 DEF RelocLen
  <2>2. seen' \in [Parts -> Nat] /\ DOMAIN calls' = DOMAIN calls
    BY <1>1, <1>4
  <2> QED
    BY <1>1, <1>4, <1>6, <2>1, <2>2 DEF IInv, TypeOK
<1>9. CallsInv'
  <2>1. DOMAIN calls' = DOMAIN calls
    BY <1>1
  <2> QED
    BY <1>1, <1>6, <1>7, <2>1 DEF IInv, CallsInv, Relocated, LinkedCall
<1>10. SeenInv'
  <2>1. seen'["relocs"] = ptr /\ \A p \in Parts : p # "relocs" => seen'[p] = seen[p]
    BY <1>1, <1>4 DEF Parts
  <2>2. InPlace'
    BY <1>1, <1>4, <2>1 DEF InPlace, Parts
  <2>3. seen'["deps"] = 0 /\ seen'["tags"] = 0
    BY <1>1, <2>1 DEF IInv, SeenInv, Parts
  <2> QED
    BY <1>1, <1>3, <1>4, <2>1, <2>2, <2>3 DEF SeenInv, Unread, Parts, ReadsFit
<1>11. HeaderInv' /\ LayoutInv' /\ PlaceInv' /\ JumpsInv'
  BY <1>1 DEF IInv, HeaderInv, LayoutInv, PlaceInv, JumpsInv, Reading, Unread, Relocated, Jump, TooLong
<1> QED
  BY <1>1, <1>8, <1>9, <1>10, <1>11 DEF IInv

LEMMA WritesStep ==
    ASSUME IInv, ReadWrites
    PROVE  IInv'
<1>1. /\ phase = "relocated" /\ phase' = "checked"
      /\ \A i \in DOMAIN writes : InText(writes[i].hvabs + constant)
      /\ writes' = [i \in DOMAIN writes |->
                       [hvabs |-> writes[i].hvabs + constant,
                        disp |-> Int32(writes[i].disp + relocrel)]]
      /\ seen' = [seen EXCEPT !["writes"] = ptr]
      /\ UNCHANGED <<file, version, room, at, len, hdr, ptr, blob, constant, relocrel, calls>>
  BY DEF ReadWrites
<1>2. version = 4
  BY <1>1 DEF IInv, HeaderInv, Reading
<1>3. /\ DOMAIN writes = DOMAIN file.funcs
      /\ \A i \in DOMAIN writes : writes[i].hvabs \in Int /\ writes[i].disp \in Int
      /\ relocrel \in Int /\ constant \in Int /\ seen \in [Parts -> Nat] /\ ptr \in Nat
      /\ InPlace /\ ptr = at["writes"]
  BY <1>1, <1>2, MessageAssumption DEF IInv, TypeOK, SeenInv, LayoutInv, Reading
<1>4. \A i \in DOMAIN file.funcs :
         /\ writes'[i].hvabs = file.funcs[i].oldabs + constant /\ writes'[i].hvabs \in Int
         /\ InText(writes'[i].hvabs)
         /\ writes'[i].disp = Int32(Int32(Jump(i)) + relocrel)
         /\ writes'[i].disp \in -Half .. (Half - 1)
  <2>1. SUFFICES ASSUME NEW i \in DOMAIN file.funcs
                 PROVE  /\ writes'[i].hvabs = file.funcs[i].oldabs + constant /\ writes'[i].hvabs \in Int
                        /\ InText(writes'[i].hvabs)
                        /\ writes'[i].disp = Int32(Int32(Jump(i)) + relocrel)
                        /\ writes'[i].disp \in -Half .. (Half - 1)
    OBVIOUS
  <2>2. writes'[i].hvabs = writes[i].hvabs + constant /\ writes'[i].disp = Int32(writes[i].disp + relocrel)
    BY <1>1, <1>3, <2>1
  <2>3. writes[i].hvabs = file.funcs[i].oldabs /\ writes[i].disp = Int32(Jump(i))
    BY <1>1, <2>1 DEF IInv, JumpsInv
  <2>4. InText(writes[i].hvabs + constant)
    BY <1>1, <1>3, <2>1
  <2>5. writes[i].hvabs + constant \in Int /\ writes[i].disp + relocrel \in Int
    BY <1>3, <2>1
  <2>6. Int32(writes[i].disp + relocrel) \in -Half .. (Half - 1)
    BY <2>5, Int32Range
  <2> QED
    BY <2>2, <2>3, <2>4, <2>5, <2>6
<1>5. TypeOK'
  <2>1. DOMAIN writes' = DOMAIN file.funcs /\ seen' \in [Parts -> Nat]
    BY <1>1, <1>3
  <2> QED
    BY <1>1, <1>4, <2>1 DEF IInv, TypeOK
<1>6. SeenInv'
  <2>1. seen'["writes"] = ptr /\ \A p \in Parts : p # "writes" => seen'[p] = seen[p]
    BY <1>1, <1>3 DEF Parts
  <2>2. InPlace'
    BY <1>1, <1>3, <2>1 DEF InPlace, Parts
  <2>3. seen'["deps"] = 0 /\ seen'["tags"] = 0
    BY <1>1, <2>1 DEF IInv, SeenInv, Parts
  <2> QED
    BY <1>1, <1>3, <2>2, <2>3 DEF SeenInv, Unread, ReadsFit
<1>7. JumpsInv'
  BY <1>1, <1>4 DEF JumpsInv, Jump, InText
<1>8. HeaderInv' /\ LayoutInv' /\ PlaceInv' /\ CallsInv'
  BY <1>1 DEF IInv, HeaderInv, LayoutInv, PlaceInv, CallsInv, Reading, Unread, Relocated, TooLong, LinkedCall
<1> QED
  BY <1>1, <1>5, <1>6, <1>7, <1>8 DEF IInv

LEMMA LastStep ==
    ASSUME IInv, Drop \/ Apply
    PROVE  IInv'
<1>1. /\ phase = "checked"
      /\ \/ /\ phase' = "dropped" /\ blob' = 0 /\ hdr.numdeps > 0
            /\ seen' = [seen EXCEPT !["deps"] = ptr]
         \/ /\ phase' = "applied" /\ blob' = blob
            /\ seen' = [seen EXCEPT !["tags"] = ptr] \/ seen' = seen
      /\ UNCHANGED <<file, version, writes, room, at, len, hdr, ptr, constant, relocrel, calls>>
  BY DEF Drop, Apply, client
<1>2. /\ seen' \in [Parts -> Nat]
      /\ \A p \in {"blob", "relocs", "writes"} : seen'[p] = seen[p]
  BY <1>1 DEF IInv, TypeOK, Parts
<1>3. TypeOK'
  BY <1>1, <1>2 DEF IInv, TypeOK
<1>4. HeaderInv'
  <2>1. hdr = Header(file, 4)
    BY <1>1 DEF IInv, HeaderInv, Reading
  <2>2. hdr.numdeps = file.numdeps
    BY <2>1 DEF Header
  <2> QED
    BY <1>1, <2>2 DEF IInv, HeaderInv, Reading
<1>5. SeenInv'
  <2>1. InPlace'
    BY <1>1, <1>2 DEF IInv, SeenInv, InPlace
  <2>2. /\ version = 4 /\ hdr = Header(file, 4) /\ ptr = at["writes"]
        /\ at["writes"] + HashLen * file.numdeps + TagLen(file) <= len
        /\ seen["deps"] = 0 /\ seen["tags"] = 0
    BY <1>1 DEF IInv, HeaderInv, SeenInv, LayoutInv, Reading
  <2>3. hdr.numdeps = file.numdeps /\ hdr.taglen = TagLen(file)
    BY <2>2 DEF Header
  <2>4. PICK a \in Nat, d \in Nat, g \in Nat, l \in Nat :
            /\ a = at["writes"] /\ d = file.numdeps /\ g = TagLen(file) /\ l = len
            /\ a + 24 * d + g <= l /\ g < MaxTags
    <3>1. at["writes"] \in Nat /\ len \in Nat
      BY DEF IInv, TypeOK, Parts
    <3>2. file.numdeps \in Nat /\ TagLen(file) \in Nat /\ TagLen(file) < MaxTags
      BY FileFacts, MessageAssumption DEF IInv, TagLen
    <3> QED
      BY <2>2, <3>1, <3>2 DEF HashLen
  <2>5. a + 24 * d <= l /\ a + g <= l
    BY <2>4
  <2>6. CASE phase' = "dropped"
    <3>1. seen'["deps"] = ptr /\ seen'["tags"] = 0
      BY <1>1, <2>2, <2>6 DEF IInv, TypeOK, Parts
    <3>2. ReadsFit'
      BY <1>1, <2>2, <2>3, <2>4, <2>5, <3>1 DEF ReadsFit, HashLen
    <3> QED
      BY <1>1, <2>1, <2>6, <3>1, <3>2 DEF SeenInv, Unread
  <2>7. CASE phase' = "applied"
    <3>1. seen'["deps"] = 0 /\ seen'["tags"] \in {0, ptr}
      BY <1>1, <2>2, <2>7 DEF IInv, TypeOK, Parts
    <3>2. ReadsFit'
      BY <1>1, <2>2, <2>3, <2>4, <2>5, <3>1 DEF ReadsFit
    <3> QED
      BY <1>1, <2>1, <2>7, <3>1, <3>2 DEF SeenInv, Unread
  <2> QED
    BY <1>1, <2>6, <2>7
<1>6. LayoutInv' /\ PlaceInv' /\ CallsInv' /\ JumpsInv'
  BY <1>1 DEF IInv, LayoutInv, PlaceInv, CallsInv, JumpsInv, Reading, Unread, Relocated, TooLong,
    LinkedCall, Jump, InText
<1> QED
  BY <1>1, <1>3, <1>4, <1>5, <1>6 DEF IInv

LEMMA Invariance == Spec => []IInv
<1>1. Init => IInv
  <2>1. SUFFICES ASSUME Init PROVE IInv
    OBVIOUS
  <2>2. /\ DOMAIN writes = {} /\ DOMAIN calls = {} /\ file \in Files /\ version = 4 /\ phase = "loaded"
        /\ room = 0 /\ len = 0 /\ ptr = 0 /\ blob = 0 /\ constant = 0 /\ relocrel = 0
        /\ at = Nowhere /\ seen = Nowhere
    BY <2>1 DEF Init
  <2>3. /\ Nowhere \in [Parts -> Nat] /\ \A p \in Parts : seen[p] = 0
        /\ 0 \in -Half .. (Half - 1) /\ file \in File
    BY <2>2, MessageAssumption DEF Nowhere
  <2>4. TypeOK
    BY <2>2, <2>3 DEF TypeOK
  <2>5. SeenInv
    BY <2>2, <2>3 DEF SeenInv, Unread, InPlace, ReadsFit, Parts
  <2>6. LayoutInv /\ HeaderInv /\ PlaceInv /\ CallsInv /\ JumpsInv
    BY <2>2 DEF LayoutInv, HeaderInv, PlaceInv, CallsInv, JumpsInv, Reading, Unread, Relocated
  <2> QED
    BY <2>2, <2>4, <2>5, <2>6 DEF IInv
<1>2. IInv /\ UNCHANGED vars => IInv'
  BY DEF vars, client, IInv, TypeOK, LayoutInv, HeaderInv, SeenInv, PlaceInv, CallsInv, JumpsInv, InPlace,
    ReadsFit, TooLong, LinkedCall, Jump, InText, Sane, Header, TagLen
<1>3. IInv /\ Next => IInv'
  BY WrittenStep, FillStep, SendStep, EndStep, AgainStep, ReceiveStep, MapStep, RelocateStep, WritesStep,
    LastStep DEF Next
<1> QED
  BY <1>1, <1>2, <1>3, PTL DEF Spec
-----------------------------------------------------------------------------
(* Theorems. *)

\* The state has its types: no displacement is ever wider than 32 bits.
THEOREM TypeCorrect == Spec => []TypeOK
<1>1. IInv => TypeOK
  BY DEF IInv
<1> QED
  BY <1>1, Invariance, PTL

\* Blob, relocations and writes are read where they are.
THEOREM ReadsInPlace == Spec => []InPlace
<1>1. IInv => InPlace
  BY DEF IInv, SeenInv
<1> QED
  BY <1>1, Invariance, PTL

\* A message fits its buffer, dependencies and tags are read within the message
\* and the tags end within their array.
THEOREM StaysWithin == Spec => []WithinBuffer
<1>1. IInv => WithinBuffer
  BY DEF IInv, LayoutInv, SeenInv, ReadsFit, WithinBuffer
<1> QED
  BY <1>1, Invariance, PTL

\* No blob is relocated that is not mapped, because messages are too short
\* for the one length that xenlp_apply4 and read_patch_data judge differently;
\* and relocations stay in the blob.
THEOREM RelocatesInBlob == Spec => []RelocsInBlob
<1>1. ASSUME IInv, phase \in {"mapped", "relocated", "checked", "applied"}
      PROVE  hdr.bloblen = file.bloblen
  <2>1. hdr = Header(file, 4)
    BY <1>1 DEF IInv, HeaderInv, Reading
  <2> QED
    BY <2>1 DEF Header
<1>2. ASSUME IInv, phase \in {"mapped", "relocated", "checked", "applied"}, hdr.bloblen > 0
      PROVE  blob # 0
  <2>1. blob \in Addrs
    BY <1>1, <1>2 DEF IInv, PlaceInv, Relocated
  <2> QED
    BY <2>1, MessageAssumption
<1>3. ASSUME IInv, phase = "relocated", NEW i \in DOMAIN file.relocs
      PROVE  file.relocs[i].off + Int32Len <= hdr.bloblen
  BY <1>1, <1>3 DEF IInv, CallsInv, Relocated
<1>4. IInv => RelocsInBlob
  BY <1>2, <1>3 DEF RelocsInBlob
<1> QED
  BY <1>4, Invariance, PTL

\* A message of _cmd_apply3 never gets past the first checks.
THEOREM RefusesMisread == Spec => []MisreadRefused
<1>1. IInv => MisreadRefused
  BY DEF IInv, TypeOK, HeaderInv, Reading, MisreadRefused
<1> QED
  BY <1>1, Invariance, PTL

\* Every replaced function jumps to its replacement, when the blob is near.
THEOREM JumpsLand == Spec => []TrampolinesLand
<1>1. ASSUME IInv, phase = "applied", file.bloblen > 0, Near, NEW i \in DOMAIN file.funcs
      PROVE  /\ writes[i].hvabs - Start = file.funcs[i].oldabs - file.refabs
             /\ writes[i].hvabs + JumpLen + writes[i].disp = blob + file.funcs[i].newrel
  <2>1. PICK b \in Nat, r \in Nat, s \in Nat, e \in Nat : b = blob /\ r = file.refabs /\ s = Start /\ e = End
    BY <1>1, FileFacts, MessageAssumption DEF IInv, PlaceInv, Relocated
  <2>2. PICK o \in Nat, n \in Nat : o = file.funcs[i].oldabs /\ n = file.funcs[i].newrel
    BY <1>1, FileFacts DEF IInv
  <2>3. n < file.bloblen /\ file.bloblen <= MaxPatch
    <3>1. hdr = Header(file, 4) /\ Sane(hdr)
      BY <1>1 DEF IInv, HeaderInv, Reading
    <3>2. file.bloblen <= MaxPatch
      BY <3>1 DEF Sane, Header
    <3>3. n < file.bloblen
      BY <1>1, <2>2, FileFacts DEF IInv, Linked
    <3> QED
      BY <3>2, <3>3
  <2>4. /\ constant = s - r /\ relocrel = Int32(b - s) /\ blob \in Addrs
    BY <1>1, <2>1 DEF IInv, PlaceInv, Relocated
  <2>5. PICK h \in Int : h = o + (s - r)
    BY <2>1, <2>2
  <2>6. /\ writes[i].hvabs = h /\ s <= h /\ h < e
        /\ writes[i].disp = Int32(Int32(Jump(i)) + Int32(b - s))
    BY <1>1, <2>1, <2>2, <2>4, <2>5 DEF IInv, JumpsInv, InText
  <2>7. PICK j \in Int, d \in Int : j = Jump(i) /\ d = b - s /\ j = r + n - o - 5
    BY <2>1, <2>2 DEF Jump, JumpLen
  <2>8. writes[i].disp = Int32(j + d)
    BY <2>6, <2>7, Int32Both
  <2>9. j + d = b + n - 5 - h
    BY <2>5, <2>7
  <2>10. -Half <= j + d /\ j + d < Half
    <3>1. PICK m \in Nat, k \in Nat : m = MaxPatch /\ k = Half
      BY MessageAssumption
    <3>2. e + 5 - b <= k /\ b + m - s <= k
      BY <1>1, <2>1, <3>1 DEF Near, JumpLen
    <3>3. n < m
      <4>1. PICK c \in Nat : c = file.bloblen
        BY <1>1, FileFacts DEF IInv
      <4> QED
        BY <2>3, <3>1, <4>1
    <3>4. -k <= b + n - 5 - h /\ b + n - 5 - h < k
      BY <2>6, <3>2, <3>3
    <3> QED
      BY <2>9, <3>1, <3>4
  <2>11. writes[i].disp = b + n - 5 - h
    BY <2>7, <2>8, <2>9, <2>10, Int32Fits
  <2>12. h - s = o - r /\ h + 5 + (b + n - 5 - h) = b + n
    BY <2>5
  <2> QED
    BY <2>1, <2>2, <2>6, <2>11, <2>12 DEF JumpLen
<1>2. IInv => TrampolinesLand
  BY <1>1 DEF TrampolinesLand, Patched
<1> QED
  BY <1>2, Invariance, PTL

\* Every call of a near blob into the text gets to its target.
THEOREM CallsGetThere == Spec => []CallsLand
<1>1. ASSUME IInv, phase = "applied", Near, NEW i \in DOMAIN file.relocs
      PROVE  blob + file.relocs[i].off + Int32Len + calls[i] - Start = file.relocs[i].target - file.refabs
  <2>1. file.bloblen \in Nat /\ file.bloblen > 0
    BY <1>1, FileFacts DEF IInv, Linked, Int32Len
  <2>2. PICK b \in Nat, r \in Nat, s \in Nat, e \in Nat : b = blob /\ r = file.refabs /\ s = Start /\ e = End
    BY <1>1, <2>1, FileFacts, MessageAssumption DEF IInv, PlaceInv, Relocated
  <2>3. PICK o \in Nat, t \in Nat : o = file.relocs[i].off /\ t = file.relocs[i].target
    BY <1>1, FileFacts DEF IInv
  <2>4. relocrel = Int32(b - s) /\ blob \in Addrs /\ i \in DOMAIN calls
    BY <1>1, <2>1, <2>2 DEF IInv, PlaceInv, CallsInv, Relocated
  <2>5. calls[i] = Int32(Int32(LinkedCall(i)) - Int32(b - s))
    BY <1>1, <2>4 DEF IInv, CallsInv, Relocated
  <2>6. PICK j \in Int, d \in Int : j = LinkedCall(i) /\ d = b - s /\ j = t - (r + o + 4)
    BY <2>2, <2>3 DEF LinkedCall, Int32Len
  <2>7. calls[i] = Int32(j - d)
    BY <2>5, <2>6, Int32Difference
  <2>8. r <= t /\ t <= r + (e - s)
    BY <1>1, <2>2, <2>3, FileFacts DEF IInv, Linked
  <2>9. -Half <= j - d /\ j - d < Half
    <3>1. PICK m \in Nat, k \in Nat : m = MaxPatch /\ k = Half
      BY MessageAssumption
    <3>2. e + 5 - b <= k /\ b + m - s <= k
      BY <1>1, <2>2, <3>1 DEF Near, JumpLen
    <3>3. o + 4 <= m
      <4>1. hdr = Header(file, 4) /\ Sane(hdr)
        BY <1>1 DEF IInv, HeaderInv, Reading
      <4>2. file.bloblen <= m
        BY <3>1, <4>1 DEF Sane, Header
      <4>3. o + 4 <= file.bloblen
        BY <1>1, <2>3 DEF IInv, CallsInv, Relocated, Int32Len
      <4> QED
        BY <2>1, <4>2, <4>3
    <3>4. -k <= j - d /\ j - d < k
      BY <2>6, <2>8, <3>2, <3>3
    <3> QED
      BY <3>1, <3>4
  <2>10. j - d \in Int
    BY <2>6
  <2>11. calls[i] = j - d
    BY <2>7, <2>9, <2>10, Int32Fits
  <2>12. b + o + 4 + (j - d) - s = t - r
    BY <2>6
  <2> QED
    BY <2>2, <2>3, <2>11, <2>12 DEF Int32Len
<1>2. IInv => CallsLand
  BY <1>1 DEF CallsLand
<1> QED
  BY <1>2, Invariance, PTL
=============================================================================
