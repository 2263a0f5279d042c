------------------------------- MODULE Raxlpxs -------------------------------
(***************************************************************************)
(* The commands of raxlpxs: main, cmd_apply with _cmd_apply4 and           *)
(* _cmd_apply3, cmd_undo, _cmd_list3 and the searches of raxlpxs.c and     *)
(* portability.c, several processes at a time against one sandbox.         *)
(*                                                                         *)
(* A command looks first and acts later: it asks for the applied patches,  *)
(* decides, and sends another message.  What keeps two commands apart is   *)
(* that the listener serves one connection until its end; Listener shows   *)
(* that and how a message travels.  Here a request and its reply are one   *)
(* step, and the listener is the queue of its connections, the count of    *)
(* messages of the one at the head, and whether it is alive.               *)
(*                                                                         *)
(* main runs what its options ask for in a fixed order, on one connection: *)
(* info, list, find, apply, remove.  The replies of a listing hold at most *)
(* MAX_LIST_PATCHES patches; the array they are copied to is shorter.      *)
(* Listings that fail in the listener for lack of memory are in Listener.  *)
(* Replies that fail in the client for that reason are LookFails.          *)
(***************************************************************************)
EXTENDS Integers, Sequences

CONSTANTS
    Commands,   \* processes of raxlpxs
    Patches,    \* patch files, named by their sha1
    NoPatch,    \* also a hash that is not one, see BeginUndo
    Desc,       \* what a patch file holds, see ConstantsAssumption
    CommandLines,   \* the command lines of the instance
    Before,     \* what earlier commands may have applied, newest first
    MaxList,    \* MAX_LIST_PATCHES, 255 in the code
    MaxList3,   \* MAX_LIST_PATCHES3, 16 in the code
    Limit       \* SANDBOX_MSG_SESSION_LIMIT, 100 in the code

AnyHash == Patches \cup {NoPatch}

\* An option as getopt_long_only gives it, a long name or a letter, with its
\* argument.  What getopt takes for -r is --remove; the letter u is in its
\* list, but not in the switch.
Names == {"info", "i", "list", "l", "find", "f", "apply", "a", "remove", "socket", "s",
          "debug", "d", "help", "h", "u"}
Option == [name : Names, value : AnyHash]

\* sought and doomed are the arguments of --find and --remove; the program
\* keeps the one that comes last for both, hash.
AllOptions ==
    [runs : BOOLEAN, info : BOOLEAN, list : BOOLEAN, find : BOOLEAN, apply : AnyHash,
     undo : BOOLEAN, hash : AnyHash, sought : AnyHash, doomed : AnyHash]

Given(line, names) == \E i \in 1 .. Len(line) : line[i].name \in names

\* The argument of the last of these options.
Argument(line, names) ==
    IF Given(line, names)
    THEN LET last == CHOOSE i \in 1 .. Len(line) :
                         /\ line[i].name \in names
                         /\ \A j \in 1 .. Len(line) : line[j].name \in names => j <= i
         IN  line[last].value
    ELSE NoPatch

(* Slips such code invites, one for each property below: the mutants of the *)
(* runs put them in place of the definition they are named after.           *)

\* The case of --apply goes on into that of --remove.
ReadOptionsFallThrough(line) ==
    [runs |-> Given(line, {"socket"}) /\ ~Given(line, {"help", "h"}),
     info |-> Given(line, {"info", "i", "u"}),
     list |-> Given(line, {"list", "l"}),
     find |-> Given(line, {"find", "f"}),
     apply |-> Argument(line, {"apply", "a"}),
     undo |-> Given(line, {"remove"}),
     hash |-> Argument(line, {"find", "f", "apply", "a", "remove"}),
     sought |-> Argument(line, {"find", "f"}),
     doomed |-> Argument(line, {"remove"})]

\* get_options.  The program runs on with a socket: --socket sets sock_flag,
\* -s does not.  Any letter that the switch does not know counts as --info.
ReadOptions(line) ==
    [runs |-> Given(line, {"socket"}) /\ ~Given(line, {"help", "h"}),
     info |-> Given(line, {"info", "i", "u"}),
     list |-> Given(line, {"list", "l"}),
     find |-> Given(line, {"find", "f"}),
     apply |-> Argument(line, {"apply", "a"}),
     undo |-> Given(line, {"remove"}),
     hash |-> Argument(line, {"find", "f", "remove"}),
     sought |-> Argument(line, {"find", "f"}),
     doomed |-> Argument(line, {"remove"})]

\* loads: load_patch_file succeeds; fits: it is made for this QEMU and has no
\* crowbar, checks or tables; deps: its dependencies; badrel: a second-level
\* relocation names a dependency it does not have; refused: xenlp_apply4
\* turns it down.
ASSUME ConstantsAssumption ==
    /\ NoPatch \notin Patches
    /\ Desc \in [Patches -> [loads : BOOLEAN, fits : BOOLEAN, deps : Seq(Patches),
                             badrel : BOOLEAN, refused : BOOLEAN]]
    /\ CommandLines \subseteq Seq(Option)
    /\ Before \subseteq Seq(Patches)
    /\ \A b \in Before : \A i, j \in 1 .. Len(b) : b[i] = b[j] => i = j
    /\ MaxList \in Nat \ {0}
    /\ MaxList3 \in 1 .. MaxList
    /\ Limit \in Nat \ {0}

VARIABLES
    applied,    \* lp_patch_head, newest first
    alive,      \* the listener thread has not returned
    queue,      \* connections, the one that is served at the head
    count,      \* messages of the one that is served
    opts,       \* command -> its options
    at,         \* command -> what it does next
    goal,       \* command -> what it searches for: to apply (version 4, 3) or to undo
    dep,        \* command -> the dependency it searches for
    info,       \* command -> it has the info strings
    printed,    \* command -> the patches its listing has printed
    said        \* command -> for each option, the outcome it has come to

server == <<applied, alive, queue, count>>
client == <<opts, at, goal, dep, info, printed, said>>
vars == <<server, client>>

Says == {"info", "list", "find", "apply", "undo"}

Init ==
    /\ applied \in Before
    /\ alive = TRUE
    /\ queue = <<>>
    /\ count = 0
    /\ opts \in [Commands -> {ReadOptions(line) : line \in CommandLines}]
    /\ at = [c \in Commands |-> "new"]
    /\ goal = [c \in Commands |-> "none"]
    /\ dep = [c \in Commands |-> 1]
    /\ info = [c \in Commands |-> FALSE]
    /\ printed = [c \in Commands |-> <<>>]
    /\ said = [c \in Commands |-> [stage \in Says |-> "none"]]
-----------------------------------------------------------------------------
(* What the steps are made of. *)

\* What main does after the given stage.
After(o, stage) ==
    IF stage = "new" /\ o.info THEN "info"
    ELSE IF stage \in {"new", "info"} /\ o.list THEN "list"
    ELSE IF stage \in {"new", "info", "list"} /\ o.find THEN "find"
    ELSE IF stage \in {"new", "info", "list", "find"} /\ o.apply # NoPatch THEN "apply"
    ELSE IF stage # "undo" /\ o.undo THEN "undo"
    ELSE "done"

Move(c, place) == at' = [at EXCEPT ![c] = place]

Say(c, what, outcome) == said' = [said EXCEPT ![c] = [said[c] EXCEPT ![what] = outcome]]

\* c says an outcome and main goes on.
Finish(c, stage, outcome) == Say(c, stage, outcome) /\ Move(c, After(opts[c], stage))

\* Slip: connections served in turns, a message each.
AskInTurns(c) ==
    /\ alive
    /\ queue # <<>>
    /\ Head(queue) = c
    /\ count' = 0
    /\ queue' = Append(Tail(queue), c)

\* The limit of a session is not looked at.
AskUnlimited(c) ==
    /\ alive
    /\ queue # <<>>
    /\ Head(queue) = c
    /\ count' = count + 1
    /\ UNCHANGED queue

\* One request and its reply.  After the last message of a session the
\* listener leaves the connection as it is and takes the next.
Ask(c) ==
    /\ alive
    /\ queue # <<>>
    /\ Head(queue) = c
    /\ IF count + 1 < Limit
       THEN count' = count + 1 /\ UNCHANGED queue
       ELSE count' = 0 /\ queue' = Tail(queue)

Holds(list, p) == \E i \in 1 .. Len(list) : list[i] = p

\* What __find_patch takes from the reply to a listing: the newest patches.
Listed == IF Len(applied) <= MaxList THEN applied ELSE SubSeq(applied, 1, MaxList)

\* A reply was left unread in the socket: every later one is read from the
\* middle of an earlier, where no header begins.
Astray(c) == \E stage \in Says : said[c][stage] = "unread"

\* What c is at when it asks.
Stage(c) ==
    CASE at[c] \in {"info", "version"} -> "info"
      [] at[c] \in {"list", "find"} -> at[c]
      [] at[c] = "search" /\ goal[c] = "undo" -> "undo"
      [] OTHER -> "apply"

\* A listing or the info strings cannot be read, and main goes on with what
\* comes next: after a patch has been applied as well.  Without the strings
\* cmd_apply asks once for the version and once for the date.
LookFails(c) ==
    /\ at[c] \in {"info", "list", "find", "version", "date", "search", "deps"}
    /\ at[c] = "deps" => dep[c] <= Len(Desc[opts[c].apply].deps)
    /\ Ask(c)
    /\ Say(c, Stage(c), "unread")
    /\ Move(c, IF at[c] = "version" THEN "date" ELSE After(opts[c], Stage(c)))
    /\ UNCHANGED <<applied, alive, opts, goal, dep, info, printed>>

\* No memory for what the reply holds, which stays in the socket.
NoRoom(c) == ~Astray(c) /\ LookFails(c)

\* A bad header (check_magic) is all it finds from then on.
Misread(c) == Astray(c) /\ LookFails(c)
-----------------------------------------------------------------------------
(* The connection. *)

\* usage, or main without a socket to connect to.
Refuse(c) ==
    /\ at[c] = "new"
    /\ ~opts[c].runs
    /\ Move(c, "closed")
    /\ UNCHANGED <<server, opts, goal, dep, info, printed, said>>

\* connect_to_sandbox.
Start(c) ==
    /\ at[c] = "new"
    /\ opts[c].runs
    /\ queue' = Append(queue, c)
    /\ Move(c, After(opts[c], "new"))
    /\ UNCHANGED <<applied, alive, count, opts, goal, dep, info, printed, said>>

\* The end of main.
Close(c) ==
    /\ at[c] = "done"
    /\ Move(c, "closed")
    /\ UNCHANGED <<server, opts, goal, dep, info, printed, said>>

\* The process is killed: as it is served or, with its first message in the
\* socket, as it waits.
Kill(c) ==
    /\ at[c] \notin {"new", "closed", "killed"}
    /\ Move(c, "killed")
    /\ UNCHANGED <<server, opts, goal, dep, info, printed, said>>

\* The listener reads the end of file and accepts the next connection.
EndOfFile ==
    /\ alive
    /\ queue # <<>>
    /\ at[Head(queue)] \in {"closed", "killed"}
    /\ ~Astray(Head(queue))
    /\ queue' = Tail(queue)
    /\ count' = 0
    /\ UNCHANGED <<applied, alive, client>>

\* What it reads is half a message, nobody is there for its reply, or the
\* connection is reset because of what was left unread: the end of the listener
\* (ReadReset, ReadShort and Negative of Listener).
CutShort ==
    /\ alive
    /\ queue # <<>>
    /\ \/ at[Head(queue)] = "killed"
       \/ at[Head(queue)] = "closed" /\ Astray(Head(queue))
    /\ alive' = FALSE
    /\ UNCHANGED <<applied, queue, count, client>>
-----------------------------------------------------------------------------
(* --info, --list and --find. *)

GetInfo(c) ==
    /\ at[c] = "info"
    /\ ~Astray(c)
    /\ Ask(c)
    /\ info' = [info EXCEPT ![c] = TRUE]
    /\ Move(c, After(opts[c], "info"))
    /\ UNCHANGED <<applied, alive, opts, goal, dep, printed, said>>

\* A full listing is asked for once more, as if the server would skip.
ListPageTwice(c) ==
    /\ at[c] = "list"
    /\ ~Astray(c)
    /\ Ask(c)
    /\ printed' = [printed EXCEPT ![c] = printed[c] \o Listed]
    /\ IF Len(Listed) < MaxList3 \/ printed[c] # <<>>
       THEN Finish(c, "list", "ok") ELSE UNCHANGED <<at, said>>
    /\ UNCHANGED <<applied, alive, opts, goal, dep, info>>

\* Listings are asked for until one is empty.
ListPageUntilEmpty(c) ==
    /\ at[c] = "list"
    /\ ~Astray(c)
    /\ Ask(c)
    /\ printed' = [printed EXCEPT ![c] = printed[c] \o Listed]
    /\ IF Listed = <<>> THEN Finish(c, "list", "ok") ELSE UNCHANGED <<at, said>>
    /\ UNCHANGED <<applied, alive, opts, goal, dep, info>>

\* Only the newest patch is compared.
FindNewest(c) ==
    /\ at[c] = "find"
    /\ ~Astray(c)
    /\ Ask(c)
    /\ Finish(c, "find", IF Listed # <<>> /\ Head(Listed) = opts[c].hash THEN "found" ELSE "not found")
    /\ UNCHANGED <<applied, alive, opts, goal, dep, info, printed>>

\* _cmd_list3 prints a listing and asks again while the last one was full.
\* The reply always starts with the newest patch: skippatches is not sent.
ListPage(c) ==
    /\ at[c] = "list"
    /\ ~Astray(c)
    /\ Ask(c)
    /\ printed' = [printed EXCEPT ![c] = printed[c] \o Listed]
    /\ IF Len(Listed) < MaxList3 THEN Finish(c, "list", "ok") ELSE UNCHANGED <<at, said>>
    /\ UNCHANGED <<applied, alive, opts, goal, dep, info>>

Find(c) ==
    /\ at[c] = "find"
    /\ ~Astray(c)
    /\ Ask(c)
    /\ Finish(c, "find", IF Holds(Listed, opts[c].hash) THEN "found" ELSE "not found")
    /\ UNCHANGED <<applied, alive, opts, goal, dep, info, printed>>

\* A listing longer than the array on the stack it is copied to: undefined,
\* the process may come to its end here (or go on, as in the other steps).
Overrun(c) ==
    /\ at[c] \in {"list", "search", "deps"}
    /\ ~Astray(c)
    /\ Ask(c)
    /\ Len(Listed) > MaxList3
    /\ Move(c, "closed")
    /\ UNCHANGED <<applied, alive, opts, goal, dep, info, printed, said>>
-----------------------------------------------------------------------------
(* --apply. *)

Target(c) == IF goal[c] = "undo" THEN opts[c].hash ELSE opts[c].apply

\* The check of the version, and the sanity checks: to the search, or the end.
Checked(c) ==
    IF Desc[opts[c].apply].fits
    THEN goal' = [goal EXCEPT ![c] = "apply4"] /\ Move(c, "search") /\ UNCHANGED said
    ELSE Finish(c, "apply", "error") /\ UNCHANGED goal

\* load_patch_file; the info strings of an earlier --info are used again.
Load(c) ==
    /\ at[c] = "apply"
    /\ CASE ~Desc[opts[c].apply].loads -> Finish(c, "apply", "error") /\ UNCHANGED goal
         [] Desc[opts[c].apply].loads /\ info[c] -> Checked(c)
         [] OTHER -> Move(c, "version") /\ UNCHANGED <<goal, said>>
    /\ UNCHANGED <<server, opts, dep, info, printed>>

GetVersion(c) ==
    /\ at[c] = "version"
    /\ ~Astray(c)
    /\ Ask(c)
    /\ info' = [info EXCEPT ![c] = TRUE]
    /\ Checked(c)
    /\ UNCHANGED <<applied, alive, opts, dep, printed>>

\* What the search has found is not looked at.
SearchUnread(c) ==
    /\ at[c] = "search"
    /\ ~Astray(c)
    /\ Ask(c)
    /\ IF goal[c] = "apply3"
       THEN Finish(c, "apply", "ok") /\ UNCHANGED dep
       ELSE Move(c, IF goal[c] = "undo" THEN "send" ELSE "deps")
            /\ dep' = [dep EXCEPT ![c] = 1] /\ UNCHANGED said
    /\ UNCHANGED <<applied, alive, opts, goal, info, printed>>

\* find_patch3, for the patch itself.  "Patch already applied, skipping" is a
\* success: _cmd_apply4 is followed by _cmd_apply3, and that by the message.
\* A listing of MaxList patches without it is asked for once more.
Search(c) ==
    /\ at[c] = "search"
    /\ ~Astray(c)
    /\ Ask(c)
    /\ CASE Holds(Listed, Target(c)) /\ goal[c] = "apply4" ->
              goal' = [goal EXCEPT ![c] = "apply3"] /\ UNCHANGED <<at, dep, said>>
         [] Holds(Listed, Target(c)) /\ goal[c] = "apply3" ->
              Finish(c, "apply", "ok") /\ UNCHANGED <<goal, dep>>
         [] Holds(Listed, Target(c)) /\ goal[c] = "undo" ->
              Move(c, "send") /\ UNCHANGED <<goal, dep, said>>
         [] ~Holds(Listed, Target(c)) /\ Len(Listed) = MaxList ->
              UNCHANGED <<at, goal, dep, said>>
         [] ~Holds(Listed, Target(c)) /\ Len(Listed) < MaxList /\ goal[c] = "undo" ->
              Finish(c, "undo", "error") /\ UNCHANGED <<goal, dep>>
         [] OTHER ->
              dep' = [dep EXCEPT ![c] = 1] /\ Move(c, "deps") /\ UNCHANGED <<goal, said>>
    /\ UNCHANGED <<applied, alive, opts, info, printed>>

\* find_patch3, for a dependency.
SearchDep(c) ==
    /\ at[c] = "deps"
    /\ dep[c] <= Len(Desc[opts[c].apply].deps)
    /\ ~Astray(c)
    /\ Ask(c)
    /\ LET p == Desc[opts[c].apply].deps[dep[c]] IN
       CASE Holds(Listed, p) -> dep' = [dep EXCEPT ![c] = dep[c] + 1] /\ UNCHANGED <<at, said>>
         [] ~Holds(Listed, p) /\ Len(Listed) = MaxList -> UNCHANGED <<dep, at, said>>
         [] OTHER -> Finish(c, "apply", "error") /\ UNCHANGED dep
    /\ UNCHANGED <<applied, alive, opts, goal, info, printed>>

\* Every dependency is found: the relocations to them are made, in the blob
\* that was loaded once, and the message is filled in.
Relocate(c) ==
    /\ at[c] = "deps"
    /\ dep[c] > Len(Desc[opts[c].apply].deps)
    /\ IF Desc[opts[c].apply].badrel
       THEN Finish(c, "apply", "error")
       ELSE Move(c, "send") /\ UNCHANGED said
    /\ UNCHANGED <<server, opts, goal, dep, info, printed>>

\* SANDBOX_OK is taken for success.
SendApplyBelieved(c) ==
    /\ at[c] = "send"
    /\ goal[c] = "apply4"
    /\ ~Desc[opts[c].apply].refused
    /\ Ask(c)
    /\ applied' = IF Desc[opts[c].apply].deps = <<>> THEN <<opts[c].apply>> \o applied
                  ELSE applied
    /\ Finish(c, "apply", "ok")
    /\ UNCHANGED <<alive, opts, goal, dep, info, printed>>

\* do_lp_apply4.  A patch with dependencies is dropped with SANDBOX_OK.
SendApply(c) ==
    /\ at[c] = "send"
    /\ goal[c] = "apply4"
    /\ ~Desc[opts[c].apply].refused
    /\ Ask(c)
    /\ applied' = IF Desc[opts[c].apply].deps = <<>> THEN <<opts[c].apply>> \o applied
                  ELSE applied
    /\ goal' = [goal EXCEPT ![c] = "apply3"]
    /\ Move(c, "search")
    /\ UNCHANGED <<alive, opts, dep, info, printed, said>>

\* The patch is refused, or there is no memory for it; the listener ends.
RefuseApply(c) ==
    /\ at[c] = "send"
    /\ goal[c] = "apply4"
    /\ Ask(c)
    /\ alive' = FALSE
    /\ Finish(c, "apply", "error")
    /\ UNCHANGED <<applied, opts, goal, dep, info, printed>>

\* do_lp_apply3 sends a struct xenlp_apply3 under the same message id, and the
\* listener reads a struct xenlp_apply4: numdeps lies where it looks for
\* numpreexctblents, the low half of refabs where it looks for numwrites.
SendApply3(c) ==
    /\ at[c] = "send"
    /\ goal[c] = "apply3"
    /\ Ask(c)
    /\ alive' = FALSE
    /\ Finish(c, "apply", "error")
    /\ UNCHANGED <<applied, opts, goal, dep, info, printed>>
-----------------------------------------------------------------------------
(* --remove. *)

\* string2sha1 turns down what is not a hash.
BeginUndo(c) ==
    /\ at[c] = "undo"
    /\ IF opts[c].hash = NoPatch
       THEN Finish(c, "undo", "error") /\ UNCHANGED goal
       ELSE goal' = [goal EXCEPT ![c] = "undo"] /\ Move(c, "search") /\ UNCHANGED said
    /\ UNCHANGED <<server, opts, dep, info, printed>>

\* The list without the newest instance of p.
Without(p) ==
    LET i == CHOOSE j \in 1 .. Len(applied) :
                 applied[j] = p /\ \A k \in 1 .. (j - 1) : applied[k] # p
    IN  [k \in 1 .. (Len(applied) - 1) |-> IF k < i THEN applied[k] ELSE applied[k + 1]]

SendUndo(c) ==
    /\ at[c] = "send"
    /\ goal[c] = "undo"
    /\ Ask(c)
    /\ IF Holds(applied, opts[c].hash)
       THEN applied' = Without(opts[c].hash) /\ Finish(c, "undo", "ok")
       ELSE Finish(c, "undo", "error") /\ UNCHANGED applied
    /\ UNCHANGED <<alive, opts, goal, dep, info, printed>>
-----------------------------------------------------------------------------
Run(c) ==
    \/ Refuse(c) \/ Start(c)
    \/ GetInfo(c) \/ ListPage(c) \/ Find(c)
    \/ Load(c) \/ GetVersion(c)
    \/ Search(c) \/ SearchDep(c) \/ Relocate(c)
    \/ SendApply(c) \/ SendApply3(c)
    \/ BeginUndo(c) \/ SendUndo(c)
    \/ Misread(c) \/ Close(c)

Fault(c) == Kill(c) \/ Overrun(c) \/ RefuseApply(c) \/ NoRoom(c)

Next == EndOfFile \/ CutShort \/ \E c \in Commands : Run(c) \/ Fault(c)

Spec == Init /\ [][Next]_vars

\* A command that is not killed goes on when it has its reply, and the
\* listener serves.
Fairness ==
    /\ WF_vars(EndOfFile \/ CutShort)
    /\ \A c \in Commands : WF_vars(Run(c) \/ RefuseApply(c))

FairSpec == Spec /\ Fairness
-----------------------------------------------------------------------------
\* Types of the state.
TypeOK ==
    /\ applied \in Seq(Patches)
    /\ alive \in BOOLEAN
    /\ queue \in Seq(Commands)
    /\ count \in 0 .. (Limit - 1)
    /\ opts \in [Commands -> AllOptions]
    /\ at \in [Commands -> {"new", "info", "list", "find", "apply", "version", "date", "search",
                            "deps", "send", "undo", "done", "closed", "killed"}]
    /\ goal \in [Commands -> {"none", "apply4", "apply3", "undo"}]
    /\ dep \in [Commands -> Nat \ {0}]
    /\ info \in [Commands -> BOOLEAN]
    /\ printed \in [Commands -> Seq(Patches)]
    /\ said \in [Commands -> [Says -> {"none", "ok", "error", "found", "not found", "unread"}]]

\* However many commands apply the same patch at the same time, it is applied
\* once: raxlpxs.c:339 "Do a list first and make sure patch isn't already
\* applied yet", and nothing but that search keeps cmd_apply, which sends
\* two applies, and other commands from applying it again.
AppliedOnce ==
    \A i, j \in 1 .. Len(applied) : applied[i] = applied[j] => i = j

\* What a command has found out still holds when it acts on it: a patch it is
\* about to apply is not applied, one it is about to undo is.
SearchStillTrue ==
    \A c \in Commands :
        alive /\ queue # <<>> /\ Head(queue) = c /\ at[c] \in {"deps", "send"} =>
            (goal[c] = "undo" <=> Holds(applied, Target(c)))

\* c comes to an outcome other than that it could not read a reply.
Tells(c, stage) == said'[c][stage] \notin {said[c][stage], "unread"}

\* "Successfully applied" is printed when the patch is in and an error when
\* it is not, after both applies, two searches and the replies to each;
\* likewise for an undo, after which the patch is out in any case.  "Could not
\* search for patches" is neither: it is printed after the patch went in, too.
OutcomeTrue ==
    [][\A c \in Commands :
          /\ /\ Tells(c, "apply")
             /\ Desc[opts[c].apply].loads
             /\ Desc[opts[c].apply].fits
             /\ ~Desc[opts[c].apply].badrel
             => (said'[c]["apply"] = "ok" <=> Holds(applied', opts[c].apply))
          /\ Tells(c, "undo") /\ opts[c].hash # NoPatch
             => /\ said'[c]["undo"] = "ok" <=> Holds(applied, opts[c].hash)
                /\ ~Holds(applied', opts[c].hash)]_vars

\* A listing that comes to its end has printed every applied patch, newest
\* first, and each of them once.
ListComplete ==
    [][\A c \in Commands :
          Tells(c, "list") => printed'[c] = applied]_vars

\* A patch is taken out only by a command whose --remove names it, wherever
\* that option stands (raxlpxs.c:850: "There is no defined order for options on
\* the command line").  A command that is given --find as well keeps one hash
\* for both, and may take out the one that it was to find.
UndoesWhatIsAsked ==
    [][\A p \in Patches :
          Holds(applied, p) /\ ~Holds(applied', p) =>
              \E c \in Commands : opts[c].undo /\ (opts[c].doomed = p \/ opts[c].find)]_vars

\* --find says whether the patch is applied (portability.c:75: "zero
\* (SANDBOX_OK) if patch not applied; one (SANDBOX_SUCCESS) if patch applied"),
\* as long as a reply has room for all (portability.c:121).
FindTrue ==
    [][\A c \in Commands :
          Tells(c, "find") /\ ~opts[c].undo /\ Len(applied) <= MaxList =>
              (said'[c]["find"] = "found" <=> Holds(applied, opts[c].sought))]_vars

\* Every command that connects comes to its end, after two applies and their
\* searches, in the turn of its connection: unless the listener ends, or the
\* listing gets as long as the array it is copied to (raxlpxs.c:692), after
\* which commands wait at the limit of their sessions.
CommandsEnd ==
    [](alive /\ Len(applied) < MaxList3) => \A c \in Commands : at[c] # "new" ~> at[c] \in {"closed", "killed"}
=============================================================================
