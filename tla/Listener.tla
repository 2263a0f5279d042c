------------------------------- MODULE Listener -------------------------------
(***************************************************************************)
(* The listener thread of the sandbox and its clients on the UNIX-domain   *)
(* socket: listen_thread, accept_sandbox_sock, read_sandbox_message_header *)
(* and the request dispatchers of sandbox-listen.c.                        *)
(*                                                                         *)
(* The thread serves one connection at a time until its client closes it   *)
(* or SANDBOX_MSG_SESSION_LIMIT messages have been read.  A client sends a *)
(* request and waits for the reply before it sends another, as raxlpxs and *)
(* portability.c do; it can be killed at any point, a message half sent.   *)
(* What has reached the server and has not been read is a sequence of      *)
(* pieces: the bytes the code reads with one readn, or leaves unread.      *)
(*                                                                         *)
(* A `return NULL' of the thread leaves every socket open: pc is "dead" and *)
(* nobody reads or accepts any more.  SIGPIPE is ignored, as QEMU does, so *)
(* writing to a closed connection is an error code.                        *)
(***************************************************************************)
EXTENDS Integers, Sequences

CONSTANTS
    Clients,        \* processes that connect to the socket, once each
    NoClient,
    Patches,
    NoPatch,
    Kinds,          \* the requests that are sent, see AllKinds
    Outcomes,       \* patch -> what xenlp_apply4 may make of it
    ListMayFail,    \* the listing may not fit: no memory, or longer than SANDBOX_ALLOC_SIZE
    Limit,          \* SANDBOX_MSG_SESSION_LIMIT, 100 in the code
    MaxRequests     \* bound: requests of one client

\* undo is the message of raxlpxs, sha1 and 4 bytes more; undo20 is the
\* documented one, the 20 bytes of the sha1.  bad stands for a wrong magic,
\* version, length or an id out of range; noid for the ids 7 and 8, in range
\* but without a dispatcher.
AllKinds == {"apply", "undo", "undo20", "list", "getbld", "bad", "noid"}

\* OK as a result of an apply: the patch is in; dropped: xenlp_apply4 answers
\* SANDBOX_OK but the patch is not in (see DropDependent of Sandbox).
Codes == {"OK", "ERR_INVALID", "ERR_NOMEM", "ERR_RW", "ERR_PARSE", "ENOENT"}

ASSUME ConstantsAssumption ==
    /\ NoClient \notin Clients
    /\ NoPatch \notin Patches
    /\ Kinds \subseteq AllKinds
    /\ Outcomes \in [Patches -> SUBSET {"OK", "dropped", "ERR_INVALID", "ERR_NOMEM"}]
    /\ ListMayFail \in BOOLEAN
    /\ Limit \in Nat \ {0}
    /\ MaxRequests \in Nat

VARIABLES
    pc,             \* where the thread is: in accept, in a read, in a dispatcher, in a reply
    fd,             \* client_fd: the connection it serves
    count,          \* number_of_client_messages
    answer,         \* the reply it is about to send
    should_stop,
    queue,          \* connections not yet accepted
    ends,           \* client -> the server's end of its connection
    unread,         \* client -> pieces sent and not yet read by the server
    replies,        \* client -> replies sent and not yet read by it
    client,         \* client -> what it does
    req,            \* client -> its last request
    sent,           \* client -> number of requests it sent
    heard,          \* client -> the listing it holds, if it has just received one
    did,            \* client -> effects its last request had (history)
    applied         \* patch -> how often it is on lp_patch_head

server == <<pc, fd, count, answer, should_stop>>
clients == <<client, req, sent, heard>>
vars == <<server, queue, ends, unread, replies, clients, did, applied>>

NoListing == {NoPatch}
Listing == {p \in Patches : applied[p] > 0}

Requests ==
    {r \in [kind : Kinds, patch : Patches \cup {NoPatch}] :
        r.patch = NoPatch <=> r.kind \notin {"apply", "undo", "undo20"}}

NoRequest == [kind |-> "none", patch |-> NoPatch]

\* What the code reads of a message in one piece, or does not read at all.
Pieces(kind) ==
    CASE kind = "apply" -> <<"hdr", "body">>
      [] kind = "undo" -> <<"hdr", "sha", "pad">>
      [] kind = "undo20" -> <<"hdr", "sha">>
      [] OTHER -> <<"hdr">>

Gone(c) == client[c] \in {"closed", "reset"}

Init ==
    /\ pc = "accept"
    /\ fd = NoClient
    /\ count = 0
    /\ answer = [kind |-> "none", patch |-> NoPatch, code |-> "OK", listing |-> NoListing]
    /\ should_stop = FALSE
    /\ queue = <<>>
    /\ ends = [c \in Clients |-> "none"]
    /\ unread = [c \in Clients |-> <<>>]
    /\ replies = [c \in Clients |-> <<>>]
    /\ client = [c \in Clients |-> "new"]
    /\ req = [c \in Clients |-> NoRequest]
    /\ sent = [c \in Clients |-> 0]
    /\ heard = [c \in Clients |-> NoListing]
    /\ did = [c \in Clients |-> 0]
    /\ applied = [p \in Patches |-> 0]
-----------------------------------------------------------------------------
(* The clients. *)

Connect(c) ==
    /\ client[c] = "new"
    /\ client' = [client EXCEPT ![c] = "idle"]
    /\ queue' = Append(queue, c)
    /\ ends' = [ends EXCEPT ![c] = "queued"]
    /\ UNCHANGED <<server, unread, replies, req, sent, heard, did, applied>>

\* The request r begins; n pieces of it get as far as the socket.
Write(c, r, n) ==
    /\ client[c] = "idle"
    /\ ends[c] # "closed"
    /\ sent[c] < MaxRequests
    /\ sent' = [sent EXCEPT ![c] = sent[c] + 1]
    /\ req' = [req EXCEPT ![c] = r]
    /\ unread' = [unread EXCEPT ![c] = unread[c] \o SubSeq(Pieces(r.kind), 1, n)]
    /\ did' = [did EXCEPT ![c] = 0]
    /\ UNCHANGED <<server, queue, ends, replies, heard, applied>>

Send(c, r) ==
    /\ Write(c, r, Len(Pieces(r.kind)))
    /\ client' = [client EXCEPT ![c] = "waiting"]

\* The client is killed while it writes.
SendCut(c, r) ==
    /\ \E n \in 0 .. (Len(Pieces(r.kind)) - 1) : Write(c, r, n)
    /\ client' = [client EXCEPT ![c] = "closed"]

Receive(c) ==
    /\ client[c] = "waiting"
    /\ replies[c] # <<>>
    /\ client' = [client EXCEPT ![c] = "idle"]
    /\ heard' = [heard EXCEPT ![c] = Head(replies[c]).listing]
    /\ replies' = [replies EXCEPT ![c] = Tail(replies[c])]
    /\ UNCHANGED <<server, queue, ends, unread, req, sent, did, applied>>

\* close, or the end of the process.  Replies it has not read make the
\* server's next read an error instead of an end of file.
HangUp(c) ==
    /\ client[c] \in {"idle", "waiting"}
    /\ client' = [client EXCEPT ![c] = IF replies[c] = <<>> THEN "closed" ELSE "reset"]
    /\ replies' = [replies EXCEPT ![c] = <<>>]
    /\ UNCHANGED <<server, queue, ends, unread, req, sent, heard, did, applied>>
-----------------------------------------------------------------------------
(* The listener thread. *)

\* `return NULL', in the middle of a session.
Die == pc' = "dead" /\ UNCHANGED <<fd, count>>

\* The end of the outer loop, with the connection at the given end.
EndSession(end) ==
    /\ pc' = IF should_stop THEN "stopped" ELSE "accept"
    /\ ends' = [ends EXCEPT ![fd] = end]
    /\ fd' = NoClient
    /\ count' = 0

-----------------------------------------------------------------------------
(* Slips such code invites, one for each property below: the mutants of the *)
(* runs put them in place of the definition they are named after.           *)

\* One message short of the limit.
EndMessageEarly ==
    IF count + 2 < Limit
    THEN pc' = "header" /\ count' = count + 1 /\ UNCHANGED <<fd, ends>>
    ELSE EndSession(IF should_stop THEN "closed" ELSE "left")

\* Connections served in turns, a message each, instead of one after another.
AcceptInTurns ==
    /\ pc \in {"accept", "header"}
    /\ queue # <<>>
    /\ fd' = Head(queue)
    /\ queue' = IF fd = NoClient THEN Tail(queue) ELSE Append(Tail(queue), fd)
    /\ ends' = [ends EXCEPT ![Head(queue)] = "served"]
    /\ count' = 0
    /\ pc' = "header"
    /\ UNCHANGED <<answer, should_stop, unread, replies, clients, did, applied>>

\* SANDBOX_ERR_CLOSED treated like the other errors.
ReadEndDies ==
    /\ pc = "header"
    /\ client[fd] = "closed"
    /\ unread[fd] \in {<<>>, <<"pad">>}
    /\ pc' = "dead"
    /\ UNCHANGED <<fd, count, answer, should_stop, queue, ends, unread, replies, clients, did,
                   applied>>

\* client_fd is not reset.
ReadEndStays ==
    /\ pc = "header"
    /\ client[fd] = "closed"
    /\ unread[fd] \in {<<>>, <<"pad">>}
    /\ unread' = [unread EXCEPT ![fd] = <<>>]
    /\ count' = 1 - count
    /\ UNCHANGED <<pc, fd, answer, should_stop, queue, ends, replies, clients, did, applied>>

\* An undo of a patch that is not applied is not told from one that is.
DispatchUndoUnchecked ==
    /\ pc = "undo"
    /\ unread[fd] # <<>>
    /\ unread' = [unread EXCEPT ![fd] = Tail(unread[fd])]
    /\ applied' = [applied EXCEPT ![req[fd].patch] = applied[req[fd].patch] - 1]
    /\ did' = [did EXCEPT ![fd] = did[fd] + 1]
    /\ answer' = [kind |-> "undo", patch |-> req[fd].patch, code |-> "OK", listing |-> NoListing]
    /\ pc' = "reply"
    /\ UNCHANGED <<fd, count, should_stop, queue, ends, replies, clients>>

\* The code of xenlp_apply4 is lost.
DispatchApplyOK(outcome) ==
    /\ pc = "apply"
    /\ unread[fd] # <<>>
    /\ outcome \in Outcomes[req[fd].patch]
    /\ unread' = [unread EXCEPT ![fd] = Tail(unread[fd])]
    /\ IF outcome = "OK"
       THEN /\ applied' = [applied EXCEPT ![req[fd].patch] = applied[req[fd].patch] + 1]
            /\ did' = [did EXCEPT ![fd] = did[fd] + 1]
       ELSE UNCHANGED <<applied, did>>
    /\ answer' = [kind |-> "apply", patch |-> req[fd].patch, code |-> "OK", listing |-> NoListing]
    /\ pc' = "reply"
    /\ UNCHANGED <<fd, count, should_stop, queue, ends, replies, clients>>
-----------------------------------------------------------------------------
\* The message is done with: the inner loop goes on, or has reached its limit.
\* client_fd is only closed when the thread stops.
EndMessage ==
    IF count + 1 < Limit
    THEN pc' = "header" /\ count' = count + 1 /\ UNCHANGED <<fd, ends>>
    ELSE EndSession(IF should_stop THEN "closed" ELSE "left")

Accept ==
    /\ pc = "accept"
    /\ queue # <<>>
    /\ fd' = Head(queue)
    /\ queue' = Tail(queue)
    /\ ends' = [ends EXCEPT ![Head(queue)] = "served"]
    /\ count' = 0
    /\ pc' = "header"
    /\ UNCHANGED <<answer, should_stop, unread, replies, clients, did, applied>>

\* The end of file, within a header or before it: SANDBOX_ERR_CLOSED.
ReadEnd ==
    /\ pc = "header"
    /\ client[fd] = "closed"
    /\ unread[fd] \in {<<>>, <<"pad">>}
    /\ unread' = [unread EXCEPT ![fd] = <<>>]
    /\ EndSession("closed")
    /\ UNCHANGED <<answer, should_stop, queue, replies, clients, did, applied>>

\* read fails with ECONNRESET.
ReadReset ==
    /\ pc = "header"
    /\ client[fd] = "reset"
    /\ unread[fd] \in {<<>>, <<"pad">>}
    /\ Die
    /\ UNCHANGED <<answer, should_stop, queue, ends, unread, replies, clients, did, applied>>

\* What an earlier message left unread is taken for the magic of the next.
ReadMisaligned ==
    /\ pc = "header"
    /\ unread[fd] # <<>>
    /\ \/ Head(unread[fd]) = "sha"
       \/ Head(unread[fd]) = "pad" /\ Len(unread[fd]) > 1
    /\ Die
    /\ UNCHANGED <<answer, should_stop, queue, ends, unread, replies, clients, did, applied>>

Answer(code, listing) ==
    answer' = [kind |-> req[fd].kind, patch |-> req[fd].patch, code |-> code, listing |-> listing]

\* A header in its place: it is checked and dispatched.
ReadHeader ==
    /\ pc = "header"
    /\ unread[fd] # <<>>
    /\ Head(unread[fd]) = "hdr"
    /\ unread' = [unread EXCEPT ![fd] = Tail(unread[fd])]
    /\ \/ /\ req[fd].kind \in {"apply", "undo", "list", "getbld"}
          /\ pc' = req[fd].kind
          /\ UNCHANGED <<fd, count, answer, ends>>
       \/ /\ req[fd].kind = "undo20"
          /\ pc' = "reply"
          /\ Answer("ERR_PARSE", NoListing)
          /\ UNCHANGED <<fd, count, ends>>
       \/ /\ req[fd].kind = "bad"
          /\ Die
          /\ UNCHANGED <<answer, ends>>
       \/ /\ req[fd].kind = "noid"
          /\ Die
          /\ ends' = [ends EXCEPT ![fd] = "closed"]
          /\ UNCHANGED answer
    /\ UNCHANGED <<should_stop, queue, replies, clients, did, applied>>

\* dispatch_apply: the rest of the message is read and xenlp_apply4 called.
DispatchApply(outcome) ==
    /\ pc = "apply"
    /\ unread[fd] # <<>>
    /\ outcome \in Outcomes[req[fd].patch]
    /\ unread' = [unread EXCEPT ![fd] = Tail(unread[fd])]
    /\ IF outcome = "OK"
       THEN /\ applied' = [applied EXCEPT ![req[fd].patch] = applied[req[fd].patch] + 1]
            /\ did' = [did EXCEPT ![fd] = did[fd] + 1]
       ELSE UNCHANGED <<applied, did>>
    /\ Answer(IF outcome = "dropped" THEN "OK" ELSE outcome, NoListing)
    /\ pc' = "reply"
    /\ UNCHANGED <<fd, count, should_stop, queue, ends, replies, clients>>

\* dispatch_undo_req: the sha1 is read and xenlp_undo4 called.
DispatchUndo ==
    /\ pc = "undo"
    /\ unread[fd] # <<>>
    /\ unread' = [unread EXCEPT ![fd] = Tail(unread[fd])]
    /\ IF req[fd].patch \in Listing
       THEN /\ applied' = [applied EXCEPT ![req[fd].patch] = applied[req[fd].patch] - 1]
            /\ did' = [did EXCEPT ![fd] = did[fd] + 1]
            /\ Answer("OK", NoListing)
       ELSE Answer("ENOENT", NoListing) /\ UNCHANGED <<applied, did>>
    /\ pc' = "reply"
    /\ UNCHANGED <<fd, count, should_stop, queue, ends, replies, clients>>

\* Either finds the connection at its end before it has read enough.
ReadShort ==
    /\ pc \in {"apply", "undo"}
    /\ unread[fd] = <<>>
    /\ Gone(fd)
    /\ Answer("ERR_RW", NoListing)
    /\ pc' = "reply"
    /\ UNCHANGED <<fd, count, should_stop, queue, ends, unread, replies, clients, did, applied>>

DispatchList ==
    /\ pc = "list"
    /\ Answer("OK", Listing)
    /\ pc' = "reply"
    /\ UNCHANGED <<fd, count, should_stop, queue, ends, unread, replies, clients, did, applied>>

\* The error is returned without a reply.
ListFails ==
    /\ pc = "list"
    /\ ListMayFail /\ Listing # {}
    /\ Die
    /\ UNCHANGED <<answer, should_stop, queue, ends, unread, replies, clients, did, applied>>

DispatchGetbld ==
    /\ pc = "getbld"
    /\ Answer("OK", NoListing)
    /\ pc' = "reply"
    /\ UNCHANGED <<fd, count, should_stop, queue, ends, unread, replies, clients, did, applied>>

\* What the dispatcher returns after send_rr_buf: dispatch_apply the code of
\* xenlp_apply4, the others that of send_rr_buf.
Negative == IF answer.kind = "apply" THEN answer.code # "OK" ELSE Gone(fd)

Reply ==
    /\ pc = "reply"
    /\ replies' = IF Gone(fd) THEN replies
                  ELSE [replies EXCEPT ![fd] = Append(replies[fd], answer)]
    /\ IF Negative THEN Die /\ UNCHANGED ends ELSE EndMessage
    /\ UNCHANGED <<answer, should_stop, queue, unread, clients, did, applied>>

\* stop_listener, called by another thread.  It is looked at between sessions.
Stop ==
    /\ ~should_stop
    /\ should_stop' = TRUE
    /\ UNCHANGED <<pc, fd, count, answer, queue, ends, unread, replies, clients, did, applied>>
-----------------------------------------------------------------------------
Serve ==
    \/ Accept
    \/ ReadEnd
    \/ ReadReset
    \/ ReadMisaligned
    \/ ReadHeader
    \/ \E outcome \in {"OK", "dropped", "ERR_INVALID", "ERR_NOMEM"} : DispatchApply(outcome)
    \/ DispatchUndo
    \/ ReadShort
    \/ DispatchList
    \/ ListFails
    \/ DispatchGetbld
    \/ Reply

Next ==
    \/ Serve
    \/ Stop
    \/ \E c \in Clients :
          \/ Connect(c)
          \/ \E r \in Requests : Send(c, r) \/ SendCut(c, r)
          \/ Receive(c)
          \/ HangUp(c)

Spec == Init /\ [][Next]_vars

(* The commands of raxlpxs: main sends an undo last, waits for every reply *)
(* and closes the socket at the end of its finite list of requests.  It is *)
(* not killed, and nobody stops the listener.                              *)

StockSend(c, r) == req[c].kind # "undo" /\ Send(c, r)

StockClose(c) == client[c] = "idle" /\ HangUp(c)

StockClient(c) ==
    \/ Connect(c)
    \/ \E r \in Requests : StockSend(c, r)
    \/ Receive(c)
    \/ StockClose(c)

\* The thread runs, and a command goes on as soon as it has its reply.
Fairness == WF_vars(Serve) /\ \A c \in Clients : WF_vars(Receive(c)) /\ WF_vars(StockClose(c))

StockNext == Serve \/ \E c \in Clients : StockClient(c)

StockSpec == Init /\ [][StockNext]_vars /\ Fairness
-----------------------------------------------------------------------------
\* Types of the state.
Answers ==
    [kind : AllKinds \cup {"none"}, patch : Patches \cup {NoPatch}, code : Codes,
     listing : (SUBSET Patches) \cup {NoListing}]

TypeOK ==
    /\ pc \in {"accept", "header", "apply", "undo", "list", "getbld", "reply", "dead", "stopped"}
    /\ fd \in Clients \cup {NoClient}
    /\ count \in 0 .. (Limit - 1)
    /\ answer \in Answers
    /\ should_stop \in BOOLEAN
    /\ queue \in Seq(Clients)
    /\ ends \in [Clients -> {"none", "queued", "served", "left", "closed"}]
    /\ unread \in [Clients -> Seq({"hdr", "body", "sha", "pad"})]
    /\ replies \in [Clients -> Seq(Answers)]
    /\ client \in [Clients -> {"new", "idle", "waiting", "closed", "reset"}]
    /\ req \in [Clients -> Requests \cup {NoRequest}]
    /\ sent \in [Clients -> 0 .. MaxRequests]
    /\ heard \in [Clients -> (SUBSET Patches) \cup {NoListing}]
    /\ did \in [Clients -> Nat]
    /\ applied \in [Patches -> Nat]

\* Whatever other clients send, cut short or leave unread: a client never
\* finds a reply but to the request it waits for, a request changes the set
\* of patches at most once, and its code tells whether it did.
AnswersTellTruth ==
    \A c \in Clients :
        /\ did[c] <= 1
        /\ replies[c] # <<>> =>
              /\ client[c] = "waiting"
              /\ Len(replies[c]) = 1
              /\ LET r == Head(replies[c]) IN
                    /\ r.kind = req[c].kind /\ r.patch = req[c].patch
                    /\ did[c] = 1 <=> r.code = "OK" /\ r.kind \in {"apply", "undo"}

\* The server forgets a connection only once its client has used up the
\* messages of a session: nobody waits for an answer that will not come
\* before that, while the listener lives.
LeftOnlyAtLimit ==
    \A c \in Clients : ends[c] = "left" => sent[c] >= Limit

\* raxlpxs looks for a patch in a listing and then applies or undoes it: when
\* the listener acts on the request, what the client was told just before is
\* still true, however many clients are at work.
FreshListing ==
    [][applied' # applied => heard[fd] \in {NoListing, Listing}]_vars

\* The listener goes on for as long as QEMU runs (src/README.md:12: "The sandbox
\* component will listen on the domain socket for any live-patching messages").
AlwaysListening == pc # "dead"

\* Every request is answered.
RequestsAnswered == \A c \in Clients : client[c] = "waiting" ~> client[c] # "waiting"

\* Every client that connects is served some time.
ConnectionsServed == \A c \in Clients : ends[c] = "queued" ~> ends[c] # "queued"
=============================================================================
