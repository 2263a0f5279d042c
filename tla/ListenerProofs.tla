---------------------------- MODULE ListenerProofs ----------------------------
(***************************************************************************)
(* Proofs about the listener.  The invariant says, client by client, where *)
(* its one outstanding request is: not yet read (Pending), in the hands of *)
(* the thread (Busy), or answered.                                         *)
(***************************************************************************)
EXTENDS Listener, SequenceTheorems, TLAPS

Busy == pc \in {"apply", "undo", "list", "getbld", "reply"}
Serving == Busy \/ pc = "header"

\* A header of c has not been read yet.
Pending(c) == \E i \in 1 .. Len(unread[c]) : unread[c][i] = "hdr"

\* There is at most one.
Single(c) ==
    \A i, j \in 1 .. Len(unread[c]) : unread[c][i] = "hdr" /\ unread[c][j] = "hdr" => i = j

\* No patch is silently dropped by xenlp_apply4.
NoneDropped == \A p \in Patches : "dropped" \notin Outcomes[p]

\* The answer a reports truly what the last request of c did.
Truthful(a, c) ==
    /\ a.kind = req[c].kind /\ a.patch = req[c].patch
    /\ NoneDropped => (did[c] = 1 <=> a.code = "OK" /\ a.kind \in {"apply", "undo"})

\* The request is unread: nothing has happened yet.
PendingInv(c) ==
    Pending(c) =>
        /\ client[c] \in {"waiting", "closed", "reset"}
        /\ replies[c] = <<>>
        /\ did[c] = 0
        /\ sent[c] >= 1

\* The connection is served.
ServedInv(c) ==
    Serving /\ fd = c =>
        /\ ends[c] = "served"
        /\ count <= sent[c]
        /\ Pending(c) => count + 1 <= sent[c]

\* The request is being worked on.
BusyInv(c) ==
    Busy /\ fd = c =>
        /\ client[c] \in {"waiting", "closed", "reset"}
        /\ replies[c] = <<>>
        /\ ~Pending(c)
        /\ count + 1 <= sent[c]
        /\ pc # "reply" => did[c] = 0 /\ req[c].kind = pc
        /\ pc = "reply" => Truthful(answer, c)

\* Listings of the client that is served are up to date when they are used.
FreshInv(c) ==
    Serving /\ fd = c =>
        /\ client[c] = "idle" \/ Pending(c) \/ (Busy /\ pc # "reply") =>
              heard[c] \in {NoListing, Listing}
        /\ replies[c] # <<>> => Head(replies[c]).listing \in {NoListing, Listing}
        /\ pc = "reply" => answer.listing \in {NoListing, Listing}

\* A client that is not served yet has heard nothing.
NewInv(c) ==
    /\ client[c] = "new" => ends[c] = "none" 
    /\ ends[c] \in {"none", "queued"} => heard[c] = NoListing /\ replies[c] = <<>>

AnsweredInv(c) ==
    /\ did[c] <= 1
    /\ replies[c] # <<>> =>
          /\ client[c] = "waiting"
          /\ Len(replies[c]) = 1
          /\ Truthful(Head(replies[c]), c)

ClientInv(c) ==
    /\ Single(c)
    /\ PendingInv(c)
    /\ ServedInv(c)
    /\ BusyInv(c)
    /\ FreshInv(c)
    /\ NewInv(c)
    /\ AnsweredInv(c)
    /\ ends[c] = "left" => sent[c] >= Limit

QueueInv ==
    /\ \A i \in 1 .. Len(queue) : ends[queue[i]] = "queued"
    /\ \A i, j \in 1 .. Len(queue) : queue[i] = queue[j] => i = j

IInv ==
    /\ TypeOK
    /\ Serving => fd \in Clients
    /\ QueueInv
    /\ \A c \in Clients : ClientInv(c)

Piece == {"hdr", "body", "sha", "pad"}

\* What follows the header of a message is not taken for one.
LEMMA PiecesFacts ==
    ASSUME NEW k
    PROVE  /\ Pieces(k) \in Seq(Piece)
           /\ Len(Pieces(k)) \in 1 .. 3
           /\ \A i \in 1 .. Len(Pieces(k)) : Pieces(k)[i] = "hdr" <=> i = 1
<1>1. CASE k = "apply"
  <2>1. Pieces(k) = <<"hdr", "body">>
    BY <1>1 DEF Pieces
  <2> QED
    BY <2>1 DEF Piece
<1>2. CASE k = "undo"
  <2>1. Pieces(k) = <<"hdr", "sha", "pad">>
    BY <1>2 DEF Pieces
  <2> QED
    BY <2>1 DEF Piece
<1>3. CASE k = "undo20"
  <2>1. Pieces(k) = <<"hdr", "sha">>
    BY <1>3 DEF Pieces
  <2> QED
    BY <2>1 DEF Piece
<1>4. CASE k \notin {"apply", "undo", "undo20"}
  <2>1. Pieces(k) = <<"hdr">>
    BY <1>4 DEF Pieces
  <2> QED
    BY <2>1 DEF Piece
<1> QED
  BY <1>1, <1>2, <1>3, <1>4

\* A request, or the beginning of one, behind a stream without a header: the
\* stream then has one header at most.
LEMMA WrittenFacts ==
    ASSUME NEW s \in Seq(Piece), NEW k, NEW n \in 0 .. Len(Pieces(k)),
           \A i \in 1 .. Len(s) : s[i] # "hdr"
    PROVE  LET t == s \o SubSeq(Pieces(k), 1, n)
           IN  /\ t \in Seq(Piece)
               /\ \A i, j \in 1 .. Len(t) : t[i] = "hdr" /\ t[j] = "hdr" => i = j
<1> DEFINE u == SubSeq(Pieces(k), 1, n)
           t == s \o u
<1>1. /\ u \in Seq(Piece) /\ Len(u) = n
      /\ \A i \in 1 .. n : u[i] = Pieces(k)[i]
  BY PiecesFacts
<1>2. \A i \in 1 .. n : u[i] = "hdr" <=> i = 1
  BY <1>1, PiecesFacts
<1> HIDE DEF u
<1>3. /\ t \in Seq(Piece) /\ Len(t) = Len(s) + n
      /\ \A i \in 1 .. Len(t) : t[i] = IF i <= Len(s) THEN s[i] ELSE u[i - Len(s)]
  BY <1>1
<1> HIDE DEF t
<1>4. \A i \in 1 .. Len(t) : t[i] = "hdr" => i = Len(s) + 1
  BY <1>1, <1>2, <1>3
<1>5. \A i, j \in 1 .. Len(t) : t[i] = "hdr" /\ t[j] = "hdr" => i = j
  BY <1>4, <1>3
<1> QED
  BY <1>3, <1>5 DEF t, u

\* Reading a piece.
LEMMA TailFacts ==
    ASSUME NEW s \in Seq(Piece), s # <<>>,
           \A i, j \in 1 .. Len(s) : s[i] = "hdr" /\ s[j] = "hdr" => i = j
    PROVE  LET t == Tail(s)
           IN  /\ t \in Seq(Piece)
               /\ \A i, j \in 1 .. Len(t) : t[i] = "hdr" /\ t[j] = "hdr" => i = j
               /\ (\E i \in 1 .. Len(t) : t[i] = "hdr") =>
                     s[1] # "hdr" /\ \E i \in 1 .. Len(s) : s[i] = "hdr"
<1> DEFINE t == Tail(s)
<1>1. /\ t \in Seq(Piece) /\ Len(t) = Len(s) - 1 /\ Len(s) \in Nat
      /\ \A i \in 1 .. Len(t) : t[i] = s[i + 1] /\ i + 1 \in 1 .. Len(s)
  OBVIOUS
<1> HIDE DEF t
<1>2. \A i, j \in 1 .. Len(t) : t[i] = "hdr" /\ t[j] = "hdr" => i = j
  BY <1>1
<1>3. ASSUME NEW i \in 1 .. Len(t), t[i] = "hdr" PROVE s[1] # "hdr" /\ \E j \in 1 .. Len(s) : s[j] = "hdr"
  <2>1. s[i + 1] = "hdr" /\ i + 1 \in 1 .. Len(s) /\ 1 \in 1 .. Len(s) /\ i + 1 # 1
    BY <1>1, <1>3
  <2> QED
    BY <2>1
<1> QED
  BY <1>1, <1>2, <1>3 DEF t
-----------------------------------------------------------------------------
LEMMA InitIInv == Init => IInv
<1> SUFFICES ASSUME Init PROVE IInv
  OBVIOUS
<1>1. TypeOK
  <2>1. answer \in Answers
    BY DEF Init, Answers, Codes
  <2>2. /\ count \in 0 .. (Limit - 1)
        /\ sent \in [Clients -> 0 .. MaxRequests]
        /\ did \in [Clients -> Nat] /\ applied \in [Patches -> Nat]
    BY ConstantsAssumption DEF Init
  <2>3. /\ queue \in Seq(Clients)
        /\ unread \in [Clients -> Seq({"hdr", "body", "sha", "pad"})]
        /\ replies \in [Clients -> Seq(Answers)]
    BY DEF Init
  <2>4. /\ req \in [Clients -> Requests \cup {NoRequest}]
        /\ heard \in [Clients -> (SUBSET Patches) \cup {NoListing}]
    BY DEF Init
  <2> QED
    BY <2>1, <2>2, <2>3, <2>4 DEF Init, TypeOK
<1>2. ~Serving
  BY DEF Init, Serving, Busy
<1>3. QueueInv
  BY DEF Init, QueueInv
<1>4. ASSUME NEW c \in Clients PROVE ClientInv(c)
  BY <1>2 DEF Init, ClientInv, Single, PendingInv, Pending, ServedInv, BusyInv, FreshInv, NewInv,
    AnsweredInv, Serving
<1> QED
  BY <1>1, <1>2, <1>3, <1>4 DEF IInv
-----------------------------------------------------------------------------
\* A client of which nothing changes, and which is not served afterwards.
LEMMA Bystander ==
    ASSUME NEW d \in Clients, ClientInv(d), ~(Serving' /\ fd' = d),
           unread'[d] = unread[d], replies'[d] = replies[d], client'[d] = client[d],
           did'[d] = did[d], sent'[d] = sent[d], ends'[d] = ends[d], heard'[d] = heard[d],
           req'[d] = req[d]
    PROVE  ClientInv(d)'
<1>1. ~(Busy' /\ fd' = d)
  BY DEF Serving
<1>2. Single(d)' /\ PendingInv(d)'
  BY DEF ClientInv, Single, PendingInv, Pending
<1>3. ServedInv(d)' /\ FreshInv(d)'
  BY DEF ServedInv, FreshInv
<1>4. BusyInv(d)'
  BY <1>1 DEF BusyInv
<1>5. NewInv(d)' /\ AnsweredInv(d)' /\ (ends'[d] = "left" => sent'[d] >= Limit)
  BY DEF ClientInv, NewInv, AnsweredInv, Truthful
<1> QED
  BY <1>2, <1>3, <1>4, <1>5 DEF ClientInv

\* A client of which nothing changes while the thread does not move.
LEMMA Untouched ==
    ASSUME NEW d \in Clients, ClientInv(d),
           pc' = pc, fd' = fd, count' = count, answer' = answer, applied' = applied,
           unread'[d] = unread[d], replies'[d] = replies[d], client'[d] = client[d],
           did'[d] = did[d], sent'[d] = sent[d], ends'[d] = ends[d], heard'[d] = heard[d],
           req'[d] = req[d]
    PROVE  ClientInv(d)'
<1>1. Serving' = Serving /\ Busy' = Busy /\ Listing' = Listing
  BY DEF Serving, Busy, Listing
<1>2. Single(d)' /\ PendingInv(d)' /\ (Pending(d)' <=> Pending(d))
  BY DEF ClientInv, Single, PendingInv, Pending
<1>3. ServedInv(d)' /\ BusyInv(d)' /\ FreshInv(d)'
  BY <1>1, <1>2 DEF ClientInv, ServedInv, BusyInv, FreshInv, Truthful
<1>5. NewInv(d)' /\ AnsweredInv(d)' /\ (ends'[d] = "left" => sent'[d] >= Limit)
  BY DEF ClientInv, NewInv, AnsweredInv, Truthful
<1> QED
  BY <1>2, <1>3, <1>5 DEF ClientInv
-----------------------------------------------------------------------------
(* The steps of the clients. *)

\* The thread does not move.
LEMMA ThreadStill ==
    ASSUME pc' = pc, fd' = fd, applied' = applied
    PROVE  Serving' = Serving /\ Busy' = Busy /\ Listing' = Listing
BY DEF Serving, Busy, Listing

LEMMA ConnectStep ==
    ASSUME IInv, NEW c \in Clients, Connect(c)
    PROVE  IInv'
<1>0. /\ client[c] = "new"
      /\ client' = [client EXCEPT ![c] = "idle"]
      /\ queue' = Append(queue, c)
      /\ ends' = [ends EXCEPT ![c] = "queued"]
      /\ UNCHANGED <<pc, fd, count, answer, should_stop, unread, replies, req, sent, heard, did,
                     applied>>
  BY DEF Connect, server
<1>1. TypeOK /\ QueueInv /\ (Serving => fd \in Clients) /\ \A d \in Clients : ClientInv(d)
  BY DEF IInv
<1>2. ends[c] = "none" /\ heard[c] = NoListing /\ replies[c] = <<>> /\ ~Pending(c)
      /\ ~(Serving /\ fd = c) /\ did[c] <= 1 /\ Single(c)
  BY <1>0, <1>1 DEF ClientInv, NewInv, PendingInv, ServedInv, AnsweredInv
<1>3. Serving' = Serving /\ Busy' = Busy /\ Listing' = Listing
  BY <1>0, ThreadStill
<1>4. TypeOK'
  BY <1>0, <1>1 DEF TypeOK
<1>5. QueueInv'
  <2>1. /\ queue \in Seq(Clients) /\ Len(queue') = Len(queue) + 1 /\ Len(queue) \in Nat
        /\ \A i \in 1 .. Len(queue') : queue'[i] = IF i <= Len(queue) THEN queue[i] ELSE c
        /\ ends \in [Clients -> {"none", "queued", "served", "left", "closed"}]
    BY <1>0, <1>1 DEF TypeOK
  <2>2. \A i \in 1 .. Len(queue) : queue[i] # c /\ queue[i] \in Clients
    BY <1>1, <1>2, <2>1 DEF QueueInv
  <2>3. \A i \in 1 .. Len(queue') : ends'[queue'[i]] = "queued"
    BY <1>0, <1>1, <2>1, <2>2 DEF QueueInv
  <2>4. \A i, j \in 1 .. Len(queue') : queue'[i] = queue'[j] => i = j
    BY <1>1, <2>1, <2>2 DEF QueueInv
  <2> QED
    BY <2>3, <2>4 DEF QueueInv
<1>6. ASSUME NEW d \in Clients PROVE ClientInv(d)'
  <2>1. CASE d # c
    BY <1>0, <1>1, <2>1, Untouched DEF TypeOK
  <2>2. CASE d = c
    <3>1. client'[c] = "idle" /\ ends'[c] = "queued"
      BY <1>0, <1>1 DEF TypeOK
    <3>2. ~Pending(c)' /\ Single(c)'
      BY <1>0, <1>2 DEF Pending, Single
    <3>3. ~(Serving' /\ fd' = c) /\ ~(Busy' /\ fd' = c)
      BY <1>0, <1>2, <1>3 DEF Serving
    <3>4. PendingInv(c)' /\ ServedInv(c)' /\ BusyInv(c)' /\ FreshInv(c)'
      BY <3>2, <3>3 DEF PendingInv, ServedInv, BusyInv, FreshInv
    <3>5. NewInv(c)' /\ AnsweredInv(c)'
      BY <1>0, <1>2, <3>1 DEF NewInv, AnsweredInv
    <3> QED
      BY <2>2, <3>1, <3>2, <3>4, <3>5 DEF ClientInv
  <2> QED
    BY <2>1, <2>2
<1> QED
  BY <1>0, <1>1, <1>3, <1>4, <1>5, <1>6 DEF IInv

LEMMA WriteStep ==
    ASSUME IInv, NEW c \in Clients, NEW r \in Requests, NEW n \in 0 .. Len(Pieces(r.kind)),
           Write(c, r, n), NEW s \in {"waiting", "closed"}, client' = [client EXCEPT ![c] = s]
    PROVE  IInv'
<1>0. /\ client[c] = "idle"
      /\ sent[c] < MaxRequests
      /\ sent' = [sent EXCEPT ![c] = sent[c] + 1]
      /\ req' = [req EXCEPT ![c] = r]
      /\ unread' = [unread EXCEPT ![c] = unread[c] \o SubSeq(Pieces(r.kind), 1, n)]
      /\ did' = [did EXCEPT ![c] = 0]
      /\ UNCHANGED <<pc, fd, count, answer, should_stop, queue, ends, replies, heard, applied>>
  BY DEF Write, server
<1>1. TypeOK /\ QueueInv /\ (Serving => fd \in Clients) /\ \A d \in Clients : ClientInv(d)
  BY DEF IInv
<1>2. replies[c] = <<>> /\ ~Pending(c) /\ ~(Busy /\ fd = c)
  BY <1>0, <1>1 DEF ClientInv, PendingInv, BusyInv, AnsweredInv
<1>3. Serving' = Serving /\ Busy' = Busy /\ Listing' = Listing
  BY <1>0, ThreadStill
<1>4. /\ unread[c] \in Seq(Piece)
      /\ \A i \in 1 .. Len(unread[c]) : unread[c][i] # "hdr"
  BY <1>1, <1>2 DEF TypeOK, Piece, Pending
<1>5. /\ unread'[c] \in Seq(Piece)
      /\ \A i, j \in 1 .. Len(unread'[c]) : unread'[c][i] = "hdr" /\ unread'[c][j] = "hdr" => i = j
  <2>1. unread'[c] = unread[c] \o SubSeq(Pieces(r.kind), 1, n)
    BY <1>0, <1>1 DEF TypeOK
  <2>2. LET t == unread[c] \o SubSeq(Pieces(r.kind), 1, n)
        IN  /\ t \in Seq(Piece)
            /\ \A i, j \in 1 .. Len(t) : t[i] = "hdr" /\ t[j] = "hdr" => i = j
    BY <1>4, WrittenFacts
  <2> QED
    BY <2>1, <2>2
<1>6. TypeOK'
  <2>1. unread' \in [Clients -> Seq(Piece)]
    BY <1>0, <1>1, <1>5 DEF TypeOK, Piece
  <2>2. sent' \in [Clients -> 0 .. MaxRequests]
    BY <1>0, <1>1, ConstantsAssumption DEF TypeOK
  <2>3. req' \in [Clients -> Requests \cup {NoRequest}] /\ did' \in [Clients -> Nat]
    BY <1>0, <1>1 DEF TypeOK
  <2>4. client' \in [Clients -> {"new", "idle", "waiting", "closed", "reset"}]
    BY <1>1 DEF TypeOK
  <2>5. unread' \in [Clients -> Seq({"hdr", "body", "sha", "pad"})]
    BY <2>1 DEF Piece
  <2> QED
    BY <1>0, <1>1, <2>2, <2>3, <2>4, <2>5 DEF TypeOK
<1>7. QueueInv'
  BY <1>0, <1>1 DEF QueueInv
<1>8. ASSUME NEW d \in Clients PROVE ClientInv(d)'
  <2>1. CASE d # c
    BY <1>0, <1>1, <2>1, Untouched DEF TypeOK
  <2>2. CASE d = c
    <3>1. /\ client'[c] = s /\ did'[c] = 0 /\ sent'[c] = sent[c] + 1 /\ sent[c] \in Nat
          /\ replies'[c] = <<>> /\ ends'[c] = ends[c] /\ heard'[c] = heard[c]
          /\ count \in Nat /\ Limit \in Nat
      BY <1>0, <1>1, <1>2, ConstantsAssumption DEF TypeOK
    <3>2. Single(c)'
      BY <1>5 DEF Single
    <3>3. PendingInv(c)'
      BY <3>1 DEF PendingInv
    <3>4. ServedInv(c)'
      BY <1>0, <1>1, <1>3, <3>1 DEF ClientInv, ServedInv
    <3>5. ~(Busy' /\ fd' = c)
      BY <1>0, <1>2, <1>3
    <3>6. BusyInv(c)'
      BY <3>5 DEF BusyInv
    <3>7. FreshInv(c)'
      BY <1>0, <1>1, <1>3, <3>1, <3>5 DEF ClientInv, FreshInv, Busy
    <3>8. NewInv(c)' /\ AnsweredInv(c)'
      BY <1>1, <3>1 DEF ClientInv, NewInv, AnsweredInv
    <3>9. ends[c] = "left" => sent[c] >= Limit
      BY <1>1 DEF ClientInv
    <3>10. ends'[c] = "left" => sent'[c] >= Limit
      BY <3>1, <3>9
    <3> QED
      BY <2>2, <3>2, <3>3, <3>4, <3>6, <3>7, <3>8, <3>10 DEF ClientInv
  <2> QED
    BY <2>1, <2>2
<1> QED
  BY <1>0, <1>1, <1>3, <1>6, <1>7, <1>8 DEF IInv

LEMMA SendStep ==
    ASSUME IInv, NEW c \in Clients, NEW r \in Requests, Send(c, r) \/ SendCut(c, r)
    PROVE  IInv'
<1>1. Len(Pieces(r.kind)) \in 1 .. 3
  BY PiecesFacts
<1>2. CASE Send(c, r)
  <2>1. Len(Pieces(r.kind)) \in 0 .. Len(Pieces(r.kind))
    BY <1>1
  <2>2. Write(c, r, Len(Pieces(r.kind))) /\ client' = [client EXCEPT ![c] = "waiting"]
    BY <1>2 DEF Send
  <2> QED
    BY <2>1, <2>2, WriteStep
<1>3. CASE SendCut(c, r)
  <2>1. PICK n \in 0 .. (Len(Pieces(r.kind)) - 1) : Write(c, r, n)
    BY <1>3 DEF SendCut
  <2>2. n \in 0 .. Len(Pieces(r.kind))
    BY <1>1, <2>1
  <2>3. client' = [client EXCEPT ![c] = "closed"]
    BY <1>3 DEF SendCut
  <2> QED
    BY <2>1, <2>2, <2>3, WriteStep
<1> QED
  BY <1>2, <1>3

LEMMA ReceiveStep ==
    ASSUME IInv, NEW c \in Clients, Receive(c)
    PROVE  IInv'
<1>0. /\ client[c] = "waiting" /\ replies[c] # <<>>
      /\ client' = [client EXCEPT ![c] = "idle"]
      /\ heard' = [heard EXCEPT ![c] = Head(replies[c]).listing]
      /\ replies' = [replies EXCEPT ![c] = Tail(replies[c])]
      /\ UNCHANGED <<pc, fd, count, answer, should_stop, queue, ends, unread, req, sent, did,
                     applied>>
  BY DEF Receive, server
<1>1. TypeOK /\ QueueInv /\ (Serving => fd \in Clients) /\ \A d \in Clients : ClientInv(d)
  BY DEF IInv
<1>2. ~Pending(c) /\ ~(Busy /\ fd = c) /\ Len(replies[c]) = 1 /\ ends[c] \notin {"none", "queued"}
  BY <1>0, <1>1 DEF ClientInv, PendingInv, BusyInv, AnsweredInv, NewInv
<1>3. Serving' = Serving /\ Busy' = Busy /\ Listing' = Listing
  BY <1>0, ThreadStill
<1>4. replies[c] \in Seq(Answers) /\ Tail(replies[c]) = <<>> /\ Head(replies[c]) \in Answers
  <2>1. replies[c] \in Seq(Answers)
    BY <1>1 DEF TypeOK
  <2>2. ASSUME NEW q \in Seq(Answers), Len(q) = 1 PROVE Tail(q) = <<>> /\ Head(q) \in Answers
    <3>1. q # <<>> /\ q[1] \in Answers /\ Head(q) = q[1]
      BY <2>2
    <3>2. Tail(q) \in Seq(Answers) /\ Len(Tail(q)) = 0
      BY <2>2, <3>1
    <3>3. Tail(q) = <<>>
      BY <3>2, EmptySeq
    <3> QED
      BY <3>1, <3>3
  <2> QED
    BY <1>2, <2>1, <2>2
<1>5. TypeOK'
  <2>1. Head(replies[c]).listing \in (SUBSET Patches) \cup {NoListing}
    BY <1>4 DEF Answers
  <2>2. replies' \in [Clients -> Seq(Answers)]
    BY <1>0, <1>1, <1>4 DEF TypeOK
  <2> QED
    BY <1>0, <1>1, <2>1, <2>2 DEF TypeOK
<1>6. QueueInv'
  BY <1>0, <1>1 DEF QueueInv
<1>7. ASSUME NEW d \in Clients PROVE ClientInv(d)'
  <2>1. CASE d # c
    BY <1>0, <1>1, <2>1, Untouched DEF TypeOK
  <2>2. CASE d = c
    <3>1. /\ client'[c] = "idle" /\ did'[c] = did[c] /\ sent'[c] = sent[c]
          /\ replies'[c] = <<>> /\ ends'[c] = ends[c]
          /\ heard'[c] = Head(replies[c]).listing
      BY <1>0, <1>1, <1>4 DEF TypeOK
    <3>2. Single(c)' /\ ~Pending(c)'
      BY <1>0, <1>1, <1>2 DEF ClientInv, Single, Pending
    <3>3. PendingInv(c)'
      BY <3>2 DEF PendingInv
    <3>4. ServedInv(c)'
      BY <1>0, <1>1, <1>3, <3>1, <3>2 DEF ClientInv, ServedInv
    <3>5. ~(Busy' /\ fd' = c)
      BY <1>0, <1>2, <1>3
    <3>6. BusyInv(c)'
      BY <3>5 DEF BusyInv
    <3>7. FreshInv(c)'
      BY <1>0, <1>1, <1>3, <3>1, <3>5 DEF ClientInv, FreshInv, Busy
    <3>8. NewInv(c)' /\ AnsweredInv(c)'
      BY <1>1, <1>2, <3>1 DEF ClientInv, NewInv, AnsweredInv
    <3>9. ends'[c] = "left" => sent'[c] >= Limit
      BY <1>1, <3>1 DEF ClientInv
    <3> QED
      BY <2>2, <3>2, <3>3, <3>4, <3>6, <3>7, <3>8, <3>9 DEF ClientInv
  <2> QED
    BY <2>1, <2>2
<1> QED
  BY <1>0, <1>1, <1>3, <1>5, <1>6, <1>7 DEF IInv

LEMMA HangUpStep ==
    ASSUME IInv, NEW c \in Clients, HangUp(c)
    PROVE  IInv'
<1>0. /\ client[c] \in {"idle", "waiting"}
      /\ client' = [client EXCEPT ![c] = IF replies[c] = <<>> THEN "closed" ELSE "reset"]
      /\ replies' = [replies EXCEPT ![c] = <<>>]
      /\ UNCHANGED <<pc, fd, count, answer, should_stop, queue, ends, unread, req, sent, heard,
                     did, applied>>
  BY DEF HangUp, server
<1>1. TypeOK /\ QueueInv /\ (Serving => fd \in Clients) /\ \A d \in Clients : ClientInv(d)
  BY DEF IInv
<1>2. Serving' = Serving /\ Busy' = Busy /\ Listing' = Listing
  BY <1>0, ThreadStill
<1>3. TypeOK'
  BY <1>0, <1>1 DEF TypeOK
<1>4. QueueInv'
  BY <1>0, <1>1 DEF QueueInv
<1>5. ASSUME NEW d \in Clients PROVE ClientInv(d)'
  <2>1. CASE d # c
    BY <1>0, <1>1, <2>1, Untouched DEF TypeOK
  <2>2. CASE d = c
    <3>1. /\ client'[c] \in {"closed", "reset"} /\ did'[c] = did[c] /\ sent'[c] = sent[c]
          /\ replies'[c] = <<>> /\ ends'[c] = ends[c] /\ heard'[c] = heard[c] /\ req'[c] = req[c]
      BY <1>0, <1>1 DEF TypeOK
    <3>2. Single(c)' /\ (Pending(c)' <=> Pending(c))
      BY <1>0, <1>1 DEF ClientInv, Single, Pending
    <3>3. PendingInv(c)'
      BY <1>1, <3>1, <3>2 DEF ClientInv, PendingInv
    <3>4. ServedInv(c)'
      BY <1>0, <1>1, <1>2, <3>1, <3>2 DEF ClientInv, ServedInv
    <3>5. BusyInv(c)'
      BY <1>0, <1>1, <1>2, <3>1, <3>2 DEF ClientInv, BusyInv, Truthful
    <3>6. FreshInv(c)'
      BY <1>0, <1>1, <1>2, <3>1, <3>2 DEF ClientInv, FreshInv
    <3>7. NewInv(c)' /\ AnsweredInv(c)'
      BY <1>1, <3>1 DEF ClientInv, NewInv, AnsweredInv
    <3>8. ends'[c] = "left" => sent'[c] >= Limit
      BY <1>1, <3>1 DEF ClientInv
    <3> QED
      BY <2>2, <3>2, <3>3, <3>4, <3>5, <3>6, <3>7, <3>8 DEF ClientInv
  <2> QED
    BY <2>1, <2>2
<1> QED
  BY <1>0, <1>1, <1>2, <1>3, <1>4, <1>5 DEF IInv
-----------------------------------------------------------------------------
(* The steps of the thread. *)

\* What is known of the connection that is served.
LEMMA ServedFacts ==
    ASSUME IInv, Serving, NEW c \in Clients, c = fd
    PROVE  /\ ends[c] = "served"
           /\ client[c] # "new"
           /\ count \in Nat /\ sent[c] \in Nat /\ Limit \in Nat \ {0} /\ count <= sent[c]
           /\ Pending(c) => count + 1 <= sent[c]
           /\ unread[c] \in Seq(Piece)
           /\ req[c].kind \in AllKinds \cup {"none"}
           /\ req[c].patch \in Patches \cup {NoPatch}
           /\ req[c].kind \in {"apply", "undo"} => req[c].patch \in Patches
<1>1. TypeOK /\ ClientInv(c)
  BY DEF IInv
<1>2. ends[c] = "served" /\ count <= sent[c] /\ (Pending(c) => count + 1 <= sent[c])
  BY <1>1 DEF ClientInv, ServedInv
<1>3. client[c] # "new"
  BY <1>1, <1>2 DEF ClientInv, NewInv
<1>4. count \in Nat /\ sent[c] \in Nat /\ Limit \in Nat \ {0}
  BY <1>1, ConstantsAssumption DEF TypeOK
<1>5. unread[c] \in Seq(Piece)
  BY <1>1 DEF TypeOK, Piece
<1>6. /\ req[c].kind \in AllKinds \cup {"none"}
      /\ req[c].patch \in Patches \cup {NoPatch}
      /\ req[c].kind \in {"apply", "undo"} => req[c].patch \in Patches
  <2>1. req[c] \in Requests \/ req[c] = NoRequest
    BY <1>1 DEF TypeOK
  <2>2. CASE req[c] = NoRequest
    BY <2>2 DEF NoRequest
  <2>3. CASE req[c] \in Requests
    BY <2>3, ConstantsAssumption DEF Requests
  <2> QED
    BY <2>1, <2>2, <2>3
<1> QED
  BY <1>2, <1>3, <1>4, <1>5, <1>6

\* Only the connection that is served changes.
LEMMA OneServed ==
    ASSUME IInv, Serving, TypeOK', NEW c \in Clients, c = fd, fd' \in {fd, NoClient},
           Serving' => fd' = fd, queue' = queue, client' = client, req' = req, sent' = sent,
           heard' = heard,
           \A d \in Clients : d # c =>
              /\ unread'[d] = unread[d] /\ replies'[d] = replies[d]
              /\ did'[d] = did[d] /\ ends'[d] = ends[d],
           ClientInv(c)'
    PROVE  IInv'
<1>1. TypeOK /\ QueueInv /\ \A d \in Clients : ClientInv(d)
  BY DEF IInv
<1>2. ends[c] = "served"
  BY ServedFacts
<1>3. QueueInv'
  <2>1. ASSUME NEW i \in 1 .. Len(queue) PROVE ends'[queue[i]] = "queued"
    <3>1. queue \in Seq(Clients) /\ ends[queue[i]] = "queued"
      BY <1>1 DEF QueueInv, TypeOK
    <3>2. queue[i] \in Clients
      BY <3>1
    <3> QED
      BY <1>2, <3>1, <3>2
  <2> QED
    BY <1>1, <2>1 DEF QueueInv
<1>4. ASSUME NEW d \in Clients, d # c PROVE ClientInv(d)'
  <2>1. ~(Serving' /\ fd' = d)
    BY <1>4
  <2> QED
    BY <1>1, <1>4, <2>1, Bystander
<1>5. Serving' => fd' \in Clients
  OBVIOUS
<1> QED
  BY <1>3, <1>4, <1>5 DEF IInv

\* The thread has turned away from the connection.
LEMMA Released ==
    ASSUME NEW c \in Clients, ClientInv(c), ~(Serving' /\ fd' = c), client[c] # "new",
           ends'[c] \notin {"none", "queued"}, ends'[c] = "left" => sent[c] >= Limit,
           client' = client, sent' = sent, Single(c)', PendingInv(c)', AnsweredInv(c)'
    PROVE  ClientInv(c)'
<1>1. ServedInv(c)' /\ FreshInv(c)'
  BY DEF ServedInv, FreshInv
<1>2. BusyInv(c)'
  BY DEF BusyInv, Serving
<1>3. NewInv(c)' /\ (ends'[c] = "left" => sent'[c] >= Limit)
  BY DEF NewInv
<1> QED
  BY <1>1, <1>2, <1>3 DEF ClientInv

LEMMA AcceptStep ==
    ASSUME IInv, Accept, NEW c, c = Head(queue)
    PROVE  IInv'
<1>0. /\ pc = "accept" /\ queue # <<>> /\ fd' = c /\ queue' = Tail(queue)
      /\ ends' = [ends EXCEPT ![c] = "served"] /\ count' = 0 /\ pc' = "header"
      /\ UNCHANGED <<answer, should_stop, unread, replies, client, req, sent, heard, did, applied>>
  BY DEF Accept, clients
<1>1. TypeOK /\ QueueInv /\ \A d \in Clients : ClientInv(d)
  BY DEF IInv
<1>2. /\ queue \in Seq(Clients) /\ c = queue[1] /\ c \in Clients
      /\ Len(queue) \in Nat /\ 1 \in 1 .. Len(queue)
      /\ queue' \in Seq(Clients) /\ Len(queue') = Len(queue) - 1
      /\ \A i \in 1 .. Len(queue') : queue'[i] = queue[i + 1] /\ i + 1 \in 1 .. Len(queue)
  BY <1>0, <1>1 DEF TypeOK
<1>3. ends[c] = "queued"
  BY <1>1, <1>2 DEF QueueInv
<1>4. TypeOK'
  <2>1. count' \in 0 .. (Limit - 1)
    BY <1>0, ConstantsAssumption
  <2>2. ends' \in [Clients -> {"none", "queued", "served", "left", "closed"}]
    BY <1>0, <1>1 DEF TypeOK
  <2>3. /\ pc' \in {"accept", "header", "apply", "undo", "list", "getbld", "reply", "dead",
                    "stopped"}
        /\ fd' \in Clients \cup {NoClient} /\ queue' \in Seq(Clients)
    BY <1>0, <1>2
  <2>4. UNCHANGED <<answer, should_stop, unread, replies, client, req, sent, heard, did, applied>>
    BY <1>0
  <2> QED
    BY <1>1, <2>1, <2>2, <2>3, <2>4 DEF TypeOK
<1>5. QueueInv'
  <2>1. ends \in [Clients -> {"none", "queued", "served", "left", "closed"}]
    BY <1>1 DEF TypeOK
  <2>2. ASSUME NEW i \in 1 .. Len(queue') PROVE ends'[queue'[i]] = "queued"
    <3>1. queue[i + 1] # queue[1] /\ ends[queue[i + 1]] = "queued" /\ queue[i + 1] \in Clients
      BY <1>1, <1>2 DEF QueueInv
    <3> QED
      BY <1>0, <1>2, <2>1, <3>1
  <2>3. ASSUME NEW i \in 1 .. Len(queue'), NEW j \in 1 .. Len(queue'), queue'[i] = queue'[j]
        PROVE  i = j
    <3>1. i + 1 = j + 1
      BY <1>1, <1>2, <2>3 DEF QueueInv
    <3> QED
      BY <1>2, <3>1
  <2> QED
    BY <2>2, <2>3 DEF QueueInv
<1>6. ASSUME NEW d \in Clients PROVE ClientInv(d)'
  <2>1. CASE d # c
    <3>1. ~(Serving' /\ fd' = d) /\ ends'[d] = ends[d]
      BY <1>0, <1>1, <2>1 DEF TypeOK
    <3> QED
      BY <1>0, <1>1, <3>1, Bystander
  <2>2. CASE d = c
    <3>1. /\ ends'[c] = "served" /\ heard[c] = NoListing /\ replies[c] = <<>>
          /\ client[c] # "new" /\ sent[c] \in Nat
      BY <1>0, <1>1, <1>2, <1>3 DEF TypeOK, ClientInv, NewInv
    <3>2. Single(c)' /\ (Pending(c)' <=> Pending(c)) /\ PendingInv(c)'
      BY <1>0, <1>1, <1>2 DEF ClientInv, Single, Pending, PendingInv
    <3>3. ServedInv(c)'
      BY <1>0, <1>1, <1>2, <3>1, <3>2 DEF ClientInv, PendingInv, ServedInv
    <3>4. BusyInv(c)' /\ ~Busy'
      BY <1>0 DEF BusyInv, Busy
    <3>5. FreshInv(c)'
      BY <1>0, <3>1, <3>4 DEF FreshInv
    <3>6. NewInv(c)' /\ AnsweredInv(c)' /\ (ends'[c] = "left" => sent'[c] >= Limit)
      BY <1>0, <1>1, <1>2, <3>1 DEF NewInv, ClientInv, AnsweredInv
    <3> QED
      BY <2>2, <3>2, <3>3, <3>4, <3>5, <3>6 DEF ClientInv
  <2> QED
    BY <2>1, <2>2
<1>7. Serving' => fd' \in Clients
  BY <1>0, <1>2
<1> QED
  BY <1>4, <1>5, <1>6, <1>7 DEF IInv

LEMMA ReadEndStep ==
    ASSUME IInv, ReadEnd, NEW c, c = fd
    PROVE  IInv'
<1>0. /\ pc = "header" /\ client[c] = "closed"
      /\ unread' = [unread EXCEPT ![c] = <<>>]
      /\ pc' \in {"stopped", "accept"} /\ fd' = NoClient /\ count' = 0
      /\ ends' = [ends EXCEPT ![c] = "closed"]
      /\ UNCHANGED <<answer, should_stop, queue, replies, client, req, sent, heard, did, applied>>
  BY DEF ReadEnd, EndSession, clients
<1>1. Serving /\ ~Serving'
  BY <1>0 DEF Serving, Busy
<1>2. TypeOK /\ c \in Clients /\ ClientInv(c)
  BY <1>1 DEF IInv
<1>3. TypeOK'
  BY <1>0, <1>2, ConstantsAssumption DEF TypeOK
<1>4. unread'[c] = <<>> /\ ends'[c] = "closed" /\ c = fd
  BY <1>0, <1>2 DEF TypeOK
<1>5. \A d \in Clients : d # c =>
         /\ unread'[d] = unread[d] /\ replies'[d] = replies[d]
         /\ did'[d] = did[d] /\ ends'[d] = ends[d]
  BY <1>0, <1>2 DEF TypeOK
<1>6. Single(c)' /\ PendingInv(c)'
  BY <1>4 DEF Single, PendingInv, Pending
<1>7. AnsweredInv(c)'
  BY <1>0, <1>2 DEF ClientInv, AnsweredInv, Truthful
<1>8. ClientInv(c)'
  BY <1>0, <1>1, <1>2, <1>4, <1>6, <1>7, Released
<1> QED
  BY <1>0, <1>1, <1>2, <1>3, <1>4, <1>5, <1>8, OneServed

\* The thread returns, having read nothing or part of the stream.
LEMMA DieStep ==
    ASSUME IInv, Serving, NEW c \in Clients, c = fd, Die,
           UNCHANGED <<answer, should_stop, queue, clients, did, applied, replies>>,
           \/ unread' = unread
           \/ unread[c] # <<>> /\ unread' = [unread EXCEPT ![c] = Tail(unread[c])],
           ends' = ends \/ ends' = [ends EXCEPT ![c] = "closed"]
    PROVE  IInv'
<1>0. /\ pc' = "dead" /\ fd' = fd /\ count' = count
      /\ UNCHANGED <<answer, should_stop, queue, replies, client, req, sent, heard, did, applied>>
  BY DEF Die, clients
<1>1. ~Serving'
  BY <1>0 DEF Serving, Busy
<1>2. TypeOK /\ ClientInv(c)
  BY DEF IInv
<1>3. ends[c] = "served" /\ client[c] # "new" /\ unread[c] \in Seq(Piece)
  BY ServedFacts
<1>4. /\ \A i, j \in 1 .. Len(unread[c]) : unread[c][i] = "hdr" /\ unread[c][j] = "hdr" => i = j
      /\ Pending(c) => PendingInv(c) /\ client[c] \in {"waiting", "closed", "reset"}
  BY <1>2 DEF ClientInv, Single, PendingInv
<1>5. Single(c)' /\ (Pending(c)' => Pending(c)) /\ unread' \in [Clients -> Seq(Piece)]
  <2>1. CASE unread' = unread
    BY <1>2, <2>1 DEF ClientInv, Single, Pending, TypeOK, Piece
  <2>2. CASE unread[c] # <<>> /\ unread' = [unread EXCEPT ![c] = Tail(unread[c])]
    <3>1. unread'[c] = Tail(unread[c]) /\ unread \in [Clients -> Seq(Piece)]
      BY <1>2, <2>2 DEF TypeOK, Piece
    <3>2. LET t == Tail(unread[c])
          IN  /\ t \in Seq(Piece)
              /\ \A i, j \in 1 .. Len(t) : t[i] = "hdr" /\ t[j] = "hdr" => i = j
              /\ (\E i \in 1 .. Len(t) : t[i] = "hdr") =>
                    \E i \in 1 .. Len(unread[c]) : unread[c][i] = "hdr"
      BY <1>3, <1>4, <2>2, TailFacts
    <3>3. Single(c)' /\ (Pending(c)' => Pending(c))
      BY <3>1, <3>2 DEF Single, Pending
    <3> QED
      BY <2>2, <3>1, <3>2, <3>3
  <2> QED
    BY <2>1, <2>2
<1>6. TypeOK'
  <2>1. unread' \in [Clients -> Seq({"hdr", "body", "sha", "pad"})]
    BY <1>5 DEF Piece
  <2>2. ends' \in [Clients -> {"none", "queued", "served", "left", "closed"}]
    BY <1>2 DEF TypeOK
  <2> QED
    BY <1>0, <1>2, <2>1, <2>2 DEF TypeOK
<1>7. PendingInv(c)' /\ AnsweredInv(c)'
  BY <1>0, <1>2, <1>5 DEF ClientInv, PendingInv, AnsweredInv, Truthful
<1>8. ends'[c] \in {"served", "closed"}
  BY <1>2, <1>3 DEF TypeOK
<1>9. ClientInv(c)'
  BY <1>0, <1>1, <1>2, <1>3, <1>5, <1>7, <1>8, Released
<1>10. \A d \in Clients : d # c =>
         /\ unread'[d] = unread[d] /\ replies'[d] = replies[d]
         /\ did'[d] = did[d] /\ ends'[d] = ends[d]
  BY <1>0, <1>2 DEF TypeOK
<1> QED
  BY <1>0, <1>1, <1>6, <1>9, <1>10, OneServed

\* What the request that is worked on, or is in front of the thread, may rely on.
LEMMA AtWorkFacts ==
    ASSUME IInv, NEW c \in Clients, c = fd,
           Busy \/ (pc = "header" /\ unread[c] # <<>> /\ Head(unread[c]) = "hdr")
    PROVE  /\ client[c] \in {"waiting", "closed", "reset"}
           /\ replies[c] = <<>>
           /\ count + 1 <= sent[c]
           /\ pc # "reply" => did[c] = 0 /\ heard[c] \in {NoListing, Listing}
           /\ Busy => ~Pending(c)
           /\ unread[c] # <<>> =>
                 /\ ~(\E i \in 1 .. Len(Tail(unread[c])) : Tail(unread[c])[i] = "hdr")
                 /\ Tail(unread[c]) \in Seq(Piece)
<1>1. ClientInv(c) /\ Serving /\ unread[c] \in Seq(Piece)
  BY ServedFacts DEF IInv, Serving
<1>2. \A i, j \in 1 .. Len(unread[c]) : unread[c][i] = "hdr" /\ unread[c][j] = "hdr" => i = j
  BY <1>1 DEF ClientInv, Single
<1>3. ASSUME unread[c] # <<>>
      PROVE  /\ Tail(unread[c]) \in Seq(Piece)
             /\ (\E i \in 1 .. Len(Tail(unread[c])) : Tail(unread[c])[i] = "hdr") =>
                   unread[c][1] # "hdr" /\ Pending(c)
             /\ Head(unread[c]) = unread[c][1] /\ 1 \in 1 .. Len(unread[c])
  <2>1. LET t == Tail(unread[c])
        IN  /\ t \in Seq(Piece)
            /\ (\E i \in 1 .. Len(t) : t[i] = "hdr") =>
                  unread[c][1] # "hdr" /\ \E i \in 1 .. Len(unread[c]) : unread[c][i] = "hdr"
    BY <1>1, <1>2, <1>3, TailFacts
  <2>2. Head(unread[c]) = unread[c][1] /\ 1 \in 1 .. Len(unread[c])
    BY <1>1, <1>3
  <2> QED
    BY <2>1, <2>2 DEF Pending
<1>4. CASE Busy
  <2>1. /\ client[c] \in {"waiting", "closed", "reset"} /\ replies[c] = <<>>
        /\ ~Pending(c) /\ count + 1 <= sent[c] /\ (pc # "reply" => did[c] = 0)
    BY <1>1, <1>4 DEF ClientInv, BusyInv
  <2>2. pc # "reply" => heard[c] \in {NoListing, Listing}
    BY <1>1, <1>4 DEF ClientInv, FreshInv
  <2> QED
    BY <1>3, <2>1, <2>2
<1>5. CASE pc = "header" /\ unread[c] # <<>> /\ Head(unread[c]) = "hdr"
  <2>1. Pending(c) /\ ~Busy
    BY <1>3, <1>5 DEF Pending, Busy
  <2>2. client[c] \in {"waiting", "closed", "reset"} /\ replies[c] = <<>> /\ did[c] = 0
    BY <1>1, <2>1 DEF ClientInv, PendingInv
  <2>3. count + 1 <= sent[c] /\ heard[c] \in {NoListing, Listing}
    BY <1>1, <2>1 DEF ClientInv, ServedInv, FreshInv
  <2> QED
    BY <1>3, <1>5, <2>1, <2>2, <2>3
<1> QED
  BY <1>4, <1>5

\* The request is taken up, or has been carried out and is about to be answered.
LEMMA Took ==
    ASSUME IInv, NEW c \in Clients, c = fd,
           Busy \/ (pc = "header" /\ unread[c] # <<>> /\ Head(unread[c]) = "hdr"),
           pc # "reply", pc' \in {"apply", "undo", "list", "getbld", "reply"},
           UNCHANGED <<fd, count, should_stop, queue, ends, replies, clients>>,
           \/ unread' = unread /\ Busy
           \/ unread[c] # <<>> /\ unread' = [unread EXCEPT ![c] = Tail(unread[c])],
           did' = did \/ did' = [did EXCEPT ![c] = did[c] + 1],
           answer' \in Answers, applied' \in [Patches -> Nat],
           pc' # "reply" => did' = did /\ applied' = applied /\ req[c].kind = pc',
           pc' = "reply" => Truthful(answer, c)' /\ answer'.listing \in {NoListing, Listing'}
    PROVE  IInv'
<1>0. UNCHANGED <<fd, count, should_stop, queue, ends, replies, client, req, sent, heard>>
  BY DEF clients
<1>1. Busy' /\ Serving' /\ Serving
  BY DEF Serving, Busy
<1>2. TypeOK /\ ClientInv(c)
  BY DEF IInv
<1>3. /\ client[c] \in {"waiting", "closed", "reset"} /\ replies[c] = <<>>
      /\ count + 1 <= sent[c] /\ did[c] = 0 /\ heard[c] \in {NoListing, Listing}
      /\ Busy => ~Pending(c)
      /\ unread[c] # <<>> =>
            /\ ~(\E i \in 1 .. Len(Tail(unread[c])) : Tail(unread[c])[i] = "hdr")
            /\ Tail(unread[c]) \in Seq(Piece)
  BY AtWorkFacts
<1>4. ends[c] = "served" /\ count \in Nat /\ sent[c] \in Nat /\ Limit \in Nat
  BY <1>1, ServedFacts
<1>5. unread' \in [Clients -> Seq(Piece)] /\ ~Pending(c)'
  <2>1. unread \in [Clients -> Seq(Piece)]
    BY <1>2 DEF TypeOK, Piece
  <2>2. CASE unread' = unread /\ Busy
    BY <1>3, <2>1, <2>2 DEF Pending
  <2>3. CASE unread[c] # <<>> /\ unread' = [unread EXCEPT ![c] = Tail(unread[c])]
    <3>1. unread'[c] = Tail(unread[c])
      BY <2>1, <2>3
    <3> QED
      BY <1>3, <2>1, <2>3, <3>1 DEF Pending
  <2> QED
    BY <2>2, <2>3
<1>6. did' \in [Clients -> Nat] /\ did'[c] <= 1
  <2>1. did \in [Clients -> Nat]
    BY <1>2 DEF TypeOK
  <2>2. CASE did' = did
    BY <1>3, <2>1, <2>2
  <2>3. CASE did' = [did EXCEPT ![c] = did[c] + 1]
    BY <1>3, <2>1, <2>3
  <2> QED
    BY <2>2, <2>3
<1>7. TypeOK'
  <2>1. unread' \in [Clients -> Seq({"hdr", "body", "sha", "pad"})]
    BY <1>5 DEF Piece
  <2> QED
    BY <1>0, <1>2, <1>6, <2>1 DEF TypeOK
<1>8. \A d \in Clients : d # c =>
         /\ unread'[d] = unread[d] /\ replies'[d] = replies[d]
         /\ did'[d] = did[d] /\ ends'[d] = ends[d]
  BY <1>0, <1>2 DEF TypeOK
<1>9. ClientInv(c)'
  <2>1. Single(c)' /\ PendingInv(c)'
    BY <1>5 DEF Single, Pending, PendingInv
  <2>2. ServedInv(c)'
    BY <1>0, <1>3, <1>4, <1>5 DEF ServedInv
  <2>3. BusyInv(c)'
    BY <1>0, <1>3, <1>5 DEF BusyInv
  <2>4. pc' # "reply" => Listing' = Listing
    BY DEF Listing
  <2>5. FreshInv(c)'
    BY <1>0, <1>3, <1>5, <2>4 DEF FreshInv
  <2>6. NewInv(c)' /\ AnsweredInv(c)' /\ (ends'[c] = "left" => sent'[c] >= Limit)
    BY <1>0, <1>3, <1>4, <1>6 DEF NewInv, AnsweredInv
  <2> QED
    BY <2>1, <2>2, <2>3, <2>5, <2>6 DEF ClientInv
<1> QED
  BY <1>0, <1>1, <1>7, <1>8, <1>9, OneServed

\* The replies are well formed.
LEMMA AnswerFacts ==
    ASSUME IInv, Serving, NEW c \in Clients, c = fd, NEW code \in Codes,
           NEW listing \in (SUBSET Patches) \cup {NoListing}, Answer(code, listing)
    PROVE  /\ answer' \in Answers
           /\ answer'.kind = req[c].kind /\ answer'.patch = req[c].patch
           /\ answer'.code = code /\ answer'.listing = listing
<1>1. req[c].kind \in AllKinds \cup {"none"} /\ req[c].patch \in Patches \cup {NoPatch}
  BY ServedFacts
<1>2. answer' = [kind |-> req[c].kind, patch |-> req[c].patch, code |-> code, listing |-> listing]
  BY DEF Answer
<1> QED
  BY <1>1, <1>2 DEF Answers

LEMMA ReadHeaderStep ==
    ASSUME IInv, ReadHeader, NEW c \in Clients, c = fd
    PROVE  IInv'
<1>0. /\ pc = "header" /\ unread[c] # <<>> /\ Head(unread[c]) = "hdr"
      /\ unread' = [unread EXCEPT ![c] = Tail(unread[c])]
      /\ UNCHANGED <<should_stop, queue, replies, clients, did, applied>>
  BY DEF ReadHeader
<1>1. Serving /\ TypeOK
  BY <1>0 DEF Serving, IInv
<1>2. did[c] = 0
  BY <1>0, AtWorkFacts
<1>3. answer \in Answers /\ applied' \in [Patches -> Nat]
  BY <1>0, <1>1 DEF TypeOK
<1>4. CASE /\ req[c].kind \in {"apply", "undo", "list", "getbld"}
           /\ pc' = req[c].kind
           /\ UNCHANGED <<fd, count, answer, ends>>
  BY <1>0, <1>3, <1>4, Took
<1>5. CASE /\ req[c].kind = "undo20"
           /\ pc' = "reply"
           /\ Answer("ERR_PARSE", NoListing)
           /\ UNCHANGED <<fd, count, ends>>
  <2>1. "ERR_PARSE" \in Codes /\ NoListing \in (SUBSET Patches) \cup {NoListing}
    BY DEF Codes
  <2>2. /\ answer' \in Answers
        /\ answer'.kind = req[c].kind /\ answer'.patch = req[c].patch
        /\ answer'.code = "ERR_PARSE" /\ answer'.listing = NoListing
    BY <1>1, <1>5, <2>1, AnswerFacts
  <2>3. Truthful(answer, c)'
    BY <1>0, <1>2, <2>2 DEF Truthful, clients
  <2> QED
    BY <1>0, <1>3, <1>5, <2>2, <2>3, Took
<1>6. CASE req[c].kind = "bad" /\ Die /\ UNCHANGED <<answer, ends>>
  BY <1>0, <1>1, <1>6, DieStep
<1>7. CASE /\ req[c].kind = "noid" /\ Die /\ ends' = [ends EXCEPT ![c] = "closed"]
           /\ UNCHANGED answer
  BY <1>0, <1>1, <1>7, DieStep
<1> QED
  BY <1>4, <1>5, <1>6, <1>7 DEF ReadHeader

LEMMA DispatchApplyStep ==
    ASSUME IInv, NEW outcome, DispatchApply(outcome), NEW c \in Clients, c = fd
    PROVE  IInv'
<1> DEFINE code == IF outcome = "dropped" THEN "OK" ELSE outcome
<1>0. /\ pc = "apply" /\ unread[c] # <<>> /\ outcome \in Outcomes[req[c].patch]
      /\ unread' = [unread EXCEPT ![c] = Tail(unread[c])]
      /\ IF outcome = "OK"
         THEN /\ applied' = [applied EXCEPT ![req[c].patch] = applied[req[c].patch] + 1]
              /\ did' = [did EXCEPT ![c] = did[c] + 1]
         ELSE UNCHANGED <<applied, did>>
      /\ Answer(code, NoListing) /\ pc' = "reply"
      /\ UNCHANGED <<fd, count, should_stop, queue, ends, replies, clients>>
  BY DEF DispatchApply
<1>1. Serving /\ Busy /\ TypeOK /\ ClientInv(c)
  BY <1>0 DEF Serving, Busy, IInv
<1>2. did[c] = 0 /\ req[c].kind = "apply"
  BY <1>0, <1>1 DEF ClientInv, BusyInv
<1>3. req[c].patch \in Patches
  BY <1>1, <1>2, ServedFacts
<1>4. outcome \in {"OK", "dropped", "ERR_INVALID", "ERR_NOMEM"} /\ code \in Codes
  BY <1>0, <1>3, ConstantsAssumption DEF Codes
<1>5. NoneDropped => outcome # "dropped"
  BY <1>0, <1>3 DEF NoneDropped
<1>6. /\ answer' \in Answers
      /\ answer'.kind = req[c].kind /\ answer'.patch = req[c].patch
      /\ answer'.code = code /\ answer'.listing = NoListing
  BY <1>0, <1>1, <1>4, AnswerFacts
<1>7. did'[c] = IF outcome = "OK" THEN 1 ELSE 0
  BY <1>0, <1>1, <1>2 DEF TypeOK
<1>8. Truthful(answer, c)'
  <2>1. req' = req
    BY <1>0 DEF clients
  <2> QED
    BY <1>2, <1>5, <1>6, <1>7, <2>1 DEF Truthful
<1>9. applied' \in [Patches -> Nat]
  BY <1>0, <1>1 DEF TypeOK
<1> QED
  BY <1>0, <1>1, <1>6, <1>8, <1>9, Took

LEMMA DispatchUndoStep ==
    ASSUME IInv, DispatchUndo, NEW c \in Clients, c = fd
    PROVE  IInv'
<1>0. /\ pc = "undo" /\ unread[c] # <<>>
      /\ unread' = [unread EXCEPT ![c] = Tail(unread[c])]
      /\ IF req[c].patch \in Listing
         THEN /\ applied' = [applied EXCEPT ![req[c].patch] = applied[req[c].patch] - 1]
              /\ did' = [did EXCEPT ![c] = did[c] + 1]
              /\ Answer("OK", NoListing)
         ELSE Answer("ENOENT", NoListing) /\ UNCHANGED <<applied, did>>
      /\ pc' = "reply"
      /\ UNCHANGED <<fd, count, should_stop, queue, ends, replies, clients>>
  BY DEF DispatchUndo
<1>1. Serving /\ Busy /\ TypeOK /\ ClientInv(c)
  BY <1>0 DEF Serving, Busy, IInv
<1>2. did[c] = 0 /\ req[c].kind = "undo"
  BY <1>0, <1>1 DEF ClientInv, BusyInv
<1>3. PICK code \in {"OK", "ENOENT"} :
         /\ code = "OK" <=> req[c].patch \in Listing
         /\ Answer(code, NoListing)
  BY <1>0
<1>4. /\ answer' \in Answers
      /\ answer'.kind = req[c].kind /\ answer'.patch = req[c].patch
      /\ answer'.code = code /\ answer'.listing = NoListing
  BY <1>1, <1>3, AnswerFacts DEF Codes
<1>5. did'[c] = IF req[c].patch \in Listing THEN 1 ELSE 0
  BY <1>0, <1>1, <1>2 DEF TypeOK
<1>6. Truthful(answer, c)'
  <2>1. req' = req
    BY <1>0 DEF clients
  <2> QED
    BY <1>2, <1>3, <1>4, <1>5, <2>1 DEF Truthful
<1>7. applied' \in [Patches -> Nat]
  <2>1. applied \in [Patches -> Nat]
    BY <1>1 DEF TypeOK
  <2>2. CASE req[c].patch \in Listing
    <3>1. req[c].patch \in Patches /\ applied[req[c].patch] - 1 \in Nat
      BY <2>1, <2>2 DEF Listing
    <3> QED
      BY <1>0, <2>1, <2>2, <3>1
  <2> QED
    BY <1>0, <2>1, <2>2
<1> QED
  BY <1>0, <1>1, <1>4, <1>6, <1>7, Took

\* ReadShort, DispatchList and DispatchGetbld: an answer, and nothing done.
LEMMA AnswerStep ==
    ASSUME IInv, NEW c \in Clients, c = fd, pc \in {"apply", "undo", "list", "getbld"},
           NEW code \in Codes, NEW listing \in {NoListing, Listing}, Answer(code, listing),
           code # "OK" \/ pc \in {"list", "getbld"}, pc' = "reply",
           UNCHANGED <<fd, count, should_stop, queue, ends, unread, replies, clients, did, applied>>
    PROVE  IInv'
<1>1. Serving /\ Busy /\ TypeOK /\ ClientInv(c)
  BY DEF Serving, Busy, IInv
<1>2. did[c] = 0 /\ req[c].kind = pc
  BY <1>1 DEF ClientInv, BusyInv
<1>3. listing \in (SUBSET Patches) \cup {NoListing}
  BY DEF Listing
<1>4. /\ answer' \in Answers
      /\ answer'.kind = req[c].kind /\ answer'.patch = req[c].patch
      /\ answer'.code = code /\ answer'.listing = listing
  BY <1>1, <1>3, AnswerFacts
<1>5. Truthful(answer, c)'
  BY <1>2, <1>4 DEF Truthful, clients
<1>6. applied' \in [Patches -> Nat] /\ Listing' = Listing
  BY <1>1 DEF TypeOK, Listing
<1> QED
  BY <1>1, <1>4, <1>5, <1>6, Took

LEMMA ReplyStep ==
    ASSUME IInv, Reply, NEW c \in Clients, c = fd
    PROVE  IInv'
<1>0. /\ pc = "reply"
      /\ replies' = IF Gone(c) THEN replies
                    ELSE [replies EXCEPT ![c] = Append(replies[c], answer)]
      /\ IF Negative THEN Die /\ UNCHANGED ends ELSE EndMessage
      /\ UNCHANGED <<answer, should_stop, queue, unread, client, req, sent, heard, did, applied>>
  BY DEF Reply, clients
<1>1. Serving /\ Busy /\ TypeOK /\ ClientInv(c)
  BY <1>0 DEF Serving, Busy, IInv
<1>2. /\ client[c] \in {"waiting", "closed", "reset"} /\ replies[c] = <<>>
      /\ ~Pending(c) /\ count + 1 <= sent[c] /\ Truthful(answer, c)
      /\ answer.listing \in {NoListing, Listing} /\ did[c] <= 1
  BY <1>0, <1>1 DEF ClientInv, BusyInv, FreshInv, AnsweredInv
<1>3. /\ ends[c] = "served" /\ count \in Nat /\ sent[c] \in Nat /\ Limit \in Nat \ {0}
  BY <1>1, ServedFacts
<1>4. /\ \/ /\ pc' = "header" /\ count' = count + 1 /\ fd' = fd /\ ends' = ends
            /\ count + 1 < Limit
         \/ /\ pc' = "dead" /\ count' = count /\ fd' = fd /\ ends' = ends
         \/ /\ pc' \in {"accept", "stopped"} /\ count' = 0 /\ fd' = NoClient
            /\ \E end \in {"closed", "left"} : ends' = [ends EXCEPT ![c] = end]
            /\ count + 1 >= Limit
  BY <1>0, <1>3 DEF Die, EndMessage, EndSession
<1>5. /\ Head(<<answer>>) = answer /\ Len(<<answer>>) = 1
      /\ replies'[c] = <<>> \/ (client[c] = "waiting" /\ replies'[c] = <<answer>>)
      /\ replies' \in [Clients -> Seq(Answers)]
  <2>1. replies \in [Clients -> Seq(Answers)] /\ answer \in Answers
    BY <1>1 DEF TypeOK
  <2>2. CASE Gone(c)
    BY <1>0, <1>2, <2>1, <2>2
  <2>3. CASE ~Gone(c)
    <3>1. client[c] = "waiting" /\ replies' = [replies EXCEPT ![c] = <<answer>>]
      BY <1>0, <1>2, <2>3 DEF Gone
    <3> QED
      BY <2>1, <3>1
  <2> QED
    BY <2>2, <2>3
<1>6. TypeOK'
  <2>1. count' \in 0 .. (Limit - 1)
    BY <1>1, <1>3, <1>4 DEF TypeOK
  <2>2. ends' \in [Clients -> {"none", "queued", "served", "left", "closed"}]
    BY <1>1, <1>4 DEF TypeOK
  <2>3. /\ pc' \in {"accept", "header", "apply", "undo", "list", "getbld", "reply", "dead",
                    "stopped"}
        /\ fd' \in Clients \cup {NoClient}
    BY <1>1, <1>4 DEF TypeOK
  <2> QED
    BY <1>0, <1>1, <1>5, <2>1, <2>2, <2>3 DEF TypeOK
<1>7. \A d \in Clients : d # c =>
         /\ unread'[d] = unread[d] /\ replies'[d] = replies[d]
         /\ did'[d] = did[d] /\ ends'[d] = ends[d]
  BY <1>0, <1>1, <1>4 DEF TypeOK
<1>8. ~Pending(c)' /\ Single(c)' /\ PendingInv(c)'
  BY <1>0, <1>1, <1>2 DEF Pending, ClientInv, Single, PendingInv
<1>9. AnsweredInv(c)'
  <2>1. Truthful(answer, c)' /\ did'[c] <= 1 /\ client' = client
    BY <1>0, <1>2 DEF Truthful
  <2> QED
    BY <1>0, <1>5, <2>1 DEF AnsweredInv, Truthful
<1>10. ClientInv(c)'
  <2>1. CASE Serving'
    <3>1. pc' = "header" /\ count' = count + 1 /\ fd' = fd /\ ends' = ends
      BY <1>4, <2>1 DEF Serving, Busy
    <3>2. ~Busy'
      BY <3>1 DEF Busy
    <3>3. ServedInv(c)'
      BY <1>0, <1>2, <1>3, <1>8, <3>1 DEF ServedInv
    <3>4. BusyInv(c)'
      BY <3>2 DEF BusyInv
    <3>5. Listing' = Listing
      BY <1>0 DEF Listing
    <3>6. FreshInv(c)'
      BY <1>0, <1>2, <1>5, <1>8, <3>1, <3>2, <3>5 DEF FreshInv
    <3>7. NewInv(c)' /\ (ends'[c] = "left" => sent'[c] >= Limit)
      BY <1>0, <1>2, <1>3, <3>1 DEF NewInv
    <3> QED
      BY <1>8, <1>9, <3>3, <3>4, <3>6, <3>7 DEF ClientInv
  <2>2. CASE ~Serving'
    <3>1. ends'[c] \in {"served", "closed", "left"}
      BY <1>1, <1>3, <1>4 DEF TypeOK
    <3>2. ends'[c] = "left" => sent[c] >= Limit
      BY <1>1, <1>2, <1>3, <1>4 DEF TypeOK
    <3> QED
      BY <1>0, <1>1, <1>2, <1>8, <1>9, <2>2, <3>1, <3>2, Released
  <2> QED
    BY <2>1, <2>2
<1>11. fd' \in {fd, NoClient} /\ (Serving' => fd' = fd)
  BY <1>4 DEF Serving, Busy
<1> QED
  BY <1>0, <1>1, <1>6, <1>7, <1>10, <1>11, OneServed
-----------------------------------------------------------------------------
LEMMA ServeStep ==
    ASSUME IInv, Serve
    PROVE  IInv'
<1>1. CASE Accept
  BY <1>1, AcceptStep
<1>2. CASE ~Accept
  <2>1. pc \in {"header", "apply", "undo", "list", "getbld", "reply"}
    BY <1>2 DEF Serve, ReadEnd, ReadReset, ReadMisaligned, ReadHeader, DispatchApply, DispatchUndo,
      ReadShort, DispatchList, ListFails, DispatchGetbld, Reply
  <2>2. Serving /\ fd \in Clients
    BY <2>1 DEF IInv, Serving, Busy
  <2>3. PICK c \in Clients : c = fd
    BY <2>2
  <2>4. CASE ReadEnd
    BY <2>3, <2>4, ReadEndStep
  <2>5. CASE ReadReset \/ ReadMisaligned \/ ListFails
    <3>1. /\ Die /\ UNCHANGED <<answer, should_stop, queue, clients, did, applied, replies>>
          /\ unread' = unread /\ ends' = ends
      BY <2>5 DEF ReadReset, ReadMisaligned, ListFails
    <3> QED
      BY <2>2, <2>3, <3>1, DieStep
  <2>6. CASE ReadHeader
    BY <2>3, <2>6, ReadHeaderStep
  <2>7. ASSUME NEW outcome, DispatchApply(outcome) PROVE IInv'
    BY <2>3, <2>7, DispatchApplyStep
  <2>8. CASE DispatchUndo
    BY <2>3, <2>8, DispatchUndoStep
  <2>9. CASE ReadShort
    <3>1. "ERR_RW" \in Codes /\ "ERR_RW" # "OK"
      BY DEF Codes
    <3>2. /\ pc \in {"apply", "undo"} /\ Answer("ERR_RW", NoListing) /\ pc' = "reply"
          /\ UNCHANGED <<fd, count, should_stop, queue, ends, unread, replies, clients, did,
                         applied>>
      BY <2>9 DEF ReadShort
    <3> QED
      BY <2>3, <3>1, <3>2, AnswerStep
  <2>10. CASE DispatchList \/ DispatchGetbld
    <3>1. PICK listing \in {NoListing, Listing} : Answer("OK", listing)
      BY <2>10 DEF DispatchList, DispatchGetbld
    <3>2. /\ pc \in {"list", "getbld"} /\ pc' = "reply" /\ "OK" \in Codes
          /\ UNCHANGED <<fd, count, should_stop, queue, ends, unread, replies, clients, did,
                         applied>>
      BY <2>10 DEF DispatchList, DispatchGetbld, Codes
    <3> QED
      BY <2>3, <3>1, <3>2, AnswerStep
  <2>11. CASE Reply
    BY <2>3, <2>11, ReplyStep
  <2> QED
    BY <1>2, <2>4, <2>5, <2>6, <2>7, <2>8, <2>9, <2>10, <2>11 DEF Serve
<1> QED
  BY <1>1, <1>2

\* Nothing but should_stop changes.
LEMMA StopStep ==
    ASSUME IInv, should_stop' \in BOOLEAN,
           UNCHANGED <<pc, fd, count, answer, queue, ends, unread, replies, clients, did, applied>>
    PROVE  IInv'
<1>0. UNCHANGED <<pc, fd, count, answer, queue, ends, unread, replies, client, req, sent, heard,
                  did, applied>>
  BY DEF clients
<1>1. TypeOK'
  BY <1>0 DEF IInv, TypeOK
<1>2. \A d \in Clients : ClientInv(d)'
  BY <1>0, Untouched DEF IInv
<1>3. QueueInv' /\ (Serving' => fd' \in Clients)
  BY <1>0 DEF IInv, QueueInv, Serving, Busy
<1> QED
  BY <1>1, <1>2, <1>3 DEF IInv

LEMMA StepIInv == IInv /\ [Next]_vars => IInv'
<1> SUFFICES ASSUME IInv, [Next]_vars PROVE IInv'
  OBVIOUS
<1>1. CASE UNCHANGED vars
  <2>1. /\ UNCHANGED <<pc, fd, count, answer, queue, ends, unread, replies, clients, did, applied>>
        /\ should_stop' \in BOOLEAN
    BY <1>1 DEF vars, server, IInv, TypeOK
  <2> QED
    BY <2>1, StopStep
<1>2. CASE Serve
  BY <1>2, ServeStep
<1>3. CASE Stop
  <2>1. /\ UNCHANGED <<pc, fd, count, answer, queue, ends, unread, replies, clients, did, applied>>
        /\ should_stop' \in BOOLEAN
    BY <1>3 DEF Stop
  <2> QED
    BY <2>1, StopStep
<1>4. ASSUME NEW c \in Clients, Connect(c) PROVE IInv'
  BY <1>4, ConnectStep
<1>5. ASSUME NEW c \in Clients, NEW r \in Requests, Send(c, r) \/ SendCut(c, r) PROVE IInv'
  BY <1>5, SendStep
<1>6. ASSUME NEW c \in Clients, Receive(c) PROVE IInv'
  BY <1>6, ReceiveStep
<1>7. ASSUME NEW c \in Clients, HangUp(c) PROVE IInv'
  BY <1>7, HangUpStep
<1> QED
  BY <1>1, <1>2, <1>3, <1>4, <1>5, <1>6, <1>7 DEF Next

THEOREM Invariance == Spec => []IInv
<1>1. Init => IInv
  BY InitIInv
<1>2. IInv /\ [Next]_vars => IInv'
  BY StepIInv
<1> QED
  BY <1>1, <1>2, PTL DEF Spec

\* The state of the thread, the connections and the clients has its types.
THEOREM TypeCorrect == Spec => []TypeOK
<1>1. IInv => TypeOK
  BY DEF IInv
<1> QED
  BY <1>1, Invariance, PTL

\* However the requests of the clients are cut short or misread, every reply a
\* client finds belongs to its request and says truly whether the patches were
\* changed, provided that xenlp_apply4 does not report OK for a patch it dropped.
THEOREM AnswersTrue == NoneDropped => (Spec => []AnswersTellTruth)
<1> SUFFICES ASSUME NoneDropped PROVE Spec => []AnswersTellTruth
  OBVIOUS
<1>1. IInv => AnswersTellTruth
  BY DEF IInv, ClientInv, AnsweredInv, Truthful, AnswersTellTruth
<1> QED
  BY <1>1, Invariance, PTL

\* A connection is given up by the server only after Limit requests of its client.
THEOREM LeftAtLimit == Spec => []LeftOnlyAtLimit
<1>1. IInv => LeftOnlyAtLimit
  BY DEF IInv, ClientInv, LeftOnlyAtLimit
<1> QED
  BY <1>1, Invariance, PTL

\* An apply or an undo takes effect while the listing its client has just
\* received is still exact, whatever the other clients do in between.
THEOREM ListingsFresh == Spec => FreshListing
<1>1. ASSUME IInv, [Next]_vars, applied' # applied PROVE heard[fd] \in {NoListing, Listing}
  <2>1. pc \in {"apply", "undo"}
    BY <1>1 DEF Next, vars, Serve, Accept, ReadEnd, ReadReset, ReadMisaligned, ReadHeader,
      DispatchApply, DispatchUndo, ReadShort, DispatchList, ListFails, DispatchGetbld, Reply, Stop,
      Connect, Send, SendCut, Write, Receive, HangUp
  <2>2. Busy /\ pc # "reply" /\ fd \in Clients
    BY <1>1, <2>1 DEF IInv, Serving, Busy
  <2>3. PICK c \in Clients : c = fd
    BY <2>2
  <2> QED
    BY <1>1, <2>2, <2>3, AtWorkFacts
<1>2. IInv /\ [Next]_vars => [applied' # applied => heard[fd] \in {NoListing, Listing}]_vars
  BY <1>1
<1> QED
  BY <1>2, Invariance, PTL DEF Spec, FreshListing
-----------------------------------------------------------------------------
(* A session ends.  One connection is served at a time, so the others wait *)
(* for as long as its client likes to send: SANDBOX_MSG_SESSION_LIMIT is   *)
(* what bounds that, since every step of the thread brings it nearer.      *)

\* Steps of the thread on the message it reads.
Phase == CASE pc = "header" -> 3 [] pc = "reply" -> 1 [] OTHER -> 2

SessionWork == 4 * (Limit - count) + Phase

SessionShrinks ==
    [][Serving =>
          /\ SessionWork \in 5 .. (4 * Limit + 3)
          /\ Serve => ~Serving' \/ (fd' = fd /\ SessionWork' < SessionWork)
          /\ ~Serve => UNCHANGED <<pc, fd>> /\ SessionWork' = SessionWork]_vars

\* Within a session.
LEMMA SessionStep ==
    ASSUME IInv, Serving, Serve
    PROVE  ~Serving' \/ (fd' = fd /\ SessionWork' < SessionWork)
<1>1. count \in 0 .. (Limit - 1) /\ Limit \in Nat \ {0}
  BY ConstantsAssumption DEF IInv, TypeOK
<1>2. pc \in {"header", "apply", "undo", "list", "getbld", "reply"}
  BY DEF Serving, Busy
<1>3. CASE ReadEnd \/ ReadReset \/ ReadMisaligned \/ ListFails
  <2>1. pc' \in {"stopped", "accept", "dead"}
    BY <1>3 DEF ReadEnd, ReadReset, ReadMisaligned, ListFails, Die, EndSession
  <2> QED
    BY <2>1 DEF Serving, Busy
<1>4. CASE ReadHeader
  <2>1. pc = "header" /\ pc' \in {"apply", "undo", "list", "getbld", "reply", "dead"}
        /\ fd' = fd /\ count' = count
    BY <1>4 DEF ReadHeader, Die
  <2>2. CASE pc' = "dead"
    BY <2>2 DEF Serving, Busy
  <2>3. CASE pc' # "dead"
    <3>1. Phase = 3 /\ (Phase' = 1 \/ Phase' = 2)
      <4>1. pc' = "reply" \/ (pc' # "header" /\ pc' # "reply")
        BY <2>1
      <4> QED
        BY <2>1, <4>1 DEF Phase
    <3> QED
      BY <1>1, <2>1, <3>1 DEF SessionWork
  <2> QED
    BY <2>2, <2>3
<1>5. CASE \/ \E outcome \in {"OK", "dropped", "ERR_INVALID", "ERR_NOMEM"} : DispatchApply(outcome)
           \/ DispatchUndo \/ ReadShort \/ DispatchList \/ DispatchGetbld
  <2>1. pc \in {"apply", "undo", "list", "getbld"} /\ pc' = "reply" /\ fd' = fd /\ count' = count
    BY <1>5 DEF DispatchApply, DispatchUndo, ReadShort, DispatchList, DispatchGetbld
  <2>2. Phase = 2 /\ Phase' = 1
    BY <2>1 DEF Phase
  <2> QED
    BY <1>1, <2>1, <2>2 DEF SessionWork
<1>6. CASE Reply
  <2>1. pc = "reply" /\ (Die \/ EndMessage)
    BY <1>6 DEF Reply
  <2>2. CASE pc' = "header" /\ count' = count + 1 /\ fd' = fd
    <3>1. Phase = 1 /\ Phase' = 3
      BY <2>1, <2>2 DEF Phase
    <3> QED
      BY <1>1, <2>2, <3>1 DEF SessionWork
  <2>3. CASE pc' \in {"stopped", "accept", "dead"}
    BY <2>3 DEF Serving, Busy
  <2> QED
    BY <2>1, <2>2, <2>3 DEF Die, EndMessage, EndSession
<1> QED
  BY <1>2, <1>3, <1>4, <1>5, <1>6 DEF Serve, Accept

\* No client keeps the listener for more than 4 * Limit + 3 steps of the thread.
THEOREM SessionsBounded == Spec => SessionShrinks
<1>1. IInv /\ [Next]_vars =>
          [Serving =>
              /\ SessionWork \in 5 .. (4 * Limit + 3)
              /\ Serve => ~Serving' \/ (fd' = fd /\ SessionWork' < SessionWork)
              /\ ~Serve => UNCHANGED <<pc, fd>> /\ SessionWork' = SessionWork]_vars
  <2>1. SUFFICES ASSUME IInv, Next, Serving
                 PROVE  /\ SessionWork \in 5 .. (4 * Limit + 3)
                        /\ Serve => ~Serving' \/ (fd' = fd /\ SessionWork' < SessionWork)
                        /\ ~Serve => UNCHANGED <<pc, fd>> /\ SessionWork' = SessionWork
    OBVIOUS
  <2>2. count \in 0 .. (Limit - 1) /\ Limit \in Nat \ {0} /\ Phase \in {1, 2, 3}
    BY <2>1, ConstantsAssumption DEF IInv, TypeOK, Phase
  <2>3. SessionWork \in 5 .. (4 * Limit + 3)
    BY <2>2 DEF SessionWork
  <2>4. ASSUME ~Serve PROVE UNCHANGED <<pc, fd>> /\ SessionWork' = SessionWork
    <3>1. UNCHANGED <<pc, fd, count>>
      BY <2>1, <2>4 DEF Next, Stop, Connect, Send, SendCut, Write, Receive, HangUp, server
    <3>2. Phase' = Phase
      BY <3>1 DEF Phase
    <3> QED
      BY <3>1, <3>2 DEF SessionWork
  <2> QED
    BY <2>1, <2>3, <2>4, SessionStep
<1> QED
  BY <1>1, Invariance, PTL DEF Spec, SessionShrinks
-----------------------------------------------------------------------------
(* The listener implements Sessions.  What it has accepted is the head of  *)
(* the queue; once the thread has returned there is nothing to wait for.   *)

Open == pc \notin {"stopped", "dead"}

Turns == IF ~Open THEN <<>> ELSE IF Serving THEN <<fd>> \o queue ELSE queue

Joined == {c \in Clients : client[c] # "new"}

Messages == IF Serving THEN count ELSE 0

Abstract ==
    INSTANCE Sessions WITH open <- Open, joined <- Joined, queue <- Turns, count <- Messages

LEMMA Prefixed ==
    ASSUME NEW c \in Clients, NEW d \in Clients, NEW q \in Seq(Clients)
    PROVE  /\ <<c>> \o q # <<>>
           /\ Tail(<<c>> \o q) = q
           /\ <<c>> \o Append(q, d) = Append(<<c>> \o q, d)
<1>1. <<c>> \in Seq(Clients) /\ <<d>> \in Seq(Clients) /\ Len(<<c>>) = 1
  OBVIOUS
<1>2. <<c>> \o Append(q, d) = Append(<<c>> \o q, d)
  <2>1. Append(q, d) = q \o <<d>> /\ <<c>> \o q \in Seq(Clients)
    BY <1>1, AppendIsConcat, ConcatProperties
  <2>2. Append(<<c>> \o q, d) = (<<c>> \o q) \o <<d>>
    BY <2>1, AppendIsConcat
  <2> QED
    BY <1>1, <2>1, <2>2, ConcatAssociative
<1>3. /\ <<c>> \o q \in Seq(Clients) /\ Len(<<c>> \o q) = 1 + Len(q) /\ Len(q) \in Nat
      /\ \A i \in 1 .. Len(q) : (<<c>> \o q)[1 + i] = q[i]
  BY <1>1, ConcatProperties
<1>4. <<c>> \o q # <<>>
  BY <1>3
<1>5. Tail(<<c>> \o q) = q
  <2>1. /\ Tail(<<c>> \o q) \in Seq(Clients) /\ Len(Tail(<<c>> \o q)) = Len(q)
        /\ \A i \in 1 .. Len(q) : Tail(<<c>> \o q)[i] = q[i]
    BY <1>3, <1>4, HeadTailProperties
  <2> QED
    BY <2>1, SeqEqual
<1> QED
  BY <1>2, <1>4, <1>5

\* Accept changes nothing: the connection was at the head before.
LEMMA HeadBack ==
    ASSUME NEW q \in Seq(Clients), q # <<>>
    PROVE  Head(q) \in Clients /\ <<Head(q)>> \o Tail(q) = q
<1>1. Head(q) \in Clients /\ Tail(q) \in Seq(Clients) /\ Len(Tail(q)) = Len(q) - 1
      /\ Len(q) \in Nat \ {0} /\ \A i \in 1 .. Len(Tail(q)) : Tail(q)[i] = q[i + 1]
  BY HeadTailProperties, EmptySeq, LenProperties
<1> DEFINE r == <<Head(q)>> \o Tail(q)
<1>2. /\ r \in Seq(Clients) /\ Len(r) = Len(q)
      /\ r[1] = q[1] /\ \A i \in 2 .. Len(q) : r[i] = q[i]
  BY <1>1, ConcatProperties
<1> HIDE DEF r
<1>3. \A i \in 1 .. Len(q) : r[i] = q[i]
  BY <1>1, <1>2
<1>4. r = q
  BY <1>2, <1>3, SeqEqual
<1> QED
  BY <1>1, <1>4 DEF r

\* The thread within a session and at its end.
LEMMA ServingTurns ==
    ASSUME IInv, Serve, Serving
    PROVE  /\ Open /\ Turns # <<>> /\ Tail(Turns) = queue /\ queue' = queue /\ client' = client
           /\ \/ Serving' /\ fd' = fd /\ (count' = count \/ (count' = count + 1 /\ count + 1 < Limit))
              \/ pc' = "accept"
              \/ pc' \in {"stopped", "dead"}
<1>1. fd \in Clients /\ queue \in Seq(Clients) /\ Open
  BY DEF IInv, TypeOK, Serving, Busy, Open
<1>2. Turns = <<fd>> \o queue
  BY <1>1 DEF Turns
<1>3. Turns # <<>> /\ Tail(Turns) = queue
  BY <1>1, <1>2, Prefixed
<1>4. ~Accept
  BY DEF Accept, Serving, Busy
<1>5. queue' = queue /\ client' = client
  BY <1>4 DEF Serve, ReadEnd, ReadReset, ReadMisaligned, ReadHeader, DispatchApply, DispatchUndo,
    ReadShort, DispatchList, ListFails, DispatchGetbld, Reply, clients
<1>6. CASE ReadEnd \/ ReadReset \/ ReadMisaligned \/ ListFails
  <2>1. pc' \in {"stopped", "accept", "dead"}
    BY <1>6 DEF ReadEnd, ReadReset, ReadMisaligned, ListFails, Die, EndSession
  <2> QED
    BY <1>1, <1>3, <1>5, <2>1
<1>7. CASE ReadHeader
  <2>1. pc' \in {"apply", "undo", "list", "getbld", "reply", "dead"} /\ fd' = fd /\ count' = count
    BY <1>7 DEF ReadHeader, Die
  <2> QED
    BY <1>1, <1>3, <1>5, <2>1 DEF Serving, Busy
<1>8. CASE \/ \E outcome \in {"OK", "dropped", "ERR_INVALID", "ERR_NOMEM"} : DispatchApply(outcome)
           \/ DispatchUndo \/ ReadShort \/ DispatchList \/ DispatchGetbld
  <2>1. pc' = "reply" /\ fd' = fd /\ count' = count
    BY <1>8 DEF DispatchApply, DispatchUndo, ReadShort, DispatchList, DispatchGetbld
  <2> QED
    BY <1>1, <1>3, <1>5, <2>1 DEF Serving, Busy
<1>9. CASE Reply
  <2>1. Die \/ EndMessage
    BY <1>9 DEF Reply
  <2>2. \/ pc' = "header" /\ fd' = fd /\ count' = count + 1 /\ count + 1 < Limit
        \/ pc' \in {"stopped", "accept", "dead"}
    BY <2>1 DEF Die, EndMessage, EndSession
  <2> QED
    BY <1>1, <1>3, <1>5, <2>2 DEF Serving
<1> QED
  BY <1>4, <1>6, <1>7, <1>8, <1>9 DEF Serve

LEMMA ServeSessions ==
    ASSUME IInv, Serve
    PROVE  [Abstract!Next]_(Abstract!vars)
<1>1. queue \in Seq(Clients) /\ count \in Nat
  BY DEF IInv, TypeOK
<1>2. CASE Accept
  <2>1. /\ pc = "accept" /\ pc' = "header" /\ queue # <<>> /\ fd' = Head(queue)
        /\ queue' = Tail(queue) /\ count' = 0 /\ client' = client
    BY <1>2 DEF Accept, clients
  <2>2. ~Serving /\ Serving' /\ Open /\ Open'
    BY <2>1 DEF Serving, Busy, Open
  <2>3. Turns' = <<Head(queue)>> \o Tail(queue) /\ Turns = queue
    BY <2>1, <2>2 DEF Turns
  <2>4. Turns' = Turns
    BY <1>1, <2>1, <2>3, HeadBack
  <2>5. Messages' = Messages /\ Joined' = Joined /\ Open' = Open
    BY <2>1, <2>2 DEF Messages, Joined, Open
  <2> QED
    BY <2>4, <2>5 DEF Abstract!vars
<1>3. CASE ~Accept
  <2>1. Serving
    BY <1>3 DEF Serve, ReadEnd, ReadReset, ReadMisaligned, ReadHeader, DispatchApply, DispatchUndo,
      ReadShort, DispatchList, ListFails, DispatchGetbld, Reply, Serving, Busy
  <2>2. /\ Open /\ Turns # <<>> /\ Tail(Turns) = queue /\ queue' = queue /\ client' = client
        /\ \/ Serving' /\ fd' = fd /\ (count' = count \/ (count' = count + 1 /\ count + 1 < Limit))
           \/ pc' = "accept"
           \/ pc' \in {"stopped", "dead"}
    BY <2>1, ServingTurns
  <2>3. Joined' = Joined /\ Messages = count /\ Open = TRUE
    BY <2>1, <2>2 DEF Joined, Messages, Open
  <2>4. CASE Serving' /\ fd' = fd
    <3>1. Open' = Open
      BY <2>2, <2>4 DEF Open, Serving, Busy
    <3>2. Turns' = Turns /\ Messages' = count'
      BY <2>1, <2>2, <2>4, <3>1 DEF Turns, Messages
    <3>3. CASE count' = count
      BY <2>3, <3>1, <3>2, <3>3 DEF Abstract!vars
    <3>4. CASE count' = count + 1 /\ count + 1 < Limit
      BY <2>2, <2>3, <3>1, <3>2, <3>4 DEF Abstract!Next, Abstract!Exchange
    <3> QED
      BY <2>2, <2>4, <3>3, <3>4 DEF Serving, Busy
  <2>5. CASE pc' = "accept"
    <3>1. ~Serving' /\ Open' /\ Turns' = queue /\ Messages' = 0
      BY <2>2, <2>5 DEF Serving, Busy, Open, Turns, Messages
    <3>2. Open' = Open
      BY <2>5, <2>2 DEF Open
    <3> QED
      BY <2>2, <2>3, <3>1, <3>2 DEF Abstract!Next, Abstract!Leave
  <2>6. CASE pc' \in {"stopped", "dead"}
    <3>1. Open' = FALSE /\ Turns' = <<>> /\ Messages' = 0
      BY <2>6 DEF Serving, Busy, Open, Turns, Messages
    <3> QED
      BY <2>2, <2>3, <3>1 DEF Abstract!Next, Abstract!End
  <2> QED
    BY <2>2, <2>4, <2>5, <2>6
<1> QED
  BY <1>2, <1>3

LEMMA ConnectSessions ==
    ASSUME IInv, NEW c \in Clients, Connect(c)
    PROVE  Abstract!Join(c)
<1>1. /\ client[c] = "new" /\ client' = [client EXCEPT ![c] = "idle"]
      /\ queue' = Append(queue, c) /\ UNCHANGED <<pc, fd, count>>
      /\ queue \in Seq(Clients) /\ DOMAIN client = Clients
  BY DEF Connect, IInv, TypeOK, server
<1>2. c \notin Joined /\ Joined' = Joined \cup {c}
  BY <1>1 DEF Joined
<1>3. Open' = Open /\ Serving' = Serving
  BY <1>1 DEF Open, Serving, Busy
<1>4. Messages' = Messages
  BY <1>1, <1>3 DEF Messages
<1>5. Turns' = IF Open THEN Append(Turns, c) ELSE Turns
  <2>1. CASE ~Open
    BY <1>3, <2>1 DEF Turns
  <2>2. CASE Open /\ ~Serving
    BY <1>1, <1>3, <2>2 DEF Turns
  <2>3. CASE Open /\ Serving
    <3>1. fd \in Clients
      BY <2>3 DEF IInv
    <3>2. <<fd>> \o Append(queue, c) = Append(<<fd>> \o queue, c)
      BY <1>1, <3>1, Prefixed
    <3> QED
      BY <1>1, <1>3, <2>3, <3>2 DEF Turns
  <2> QED
    BY <2>1, <2>2, <2>3
<1> QED
  BY <1>2, <1>3, <1>4, <1>5 DEF Abstract!Join

\* Connections are served first come, first served, one at a time and up to
\* Limit messages each, whatever clients send and wherever they are killed.
THEOREM ImplementsSessions == Spec => Abstract!Spec
<1>1. Init => Abstract!Init
  BY DEF Init, Abstract!Init, Open, Joined, Turns, Messages, Serving, Busy
<1>2. IInv /\ [Next]_vars => [Abstract!Next]_(Abstract!vars)
  <2>1. SUFFICES ASSUME IInv, [Next]_vars
                 PROVE  [Abstract!Next]_(Abstract!vars)
    OBVIOUS
  <2>2. CASE Serve
    BY <2>1, <2>2, ServeSessions
  <2>3. ASSUME NEW c \in Clients, Connect(c) PROVE Abstract!Next
    BY <2>1, <2>3, ConnectSessions DEF Abstract!Next
  <2>4. ASSUME UNCHANGED <<pc, fd, count, queue>>, Joined' = Joined
        PROVE  UNCHANGED Abstract!vars
    <3>1. Open' = Open /\ Serving' = Serving
      BY <2>4 DEF Open, Serving, Busy
    <3>2. Turns' = Turns /\ Messages' = Messages
      BY <2>4, <3>1 DEF Turns, Messages
    <3> QED
      BY <2>4, <3>1, <3>2 DEF Abstract!vars
  <2>5. CASE Stop \/ UNCHANGED vars
    <3>1. UNCHANGED <<pc, fd, count, queue, client>>
      BY <2>5 DEF Stop, vars, server, clients
    <3> QED
      BY <2>4, <3>1 DEF Joined
  <2>6. ASSUME NEW c \in Clients,
               (\E r \in Requests : Send(c, r) \/ SendCut(c, r)) \/ Receive(c) \/ HangUp(c)
        PROVE  UNCHANGED Abstract!vars
    <3>1. UNCHANGED <<pc, fd, count, queue>>
      BY <2>6 DEF Send, SendCut, Write, Receive, HangUp, server
    <3>2. PICK place \in {"idle", "waiting", "closed", "reset"} :
              client[c] # "new" /\ client' = [client EXCEPT ![c] = place]
      BY <2>6 DEF Send, SendCut, Write, Receive, HangUp
    <3>3. Joined' = Joined
      <4>1. DOMAIN client = Clients
        BY <2>1 DEF IInv, TypeOK
      <4> QED
        BY <3>2, <4>1 DEF Joined
    <3> QED
      BY <2>4, <3>1, <3>3
  <2> QED
    BY <2>1, <2>2, <2>3, <2>5, <2>6 DEF Next
<1> QED
  BY <1>1, <1>2, Invariance, PTL DEF Spec, Abstract!Spec
=============================================================================
