-------------------------- MODULE ListenerStockProofs --------------------------
(***************************************************************************)
(* The listener lives as long as its clients are the commands of raxlpxs,  *)
(* the sandbox accepts their patches and listings fit in a reply.  It is a *)
(* property of both ends: the thread returns on whatever it cannot read,   *)
(* and raxlpxs sends 4 bytes too many with an undo, which must be the last *)
(* request of its connection.                                              *)
(***************************************************************************)
EXTENDS ListenerProofs

StockRequests == {"apply", "undo", "list", "getbld"}

\* What the clients are and what the sandbox makes of their requests.
StockConditions ==
    /\ Kinds \subseteq StockRequests
    /\ \A p \in Patches : Outcomes[p] \subseteq {"OK"}
    /\ ~ListMayFail

\* All that may be left in the stream behind a request.
Rest(c) == unread[c] = <<>> \/ (unread[c] = <<"pad">> /\ req[c].kind = "undo")

AtWork(c) == Busy /\ fd = c

\* The stream of c is aligned: a whole request, or what the thread has left of it.
Stock(c) ==
    /\ client[c] # "reset"
    /\ AtWork(c) =>
          /\ client[c] = "waiting"
          /\ pc \in {"apply", "undo"} => unread[c] = Tail(Pieces(pc))
          /\ pc \notin {"apply", "undo"} => Rest(c)
          /\ pc = "reply" /\ answer.kind = "apply" => answer.code = "OK"
    /\ ~AtWork(c) => Rest(c) \/ (client[c] = "waiting" /\ unread[c] = Pieces(req[c].kind))

SInv ==
    /\ IInv
    /\ AlwaysListening
    /\ \A c \in Clients : Stock(c)

LEMMA InitSInv == Init => SInv
<1> SUFFICES ASSUME Init PROVE SInv
  OBVIOUS
<1>1. AlwaysListening /\ ~Busy
  BY DEF Init, AlwaysListening, Busy
<1>2. \A c \in Clients : Stock(c)
  BY <1>1 DEF Init, Stock, AtWork, Rest
<1> QED
  BY <1>1, <1>2, InitIInv DEF SInv

\* Requests of raxlpxs, as the thread reads them.
LEMMA StockPieces ==
    /\ \A k : Pieces(k) # <<>> /\ Head(Pieces(k)) = "hdr" /\ Pieces(k)[1] = "hdr"
              /\ Len(Pieces(k)) \in Nat /\ 1 \in 1 .. Len(Pieces(k))
    /\ \A k \in {"list", "getbld"} : Tail(Pieces(k)) = <<>>
    /\ Tail(Pieces("apply")) = <<"body">> /\ Tail(Pieces("undo")) = <<"sha", "pad">>
<1>1. \A k : Pieces(k) \in {<<"hdr", "body">>, <<"hdr", "sha", "pad">>, <<"hdr", "sha">>, <<"hdr">>}
  BY DEF Pieces
<1>2. \A k \in {"list", "getbld"} : Pieces(k) = <<"hdr">>
  BY DEF Pieces
<1>3. Pieces("apply") = <<"hdr", "body">> /\ Pieces("undo") = <<"hdr", "sha", "pad">>
  BY DEF Pieces
<1>4. \A k : Pieces(k) # <<>> /\ Head(Pieces(k)) = "hdr" /\ Pieces(k)[1] = "hdr"
             /\ Len(Pieces(k)) \in Nat /\ 1 \in 1 .. Len(Pieces(k))
  BY <1>1
<1>5. Tail(<<"hdr">>) = <<>>
  OBVIOUS
<1>6. \A k \in {"list", "getbld"} : Tail(Pieces(k)) = <<>>
  BY <1>2, <1>5
<1>7. Tail(<<"hdr", "body">>) = <<"body">> /\ Tail(<<"hdr", "sha", "pad">>) = <<"sha", "pad">>
  OBVIOUS
<1> QED
  BY <1>3, <1>4, <1>6, <1>7
-----------------------------------------------------------------------------
\* A client of which nothing changes, and which is not worked on.
LEMMA NotAtWork ==
    ASSUME NEW d \in Clients, Stock(d), ~AtWork(d), ~AtWork(d)',
           unread'[d] = unread[d], client'[d] = client[d], req'[d] = req[d]
    PROVE  Stock(d)'
BY DEF Stock, Rest

\* A client of which nothing changes while the thread does not move.
LEMMA Unmoved ==
    ASSUME NEW d \in Clients, Stock(d), pc' = pc, fd' = fd, answer' = answer,
           unread'[d] = unread[d], client'[d] = client[d], req'[d] = req[d]
    PROVE  Stock(d)'
<1>1. AtWork(d)' <=> AtWork(d)
  BY DEF AtWork, Busy
<1> QED
  BY <1>1 DEF Stock, Rest

LEMMA StockClientStep ==
    ASSUME SInv, NEW c \in Clients, StockClient(c)
    PROVE  AlwaysListening' /\ \A d \in Clients : Stock(d)'
<1>1. /\ TypeOK /\ AlwaysListening /\ ClientInv(c) /\ Stock(c)
      /\ \A d \in Clients : Stock(d)
  BY DEF SInv, IInv
<1>2. UNCHANGED <<pc, fd, answer>>
  BY DEF StockClient, StockSend, StockClose, Connect, Send, Write, Receive, HangUp, server
<1>3. AlwaysListening' /\ (AtWork(c)' <=> AtWork(c))
  BY <1>1, <1>2 DEF AlwaysListening, AtWork, Busy
<1>4. ASSUME NEW d \in Clients, d # c PROVE Stock(d)'
  <2>1. unread'[d] = unread[d] /\ client'[d] = client[d] /\ req'[d] = req[d]
    BY <1>1, <1>4 DEF TypeOK, StockClient, StockSend, StockClose, Connect, Send, Write, Receive,
      HangUp
  <2> QED
    BY <1>1, <1>2, <2>1, Unmoved
<1>5. Stock(c)'
  <2>1. CASE Connect(c)
    <3>1. client[c] = "new" /\ client'[c] = "idle" /\ unread' = unread /\ req' = req
      BY <1>1, <2>1 DEF Connect, TypeOK
    <3>2. ~AtWork(c) /\ Rest(c)
      BY <1>1, <3>1 DEF Stock
    <3> QED
      BY <1>3, <3>1, <3>2 DEF Stock, Rest
  <2>2. ASSUME NEW r \in Requests, StockSend(c, r) PROVE Stock(c)'
    <3>1. /\ client[c] = "idle" /\ client'[c] = "waiting" /\ req'[c] = r
          /\ unread'[c] = unread[c] \o SubSeq(Pieces(r.kind), 1, Len(Pieces(r.kind)))
          /\ req[c].kind # "undo"
      BY <1>1, <2>2 DEF StockSend, Send, Write, TypeOK
    <3>2. ~AtWork(c) /\ unread[c] = <<>>
      BY <1>1, <3>1 DEF Stock, Rest
    <3>3. <<>> \o SubSeq(Pieces(r.kind), 1, Len(Pieces(r.kind))) = Pieces(r.kind)
      <4>1. \A t \in Seq(Piece) : <<>> \o SubSeq(t, 1, Len(t)) = t
        BY ConcatEmptySeq
      <4> QED
        BY <4>1, PiecesFacts
    <3>4. unread'[c] = Pieces(req'[c].kind)
      BY <3>1, <3>2, <3>3
    <3> QED
      BY <1>3, <3>1, <3>2, <3>4 DEF Stock
  <2>3. CASE Receive(c)
    <3>1. /\ client[c] = "waiting" /\ replies[c] # <<>> /\ client'[c] = "idle"
          /\ unread' = unread /\ req' = req
      BY <1>1, <2>3 DEF Receive, TypeOK
    <3>2. ~Pending(c) /\ ~AtWork(c)
      BY <1>1, <3>1 DEF ClientInv, PendingInv, BusyInv, AtWork
    <3>3. Rest(c)
      BY <1>1, <3>2, StockPieces DEF Stock, Pending
    <3> QED
      BY <1>3, <3>1, <3>2, <3>3 DEF Stock, Rest
  <2>4. CASE StockClose(c)
    <3>1. client[c] = "idle" /\ replies[c] = <<>> /\ unread' = unread /\ req' = req
      BY <1>1, <2>4 DEF StockClose, HangUp, ClientInv, AnsweredInv
    <3>2. client'[c] = "closed"
      BY <1>1, <2>4, <3>1 DEF StockClose, HangUp, TypeOK
    <3>3. ~AtWork(c) /\ Rest(c)
      BY <1>1, <3>1 DEF Stock
    <3> QED
      BY <1>3, <3>1, <3>2, <3>3 DEF Stock, Rest
  <2> QED
    BY <2>1, <2>2, <2>3, <2>4 DEF StockClient
<1> QED
  BY <1>3, <1>4, <1>5
-----------------------------------------------------------------------------
LEMMA StockServeStep ==
    ASSUME StockConditions, SInv, Serve
    PROVE  AlwaysListening' /\ \A d \in Clients : Stock(d)'
<1>1. IInv /\ TypeOK /\ AlwaysListening /\ \A d \in Clients : Stock(d)
  BY DEF SInv, IInv
<1>2. client' = client /\ req' = req
  BY DEF Serve, Accept, ReadEnd, ReadReset, ReadMisaligned, ReadHeader, DispatchApply,
    DispatchUndo, ReadShort, DispatchList, ListFails, DispatchGetbld, Reply, clients
<1>3. CASE Accept
  <2>1. pc = "accept" /\ pc' = "header" /\ unread' = unread
    BY <1>3 DEF Accept
  <2>2. ~Busy /\ ~Busy' /\ AlwaysListening'
    BY <2>1 DEF Busy, AlwaysListening
  <2>3. \A d \in Clients : ~AtWork(d) /\ ~AtWork(d)'
    BY <2>2 DEF AtWork
  <2> QED
    BY <1>1, <1>2, <2>1, <2>2, <2>3, NotAtWork
<1>4. CASE ~Accept
  <2>1. pc \in {"header", "apply", "undo", "list", "getbld", "reply"} /\ fd' \in {fd, NoClient}
    BY <1>4 DEF Serve, ReadEnd, ReadReset, ReadMisaligned, ReadHeader, DispatchApply, DispatchUndo,
      ReadShort, DispatchList, ListFails, DispatchGetbld, Reply, Die, EndSession, EndMessage
  <2>2. Serving /\ fd \in Clients /\ (pc = "header" <=> ~Busy)
    BY <1>1, <2>1 DEF IInv, Serving, Busy
  <2>3. PICK c \in Clients : c = fd
    BY <2>2
  <2>4. \A d \in Clients : d # c => ~AtWork(d) /\ ~AtWork(d)'
    BY <2>1, <2>3, ConstantsAssumption DEF AtWork
  <2>5. ClientInv(c) /\ Stock(c) /\ unread \in [Clients -> Seq(Piece)]
    BY <1>1 DEF IInv, TypeOK, Piece
  <2>6. req[c].kind \in StockRequests \cup {"none"}
    <3>1. req[c] \in Requests \/ req[c] = NoRequest
      BY <1>1 DEF TypeOK
    <3> QED
      BY <3>1 DEF Requests, NoRequest, StockConditions
  <2>7. AtWork(c) => req[c].kind = pc \/ pc = "reply"
    BY <2>5 DEF ClientInv, BusyInv, AtWork
  <2>8. pc = "header" => Rest(c) \/ (client[c] = "waiting" /\ unread[c] = Pieces(req[c].kind))
    BY <2>2, <2>5 DEF Stock, AtWork
  <2>9. pc # "header" => AtWork(c)
    BY <2>2, <2>3 DEF AtWork
  <2>10. /\ unread' = unread \/ \E s : unread' = [unread EXCEPT ![c] = s]
    BY <1>4, <2>3 DEF Serve, ReadEnd, ReadReset, ReadMisaligned, ReadHeader, DispatchApply,
      DispatchUndo, ReadShort, DispatchList, ListFails, DispatchGetbld, Reply
  <2>11. \A d \in Clients : d # c => Stock(d)'
    <3>1. \A d \in Clients : d # c => unread'[d] = unread[d]
      BY <2>5, <2>10
    <3> QED
      BY <1>1, <1>2, <2>4, <3>1, NotAtWork
  <2>12. CASE ReadEnd
    <3>1. pc' \in {"stopped", "accept"} /\ unread' = [unread EXCEPT ![c] = <<>>]
      BY <2>3, <2>12 DEF ReadEnd, EndSession
    <3>2. ~AtWork(c)' /\ AlwaysListening' /\ unread'[c] = <<>>
      BY <2>5, <3>1 DEF AtWork, Busy, AlwaysListening
    <3>3. Stock(c)'
      BY <1>2, <2>5, <3>2 DEF Stock, Rest
    <3> QED
      BY <2>11, <3>2, <3>3
  <2>13. CASE ReadReset
    BY <2>3, <2>5, <2>13 DEF ReadReset, Stock
  <2>14. CASE ReadMisaligned
    <3>1. /\ pc = "header" /\ unread[c] # <<>>
          /\ Head(unread[c]) = "sha" \/ (Head(unread[c]) = "pad" /\ Len(unread[c]) > 1)
      BY <2>3, <2>14 DEF ReadMisaligned
    <3>2. unread[c] = <<"pad">> \/ unread[c] = Pieces(req[c].kind)
      BY <2>8, <3>1 DEF Rest
    <3>3. CASE unread[c] = <<"pad">>
      BY <3>1, <3>3
    <3>4. CASE unread[c] = Pieces(req[c].kind)
      BY <3>1, <3>4, StockPieces
    <3> QED
      BY <3>2, <3>3, <3>4
  <2>15. CASE ReadHeader
    <3>1. /\ pc = "header" /\ unread[c] # <<>> /\ Head(unread[c]) = "hdr"
          /\ unread' = [unread EXCEPT ![c] = Tail(unread[c])]
          /\ req[c].kind \in {"apply", "undo", "list", "getbld", "undo20", "bad", "noid"}
          /\ req[c].kind \in StockRequests => pc' = req[c].kind /\ fd' = fd
      BY <2>3, <2>15 DEF ReadHeader, StockRequests
    <3>2. pc' = req[c].kind /\ fd' = c /\ req[c].kind \in StockRequests
      BY <2>3, <2>6, <3>1 DEF StockRequests
    <3>3. client[c] = "waiting" /\ unread[c] = Pieces(req[c].kind)
      <4>1. Head(<<"pad">>) # "hdr"
        OBVIOUS
      <4> QED
        BY <2>8, <3>1, <4>1 DEF Rest
    <3>4. unread'[c] = Tail(Pieces(pc'))
      BY <2>5, <3>1, <3>2, <3>3
    <3>5. pc' \notin {"apply", "undo"} => unread'[c] = <<>>
      BY <3>2, <3>4, StockPieces DEF StockRequests
    <3>6. AtWork(c)' /\ AlwaysListening' /\ pc' # "reply"
      BY <3>2 DEF AtWork, Busy, AlwaysListening, StockRequests
    <3>7. Stock(c)'
      BY <1>2, <3>3, <3>4, <3>5, <3>6 DEF Stock, Rest
    <3> QED
      BY <2>11, <3>6, <3>7
  <2>16. ASSUME NEW outcome, DispatchApply(outcome) PROVE AlwaysListening' /\ Stock(c)'
    <3>1. /\ pc = "apply" /\ outcome \in Outcomes[req[c].patch] /\ pc' = "reply" /\ fd' = c
          /\ unread' = [unread EXCEPT ![c] = Tail(unread[c])]
          /\ Answer(IF outcome = "dropped" THEN "OK" ELSE outcome, NoListing)
      BY <2>3, <2>16 DEF DispatchApply
    <3>2. req[c].patch \in Patches
      BY <1>1, <2>2, <2>3, <2>7, <2>9, <3>1, ServedFacts
    <3>3. outcome = "OK"
      BY <3>1, <3>2 DEF StockConditions
    <3>4. answer'.code = "OK"
      BY <3>1, <3>3 DEF Answer
    <3>5. client[c] = "waiting" /\ unread[c] = <<"body">>
      BY <2>5, <2>9, <3>1, StockPieces DEF Stock
    <3>6. Tail(<<"body">>) = <<>>
      OBVIOUS
    <3>7. unread'[c] = <<>>
      BY <2>5, <3>1, <3>5, <3>6
    <3> QED
      BY <1>2, <3>1, <3>4, <3>5, <3>7 DEF Stock, Rest, AtWork, Busy, AlwaysListening
  <2>17. CASE DispatchUndo
    <3>1. /\ pc = "undo" /\ pc' = "reply" /\ fd' = c
          /\ unread' = [unread EXCEPT ![c] = Tail(unread[c])]
          /\ answer'.kind = req[c].kind
      BY <2>3, <2>17 DEF DispatchUndo, Answer
    <3>2. client[c] = "waiting" /\ unread[c] = <<"sha", "pad">> /\ req[c].kind = "undo"
      BY <2>5, <2>7, <2>9, <3>1, StockPieces DEF Stock
    <3>3. Tail(<<"sha", "pad">>) = <<"pad">>
      OBVIOUS
    <3>4. unread'[c] = <<"pad">>
      BY <2>5, <3>1, <3>2, <3>3
    <3>5. AlwaysListening' /\ Stock(c)'
      BY <1>2, <3>1, <3>2, <3>4 DEF Stock, Rest, AtWork, Busy, AlwaysListening
    <3> QED
      BY <2>11, <3>5
  <2>18. CASE ReadShort
    BY <2>3, <2>5, <2>9, <2>18 DEF ReadShort, Gone, Stock
  <2>19. CASE DispatchList \/ DispatchGetbld
    <3>1. /\ pc \in {"list", "getbld"} /\ pc' = "reply" /\ fd' = c /\ unread' = unread
          /\ answer'.kind = req[c].kind
      BY <2>3, <2>19 DEF DispatchList, DispatchGetbld, Answer
    <3>2. client[c] = "waiting" /\ Rest(c) /\ req[c].kind = pc
      BY <2>5, <2>7, <2>9, <3>1 DEF Stock
    <3>3. AlwaysListening' /\ Stock(c)'
      BY <1>2, <3>1, <3>2 DEF Stock, Rest, AlwaysListening
    <3> QED
      BY <2>11, <3>3
  <2>20. CASE ListFails
    BY <2>20 DEF ListFails, StockConditions
  <2>21. CASE Reply
    <3>1. pc = "reply" /\ unread' = unread /\ (IF Negative THEN Die /\ UNCHANGED ends ELSE EndMessage)
      BY <2>21 DEF Reply
    <3>2. client[c] = "waiting" /\ Rest(c) /\ (answer.kind = "apply" => answer.code = "OK")
      BY <2>5, <2>9, <3>1 DEF Stock
    <3>3. ~Negative
      BY <2>3, <3>2 DEF Negative, Gone
    <3>4. pc' \in {"header", "accept", "stopped"}
      BY <3>1, <3>3 DEF EndMessage, EndSession
    <3>5. ~AtWork(c)' /\ AlwaysListening'
      BY <3>4 DEF AtWork, Busy, AlwaysListening
    <3>6. Stock(c)'
      BY <1>2, <3>1, <3>2, <3>5 DEF Stock, Rest
    <3> QED
      BY <2>11, <3>5, <3>6
  <2> QED
    BY <1>4, <2>11, <2>12, <2>13, <2>14, <2>15, <2>16, <2>17, <2>18, <2>19, <2>20, <2>21 DEF Serve
<1> QED
  BY <1>3, <1>4

LEMMA StepSInv ==
    ASSUME StockConditions
    PROVE  SInv /\ [StockNext]_vars => SInv'
<1> SUFFICES ASSUME SInv, [StockNext]_vars PROVE SInv'
  OBVIOUS
<1>1. IInv'
  <2>1. StockNext => Next
    BY DEF StockNext, StockClient, StockSend, StockClose, Next
  <2> QED
    BY <2>1, StepIInv DEF SInv
<1>2. AlwaysListening' /\ \A d \in Clients : Stock(d)'
  <2>1. CASE UNCHANGED vars
    <3>1. UNCHANGED <<pc, fd, answer, unread, client, req>>
      BY <2>1 DEF vars, server, clients
    <3> QED
      BY <3>1, Unmoved DEF SInv, AlwaysListening
  <2>2. CASE Serve
    BY <2>2, StockServeStep
  <2>3. ASSUME NEW c \in Clients, StockClient(c) PROVE AlwaysListening' /\ \A d \in Clients : Stock(d)'
    BY <2>3, StockClientStep
  <2> QED
    BY <2>1, <2>2, <2>3 DEF StockNext
<1> QED
  BY <1>1, <1>2 DEF SInv

\* Commands of raxlpxs never make the listener return, however many there are
\* and however they are interleaved, while every patch is accepted and every
\* listing fits.
THEOREM ListenerLives == StockConditions => (StockSpec => []AlwaysListening)
<1> SUFFICES ASSUME StockConditions PROVE StockSpec => []AlwaysListening
  OBVIOUS
<1>1. Init => SInv
  BY InitSInv
<1>2. SInv /\ [StockNext]_vars => SInv'
  BY StepSInv
<1>3. SInv => AlwaysListening
  BY DEF SInv
<1> QED
  BY <1>1, <1>2, <1>3, PTL DEF StockSpec
-----------------------------------------------------------------------------
(* What RequestsAnswered and ConnectionsServed rest on besides fairness: a *)
(* request is never lost from sight.  Together with SessionsBounded, whose *)
(* measure goes down with every step of the thread, it says that a command *)
(* that waits is answered as long as the thread runs.                      *)

\* A command that waits has its reply, or the thread is at its request, or is
\* about to read it, or has the connection before it in the queue.
NoneForgotten ==
    \A c \in Clients :
        client[c] = "waiting" =>
            \/ replies[c] # <<>>
            \/ AtWork(c)
            \/ /\ unread[c] = Pieces(req[c].kind)
               /\ (pc = "header" /\ fd = c) \/ \E i \in 1 .. Len(queue) : queue[i] = c

\* Where the connection of c is.
Kept(c) ==
    /\ ends[c] = "none" => client[c] = "new"
    /\ ends[c] = "queued" => \E i \in 1 .. Len(queue) : queue[i] = c
    /\ ends[c] = "served" => Serving /\ fd = c
    /\ ends[c] = "closed" => client[c] = "closed"
    /\ ends[c] = "left" /\ client[c] = "waiting" => replies[c] # <<>>
    /\ client[c] = "waiting" => replies[c] # <<>> \/ AtWork(c) \/ unread[c] = Pieces(req[c].kind)

KInv == ~should_stop /\ \A c \in Clients : Kept(c)

\* A client whose connection stays where it is.
LEMMA StaysKept ==
    ASSUME NEW d \in Clients, Kept(d), queue' = queue, Serving' = Serving, Busy' = Busy, fd' = fd,
           unread'[d] = unread[d], client'[d] = client[d], req'[d] = req[d], ends'[d] = ends[d],
           replies'[d] = replies[d]
    PROVE  Kept(d)'
BY DEF Kept, AtWork

LEMMA KeptByClients ==
    ASSUME MaxRequests <= Limit, SInv, KInv, NEW c \in Clients, StockClient(c)
    PROVE  KInv'
<1>1. /\ TypeOK /\ ClientInv(c) /\ Stock(c) /\ Kept(c) /\ ~should_stop
      /\ \A d \in Clients : Kept(d)
      /\ queue \in Seq(Clients) /\ Len(queue) \in Nat
  BY DEF SInv, IInv, KInv, TypeOK
<1>2. UNCHANGED <<pc, fd, should_stop>> /\ Serving' = Serving /\ Busy' = Busy
  BY DEF StockClient, StockSend, StockClose, Connect, Send, Write, Receive, HangUp, server, Serving, Busy
<1>3. queue' = queue \/ (Connect(c) /\ queue' = Append(queue, c))
  BY DEF StockClient, StockSend, StockClose, Connect, Send, Write, Receive, HangUp
<1>4. \A d \in Clients : (\E i \in 1 .. Len(queue) : queue[i] = d) => \E i \in 1 .. Len(queue') : queue'[i] = d
  <2>1. CASE queue' = Append(queue, c)
    <3>1. /\ Len(queue') = Len(queue) + 1
          /\ \A i \in 1 .. Len(queue) : i \in 1 .. Len(queue') /\ queue'[i] = queue[i]
      BY <1>1, <2>1
    <3> QED
      BY <3>1
  <2> QED
    BY <1>3, <2>1
<1>5. ASSUME NEW d \in Clients, d # c PROVE Kept(d)'
  <2>1. /\ unread'[d] = unread[d] /\ client'[d] = client[d] /\ req'[d] = req[d] /\ ends'[d] = ends[d]
        /\ replies'[d] = replies[d]
    BY <1>1, <1>5 DEF TypeOK, StockClient, StockSend, StockClose, Connect, Send, Write, Receive,
      HangUp
  <2> QED
    BY <1>1, <1>2, <1>4, <2>1 DEF Kept, AtWork
<1>6. Kept(c)'
  <2>1. CASE Connect(c)
    <3>1. client'[c] = "idle" /\ ends'[c] = "queued" /\ queue' = Append(queue, c)
      BY <1>1, <2>1 DEF Connect, TypeOK
    <3>2. Len(queue) + 1 \in 1 .. Len(queue') /\ queue'[Len(queue) + 1] = c
      BY <1>1, <3>1
    <3> QED
      BY <3>1, <3>2 DEF Kept
  <2>2. ASSUME NEW r \in Requests, StockSend(c, r) PROVE Kept(c)'
    <3>1. /\ client[c] = "idle" /\ client'[c] = "waiting" /\ req'[c] = r
          /\ unread'[c] = unread[c] \o SubSeq(Pieces(r.kind), 1, Len(Pieces(r.kind)))
          /\ req[c].kind # "undo" /\ ends[c] # "closed" /\ sent[c] < MaxRequests
          /\ UNCHANGED <<ends, queue, replies>>
      BY <1>1, <2>2 DEF StockSend, Send, Write, TypeOK
    <3>2. unread[c] = <<>>
      BY <1>1, <3>1 DEF Stock, Rest
    <3>3. <<>> \o SubSeq(Pieces(r.kind), 1, Len(Pieces(r.kind))) = Pieces(r.kind)
      <4>1. \A t \in Seq(Piece) : <<>> \o SubSeq(t, 1, Len(t)) = t
        BY ConcatEmptySeq
      <4> QED
        BY <4>1, PiecesFacts
    <3>4. unread'[c] = Pieces(req'[c].kind)
      BY <3>1, <3>2, <3>3
    <3>5. ends[c] # "left"
      <4>1. sent[c] \in Nat /\ MaxRequests \in Nat /\ Limit \in Nat
        BY <1>1, ConstantsAssumption DEF TypeOK
      <4>2. ends[c] = "left" => sent[c] >= Limit
        BY <1>1 DEF ClientInv
      <4> QED
        BY <3>1, <4>1, <4>2
    <3> QED
      BY <1>1, <1>2, <3>1, <3>4, <3>5 DEF Kept
  <2>3. CASE Receive(c) \/ StockClose(c)
    <3>1. /\ client[c] \in {"idle", "waiting"} /\ client'[c] \in {"idle", "closed"}
          /\ UNCHANGED <<ends, queue>>
      <4>1. CASE Receive(c)
        BY <1>1, <4>1 DEF Receive, TypeOK
      <4>2. CASE StockClose(c)
        <5>1. client[c] = "idle" /\ replies[c] = <<>>
          BY <1>1, <4>2 DEF StockClose, ClientInv, AnsweredInv
        <5> QED
          BY <1>1, <4>2, <5>1 DEF StockClose, HangUp, TypeOK
      <4> QED
        BY <2>3, <4>1, <4>2
    <3> QED
      BY <1>1, <1>2, <3>1 DEF Kept
  <2> QED
    BY <2>1, <2>2, <2>3 DEF StockClient
<1> QED
  BY <1>1, <1>2, <1>5, <1>6 DEF KInv

LEMMA KeptByAccept ==
    ASSUME SInv, KInv, Accept
    PROVE  KInv'
<1>1. /\ TypeOK /\ ~should_stop /\ \A d \in Clients : Kept(d)
      /\ queue \in Seq(Clients) /\ queue # <<>>
  BY DEF SInv, IInv, KInv, TypeOK, Accept
<1>2. PICK c \in Clients : c = Head(queue)
  BY <1>1
<1>3. /\ pc = "accept" /\ pc' = "header" /\ fd' = c /\ queue' = Tail(queue)
      /\ ends' = [ends EXCEPT ![c] = "served"]
      /\ UNCHANGED <<should_stop, unread, replies, client, req>>
  BY <1>2 DEF Accept, clients
<1>4. /\ Len(queue) \in Nat \ {0} /\ Len(queue') = Len(queue) - 1 /\ queue[1] = c
      /\ \A i \in 1 .. Len(queue') : queue'[i] = queue[i + 1]
  BY <1>1, <1>2, <1>3
<1>5. ~Serving /\ Serving' /\ ~Busy /\ ~Busy'
  BY <1>3 DEF Serving, Busy
<1>6. ends[c] = "queued"
  <2>1. 1 \in 1 .. Len(queue)
    BY <1>4
  <2> QED
    BY <1>4, <2>1 DEF SInv, IInv, QueueInv
<1>7. ends' \in [Clients -> {"none", "queued", "served", "left", "closed"}]
      /\ ends'[c] = "served" /\ \A d \in Clients \ {c} : ends'[d] = ends[d]
  BY <1>1, <1>3 DEF TypeOK
<1>8. Kept(c)'
  BY <1>1, <1>3, <1>5, <1>7 DEF Kept, AtWork
<1>9. ASSUME NEW d \in Clients, d # c PROVE Kept(d)'
  <2>1. ASSUME NEW i \in 1 .. Len(queue), queue[i] = d
        PROVE  \E j \in 1 .. Len(queue') : queue'[j] = d
    <3>1. i # 1
      BY <1>4, <1>9, <2>1
    <3>2. i - 1 \in 1 .. Len(queue') /\ (i - 1) + 1 = i
      BY <1>4, <3>1
    <3> QED
      BY <1>4, <2>1, <3>2
  <2>2. ends[d] # "served" /\ ends'[d] = ends[d]
    BY <1>1, <1>5, <1>7, <1>9 DEF Kept
  <2> QED
    BY <1>1, <1>3, <1>5, <2>1, <2>2 DEF Kept, AtWork
<1> QED
  BY <1>1, <1>3, <1>8, <1>9 DEF KInv

\* In a session, nothing happens to the clients that are not served.
LEMMA KeptOutside ==
    ASSUME KInv, Serving, fd \in Clients, queue' = queue,
           NEW d \in Clients, d # fd, fd' = fd \/ ~Busy',
           unread'[d] = unread[d], client'[d] = client[d], req'[d] = req[d], ends'[d] = ends[d],
           replies'[d] = replies[d]
    PROVE  Kept(d)'
<1>1. Kept(d) /\ ~AtWork(d) /\ ~AtWork(d)' /\ ends[d] # "served"
  BY DEF KInv, Kept, AtWork
<1> QED
  BY <1>1 DEF Kept

LEMMA KeptBySession ==
    ASSUME SInv, SInv', KInv, Serving, Serve
    PROVE  KInv'
<1>1. /\ TypeOK /\ ~should_stop /\ Serving /\ fd \in Clients /\ pc' # "dead"
      /\ \A d \in Clients : Kept(d) /\ ClientInv(d) /\ Stock(d)
  BY DEF SInv, IInv, KInv, AlwaysListening
<1>2. PICK c \in Clients : c = fd
  BY <1>1
<1>3. UNCHANGED <<should_stop, queue, client, req, sent>>
  BY DEF Serve, Accept, ReadEnd, ReadReset, ReadMisaligned, ReadHeader, DispatchApply, DispatchUndo,
    ReadShort, DispatchList, ListFails, DispatchGetbld, Reply, clients, Serving, Busy
<1>4. ASSUME NEW d \in Clients, d # c
      PROVE  unread'[d] = unread[d] /\ ends'[d] = ends[d] /\ replies'[d] = replies[d]
  <2>1. unread'[d] = unread[d]
    BY <1>1, <1>2, <1>4 DEF Serve, Accept, ReadEnd, ReadReset, ReadMisaligned, ReadHeader,
      DispatchApply, DispatchUndo, ReadShort, DispatchList, ListFails, DispatchGetbld, Reply, TypeOK,
      Serving, Busy
  <2>2. ends'[d] = ends[d]
    BY <1>1, <1>2, <1>4 DEF Serve, Accept, ReadEnd, ReadReset, ReadMisaligned, ReadHeader,
      DispatchApply, DispatchUndo, ReadShort, DispatchList, ListFails, DispatchGetbld, Reply, TypeOK,
      Serving, Busy, EndSession, EndMessage
  <2>3. replies'[d] = replies[d]
    BY <1>1, <1>2, <1>4 DEF Serve, Accept, ReadEnd, ReadReset, ReadMisaligned, ReadHeader,
      DispatchApply, DispatchUndo, ReadShort, DispatchList, ListFails, DispatchGetbld, Reply, TypeOK,
      Serving, Busy
  <2> QED
    BY <2>1, <2>2, <2>3
<1>5. ends[c] = "served" /\ client[c] # "reset"
  BY <1>1, <1>2 DEF ClientInv, ServedInv, Stock
\* The end of a session, at the end of file.
<1>6. CASE ReadEnd
  <2>1. /\ client[c] = "closed" /\ pc' = "accept" /\ fd' = NoClient
        /\ ends' = [ends EXCEPT ![c] = "closed"]
    BY <1>1, <1>2, <1>6 DEF ReadEnd, EndSession
  <2>2. ends'[c] = "closed"
    BY <1>1, <2>1 DEF TypeOK
  <2>3. Kept(c)'
    BY <1>3, <2>1, <2>2 DEF Kept
  <2>4. ~Busy'
    BY <2>1 DEF Busy
  <2> QED
    BY <1>1, <1>2, <1>3, <1>4, <2>3, <2>4, KeptOutside DEF KInv
\* The request is in hand until it is answered.
<1>7. CASE ReadHeader \/ (\E outcome \in {"OK", "dropped", "ERR_INVALID", "ERR_NOMEM"} : DispatchApply(outcome))
           \/ DispatchUndo \/ ReadShort \/ DispatchList \/ DispatchGetbld
  <2>1. pc' \in {"apply", "undo", "list", "getbld", "reply"} /\ fd' = fd /\ ends'[c] = ends[c]
    <3>1. CASE ReadHeader
      BY <1>1, <3>1 DEF ReadHeader, Die
    <3>2. CASE ~ReadHeader
      BY <1>7, <3>2 DEF DispatchApply, DispatchUndo, ReadShort, DispatchList, DispatchGetbld
    <3> QED
      BY <3>1, <3>2
  <2>2. Busy' /\ Serving' /\ AtWork(c)'
    BY <1>2, <2>1 DEF Busy, Serving, AtWork
  <2>3. Kept(c)'
    BY <1>2, <1>5, <2>1, <2>2 DEF Kept
  <2> QED
    BY <1>1, <1>2, <1>3, <1>4, <2>1, <2>3, KeptOutside DEF KInv
<1>8. CASE Reply
  <2>1. client[c] = "waiting" /\ pc = "reply"
    <3>1. AtWork(c) /\ pc = "reply"
      BY <1>2, <1>8 DEF Reply, AtWork, Busy
    <3> QED
      BY <1>1, <3>1 DEF Stock
  <2>2. replies' = [replies EXCEPT ![c] = Append(replies[c], answer)]
    BY <1>2, <1>8, <2>1 DEF Reply, Gone
  <2>3. replies'[c] # <<>>
    <3>1. replies'[c] = Append(replies[c], answer) /\ replies[c] \in Seq(Answers)
      BY <1>1, <2>2 DEF TypeOK
    <3>2. answer \in Answers
      BY <1>1 DEF TypeOK
    <3>3. \A s \in Seq(Answers) : \A a \in Answers : Append(s, a) # <<>>
      BY AppendProperties
    <3> QED
      BY <3>1, <3>2, <3>3
  <2>4. EndMessage
    BY <1>1, <1>8 DEF Reply, Die
  <2>5. \/ pc' = "header" /\ fd' = fd /\ ends' = ends
        \/ pc' = "accept" /\ ends' = [ends EXCEPT ![c] = "left"]
    BY <1>1, <1>2, <2>4 DEF EndMessage, EndSession
  <2>6. ~Busy'
    BY <2>5 DEF Busy
  <2>7. Kept(c)'
    <3>1. CASE pc' = "header" /\ fd' = fd /\ ends' = ends
      BY <1>2, <1>5, <2>3, <3>1 DEF Kept, Serving
    <3>2. CASE ends' = [ends EXCEPT ![c] = "left"]
      <4>1. ends'[c] = "left"
        BY <1>1, <3>2 DEF TypeOK
      <4> QED
        BY <2>3, <4>1 DEF Kept
    <3> QED
      BY <2>5, <3>1, <3>2
  <2> QED
    BY <1>1, <1>2, <1>3, <1>4, <2>6, <2>7, KeptOutside DEF KInv
<1>9. ~(ReadReset \/ ReadMisaligned \/ ListFails) /\ ~Accept
  BY <1>1 DEF ReadReset, ReadMisaligned, ListFails, Die, Accept, Serving, Busy
<1> QED
  BY <1>6, <1>7, <1>8, <1>9 DEF Serve

\* No command of raxlpxs waits for something that is not coming, if it needs no
\* more messages than a session has.
THEOREM NobodyForgotten ==
    MaxRequests <= Limit /\ StockConditions => (StockSpec => []NoneForgotten)
<1> SUFFICES ASSUME MaxRequests <= Limit, StockConditions PROVE StockSpec => []NoneForgotten
  OBVIOUS
<1>1. Init => SInv
  BY InitSInv
<1>2. SInv /\ [StockNext]_vars => SInv'
  BY StepSInv
<1>3. Init => KInv
  BY DEF Init, KInv, Kept
<1>4. SInv /\ SInv' /\ KInv /\ [StockNext]_vars => KInv'
  <2>1. SUFFICES ASSUME SInv, SInv', KInv, [StockNext]_vars PROVE KInv'
    OBVIOUS
  <2>2. CASE UNCHANGED vars
    <3>1. /\ UNCHANGED <<pc, fd, should_stop, queue, ends, unread, replies, client, req>>
          /\ Serving' = Serving /\ Busy' = Busy
      BY <2>2 DEF vars, server, clients, Serving, Busy
    <3> QED
      BY <2>1, <3>1, StaysKept DEF KInv
  <2>3. ASSUME NEW c \in Clients, StockClient(c) PROVE KInv'
    BY <2>1, <2>3, KeptByClients
  <2>4. CASE Serve
    <3>1. CASE Serving
      BY <2>1, <2>4, <3>1, KeptBySession
    <3>2. CASE ~Serving
      <4>1. Accept
        BY <2>4, <3>2 DEF Serve, ReadEnd, ReadReset, ReadMisaligned, ReadHeader, DispatchApply,
          DispatchUndo, ReadShort, DispatchList, ListFails, DispatchGetbld, Reply, Serving, Busy
      <4> QED
        BY <2>1, <4>1, KeptByAccept
    <3> QED
      BY <3>1, <3>2
  <2> QED
    BY <2>1, <2>2, <2>3, <2>4 DEF StockNext
<1>5. SInv /\ KInv => NoneForgotten
  <2>1. SUFFICES ASSUME SInv, KInv, NEW c \in Clients, client[c] = "waiting", replies[c] = <<>>, ~AtWork(c)
                 PROVE  /\ unread[c] = Pieces(req[c].kind)
                        /\ (pc = "header" /\ fd = c) \/ \E i \in 1 .. Len(queue) : queue[i] = c
    BY DEF NoneForgotten
  <2>2. Kept(c) /\ ends[c] \in {"none", "queued", "served", "left", "closed"}
    BY <2>1 DEF KInv, SInv, IInv, TypeOK
  <2> QED
    BY <2>1, <2>2 DEF Kept, AtWork, Serving
<1> QED
  BY <1>1, <1>2, <1>3, <1>4, <1>5, PTL DEF StockSpec
=============================================================================
