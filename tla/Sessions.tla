------------------------------ MODULE Sessions ------------------------------
(***************************************************************************)
(* What the listener promises its clients, whatever they send: connections *)
(* are served in the order in which they were made, one at a time, up to   *)
(* Limit messages each, until the listener ends.  The connection that is   *)
(* served is at the head of the queue.                                     *)
(***************************************************************************)
EXTENDS Naturals, Sequences

CONSTANTS
    Clients,
    Limit       \* SANDBOX_MSG_SESSION_LIMIT

VARIABLES
    open,       \* the listener serves
    joined,     \* the clients that have connected, once each
    queue,      \* connections that are served or wait for it
    count       \* messages of the one that is served

vars == <<open, joined, queue, count>>

Init ==
    /\ open = TRUE
    /\ joined = {}
    /\ queue = <<>>
    /\ count = 0

\* The socket takes connections when nobody serves them any more, too.
Join(c) ==
    /\ c \notin joined
    /\ joined' = joined \cup {c}
    /\ queue' = IF open THEN Append(queue, c) ELSE queue
    /\ UNCHANGED <<open, count>>

\* A message of the session, but for the last.
Exchange ==
    /\ open
    /\ queue # <<>>
    /\ count + 1 < Limit
    /\ count' = count + 1
    /\ UNCHANGED <<open, joined, queue>>

\* The last message of a session, or the end of its client.
Leave ==
    /\ open
    /\ queue # <<>>
    /\ queue' = Tail(queue)
    /\ count' = 0
    /\ UNCHANGED <<open, joined>>

\* An error the listener does not survive, or stop_listener: at either a
\* connection is served, and those behind it will not be.
End ==
    /\ open
    /\ queue # <<>>
    /\ open' = FALSE
    /\ queue' = <<>>
    /\ count' = 0
    /\ UNCHANGED joined

Next == Exchange \/ Leave \/ End \/ \E c \in Clients : Join(c)

Spec == Init /\ [][Next]_vars
=============================================================================
