-------------------------------- MODULE Relay --------------------------------
(***************************************************************************)
(* What the load balancer promises its clients.  A request is handed to    *)
(* one server at most; a server's answers come back in the order in which  *)
(* its requests were handed to it; each goes to the client that asked, and *)
(* at most once.  Nothing promises delivery: requests and answers may be   *)
(* lost anywhere, and of answers that leave together only the first gets   *)
(* to its client.                                                          *)
(***************************************************************************)
EXTENDS Naturals, Sequences

CONSTANTS Conns, Requests

VARIABLES
    pending,    \* requests that were not handed to a server
    queue,      \* for each connection, the requests handed to it, oldest first
    delivered   \* requests whose answer was sent to the client

vars == <<pending, queue, delivered>>

Init ==
    /\ pending = Requests
    /\ queue = [c \in Conns |-> <<>>]
    /\ delivered = {}

Hand(r, c) ==
    /\ r \in pending
    /\ pending' = pending \ {r}
    /\ queue' = [queue EXCEPT ![c] = Append(@, r)]
    /\ UNCHANGED delivered

\* The n oldest answers leave in one datagram.
Deliver(c, n) ==
    /\ delivered' = delivered \cup {Head(queue[c])}
    /\ queue' = [queue EXCEPT ![c] = SubSeq(@, n + 1, Len(@))]
    /\ UNCHANGED pending

\* Requests that were not handed over are lost, and what one connection has of
\* the requests from the i-th to before the j-th.
Lose(lost) ==
    /\ pending' = pending \ lost
    /\ \/ UNCHANGED queue
       \/ \E c \in Conns : \E i \in 1 .. Len(queue[c]) : \E j \in i .. Len(queue[c]) + 1 :
             queue' = [queue EXCEPT ![c] = SubSeq(@, 1, i - 1) \o SubSeq(@, j, Len(@))]
    /\ UNCHANGED delivered

Next == \/ \E r \in Requests, c \in Conns : Hand(r, c)
        \/ \E c \in Conns : \E n \in 1 .. Len(queue[c]) : Deliver(c, n)
        \/ \E lost \in SUBSET Requests : Lose(lost)

Spec == Init /\ [][Next]_vars
=============================================================================
