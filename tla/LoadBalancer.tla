----------------------------- MODULE LoadBalancer -----------------------------
(***************************************************************************)
(* The load balancer: one thread that relays datagrams of clients to the   *)
(* connection with the fewest active requests, and what servers send back  *)
(* to the client named in it.  Its environment is the TCP connections to   *)
(* the servers, which are streams without packet boundaries, and servers   *)
(* that answer, fall silent, and die.                                      *)
(*                                                                         *)
(* A packet is a sequence of Parts cells in a stream.  One recv returns    *)
(* any number of the cells that wait, as TCP does.                         *)
(***************************************************************************)
EXTENDS Integers, Sequences

CONSTANTS
    Conns,     \* connections that servers make, one per accept
    Requests,  \* datagrams that clients send
    Parts,     \* cells of a packet in a stream: 1 when no packet is ever split
    Window,    \* cells that fit into the buffers of one direction of a connection
    FDs,       \* descriptors the load balancer can have, besides those it starts with
    Posix,     \* select looks at descriptors up to nfds only, and SIGPIPE exists
    None

listenFD == 3
clientFD == 4
INVALID_SOCKET == -1

ASSUME StreamAssumption == Parts \in Nat \ {0} /\ Window \in Nat /\ Posix \in BOOLEAN
ASSUME DescriptorAssumption == FDs \subseteq Nat /\ \A fd \in FDs : fd > clientFD

VARIABLES
    serverSockets,   \* the vector of ServerConnection pointers
    sock,            \* ServerConnection.sock
    activeRequests,  \* ServerConnection.activeRequests
    maxFD,
    readSet,         \* the descriptors select returned
    pc,              \* where the thread is
    next,            \* the position of the loop over serverSockets
    buff,            \* the datagram that was read and not yet sent
    selectedServer,  \* where it goes
    requests,        \* datagrams in the buffer of the client socket
    unsent,          \* datagrams clients have not sent yet
    forwarded,       \* datagrams sent to clients
    backlog,         \* connections that wait for accept
    toServer,        \* the two streams of each connection
    fromServer,
    peer,            \* the server's end: new, up, gone
    reset,           \* the load balancer's kernel knows that the peer refuses data
    reply            \* the packet a server is about to send

balancer == <<serverSockets, sock, activeRequests, maxFD>>
loop == <<readSet, pc, next, buff, selectedServer>>
clients == <<requests, unsent, forwarded>>
streams == <<toServer, fromServer>>
servers == <<peer, reset, reply>>
vars == <<serverSockets, sock, activeRequests, maxFD, readSet, pc, next, buff, selectedServer,
          requests, unsent, forwarded, backlog, toServer, fromServer, peer, reset, reply>>

-----------------------------------------------------------------------------
(* Streams *)

\* A reply names the client of the request it answers, or no client when the
\* server took its header from the middle of a packet.
Replies == [req : Requests \cup {None}, ok : BOOLEAN]
Cells(packet) == [i \in 1 .. Parts |-> [packet |-> packet, part |-> i]]
RequestCells == [packet : Requests, part : 1 .. Parts]
ReplyCells == [packet : Replies, part : 1 .. Parts]

ASSUME NoneAssumption == None \notin Conns /\ None \notin Requests /\ None \notin Replies

Room(stream) == Len(stream) + Parts <= Window
Taken(stream, n) == SubSeq(stream, 1, n)
Rest(stream, n) == SubSeq(stream, n + 1, Len(stream))

LoseTail(c) == \E n \in 0 .. Len(fromServer[c]) :
    fromServer' = [fromServer EXCEPT ![c] = Taken(fromServer[c], n)]

\* What one recv returned is one packet, the whole of it.
IsPacket(cells) == Len(cells) = Parts /\ cells = Cells(cells[1].packet)

-----------------------------------------------------------------------------
(* Descriptors *)

Listed == {serverSockets[i] : i \in 1 .. Len(serverSockets)}
Open == {sock[c] : c \in Listed}

\* accept returns the lowest free descriptor; a Windows handle is any value.
NewFD(fd) ==
    /\ fd \in FDs \ Open
    /\ Posix => \A lower \in FDs \ Open : fd <= lower

\* Data, the end of the stream, or an error makes a connection readable.
Readable(c) == fromServer[c] # <<>> \/ peer[c] = "gone"
Watched(fd) == Posix => fd <= maxFD

\* Defect: only connections with active requests are watched.
ReadyIfActive ==
    {fd \in {listenFD} : backlog # <<>>} \cup {fd \in {clientFD} : requests # {}}
      \cup {sock[c] : c \in {d \in Listed : Readable(d) /\ activeRequests[d] > 0}}

Ready ==
    {fd \in {listenFD} : backlog # <<>>} \cup {fd \in {clientFD} : requests # {}}
      \cup {sock[c] : c \in {d \in Listed : Readable(d)}}

-----------------------------------------------------------------------------
Init ==
    /\ serverSockets = <<>>
    /\ sock = [c \in Conns |-> INVALID_SOCKET]
    /\ activeRequests = [c \in Conns |-> 0]
    /\ maxFD = clientFD
    /\ readSet = {} /\ pc = "select" /\ next = 1 /\ buff = None /\ selectedServer = None
    /\ requests = {} /\ unsent = Requests /\ forwarded = {}
    /\ backlog = <<>>
    /\ toServer = [c \in Conns |-> <<>>] /\ fromServer = [c \in Conns |-> <<>>]
    /\ peer = [c \in Conns |-> "new"]
    /\ reset = [c \in Conns |-> FALSE]
    /\ reply = [c \in Conns |-> None]

-----------------------------------------------------------------------------
(* The loop of main *)

\* One branch is taken: a server that connects comes before a request, and a
\* request before every answer.
Branch(ready) == IF listenFD \in ready THEN "accept"
                 ELSE IF clientFD \in ready THEN "client" ELSE "servers"

Select ==
    /\ pc = "select"
    /\ LET ready == {fd \in Ready : Watched(fd)} IN
        /\ ready # {}
        /\ readSet' = ready
        /\ pc' = Branch(ready)
    /\ next' = 1
    /\ UNCHANGED <<balancer, buff, selectedServer, clients, backlog, streams, servers>>

\* Defect: maxFD is not raised.
AcceptUnwatched ==
    /\ pc = "accept"
    /\ \E newSocket \in FDs :
        /\ NewFD(newSocket)
        /\ serverSockets' = Append(serverSockets, Head(backlog))
        /\ sock' = [sock EXCEPT ![Head(backlog)] = newSocket]
        /\ activeRequests' = [activeRequests EXCEPT ![Head(backlog)] = 0]
    /\ backlog' = Tail(backlog)
    /\ pc' = "select"
    /\ UNCHANGED <<maxFD, readSet, next, buff, selectedServer, clients, streams, servers>>

Accept ==
    /\ pc = "accept"
    /\ \E newSocket \in FDs :
        /\ NewFD(newSocket)
        /\ serverSockets' = Append(serverSockets, Head(backlog))
        /\ sock' = [sock EXCEPT ![Head(backlog)] = newSocket]
        /\ activeRequests' = [activeRequests EXCEPT ![Head(backlog)] = 0]
        /\ maxFD' = newSocket
    /\ backlog' = Tail(backlog)
    /\ pc' = "select"
    /\ UNCHANGED <<readSet, next, buff, selectedServer, clients, streams, servers>>

\* min_element: the first of the connections with the fewest active requests.
IsLeastActive(i) ==
    \A j \in 1 .. Len(serverSockets) :
        LET load(k) == activeRequests[serverSockets[k]] IN
        load(i) < load(j) \/ (load(i) = load(j) /\ i <= j)

\* Defect: the list is checked before recvfrom, which is then skipped.
ReceiveRequestLater ==
    /\ pc = "client"
    /\ \/ serverSockets = <<>> /\ pc' = "select" /\ UNCHANGED <<requests, buff, selectedServer>>
       \/ /\ \E r \in requests : requests' = requests \ {r} /\ buff' = r
          /\ pc' = "send"
          /\ \E i \in 1 .. Len(serverSockets) :
                IsLeastActive(i) /\ selectedServer' = serverSockets[i]
    /\ UNCHANGED <<balancer, readSet, next, unsent, forwarded, backlog, streams, servers>>

\* Defect: the datagram is read with MSG_PEEK and stays in the socket.
ReceiveRequestPeeks ==
    /\ pc = "client"
    /\ \E r \in requests :
        \/ serverSockets = <<>> /\ pc' = "select" /\ UNCHANGED <<buff, selectedServer>>
        \/ /\ buff' = r /\ pc' = "send"
           /\ \E i \in 1 .. Len(serverSockets) :
                 IsLeastActive(i) /\ selectedServer' = serverSockets[i]
    /\ UNCHANGED <<balancer, readSet, next, clients, backlog, streams, servers>>

ReceiveRequest ==
    /\ pc = "client"
    /\ \E r \in requests :
        /\ requests' = requests \ {r}
        /\ \/ /\ serverSockets = <<>>     \* no active servers: the request is dropped
              /\ pc' = "select" /\ UNCHANGED <<buff, selectedServer>>
           \/ /\ buff' = r /\ pc' = "send"
              /\ \E i \in 1 .. Len(serverSockets) :
                    IsLeastActive(i) /\ selectedServer' = serverSockets[i]
    /\ UNCHANGED <<balancer, readSet, next, unsent, forwarded, backlog, streams, servers>>

\* sendPacket.  The first packet to a peer that is gone is accepted and lost, and
\* comes back as a reset, which may drop what was not read; from then on send
\* fails, with SIGPIPE on POSIX.
Sent ==
    /\ ~reset[selectedServer]
    /\ \/ /\ peer[selectedServer] # "gone" /\ Room(toServer[selectedServer])
          /\ toServer' = [toServer EXCEPT ![selectedServer] = @ \o Cells(buff)]
          /\ UNCHANGED <<fromServer, reset>>
       \/ /\ peer[selectedServer] = "gone"
          /\ reset' = [reset EXCEPT ![selectedServer] = TRUE]
          /\ LoseTail(selectedServer)
          /\ UNCHANGED toServer
    /\ activeRequests' = [activeRequests EXCEPT ![selectedServer] = @ + 1]
    /\ pc' = "select"
SendFails ==
    /\ reset[selectedServer]
    /\ \/ pc' = "select"
       \/ Posix /\ pc' = "killed"
    /\ UNCHANGED <<streams, reset, activeRequests>>

\* Defect: a send that fails is tried again until it succeeds.
SendPacketRetries ==
    /\ pc = "send"
    /\ \/ reset[selectedServer] /\ UNCHANGED vars
       \/ /\ Sent /\ buff' = None /\ selectedServer' = None
          /\ UNCHANGED <<serverSockets, sock, maxFD, readSet, next, clients, backlog, peer, reply>>

SendPacket ==
    /\ pc = "send"
    /\ Sent \/ SendFails
    /\ buff' = None /\ selectedServer' = None
    /\ UNCHANGED <<serverSockets, sock, maxFD, readSet, next, clients, backlog, peer, reply>>

-----------------------------------------------------------------------------
(* The loop over the servers, in the third branch *)

AtServer == pc = "servers" /\ next <= Len(serverSockets)
Server == serverSockets[next]

\* Defect: a request is counted as answered whether or not there is an answer.
SkipServerCounts ==
    /\ AtServer /\ sock[Server] \notin readSet
    /\ activeRequests' = [activeRequests EXCEPT ![Server] = @ - 1]
    /\ next' = next + 1
    /\ UNCHANGED <<serverSockets, sock, maxFD, readSet, pc, buff, selectedServer, clients, backlog,
                   streams, servers>>

SkipServer ==
    /\ AtServer /\ sock[Server] \notin readSet
    /\ next' = next + 1
    /\ UNCHANGED <<balancer, readSet, pc, buff, selectedServer, clients, backlog, streams, servers>>

\* Defect: only what is a whole packet is sent to a client.
ReceiveReplyWhole ==
    /\ AtServer /\ sock[Server] \in readSet
    /\ activeRequests' = [activeRequests EXCEPT ![Server] = @ - 1]
    /\ \E n \in 1 .. Len(fromServer[Server]) :
        LET cells == Taken(fromServer[Server], n) IN
        /\ fromServer' = [fromServer EXCEPT ![Server] = Rest(fromServer[Server], n)]
        /\ IF IsPacket(cells) /\ cells[1].packet.req # None
           THEN forwarded' = forwarded \cup {[to |-> cells[1].packet.req, cells |-> cells]}
           ELSE UNCHANGED forwarded
    /\ next' = next + 1
    /\ UNCHANGED <<serverSockets, sock, maxFD, readSet, pc, buff, selectedServer, requests, unsent,
                   backlog, toServer, servers>>

\* recvPacket counts the request as answered before it reads.  All that was read
\* goes to the client that the first header names.
ReceiveReply ==
    /\ AtServer /\ sock[Server] \in readSet
    /\ activeRequests' = [activeRequests EXCEPT ![Server] = @ - 1]
    /\ \E n \in 1 .. Len(fromServer[Server]) :
        LET cells == Taken(fromServer[Server], n) IN
        /\ fromServer' = [fromServer EXCEPT ![Server] = Rest(fromServer[Server], n)]
        /\ IF cells[1].part = 1 /\ cells[1].packet.req # None
           THEN forwarded' = forwarded \cup {[to |-> cells[1].packet.req, cells |-> cells]}
           ELSE UNCHANGED forwarded
    /\ next' = next + 1
    /\ UNCHANGED <<serverSockets, sock, maxFD, readSet, pc, buff, selectedServer, requests, unsent,
                   backlog, toServer, servers>>

\* Defect: closed sockets are not left out.
RecomputeMaxFDOfAll ==
    LET fd(i) == sock'[serverSockets[i]]
        last == Len(serverSockets) - 1
    IN  \/ last = 0 /\ UNCHANGED maxFD
        \/ last > 0 /\ maxFD' = IF fd(last) >= fd(last + 1) THEN fd(last) ELSE fd(last + 1)

\* The new maxFD is that of the last pair of neighbours whose first is valid.
RecomputeMaxFD ==
    LET fd(i) == sock'[serverSockets[i]]
        valid == {i \in 1 .. Len(serverSockets) - 1 : fd(i) # INVALID_SOCKET}
    IN  \/ valid = {} /\ UNCHANGED maxFD
        \/ \E i \in valid :
             /\ \A j \in valid : j <= i
             /\ maxFD' = IF fd(i) >= fd(i + 1) THEN fd(i) ELSE fd(i + 1)

LoseServer ==
    /\ AtServer /\ sock[Server] \in readSet
    /\ fromServer[Server] = <<>>
    /\ activeRequests' = [activeRequests EXCEPT ![Server] = @ - 1]
    /\ sock' = [sock EXCEPT ![Server] = INVALID_SOCKET]
    /\ RecomputeMaxFD
    /\ next' = next + 1
    /\ UNCHANGED <<serverSockets, readSet, pc, buff, selectedServer, clients, backlog, streams, servers>>

Without(seq, i) == SubSeq(seq, 1, i - 1) \o SubSeq(seq, i + 1, Len(seq))

\* Defect: the first closed connection is erased and no other.
EraseFirst ==
    /\ pc = "servers" /\ next > Len(serverSockets)
    /\ \/ \E i \in 1 .. Len(serverSockets) :
             /\ sock[serverSockets[i]] = INVALID_SOCKET
             /\ serverSockets' = Without(serverSockets, i)
       \/ INVALID_SOCKET \notin Open /\ UNCHANGED serverSockets
    /\ pc' = "select"
    /\ UNCHANGED <<sock, activeRequests, maxFD, readSet, next, buff, selectedServer, clients, backlog,
                   streams, servers>>

\* remove_if and erase, one closed connection after the other.
EraseClosed ==
    /\ pc = "servers" /\ next > Len(serverSockets)
    /\ \/ /\ \E i \in 1 .. Len(serverSockets) :
              /\ sock[serverSockets[i]] = INVALID_SOCKET
              /\ serverSockets' = Without(serverSockets, i)
          /\ UNCHANGED pc
       \/ /\ INVALID_SOCKET \notin Open
          /\ pc' = "select" /\ UNCHANGED serverSockets
    /\ UNCHANGED <<sock, activeRequests, maxFD, readSet, next, buff, selectedServer, clients, backlog,
                   streams, servers>>

Balancer == \/ Select \/ Accept \/ ReceiveRequest \/ SendPacket
            \/ SkipServer \/ ReceiveReply \/ LoseServer \/ EraseClosed

-----------------------------------------------------------------------------
(* The environment: clients, and the server at the other end *)

ClientSend ==
    /\ \E r \in unsent : unsent' = unsent \ {r} /\ requests' = requests \cup {r}
    /\ UNCHANGED <<balancer, loop, forwarded, backlog, streams, servers>>

Connect(c) ==
    /\ peer[c] = "new"
    /\ peer' = [peer EXCEPT ![c] = "up"]
    /\ backlog' = Append(backlog, c)
    /\ UNCHANGED <<balancer, loop, clients, streams, reset, reply>>

\* One recv of a server: one packet is executed, and may be of a type that is not
\* answered; more or less than one packet is answered as a bad packet.
ServerReceive(c) ==
    /\ peer[c] = "up" /\ reply[c] = None
    /\ \E n \in 1 .. Len(toServer[c]) :
        LET cells == Taken(toServer[c], n)
            client == IF cells[1].part = 1 THEN cells[1].packet ELSE None
        IN  /\ toServer' = [toServer EXCEPT ![c] = Rest(toServer[c], n)]
            /\ \/ reply' = [reply EXCEPT ![c] = [req |-> client, ok |-> IsPacket(cells)]]
               \/ IsPacket(cells) /\ UNCHANGED reply
    /\ UNCHANGED <<balancer, loop, clients, backlog, fromServer, peer, reset>>

\* send blocks while the stream to the load balancer is full.
ServerSend(c) ==
    /\ peer[c] = "up" /\ reply[c] # None
    /\ Room(fromServer[c])
    /\ fromServer' = [fromServer EXCEPT ![c] = @ \o Cells(reply[c])]
    /\ reply' = [reply EXCEPT ![c] = None]
    /\ UNCHANGED <<balancer, loop, clients, backlog, toServer, peer, reset>>

\* A server that dies with unread packets resets the connection, and what it had
\* sent may be lost with it; otherwise the stream ends after what it sent.
ServerDie(c) ==
    /\ peer[c] = "up"
    /\ peer' = [peer EXCEPT ![c] = "gone"]
    /\ toServer' = [toServer EXCEPT ![c] = <<>>]
    /\ reply' = [reply EXCEPT ![c] = None]
    /\ \/ toServer[c] = <<>> /\ UNCHANGED <<fromServer, reset>>
       \/ /\ toServer[c] # <<>>
          /\ reset' = [reset EXCEPT ![c] = TRUE]
          /\ LoseTail(c)
    /\ UNCHANGED <<balancer, loop, clients, backlog>>

\* select times out.
SelectTimeout ==
    /\ pc = "select" /\ \A fd \in Ready : ~Watched(fd)
    /\ UNCHANGED vars

Next == \/ Balancer \/ SelectTimeout \/ ClientSend
        \/ \E c \in Conns : Connect(c) \/ ServerReceive(c) \/ ServerSend(c) \/ ServerDie(c)

Spec == Init /\ [][Next]_vars
FairSpec == /\ Spec /\ WF_vars(Balancer)
            /\ \A c \in Conns : WF_vars(ServerReceive(c)) /\ WF_vars(ServerSend(c))

-----------------------------------------------------------------------------
(* What makes the relay correct *)

Live == {c \in Listed : sock[c] # INVALID_SOCKET}

TypeOK ==
    /\ serverSockets \in Seq(Conns) /\ backlog \in Seq(Conns)
    /\ sock \in [Conns -> FDs \cup {INVALID_SOCKET}]
    /\ activeRequests \in [Conns -> Int]
    /\ maxFD \in FDs \cup {clientFD}
    /\ readSet \subseteq FDs \cup {listenFD, clientFD}
    /\ pc \in {"select", "accept", "client", "send", "servers", "killed"}
    /\ next \in Nat \ {0}
    /\ buff \in Requests \cup {None} /\ selectedServer \in Conns \cup {None}
    /\ requests \subseteq Requests /\ unsent \subseteq Requests
    /\ forwarded \subseteq [to : Requests, cells : Seq(ReplyCells)]
    /\ toServer \in [Conns -> Seq(RequestCells)] /\ fromServer \in [Conns -> Seq(ReplyCells)]
    /\ peer \in [Conns -> {"new", "up", "gone"}]
    /\ reset \in [Conns -> BOOLEAN] /\ reply \in [Conns -> Replies \cup {None}]

\* No connection is listed twice and no two have one descriptor, though closed
\* descriptors are reused; and a closed connection is in the list only while the
\* loop that closed it is under way, never when FD_SET or send gets its socket.
SocketsSound ==
    /\ \A i, j \in 1 .. Len(serverSockets) : i # j =>
          /\ serverSockets[i] # serverSockets[j]
          /\ sock[serverSockets[i]] = sock[serverSockets[j]] =>
                sock[serverSockets[i]] = INVALID_SOCKET
    /\ \A i \in 1 .. Len(serverSockets) :
          sock[serverSockets[i]] = INVALID_SOCKET => pc = "servers" /\ i < next
    /\ pc = "send" => selectedServer \in Live

\* Whatever connections come and go, select goes on watching the sockets that
\* requests and new servers arrive on.
ClientsWatched == maxFD >= clientFD

\* Until a server is lost, select watches every server.
WatchedUntilLoss ==
    (\A c \in Conns : peer[c] # "gone") => \A c \in Listed : Watched(sock[c])

\* As long as no packet is split, a connection is never taken for less loaded than
\* it is: every request on its way to a server, in its hands, or answered and not
\* yet relayed is counted, also when packets run together.  Requests that were
\* lost or had no answer of their own stay counted.
Outstanding(c) == Len(toServer[c]) + Len(fromServer[c]) + (IF reply[c] = None THEN 0 ELSE 1)
NeverUndercounts == Parts = 1 => \A c \in Live : activeRequests[c] >= Outstanding(c)

\* The one way in which the balancer waits for ever: it is in send to a server that
\* reads no more because it is itself in send, and nobody reads either stream.
SendingToEachOther ==
    /\ pc = "send" /\ ~Room(toServer[selectedServer])
    /\ reply[selectedServer] # None /\ ~Room(fromServer[selectedServer])

\* A send that fills a connection's buffers returns, whether the server reads on,
\* dies, or was gone before; every request leaves the client socket.
SendReturns == pc = "send" ~> pc # "send" \/ SendingToEachOther
RequestsTaken == \A r \in Requests : r \in requests ~> r \notin requests \/ SendingToEachOther

\* What a server sends is read, and a reply that is the first thing to be read goes to
\* the client it answers, however little of it recv returns; unless the connection is
\* lost.  Only its head is sure to: the rest of a reply that recv splits has no header
\* and goes nowhere, like the replies that are read behind another.
Heads(c, r) == /\ fromServer[c] # <<>>
               /\ Head(fromServer[c]).part = 1 /\ Head(fromServer[c]).packet.req = r
Relayed(r) == \E datagram \in forwarded :
    datagram.to = r /\ Head(datagram.cells).part = 1 /\ Head(datagram.cells).packet.req = r
RepliesRelayed == \A c \in Conns :
    /\ c \in Listed /\ fromServer[c] # <<>> ~>
            fromServer[c] = <<>> \/ peer[c] = "gone" \/ SendingToEachOther
    /\ \A r \in Requests : c \in Listed /\ Heads(c, r) ~>
            Relayed(r) \/ peer[c] = "gone" \/ SendingToEachOther

\* A server that is gone is forgotten.
LostServersForgotten == \A c \in Conns :
    c \in Listed /\ peer[c] = "gone" ~> c \notin Listed \/ SendingToEachOther

-----------------------------------------------------------------------------
(* The abstract relay the load balancer implements *)

\* Oldest first: the answers on their way back, the one in the server's hands, and
\* the requests on their way to it.
Queue(c) ==
    [i \in 1 .. Len(fromServer[c]) |-> fromServer[c][i].packet.req]
    \o (IF reply[c] = None THEN <<>> ELSE <<reply[c].req>>)
    \o [i \in 1 .. Len(toServer[c]) |-> toServer[c][i].packet]

Abstract == INSTANCE Relay WITH
    pending <- unsent \cup requests \cup ({buff} \ {None}),
    queue <- [c \in Conns |-> Queue(c)],
    delivered <- {datagram.to : datagram \in forwarded}

\* Where no packet is split, the balancer implements the abstract relay, although
\* it forgets a request as soon as it is sent: none goes to two servers, none is
\* answered twice or to another client, and no answer overtakes another.
ImplementsRelay == Abstract!Spec

-----------------------------------------------------------------------------
(* What the repository says of the program, and the code does not do *)

\* TheSystemLoadBalancer.cpp:244, "find the new max FD": select watches every
\* connection.  On POSIX maxFD is the descriptor of the last accept, which reuses
\* the lowest free one, or of the last pair of neighbours in the list.
EveryServerWatched == pc = "select" => \A c \in Listed : Watched(sock[c])
=============================================================================
