--------------------------- MODULE LoadBalancerProofs ---------------------------
(***************************************************************************)
(* Proofs, for any number of connections, requests, descriptors and cells  *)
(* of a packet, of what LoadBalancer states about the list of connections, *)
(* their descriptors and their counts.                                     *)
(***************************************************************************)
EXTENDS LoadBalancer, SequenceTheorems, TLAPS

(* The inductive invariant *)

Distinct(seq) == \A i, j \in 1 .. Len(seq) : i # j => seq[i] # seq[j]
Backlogged == {backlog[i] : i \in 1 .. Len(backlog)}

\* A connection waits for accept, or is listed, once and after it was made; until
\* it is listed nothing is sent over it.
ListInv ==
    /\ Distinct(serverSockets) /\ Distinct(backlog) /\ Listed \cap Backlogged = {}
    /\ \A c \in Listed \cup Backlogged : peer[c] # "new"
    /\ \A c \in Conns : c \in Backlogged \/ peer[c] = "new" =>
          toServer[c] = <<>> /\ fromServer[c] = <<>> /\ reply[c] = None

\* What the thread found when it chose its branch is still so.
BranchInv ==
    /\ pc = "accept" => backlog # <<>>
    /\ pc = "send" => buff \in Requests /\ selectedServer \in Listed
    /\ pc = "servers" => \A i \in next .. Len(serverSockets) :
          sock[serverSockets[i]] \in readSet => Readable(serverSockets[i])

\* Sockets are one descriptor each, and closed only in the loop, after their server
\* is gone.
SocketInv ==
    /\ \A c, d \in Listed : c # d /\ sock[c] = sock[d] => sock[c] = INVALID_SOCKET
    /\ \A i \in 1 .. Len(serverSockets) : sock[serverSockets[i]] = INVALID_SOCKET =>
          pc = "servers" /\ i < next /\ peer[serverSockets[i]] = "gone"

\* As long as no server is lost the open descriptors are the lowest, up to maxFD.
LowestInv ==
    Posix /\ (\A c \in Conns : peer[c] # "gone") =>
        \A fd \in FDs : fd \in Open <=> fd <= maxFD

BalancerInv == TypeOK /\ ListInv /\ BranchInv /\ SocketInv /\ LowestInv /\ NeverUndercounts

USE DEF listenFD, clientFD, INVALID_SOCKET

-----------------------------------------------------------------------------
(* Streams and lists *)

LEMMA TakenType ==
    ASSUME NEW S, NEW s \in Seq(S), NEW n \in 0 .. Len(s)
    PROVE  /\ Taken(s, n) \in Seq(S) /\ Len(Taken(s, n)) = n
           /\ \A i \in 1 .. n : Taken(s, n)[i] = s[i]
<1>1. Len(s) \in Nat /\ \A i \in 1 .. n : s[i] \in S
  BY LenProperties, ElementOfSeq
<1> QED
  BY <1>1, SubSeqProperties DEF Taken

LEMMA RestType ==
    ASSUME NEW S, NEW s \in Seq(S), NEW n \in 0 .. Len(s)
    PROVE  /\ Rest(s, n) \in Seq(S) /\ Len(Rest(s, n)) = Len(s) - n
           /\ \A i \in 1 .. Len(s) - n : Rest(s, n)[i] = s[n + i]
<1> DEFINE m == n + 1
           len == Len(s)
<1>1. len \in Nat /\ n \in Nat /\ n <= len
  BY LenProperties
<1>2. \A i \in m .. len : s[i] \in S
  BY <1>1, ElementOfSeq
<1>3. m \in Int /\ len \in Int
  BY <1>1
<1> HIDE DEF m, len
<1>4. /\ SubSeq(s, m, len) \in Seq(S)
      /\ Len(SubSeq(s, m, len)) = IF m <= len THEN len - m + 1 ELSE 0
      /\ \A i \in 1 .. len - m + 1 : SubSeq(s, m, len)[i] = s[m + i - 1]
  BY <1>2, <1>3, SubSeqProperties
<1> QED
  BY <1>1, <1>4 DEF Rest, m, len

LEMMA CellsType ==
    ASSUME NEW S, NEW packet \in S
    PROVE  /\ Cells(packet) \in Seq([packet : S, part : 1 .. Parts]) /\ Len(Cells(packet)) = Parts
           /\ \A i \in 1 .. Parts : Cells(packet)[i] = [packet |-> packet, part |-> i]
  BY StreamAssumption DEF Cells

LEMMA WithoutType ==
    ASSUME NEW S, NEW s \in Seq(S), NEW i \in 1 .. Len(s)
    PROVE  /\ Without(s, i) \in Seq(S) /\ Len(Without(s, i)) = Len(s) - 1
           /\ \A j \in 1 .. Len(s) - 1 : Without(s, i)[j] = IF j < i THEN s[j] ELSE s[j + 1]
<1> DEFINE len == Len(s)
           front == SubSeq(s, 1, i - 1)
           back == SubSeq(s, i + 1, len)
<1>1. len \in Nat /\ i \in Nat /\ 1 <= i /\ i <= len
  BY LenProperties
<1>2. \A j \in 1 .. len : s[j] \in S
  BY ElementOfSeq
<1>3. front \in Seq(S) /\ Len(front) = i - 1 /\ \A j \in 1 .. i - 1 : front[j] = s[j]
  BY <1>1, <1>2, SubSeqProperties
<1>4. back \in Seq(S) /\ Len(back) = len - i /\ \A j \in 1 .. len - i : back[j] = s[i + j]
  BY <1>1, <1>2, RestType DEF Rest
<1> HIDE DEF front, back, len
<1>5. /\ front \o back \in Seq(S) /\ Len(front \o back) = len - 1
      /\ \A j \in 1 .. len - 1 : (front \o back)[j] = IF j <= i - 1 THEN front[j] ELSE back[j - (i - 1)]
  <2>1. /\ front \o back \in Seq(S) /\ Len(front \o back) = Len(front) + Len(back)
        /\ \A j \in 1 .. Len(front) + Len(back) :
              (front \o back)[j] = IF j <= Len(front) THEN front[j] ELSE back[j - Len(front)]
    BY <1>3, <1>4, ConcatProperties
  <2>2. Len(front) + Len(back) = len - 1
    BY <1>1, <1>3, <1>4
  <2> QED
    BY <1>3, <2>1, <2>2
<1>6. Without(s, i) = front \o back
  BY DEF Without, front, back, len
<1>7. ASSUME NEW j \in 1 .. len - 1
      PROVE  (front \o back)[j] = IF j < i THEN s[j] ELSE s[j + 1]
  <2>1. CASE j < i
    BY <1>1, <1>3, <1>5, <2>1
  <2>2. CASE ~(j < i)
    <3>1. j - (i - 1) \in 1 .. len - i /\ i + (j - (i - 1)) = j + 1 /\ ~(j <= i - 1)
      BY <1>1, <2>2
    <3> QED
      BY <1>4, <1>5, <2>2, <3>1
  <2> QED
    BY <2>1, <2>2
<1> QED
  BY <1>5, <1>6, <1>7 DEF len

-----------------------------------------------------------------------------
(* The type invariant *)

LEMMA ListedType ==
    ASSUME TypeOK
    PROVE  /\ Len(serverSockets) \in Nat /\ Listed \subseteq Conns
           /\ \A i \in 1 .. Len(serverSockets) : serverSockets[i] \in Listed
  BY LenProperties, ElementOfSeq, SMTT(30) DEF TypeOK, Listed

\* The loop is at a connection that is listed.
LEMMA ServerType ==
    ASSUME TypeOK, AtServer
    PROVE  /\ next \in 1 .. Len(serverSockets) /\ next + 1 \in Nat \ {0}
           /\ Server \in Listed /\ Server \in Conns
<1>1. next \in 1 .. Len(serverSockets)
  BY ListedType DEF TypeOK, AtServer
<1> QED
  BY <1>1, ListedType DEF Server

\* Outside the loop every listed connection has an open socket.
LEMMA ListedOpen ==
    ASSUME TypeOK, SocketInv, pc # "servers", NEW c \in Listed
    PROVE  sock[c] \in FDs
<1>1. PICK i \in 1 .. Len(serverSockets) : c = serverSockets[i]
  BY DEF Listed
<1>2. sock[c] # INVALID_SOCKET /\ c \in Conns
  BY <1>1, ListedType DEF SocketInv
<1> QED
  BY <1>2 DEF TypeOK

LEMMA LoseTailType ==
    ASSUME TypeOK, NEW c \in Conns, LoseTail(c)
    PROVE  /\ fromServer' \in [Conns -> Seq(ReplyCells)]
           /\ \A d \in Conns \ {c} : fromServer'[d] = fromServer[d]
           /\ Len(fromServer'[c]) \in 0 .. Len(fromServer[c])
<1>1. PICK n \in 0 .. Len(fromServer[c]) :
        fromServer' = [fromServer EXCEPT ![c] = Taken(fromServer[c], n)]
  BY DEF LoseTail
<1>2. Taken(fromServer[c], n) \in Seq(ReplyCells) /\ Len(Taken(fromServer[c], n)) = n
  BY TakenType DEF TypeOK
<1>3. fromServer'[c] = Taken(fromServer[c], n)
  BY <1>1 DEF TypeOK
<1> QED
  BY <1>1, <1>2, <1>3 DEF TypeOK

\* The socket that a new maxFD is taken from is open.
LEMMA MaxFDType ==
    ASSUME TypeOK, sock' \in [Conns -> FDs \cup {INVALID_SOCKET}], RecomputeMaxFD
    PROVE  maxFD' \in FDs \cup {clientFD}
<1> DEFINE fd(i) == sock'[serverSockets[i]]
           valid == {i \in 1 .. Len(serverSockets) - 1 : fd(i) # INVALID_SOCKET}
<1>1. CASE UNCHANGED maxFD
  BY <1>1 DEF TypeOK
<1>2. ASSUME NEW i \in valid, maxFD' = IF fd(i) >= fd(i + 1) THEN fd(i) ELSE fd(i + 1)
      PROVE  maxFD' \in FDs
  <2>1. i \in 1 .. Len(serverSockets) /\ i + 1 \in 1 .. Len(serverSockets)
    BY ListedType
  <2>2. fd(i) \in FDs /\ fd(i + 1) \in FDs \cup {INVALID_SOCKET}
    BY <2>1, ListedType
  <2>3. \A a \in FDs : a \in Nat
    BY DescriptorAssumption
  <2> HIDE DEF fd
  <2> QED
    BY <1>2, <2>2, <2>3
<1> QED
  BY <1>1, <1>2 DEF RecomputeMaxFD

\* What one recv takes off a stream, and what it leaves.
LEMMA StreamType ==
    ASSUME NEW S, NEW stream \in [Conns -> Seq(S)], NEW c \in Conns, NEW n \in 1 .. Len(stream[c])
    PROVE  /\ [stream EXCEPT ![c] = Rest(stream[c], n)] \in [Conns -> Seq(S)]
           /\ Taken(stream[c], n) \in Seq(S) /\ Len(Taken(stream[c], n)) = n
           /\ Taken(stream[c], n)[1] = stream[c][1] /\ stream[c][1] \in S
           /\ Rest(stream[c], n) \in Seq(S)
           /\ Len(Rest(stream[c], n)) = Len(stream[c]) - n /\ Len(stream[c]) \in Nat
<1>1. Len(stream[c]) \in Nat /\ n \in 0 .. Len(stream[c]) /\ 1 \in 1 .. n
      /\ 1 \in 1 .. Len(stream[c])
  BY LenProperties
<1>2. /\ Taken(stream[c], n) \in Seq(S) /\ Len(Taken(stream[c], n)) = n
      /\ Taken(stream[c], n)[1] = stream[c][1] /\ stream[c][1] \in S
  BY <1>1, TakenType, ElementOfSeq
<1>3. /\ Rest(stream[c], n) \in Seq(S)
      /\ Len(Rest(stream[c], n)) = Len(stream[c]) - n
  BY <1>1, RestType
<1> QED
  BY <1>1, <1>2, <1>3

\* What a send puts on a stream.
LEMMA SendOn ==
    ASSUME NEW S, NEW stream \in [Conns -> Seq([packet : S, part : 1 .. Parts])], NEW c \in Conns,
           NEW packet \in S
    PROVE  /\ [stream EXCEPT ![c] = @ \o Cells(packet)]
                  \in [Conns -> Seq([packet : S, part : 1 .. Parts])]
           /\ Len(stream[c] \o Cells(packet)) = Len(stream[c]) + Parts
           /\ Len(stream[c]) \in Nat
<1> DEFINE T == [packet : S, part : 1 .. Parts]
           cells == Cells(packet)
           old == stream[c]
<1>1. cells \in Seq(T) /\ Len(cells) = Parts /\ old \in Seq(T)
  BY CellsType
<1> HIDE DEF T, cells
<1>2. old \o cells \in Seq(T) /\ Len(old \o cells) = Len(old) + Len(cells) /\ Len(old) \in Nat
  BY <1>1, ConcatProperties, LenProperties
<1>3. stream \in [Conns -> Seq(T)]
  BY DEF T
<1>4. [stream EXCEPT ![c] = @ \o cells] \in [Conns -> Seq(T)]
  BY <1>2, <1>3
<1> QED
  BY <1>1, <1>2, <1>4 DEF T, cells

LEMMA TypeInit == Init => TypeOK
<1> SUFFICES ASSUME Init PROVE TypeOK
  OBVIOUS
<1>1. \A S : <<>> \in Seq(S)
  OBVIOUS
<1> QED
  BY <1>1, DescriptorAssumption DEF Init, TypeOK

LEMMA BalancerType ==
    ASSUME TypeOK, SocketInv, BranchInv, Balancer
    PROVE  TypeOK'
<1>1. CASE Select
  <2>1. Ready \subseteq FDs \cup {listenFD, clientFD}
    BY <1>1, ListedOpen DEF Ready, Select
  <2>2. readSet' \subseteq FDs \cup {listenFD, clientFD} /\ pc' \in {"accept", "client", "servers"}
    BY <1>1, <2>1 DEF Select, Branch
  <2> QED
    BY <1>1, <2>2 DEF Select, TypeOK, balancer, clients, streams, servers
<1>2. CASE Accept
  <2>1. backlog # <<>> /\ backlog \in Seq(Conns)
    BY <1>2 DEF Accept, BranchInv, TypeOK
  <2>2. Head(backlog) \in Conns /\ backlog' \in Seq(Conns)
    BY <1>2, <2>1, HeadTailProperties DEF Accept
  <2>3. PICK newSocket \in FDs :
          /\ serverSockets' = Append(serverSockets, Head(backlog))
          /\ sock' = [sock EXCEPT ![Head(backlog)] = newSocket]
          /\ activeRequests' = [activeRequests EXCEPT ![Head(backlog)] = 0]
          /\ maxFD' = newSocket
    BY <1>2 DEF Accept
  <2>4. serverSockets' \in Seq(Conns)
    BY <2>2, <2>3, AppendProperties DEF TypeOK
  <2>5. sock' \in [Conns -> FDs \cup {INVALID_SOCKET}] /\ activeRequests' \in [Conns -> Int]
    BY <2>2, <2>3, SMTT(30) DEF TypeOK
  <2>6. maxFD' \in FDs \cup {clientFD} /\ pc' = "select"
    BY <1>2, <2>3 DEF Accept
  <2> QED
    BY <1>2, <2>2, <2>4, <2>5, <2>6 DEF Accept, TypeOK, clients, streams, servers
<1>3. CASE ReceiveRequest
  <2>1. requests' \subseteq Requests
    BY <1>3 DEF ReceiveRequest, TypeOK
  <2>2. \/ pc' = "select" /\ UNCHANGED <<buff, selectedServer>>
        \/ pc' = "send" /\ buff' \in Requests /\ selectedServer' \in Conns
    BY <1>3, ListedType DEF ReceiveRequest, TypeOK
  <2> QED
    BY <1>3, <2>1, <2>2 DEF ReceiveRequest, TypeOK, balancer, streams, servers
<1>4. CASE SendPacket
  <2>1. selectedServer \in Conns /\ buff \in Requests
    BY <1>4, ListedType DEF SendPacket, BranchInv
  <2>2. toServer' \in [Conns -> Seq(RequestCells)]
    <3>1. CASE toServer' = [toServer EXCEPT ![selectedServer] = @ \o Cells(buff)]
      BY <2>1, <3>1, SendOn DEF TypeOK, RequestCells
    <3>2. CASE UNCHANGED toServer
      BY <3>2 DEF TypeOK
    <3> QED
      BY <1>4, <3>1, <3>2 DEF SendPacket, Sent, SendFails, streams
  <2>3. fromServer' \in [Conns -> Seq(ReplyCells)]
    <3>1. CASE LoseTail(selectedServer)
      BY <2>1, <3>1, LoseTailType
    <3>2. CASE UNCHANGED fromServer
      BY <3>2 DEF TypeOK
    <3> QED
      BY <1>4, <3>1, <3>2 DEF SendPacket, Sent, SendFails, streams
  <2>4. reset' \in [Conns -> BOOLEAN]
    BY <1>4, <2>1 DEF SendPacket, Sent, SendFails, TypeOK
  <2>5. activeRequests' \in [Conns -> Int]
    BY <1>4, <2>1 DEF SendPacket, Sent, SendFails, TypeOK
  <2>6. pc' \in {"select", "killed"} /\ buff' = None /\ selectedServer' = None
    BY <1>4 DEF SendPacket, Sent, SendFails
  <2> QED
    BY <1>4, <2>2, <2>3, <2>4, <2>5, <2>6 DEF SendPacket, TypeOK, clients
<1>5. CASE SkipServer
  BY <1>5, ServerType DEF SkipServer, TypeOK, balancer, clients, streams, servers
<1>6. CASE ReceiveReply
  <2>1. next' \in Nat \ {0} /\ Server \in Conns
    BY <1>6, ServerType DEF ReceiveReply
  <2>2. PICK n \in 1 .. Len(fromServer[Server]) :
          LET cells == Taken(fromServer[Server], n) IN
          /\ fromServer' = [fromServer EXCEPT ![Server] = Rest(fromServer[Server], n)]
          /\ \/ /\ cells[1].packet.req # None
                /\ forwarded' = forwarded \cup {[to |-> cells[1].packet.req, cells |-> cells]}
             \/ UNCHANGED forwarded
    BY <1>6 DEF ReceiveReply
  <2> DEFINE cells == Taken(fromServer[Server], n)
  <2>3. /\ fromServer' \in [Conns -> Seq(ReplyCells)]
        /\ cells \in Seq(ReplyCells) /\ cells[1] \in ReplyCells
    <3>1. fromServer \in [Conns -> Seq(ReplyCells)]
      BY DEF TypeOK
    <3>2. fromServer' = [fromServer EXCEPT ![Server] = Rest(fromServer[Server], n)]
      BY <2>2
    <3>3. /\ [fromServer EXCEPT ![Server] = Rest(fromServer[Server], n)] \in [Conns -> Seq(ReplyCells)]
          /\ Taken(fromServer[Server], n) \in Seq(ReplyCells)
          /\ Taken(fromServer[Server], n)[1] \in ReplyCells
      BY <2>1, <3>1, StreamType
    <3> QED
      BY <3>2, <3>3
  <2>4. forwarded' \subseteq [to : Requests, cells : Seq(ReplyCells)]
    <3>1. forwarded \subseteq [to : Requests, cells : Seq(ReplyCells)]
      BY DEF TypeOK
    <3>2. cells[1].packet.req # None => cells[1].packet.req \in Requests
      BY <2>3 DEF ReplyCells, Replies
    <3> QED
      BY <2>2, <2>3, <3>1, <3>2
  <2>5. activeRequests' \in [Conns -> Int]
    BY <1>6, <2>1 DEF ReceiveReply, TypeOK
  <2> QED
    BY <1>6, <2>1, <2>3, <2>4, <2>5 DEF ReceiveReply, TypeOK, servers
<1>7. CASE LoseServer
  <2>1. next' \in Nat \ {0} /\ Server \in Conns
    BY <1>7, ServerType DEF LoseServer
  <2>2. sock' \in [Conns -> FDs \cup {INVALID_SOCKET}] /\ activeRequests' \in [Conns -> Int]
    BY <1>7, <2>1 DEF LoseServer, TypeOK
  <2>3. maxFD' \in FDs \cup {clientFD}
    BY <1>7, <2>2, MaxFDType DEF LoseServer
  <2> QED
    BY <1>7, <2>1, <2>2, <2>3 DEF LoseServer, TypeOK, clients, streams, servers
<1>8. CASE EraseClosed
  <2>1. serverSockets' \in Seq(Conns)
    BY <1>8, WithoutType DEF EraseClosed, TypeOK
  <2>2. pc' \in {"servers", "select"}
    BY <1>8 DEF EraseClosed
  <2> QED
    BY <1>8, <2>1, <2>2 DEF EraseClosed, TypeOK, clients, streams, servers
<1> QED
  BY <1>1, <1>2, <1>3, <1>4, <1>5, <1>6, <1>7, <1>8 DEF Balancer

LEMMA EnvironmentType ==
    ASSUME TypeOK, NEW c \in Conns,
           ClientSend \/ Connect(c) \/ ServerReceive(c) \/ ServerSend(c) \/ ServerDie(c)
    PROVE  TypeOK'
<1>1. CASE ClientSend
  BY <1>1 DEF ClientSend, TypeOK, balancer, loop, streams, servers
<1>2. CASE Connect(c)
  <2>1. backlog' \in Seq(Conns) /\ peer' \in [Conns -> {"new", "up", "gone"}]
    BY <1>2, AppendProperties DEF Connect, TypeOK
  <2> QED
    BY <1>2, <2>1 DEF Connect, TypeOK, balancer, loop, clients, streams
<1>3. CASE ServerReceive(c)
  <2>1. PICK n \in 1 .. Len(toServer[c]) :
          LET cells == Taken(toServer[c], n)
              client == IF cells[1].part = 1 THEN cells[1].packet ELSE None
          IN  /\ toServer' = [toServer EXCEPT ![c] = Rest(toServer[c], n)]
              /\ \/ reply' = [reply EXCEPT ![c] = [req |-> client, ok |-> IsPacket(cells)]]
                 \/ UNCHANGED reply
    BY <1>3 DEF ServerReceive
  <2> DEFINE cells == Taken(toServer[c], n)
             client == IF cells[1].part = 1 THEN cells[1].packet ELSE None
  <2>2. toServer' \in [Conns -> Seq(RequestCells)] /\ cells[1] \in RequestCells
    <3>1. toServer \in [Conns -> Seq(RequestCells)]
      BY DEF TypeOK
    <3> QED
      BY <2>1, <3>1, StreamType
  <2>3. [req |-> client, ok |-> IsPacket(cells)] \in Replies
    <3>1. client \in Requests \cup {None} /\ IsPacket(cells) \in BOOLEAN
      BY <2>2 DEF RequestCells, IsPacket
    <3> QED
      BY <3>1 DEF Replies
  <2>4. reply' \in [Conns -> Replies \cup {None}]
    BY <2>1, <2>3, ZenonT(60) DEF TypeOK
  <2> QED
    BY <1>3, <2>2, <2>4 DEF ServerReceive, TypeOK, balancer, loop, clients
<1>4. CASE ServerSend(c)
  <2>1. reply[c] \in Replies /\ fromServer' = [fromServer EXCEPT ![c] = @ \o Cells(reply[c])]
    BY <1>4 DEF ServerSend, TypeOK
  <2>2. fromServer' \in [Conns -> Seq(ReplyCells)]
    BY <2>1, SendOn DEF TypeOK, ReplyCells
  <2>3. reply' \in [Conns -> Replies \cup {None}]
    BY <1>4 DEF ServerSend, TypeOK
  <2> QED
    BY <1>4, <2>2, <2>3 DEF ServerSend, TypeOK, balancer, loop, clients
<1>5. CASE ServerDie(c)
  <2>1. <<>> \in Seq(RequestCells)
    OBVIOUS
  <2>2. /\ toServer' \in [Conns -> Seq(RequestCells)] /\ reset' \in [Conns -> BOOLEAN]
        /\ peer' \in [Conns -> {"new", "up", "gone"}] /\ reply' \in [Conns -> Replies \cup {None}]
    BY <1>5, <2>1 DEF ServerDie, TypeOK
  <2>3. fromServer' \in [Conns -> Seq(ReplyCells)]
    BY <1>5, LoseTailType DEF ServerDie, TypeOK
  <2> QED
    BY <1>5, <2>2, <2>3 DEF ServerDie, TypeOK, balancer, loop, clients
<1> QED
  BY <1>1, <1>2, <1>3, <1>4, <1>5

-----------------------------------------------------------------------------
(* The list of connections *)

Members(seq) == {seq[i] : i \in 1 .. Len(seq)}

LEMMA AppendDistinct ==
    ASSUME NEW S, NEW seq \in Seq(S), NEW e \in S, Distinct(seq), e \notin Members(seq)
    PROVE  /\ Distinct(Append(seq, e)) /\ Members(Append(seq, e)) = Members(seq) \cup {e}
           /\ Len(Append(seq, e)) = Len(seq) + 1 /\ Len(seq) \in Nat
           /\ Append(seq, e)[Len(seq) + 1] = e
           /\ \A i \in 1 .. Len(seq) : Append(seq, e)[i] = seq[i]
<1> DEFINE more == Append(seq, e)
           len == Len(seq)
<1>1. /\ Len(more) = len + 1 /\ len \in Nat /\ more[len + 1] = e
      /\ \A i \in 1 .. len : more[i] = seq[i]
  BY AppendProperties, LenProperties
<1> HIDE DEF more, len
<1>2. \A i \in 1 .. len + 1 : i \in 1 .. len \/ i = len + 1
  BY <1>1
<1>3. \A i \in 1 .. len : seq[i] # e /\ i \in 1 .. len + 1
  BY <1>1 DEF Members, len
<1>4. len + 1 \in 1 .. len + 1
  BY <1>1
<1>5. Distinct(more)
  BY <1>1, <1>2, <1>3 DEF Distinct, len
<1>6. Members(more) = Members(seq) \cup {e}
  BY <1>1, <1>2, <1>3, <1>4 DEF Members, len
<1> QED
  BY <1>1, <1>5, <1>6 DEF more, len

LEMMA TailDistinct ==
    ASSUME NEW S, NEW seq \in Seq(S), seq # <<>>, Distinct(seq)
    PROVE  /\ Distinct(Tail(seq)) /\ Members(Tail(seq)) \subseteq Members(seq) \ {Head(seq)}
           /\ Head(seq) \in Members(seq) /\ Head(seq) \in S
<1> DEFINE rest == Tail(seq)
           len == Len(seq)
<1>1. /\ Head(seq) = seq[1] /\ Head(seq) \in S /\ len \in Nat \ {0} /\ Len(rest) = len - 1
      /\ \A i \in 1 .. Len(rest) : rest[i] = seq[i + 1]
  BY HeadTailProperties, EmptySeq
<1> HIDE DEF rest, len
<1>2. \A i \in 1 .. Len(rest) : i + 1 \in 1 .. len /\ i + 1 # 1
  BY <1>1
<1>3. 1 \in 1 .. len
  BY <1>1
<1>4. \A i, j \in 1 .. Len(rest) : i # j => i + 1 # j + 1
  BY <1>1
<1>5. Distinct(rest)
  BY <1>1, <1>2, <1>4 DEF Distinct, len
<1>6. ASSUME NEW i \in 1 .. Len(rest) PROVE rest[i] \in Members(seq) /\ rest[i] # seq[1]
  BY <1>1, <1>2, <1>3 DEF Distinct, Members, len
<1>7. seq[1] \in Members(seq)
  BY <1>3 DEF Members, len
<1>8. Members(rest) \subseteq Members(seq) \ {seq[1]}
  BY <1>6 DEF Members
<1> QED
  BY <1>1, <1>5, <1>7, <1>8 DEF rest

LEMMA WithoutDistinct ==
    ASSUME NEW S, NEW seq \in Seq(S), NEW i \in 1 .. Len(seq), Distinct(seq)
    PROVE  /\ Distinct(Without(seq, i)) /\ Members(Without(seq, i)) \subseteq Members(seq)
           /\ Len(Without(seq, i)) = Len(seq) - 1 /\ Len(seq) \in Nat
           /\ \A j \in 1 .. Len(seq) - 1 :
                 \E k \in 1 .. Len(seq) : Without(seq, i)[j] = seq[k]
<1> DEFINE less == Without(seq, i)
           len == Len(seq)
           from(j) == IF j < i THEN j ELSE j + 1
<1>1. len \in Nat /\ Len(less) = len - 1 /\ i \in 1 .. len
  BY WithoutType, LenProperties
<1>2. \A j \in 1 .. len - 1 : from(j) \in 1 .. len /\ less[j] = seq[from(j)]
  <2>1. \A j \in 1 .. len - 1 : less[j] = IF j < i THEN seq[j] ELSE seq[j + 1]
    BY WithoutType
  <2> HIDE DEF less, len
  <2> QED
    BY <1>1, <2>1
<1> HIDE DEF less, len
<1>3. \A j, k \in 1 .. len - 1 : j # k => from(j) # from(k)
  BY <1>1
<1> HIDE DEF from
<1>4. Distinct(less)
  BY <1>1, <1>2, <1>3 DEF Distinct, len
<1>5. Members(less) \subseteq Members(seq)
  BY <1>1, <1>2 DEF Members, len
<1>6. \A j \in 1 .. len - 1 : \E k \in 1 .. len : less[j] = seq[k]
  BY <1>2
<1> QED
  BY <1>1, <1>4, <1>5, <1>6 DEF less, len

\* accept moves a connection from the backlog to the list.
LEMMA Accepted ==
    ASSUME TypeOK, ListInv, BranchInv, Accept
    PROVE  LET c == Head(backlog) IN
           /\ c \in Conns /\ c \notin Listed /\ c \in Backlogged /\ Listed' = Listed \cup {c}
           /\ Backlogged' \subseteq Backlogged \ {c}
           /\ Distinct(serverSockets') /\ Distinct(backlog')
           /\ Len(serverSockets) \in Nat /\ Len(serverSockets') = Len(serverSockets) + 1
           /\ serverSockets'[Len(serverSockets) + 1] = c
           /\ \A i \in 1 .. Len(serverSockets) : serverSockets'[i] = serverSockets[i]
           /\ \E newSocket \in FDs :
                 /\ NewFD(newSocket) /\ sock' = [sock EXCEPT ![c] = newSocket] /\ maxFD' = newSocket
                 /\ activeRequests' = [activeRequests EXCEPT ![c] = 0]
<1> DEFINE c == Head(backlog)
<1>1. backlog # <<>> /\ backlog \in Seq(Conns) /\ serverSockets \in Seq(Conns)
  BY DEF Accept, BranchInv, TypeOK
<1>2. /\ c \in Conns /\ c \in Members(backlog) /\ Distinct(backlog')
      /\ Members(backlog') \subseteq Members(backlog) \ {c}
  BY <1>1, TailDistinct DEF Accept, ListInv
<1>3. Members(backlog) = Backlogged /\ Members(serverSockets) = Listed
  BY DEF Members, Backlogged, Listed
<1>4. Members(backlog') = Backlogged' /\ Members(serverSockets') = Listed'
  BY DEF Members, Backlogged, Listed
<1>5. c \notin Members(serverSockets)
  BY <1>2, <1>3 DEF ListInv
<1>6. serverSockets' = Append(serverSockets, c)
  BY DEF Accept
<1>7. /\ Distinct(serverSockets') /\ Members(serverSockets') = Members(serverSockets) \cup {c}
      /\ Len(serverSockets) \in Nat /\ Len(serverSockets') = Len(serverSockets) + 1
      /\ serverSockets'[Len(serverSockets) + 1] = c
      /\ \A i \in 1 .. Len(serverSockets) : serverSockets'[i] = serverSockets[i]
  <2> HIDE DEF c
  <2> QED
    BY <1>1, <1>2, <1>5, <1>6, AppendDistinct DEF ListInv
<1>8. \E newSocket \in FDs :
        /\ NewFD(newSocket) /\ sock' = [sock EXCEPT ![c] = newSocket] /\ maxFD' = newSocket
        /\ activeRequests' = [activeRequests EXCEPT ![c] = 0]
  BY DEF Accept
<1> HIDE DEF c
<1> QED
  BY <1>2, <1>3, <1>4, <1>5, <1>7, <1>8 DEF c

\* What is erased was listed; what stays stays in order.
LEMMA Erased ==
    ASSUME TypeOK, ListInv, EraseClosed
    PROVE  /\ Distinct(serverSockets') /\ Listed' \subseteq Listed
           /\ Len(serverSockets) \in Nat /\ Len(serverSockets') <= Len(serverSockets)
           /\ Len(serverSockets') \in Nat
<1>1. CASE UNCHANGED serverSockets
  BY <1>1, ListedType DEF Listed, ListInv
<1>2. ASSUME NEW i \in 1 .. Len(serverSockets), serverSockets' = Without(serverSockets, i)
      PROVE  /\ Distinct(serverSockets') /\ Members(serverSockets') \subseteq Members(serverSockets)
             /\ Len(serverSockets) \in Nat /\ Len(serverSockets') = Len(serverSockets) - 1
  BY <1>2, WithoutDistinct DEF TypeOK, ListInv
<1>3. Members(serverSockets) = Listed /\ Members(serverSockets') = Listed'
  BY DEF Members, Listed
<1> QED
  BY <1>1, <1>2, <1>3 DEF EraseClosed

\* Nothing is sent over a connection before it is listed.
Unused(c) == toServer[c] = <<>> /\ fromServer[c] = <<>> /\ reply[c] = None

\* A step after which the same connections are listed and wait preserves ListInv,
\* unless it uses one that is not listed.
LEMMA ListKept ==
    ASSUME ListInv, UNCHANGED <<serverSockets, backlog>>,
           \A c \in Conns : (peer'[c] = "new") <=> (peer[c] = "new"),
           \A c \in Conns : c \in Backlogged \/ peer[c] = "new" => Unused(c)',
           Listed \subseteq Conns, Backlogged \subseteq Conns
    PROVE  ListInv'
<1>1. Listed' = Listed /\ Backlogged' = Backlogged
  BY DEF Listed, Backlogged
<1> QED
  BY <1>1 DEF ListInv, Unused

LEMMA BackloggedType == TypeOK => Backlogged \subseteq Conns
  BY ElementOfSeq DEF TypeOK, Backlogged

LEMMA ListStep ==
    ASSUME TypeOK, ListInv, BranchInv, [Next]_vars
    PROVE  ListInv'
<1>0. Listed \subseteq Conns /\ Backlogged \subseteq Conns
  BY ListedType, BackloggedType
<1>1. CASE Accept
  <2>1. PICK c \in Conns :
          /\ c \notin Listed /\ c \in Backlogged /\ Listed' = Listed \cup {c}
          /\ Backlogged' \subseteq Backlogged \ {c}
          /\ Distinct(serverSockets') /\ Distinct(backlog')
    BY <1>1, Accepted
  <2>2. UNCHANGED <<peer, toServer, fromServer, reply>>
    BY <1>1 DEF Accept, streams, servers
  <2> QED
    BY <2>1, <2>2 DEF ListInv
<1>2. CASE EraseClosed
  <2>1. Distinct(serverSockets') /\ Listed' \subseteq Listed
    BY <1>2, Erased
  <2>2. UNCHANGED <<backlog, peer, toServer, fromServer, reply>>
    BY <1>2 DEF EraseClosed, streams, servers
  <2> QED
    BY <2>1, <2>2 DEF ListInv, Backlogged
<1>3. ASSUME NEW c \in Conns, Connect(c) PROVE ListInv'
  <2>1. /\ peer[c] = "new" /\ backlog' = Append(backlog, c) /\ c \notin Backlogged
        /\ c \notin Listed /\ Unused(c)
        /\ UNCHANGED <<serverSockets, toServer, fromServer, reply>>
        /\ peer' = [peer EXCEPT ![c] = "up"]
    BY <1>3 DEF Connect, ListInv, Unused, balancer, streams
  <2>2. Members(backlog) = Backlogged /\ Members(backlog') = Backlogged'
    BY DEF Members, Backlogged
  <2>3. Distinct(backlog') /\ Backlogged' = Backlogged \cup {c}
    BY <2>1, <2>2, AppendDistinct DEF TypeOK, ListInv
  <2>4. Listed' = Listed
    BY <2>1 DEF Listed
  <2>5. \A d \in Conns : peer'[d] = IF d = c THEN "up" ELSE peer[d]
    BY <2>1 DEF TypeOK
  <2> QED
    BY <1>0, <2>1, <2>3, <2>4, <2>5 DEF ListInv, Unused
\* The connections in use are listed ones.
<1>4. CASE SendPacket
  <2>1. selectedServer \in Listed /\ selectedServer \in Conns
    BY <1>0, <1>4 DEF SendPacket, BranchInv
  <2>2. UNCHANGED <<serverSockets, backlog, peer, reply>>
    BY <1>4 DEF SendPacket
  <2>3. \A d \in Conns \ {selectedServer} : toServer'[d] = toServer[d] /\ fromServer'[d] = fromServer[d]
    BY <1>4, <2>1, LoseTailType DEF SendPacket, Sent, SendFails, streams, TypeOK
  <2> QED
    BY <1>0, <2>1, <2>2, <2>3, ListKept DEF ListInv, Unused
<1>5. CASE ReceiveReply
  <2>1. Server \in Listed /\ Server \in Conns
    BY <1>5, ServerType DEF ReceiveReply
  <2>2. UNCHANGED <<serverSockets, backlog, peer, reply, toServer>>
    BY <1>5 DEF ReceiveReply, servers
  <2>3. \A d \in Conns \ {Server} : fromServer'[d] = fromServer[d]
    BY <1>5, <2>1 DEF ReceiveReply, TypeOK
  <2> QED
    BY <1>0, <2>1, <2>2, <2>3, ListKept DEF ListInv, Unused
<1>6. CASE Select \/ ReceiveRequest \/ SkipServer \/ LoseServer \/ ClientSend \/ UNCHANGED vars
  <2>1. UNCHANGED <<serverSockets, backlog, peer, toServer, fromServer, reply>>
    BY <1>6 DEF Select, ReceiveRequest, SkipServer, LoseServer, ClientSend, vars, balancer, loop,
       clients, streams, servers
  <2> QED
    BY <1>0, <2>1, ListKept DEF ListInv, Unused
\* A server has something to do only on a connection in use.
<1>7. ASSUME NEW c \in Conns, ServerReceive(c) \/ ServerSend(c) PROVE ListInv'
  <2>1. UNCHANGED <<serverSockets, backlog, peer>>
    BY <1>7 DEF ServerReceive, ServerSend, balancer
  <2>2. toServer[c] # <<>> \/ reply[c] # None
    <3>1. CASE ServerReceive(c)
      <4>1. PICK n \in 1 .. Len(toServer[c]) : TRUE
        BY <3>1 DEF ServerReceive
      <4>2. toServer[c] = <<>> => Len(toServer[c]) = 0
        OBVIOUS
      <4> QED
        BY <4>1, <4>2
    <3>2. CASE ServerSend(c)
      BY <3>2 DEF ServerSend
    <3> QED
      BY <1>7, <3>1, <3>2
  <2>3. \A d \in Conns \ {c} : Unused(d) => Unused(d)'
    BY <1>7 DEF ServerReceive, ServerSend, Unused, TypeOK
  <2>4. c \notin Backlogged /\ peer[c] # "new"
    BY <2>2 DEF ListInv
  <2> QED
    BY <1>0, <2>1, <2>3, <2>4, ListKept DEF ListInv, Unused
<1>8. ASSUME NEW c \in Conns, ServerDie(c) PROVE ListInv'
  <2>1. UNCHANGED <<serverSockets, backlog>> /\ peer[c] = "up" /\ peer' = [peer EXCEPT ![c] = "gone"]
    BY <1>8 DEF ServerDie, balancer
  <2>2. \A d \in Conns : Unused(d) => Unused(d)'
    BY <1>8, LoseTailType DEF ServerDie, Unused, TypeOK
  <2>3. \A d \in Conns : (peer'[d] = "new") <=> (peer[d] = "new")
    BY <2>1 DEF TypeOK
  <2> QED
    BY <1>0, <2>1, <2>2, <2>3, ListKept DEF ListInv, Unused
<1> QED
  BY <1>1, <1>2, <1>3, <1>4, <1>5, <1>6, <1>7, <1>8 DEF Next, Balancer, SelectTimeout

-----------------------------------------------------------------------------
(* The branch that was chosen *)

\* A step of the environment leaves the loop where it is and takes nothing away
\* from what select saw.
LEMMA BranchKept ==
    ASSUME BranchInv, UNCHANGED <<serverSockets, sock, loop>>,
           backlog # <<>> => backlog' # <<>>,
           \A c \in Listed : Readable(c) => Readable(c)',
           TypeOK
    PROVE  BranchInv'
<1>1. Listed' = Listed /\ UNCHANGED <<readSet, pc, next, buff, selectedServer, serverSockets, sock>>
  BY DEF Listed, loop
<1>2. \A i \in next .. Len(serverSockets) : serverSockets[i] \in Listed
  <2>1. next \in Nat \ {0} /\ Len(serverSockets) \in Nat
    BY ListedType DEF TypeOK
  <2>2. \A i \in next .. Len(serverSockets) : i \in 1 .. Len(serverSockets)
    BY <2>1
  <2> QED
    BY <2>2, ListedType
<1>3. ASSUME pc = "servers", NEW i \in next .. Len(serverSockets), sock[serverSockets[i]] \in readSet
      PROVE  Readable(serverSockets[i])'
  <2>1. Readable(serverSockets[i])
    BY <1>3 DEF BranchInv
  <2>2. \A c : c = serverSockets[i] => (Readable(c)' <=> Readable(serverSockets[i])')
    BY <1>1 DEF Readable
  <2> QED
    BY <1>1, <1>2, <2>1 DEF Readable
<1> QED
  BY <1>1, <1>3 DEF BranchInv

\* The loop goes on to the next connection, having used up at most the one it is at.
LEMMA BranchLoop ==
    ASSUME TypeOK, ListInv, BranchInv, SkipServer \/ ReceiveReply \/ LoseServer
    PROVE  BranchInv'
<1>0. pc = "servers" /\ pc' = "servers" /\ next' = next + 1 /\ UNCHANGED <<serverSockets, readSet>>
  BY DEF SkipServer, ReceiveReply, LoseServer, AtServer, balancer
<1>1. next \in 1 .. Len(serverSockets) /\ Server \in Conns /\ Len(serverSockets) \in Nat
  BY ServerType, ListedType DEF SkipServer, ReceiveReply, LoseServer
<1>2. ASSUME NEW i \in next + 1 .. Len(serverSockets), sock'[serverSockets[i]] \in readSet
      PROVE  Readable(serverSockets[i])'
  <2> DEFINE c == serverSockets[i]
  <2>1. i \in next .. Len(serverSockets) /\ i \in 1 .. Len(serverSockets) /\ i # next
    BY <1>1
  <2>2. c # Server /\ c \in Conns
    BY <1>1, <2>1, ListedType DEF ListInv, Distinct, Server
  <2>3. sock'[c] = sock[c] /\ fromServer'[c] = fromServer[c] /\ peer' = peer
    BY <1>1, <2>2, ZenonT(60) DEF SkipServer, ReceiveReply, LoseServer, balancer, streams, servers, TypeOK
  <2>4. Readable(c)
    BY <1>0, <1>2, <2>1, <2>3 DEF BranchInv
  <2> QED
    BY <1>0, <2>3, <2>4 DEF Readable
<1> QED
  BY <1>0, <1>2 DEF BranchInv

LEMMA SelectBranch ==
    ASSUME TypeOK, SocketInv, Select
    PROVE  BranchInv'
<1> DEFINE ready == {fd \in Ready : Watched(fd)}
<1>0. /\ pc = "select" /\ readSet' = ready /\ pc' = Branch(ready) /\ next' = 1
      /\ UNCHANGED <<serverSockets, sock, backlog, fromServer, peer>>
  BY DEF Select, balancer, streams, servers
<1>1. \A c \in Listed : sock[c] \in FDs /\ sock[c] # listenFD /\ sock[c] # clientFD
                        /\ sock[c] # INVALID_SOCKET
  BY <1>0, ListedOpen, DescriptorAssumption
<1>2. pc' = "accept" => backlog # <<>>
  BY <1>0, <1>1 DEF Branch, Ready
<1>3. ASSUME NEW c \in Listed, sock[c] \in ready PROVE Readable(c)
  <2>1. PICK d \in Listed : Readable(d) /\ sock[c] = sock[d]
    BY <1>1, <1>3 DEF Ready
  <2> QED
    BY <1>1, <2>1 DEF SocketInv
<1>4. \A i \in 1 .. Len(serverSockets) : serverSockets[i] \in Listed
  BY DEF Listed
<1>5. pc' # "send"
  BY <1>0 DEF Branch
<1> HIDE DEF ready
<1>6. \A i \in 1 .. Len(serverSockets) : sock[serverSockets[i]] \in ready => Readable(serverSockets[i])
  BY <1>3, <1>4
<1> QED
  BY <1>0, <1>2, <1>5, <1>6 DEF BranchInv, Readable

LEMMA BranchStep ==
    ASSUME TypeOK, ListInv, BranchInv, SocketInv, [Next]_vars
    PROVE  BranchInv'
<1>1. CASE Select
  BY <1>1, SelectBranch
<1>2. CASE Accept \/ SendPacket
  BY <1>2 DEF Accept, SendPacket, Sent, SendFails, BranchInv
<1>3. CASE ReceiveRequest
  <2>1. Listed' = Listed
    BY <1>3 DEF ReceiveRequest, balancer, Listed
  <2>2. \/ pc' = "select"
        \/ pc' = "send" /\ buff' \in Requests /\ selectedServer' \in Listed
    BY <1>3, ListedType, SMTT(30) DEF ReceiveRequest, TypeOK
  <2> QED
    BY <2>1, <2>2 DEF BranchInv
<1>4. CASE SkipServer \/ ReceiveReply \/ LoseServer
  BY <1>4, BranchLoop
<1>5. CASE EraseClosed
  <2>1. pc' \in {"select", "servers"} /\ next' = next /\ next > Len(serverSockets)
    BY <1>5 DEF EraseClosed
  <2>2. Len(serverSockets') <= Len(serverSockets) /\ Len(serverSockets) \in Nat
        /\ Len(serverSockets') \in Nat /\ next \in Nat
    BY <1>5, Erased DEF TypeOK
  <2>3. next' .. Len(serverSockets') = {}
    BY <2>1, <2>2
  <2> QED
    BY <2>1, <2>3 DEF BranchInv
<1>6. CASE ClientSend \/ UNCHANGED vars
  <2>1. UNCHANGED <<serverSockets, sock, loop, backlog, fromServer, peer>>
    BY <1>6 DEF ClientSend, vars, balancer, loop, streams, servers
  <2> QED
    BY <2>1, BranchKept DEF Readable
<1>7. ASSUME NEW c \in Conns, Connect(c) PROVE BranchInv'
  <2>1. /\ UNCHANGED <<serverSockets, sock, loop, fromServer>> /\ peer[c] = "new"
        /\ backlog' = Append(backlog, c) /\ peer' = [peer EXCEPT ![c] = "up"]
    BY <1>7 DEF Connect, balancer, streams
  <2>2. backlog' # <<>>
    <3>1. Len(backlog') = Len(backlog) + 1 /\ Len(backlog) \in Nat /\ backlog' \in Seq(Conns)
      BY <2>1, AppendProperties, LenProperties DEF TypeOK
    <3>2. Len(backlog') # 0
      BY <3>1
    <3> QED
      BY <3>1, <3>2, EmptySeq
  <2>3. \A d \in Listed : Readable(d) => Readable(d)'
    BY <2>1, ListedType DEF Readable, TypeOK
  <2> QED
    BY <2>1, <2>2, <2>3, BranchKept
<1>8. ASSUME NEW c \in Conns, ServerReceive(c) PROVE BranchInv'
  <2>1. UNCHANGED <<serverSockets, sock, loop, backlog, fromServer, peer>>
    BY <1>8 DEF ServerReceive, balancer
  <2> QED
    BY <2>1, BranchKept DEF Readable
<1>9. ASSUME NEW c \in Conns, ServerSend(c) PROVE BranchInv'
  <2>1. /\ UNCHANGED <<serverSockets, sock, loop, backlog, peer>>
        /\ fromServer' = [fromServer EXCEPT ![c] = @ \o Cells(reply[c])] /\ reply[c] \in Replies
    BY <1>9 DEF ServerSend, balancer, TypeOK
  <2>2. fromServer[c] \o Cells(reply[c]) # <<>>
    <3>1. Len(fromServer[c] \o Cells(reply[c])) = Len(fromServer[c]) + Parts /\ Len(fromServer[c]) \in Nat
      <4>1. fromServer \in [Conns -> Seq([packet : Replies, part : 1 .. Parts])]
        BY DEF TypeOK, ReplyCells
      <4>2. ASSUME NEW packet \in Replies
            PROVE  /\ [fromServer EXCEPT ![c] = @ \o Cells(packet)]
                          \in [Conns -> Seq([packet : Replies, part : 1 .. Parts])]
                   /\ Len(fromServer[c] \o Cells(packet)) = Len(fromServer[c]) + Parts
                   /\ Len(fromServer[c]) \in Nat
        <5> HIDE DEF Replies
        <5> QED
          BY <4>1, SendOn
      <4> QED
        BY <2>1, <4>2
    <3> DEFINE longer == fromServer[c] \o Cells(reply[c])
    <3>2. Len(longer) # 0
      BY <3>1, StreamAssumption
    <3> HIDE DEF longer
    <3>3. longer # <<>>
      BY <3>2
    <3> QED
      BY <3>3 DEF longer
  <2>3. \A d \in Listed : Readable(d) => Readable(d)'
    <3> DEFINE longer == fromServer[c] \o Cells(reply[c])
    <3>1. fromServer' = [fromServer EXCEPT ![c] = longer] /\ longer # <<>>
      BY <2>1, <2>2
    <3> HIDE DEF longer
    <3> QED
      BY <2>1, <3>1, ListedType DEF Readable, TypeOK
  <2> QED
    BY <2>1, <2>3, BranchKept
<1>10. ASSUME NEW c \in Conns, ServerDie(c) PROVE BranchInv'
  <2>1. UNCHANGED <<serverSockets, sock, loop, backlog>> /\ peer' = [peer EXCEPT ![c] = "gone"]
    BY <1>10 DEF ServerDie, balancer
  <2>2. \A d \in Conns \ {c} : fromServer'[d] = fromServer[d]
    BY <1>10, LoseTailType DEF ServerDie, TypeOK
  <2>3. \A d \in Listed : Readable(d) => Readable(d)'
    BY <2>1, <2>2, ListedType DEF Readable, TypeOK
  <2> QED
    BY <2>1, <2>3, BranchKept
<1> QED
  BY <1>1, <1>2, <1>3, <1>4, <1>5, <1>6, <1>7, <1>8, <1>9, <1>10 DEF Next, Balancer, SelectTimeout

-----------------------------------------------------------------------------
(* The descriptors *)

\* A step that changes neither the list nor the descriptors.
LEMMA SocketKept ==
    ASSUME TypeOK, SocketInv, UNCHANGED <<serverSockets, sock>>,
           pc = "servers" => pc' = "servers" /\ next' \in Nat /\ next <= next',
           \A c \in Conns : peer[c] = "gone" => peer'[c] = "gone"
    PROVE  SocketInv'
<1>1. Listed' = Listed
  BY DEF Listed
<1>2. ASSUME NEW i \in 1 .. Len(serverSockets), sock[serverSockets[i]] = INVALID_SOCKET
      PROVE  pc' = "servers" /\ i < next' /\ peer'[serverSockets[i]] = "gone"
  <2>1. pc = "servers" /\ i < next /\ peer[serverSockets[i]] = "gone" /\ serverSockets[i] \in Conns
    BY <1>2, ListedType DEF SocketInv
  <2>2. i \in Nat /\ next \in Nat
    BY ListedType DEF TypeOK
  <2> QED
    BY <2>1, <2>2
<1> QED
  BY <1>1, <1>2 DEF SocketInv

LEMMA SocketAccept ==
    ASSUME TypeOK, ListInv, BranchInv, SocketInv, Accept
    PROVE  SocketInv'
<1>1. PICK c \in Conns, newSocket \in FDs :
        /\ c \notin Listed /\ Listed' = Listed \cup {c}
        /\ Len(serverSockets) \in Nat /\ Len(serverSockets') = Len(serverSockets) + 1
        /\ serverSockets'[Len(serverSockets) + 1] = c
        /\ \A i \in 1 .. Len(serverSockets) : serverSockets'[i] = serverSockets[i]
        /\ newSocket \notin Open /\ sock' = [sock EXCEPT ![c] = newSocket]
  BY Accepted DEF NewFD
<1>2. \A d \in Listed : d \in Conns /\ sock'[d] = sock[d] /\ sock[d] \in Open
  BY <1>1, ListedType DEF Open, TypeOK
<1>3. sock'[c] = newSocket /\ newSocket # INVALID_SOCKET
  BY <1>1, DescriptorAssumption DEF TypeOK
<1>4. \A d \in Listed : sock[d] # INVALID_SOCKET
  BY DescriptorAssumption, ListedOpen DEF Accept
<1>5. ASSUME NEW i \in 1 .. Len(serverSockets') PROVE sock'[serverSockets'[i]] # INVALID_SOCKET
  <2>1. i \in 1 .. Len(serverSockets) \/ i = Len(serverSockets) + 1
    BY <1>1
  <2> QED
    BY <1>1, <1>2, <1>3, <1>4, <2>1, ListedType
<1>6. \A d, e \in Listed' : d # e /\ sock'[d] = sock'[e] => sock'[d] = INVALID_SOCKET
  BY <1>1, <1>2, <1>3 DEF SocketInv
<1> QED
  BY <1>5, <1>6 DEF SocketInv

LEMMA SocketLose ==
    ASSUME TypeOK, ListInv, BranchInv, SocketInv, LoseServer
    PROVE  SocketInv' /\ peer[Server] = "gone"
<1>1. /\ sock' = [sock EXCEPT ![Server] = INVALID_SOCKET] /\ fromServer[Server] = <<>>
      /\ sock[Server] \in readSet /\ pc = "servers" /\ pc' = "servers" /\ next' = next + 1
      /\ UNCHANGED <<serverSockets, peer>>
  BY DEF LoseServer, servers, AtServer
<1>2. /\ next \in 1 .. Len(serverSockets) /\ next \in next .. Len(serverSockets)
      /\ Server \in Conns /\ Server = serverSockets[next]
  BY ServerType, ListedType DEF LoseServer, Server
<1>3. peer[Server] = "gone"
  BY <1>1, <1>2 DEF BranchInv, Readable
<1>4. Listed' = Listed /\ Listed \subseteq Conns
  BY <1>1, ListedType DEF Listed
<1>5. \A c \in Conns : sock'[c] = IF c = Server THEN INVALID_SOCKET ELSE sock[c]
  BY <1>1 DEF TypeOK
<1>6. ASSUME NEW i \in 1 .. Len(serverSockets), sock'[serverSockets[i]] = INVALID_SOCKET
      PROVE  i < next' /\ peer[serverSockets[i]] = "gone"
  <2>1. CASE serverSockets[i] = Server
    BY <1>1, <1>2, <1>3, <2>1 DEF ListInv, Distinct
  <2>2. CASE serverSockets[i] # Server
    <3>1. i < next /\ peer[serverSockets[i]] = "gone"
      BY <1>5, <1>6, <2>2, ListedType DEF SocketInv
    <3> QED
      BY <1>1, <1>2, <3>1
  <2> QED
    BY <2>1, <2>2
<1>7. \A d, e \in Listed : d # e /\ sock'[d] = sock'[e] => sock'[d] = INVALID_SOCKET
  BY <1>4, <1>5 DEF SocketInv
<1> QED
  BY <1>1, <1>3, <1>4, <1>6, <1>7 DEF SocketInv

LEMMA SocketErase ==
    ASSUME TypeOK, ListInv, SocketInv, EraseClosed
    PROVE  SocketInv'
<1>1. UNCHANGED <<sock, next, peer>> /\ pc = "servers" /\ next > Len(serverSockets)
  BY DEF EraseClosed, servers
<1>2. Listed' \subseteq Listed
  BY Erased
<1>3. ASSUME NEW i \in 1 .. Len(serverSockets), serverSockets' = Without(serverSockets, i),
             UNCHANGED pc
      PROVE  SocketInv'
  <2>1. /\ Len(serverSockets') = Len(serverSockets) - 1 /\ Len(serverSockets) \in Nat
        /\ \A j \in 1 .. Len(serverSockets) - 1 :
              \E k \in 1 .. Len(serverSockets) : serverSockets'[j] = serverSockets[k]
    <3>1. serverSockets \in Seq(Conns) /\ Distinct(serverSockets)
      BY DEF TypeOK, ListInv
    <3>2. /\ Len(Without(serverSockets, i)) = Len(serverSockets) - 1 /\ Len(serverSockets) \in Nat
          /\ \A j \in 1 .. Len(serverSockets) - 1 :
                \E k \in 1 .. Len(serverSockets) : Without(serverSockets, i)[j] = serverSockets[k]
      BY <3>1, WithoutDistinct
    <3> QED
      BY <1>3, <3>2
  <2>2. ASSUME NEW j \in 1 .. Len(serverSockets'), sock[serverSockets'[j]] = INVALID_SOCKET
        PROVE  j < next /\ peer[serverSockets'[j]] = "gone"
    <3>1. j \in 1 .. Len(serverSockets) - 1
      BY <2>1
    <3>2. PICK k \in 1 .. Len(serverSockets) : serverSockets'[j] = serverSockets[k]
      BY <2>1, <3>1
    <3>3. peer[serverSockets[k]] = "gone"
      BY <2>2, <3>2 DEF SocketInv
    <3>4. next \in Nat
      BY DEF TypeOK
    <3>5. j < next
      BY <1>1, <2>1, <3>1, <3>4
    <3> QED
      BY <3>2, <3>3, <3>5
  <2> QED
    BY <1>1, <1>2, <1>3, <2>2 DEF SocketInv
<1>4. ASSUME INVALID_SOCKET \notin Open, UNCHANGED serverSockets
      PROVE  SocketInv'
  <2>1. \A i \in 1 .. Len(serverSockets) : sock[serverSockets[i]] # INVALID_SOCKET
    BY <1>4, ListedType DEF Open
  <2> QED
    BY <1>1, <1>2, <1>4, <2>1 DEF SocketInv
<1> QED
  BY <1>3, <1>4 DEF EraseClosed

LEMMA SocketStep ==
    ASSUME TypeOK, ListInv, BranchInv, SocketInv, [Next]_vars
    PROVE  SocketInv'
<1>1. CASE Select \/ ReceiveRequest \/ SendPacket
  BY <1>1, SocketKept DEF Select, ReceiveRequest, SendPacket, balancer, servers
<1>2. CASE Accept
  BY <1>2, SocketAccept
<1>3. CASE SkipServer \/ ReceiveReply
  <2>1. next' \in Nat /\ next <= next' /\ pc' = pc /\ UNCHANGED <<serverSockets, sock, peer>>
    BY <1>3, ServerType, SMTT(30) DEF SkipServer, ReceiveReply, balancer, servers, TypeOK
  <2> QED
    BY <2>1, SocketKept
<1>4. CASE LoseServer
  BY <1>4, SocketLose
<1>5. CASE EraseClosed
  BY <1>5, SocketErase
<1>6. CASE ClientSend \/ UNCHANGED vars \/ \E c \in Conns :
             Connect(c) \/ ServerReceive(c) \/ ServerSend(c) \/ ServerDie(c)
  <2>1. UNCHANGED <<serverSockets, sock, pc, next>>
    BY <1>6 DEF ClientSend, vars, Connect, ServerReceive, ServerSend, ServerDie, balancer, loop
  <2>2. \A c \in Conns : peer[c] = "gone" => peer'[c] = "gone"
    BY <1>6 DEF ClientSend, vars, Connect, ServerReceive, ServerSend, ServerDie, servers, TypeOK
  <2>3. next' \in Nat /\ next <= next'
    BY <2>1 DEF TypeOK
  <2> QED
    BY <2>1, <2>2, <2>3, SocketKept
<1> QED
  BY <1>1, <1>2, <1>3, <1>4, <1>5, <1>6 DEF Next, Balancer, SelectTimeout

-----------------------------------------------------------------------------
(* The watched descriptors *)

NobodyGone == \A c \in Conns : peer[c] # "gone"

LEMMA LowestAccept ==
    ASSUME TypeOK, ListInv, BranchInv, SocketInv, Accept, Posix,
           \A fd \in FDs : fd \in Open <=> fd <= maxFD
    PROVE  \A fd \in FDs : fd \in Open' <=> fd <= maxFD'
<1>1. PICK c \in Conns, newSocket \in FDs :
        /\ c \notin Listed /\ Listed' = Listed \cup {c}
        /\ NewFD(newSocket) /\ sock' = [sock EXCEPT ![c] = newSocket] /\ maxFD' = newSocket
  BY Accepted
<1>2. \A d \in Listed : sock'[d] = sock[d]
  BY <1>1, ListedType DEF TypeOK
<1>3. sock'[c] = newSocket
  BY <1>1 DEF TypeOK
<1>4. Open' = Open \cup {newSocket}
  BY <1>1, <1>2, <1>3 DEF Open
<1>5. newSocket \notin Open /\ \A fd \in FDs \ Open : newSocket <= fd
  BY <1>1 DEF NewFD
<1>6. maxFD \in Nat /\ \A fd \in FDs : fd \in Nat
  BY DescriptorAssumption DEF TypeOK
<1>7. ~(newSocket <= maxFD)
  BY <1>5
<1> QED
  BY <1>1, <1>4, <1>5, <1>6, <1>7

LEMMA LowestStep ==
    ASSUME TypeOK, ListInv, BranchInv, SocketInv, LowestInv, [Next]_vars
    PROVE  LowestInv'
<1> SUFFICES ASSUME Posix, NobodyGone' PROVE \A fd \in FDs : fd \in Open' <=> fd <= maxFD'
  BY DEF LowestInv, NobodyGone
<1>1. NobodyGone
  <2>1. CASE UNCHANGED peer
    BY <2>1 DEF NobodyGone
  <2>2. ASSUME NEW c \in Conns, Connect(c) \/ ServerDie(c) PROVE NobodyGone
    BY <2>2 DEF Connect, ServerDie, NobodyGone, TypeOK
  <2> QED
    BY <2>1, <2>2 DEF Next, Balancer, SelectTimeout, Select, Accept, ReceiveRequest, SendPacket,
       SkipServer, ReceiveReply, LoseServer, EraseClosed, ClientSend, ServerReceive, ServerSend, servers,
       vars
<1>2. \A fd \in FDs : fd \in Open <=> fd <= maxFD
  BY <1>1 DEF LowestInv, NobodyGone
<1>3. CASE Accept
  BY <1>2, <1>3, LowestAccept
<1>4. CASE LoseServer
  BY <1>1, <1>4, SocketLose, ServerType DEF NobodyGone, LoseServer
<1>5. CASE UNCHANGED <<serverSockets, sock, maxFD>>
  BY <1>2, <1>5 DEF Open, Listed
<1>6. CASE EraseClosed
  <2>1. \A i \in 1 .. Len(serverSockets) : sock[serverSockets[i]] # INVALID_SOCKET
    BY <1>1, ListedType DEF SocketInv, NobodyGone
  <2>2. UNCHANGED <<serverSockets, sock, maxFD>>
    BY <1>6, <2>1 DEF EraseClosed
  <2> QED
    BY <1>5, <2>2
<1> QED
  BY <1>3, <1>4, <1>5, <1>6 DEF Next, Balancer, SelectTimeout, Select, ReceiveRequest, SendPacket,
     SkipServer, ReceiveReply, ClientSend, Connect, ServerReceive, ServerSend, ServerDie, balancer, vars

-----------------------------------------------------------------------------
(* The counts *)

Going(c) == Len(toServer[c])
Coming(c) == Len(fromServer[c])
InHand(c) == IF reply[c] = None THEN 0 ELSE 1

\* The parts of what is outstanding, before and after a step.
LEMMA OutstandingParts ==
    ASSUME TypeOK, TypeOK', NEW c \in Conns
    PROVE  /\ Outstanding(c) = Going(c) + Coming(c) + InHand(c)
           /\ Outstanding(c)' = Going(c)' + Coming(c)' + InHand(c)'
           /\ Going(c) \in Nat /\ Coming(c) \in Nat /\ InHand(c) \in 0 .. 1
           /\ Going(c)' \in Nat /\ Coming(c)' \in Nat /\ InHand(c)' \in 0 .. 1
           /\ activeRequests[c] \in Int /\ activeRequests'[c] \in Int
<1>1. /\ Outstanding(c) = Going(c) + Coming(c) + InHand(c)
      /\ Outstanding(c)' = Going(c)' + Coming(c)' + InHand(c)'
  BY DEF Outstanding, InHand, Going, Coming
<1>2. InHand(c) \in 0 .. 1 /\ InHand(c)' \in 0 .. 1
  BY DEF InHand
<1>3. Going(c) \in Nat /\ Coming(c) \in Nat
  BY LenProperties DEF TypeOK, Going, Coming
<1>4. Going(c)' \in Nat /\ Coming(c)' \in Nat
  BY LenProperties DEF TypeOK, Going, Coming
<1>5. activeRequests[c] \in Int /\ activeRequests'[c] \in Int
  BY DEF TypeOK
<1> QED
  BY <1>1, <1>2, <1>3, <1>4, <1>5

\* What changes one connection changes its count with what is outstanding on it.
LEMMA CountsOne ==
    ASSUME TypeOK, TypeOK', NeverUndercounts, UNCHANGED <<serverSockets, sock>>, NEW s \in Conns,
           \A c \in Conns \ {s} : /\ activeRequests'[c] = activeRequests[c]
                                  /\ toServer'[c] = toServer[c]
                                  /\ fromServer'[c] = fromServer[c] /\ reply'[c] = reply[c],
           Parts = 1 => Going(s)' + Coming(s)' + InHand(s)' - (Going(s) + Coming(s) + InHand(s))
                            <= activeRequests'[s] - activeRequests[s]
    PROVE  NeverUndercounts'
<1> SUFFICES ASSUME Parts = 1, NEW c \in Live' PROVE activeRequests'[c] >= Outstanding(c)'
  BY DEF NeverUndercounts
<1>1. c \in Live /\ c \in Conns
  BY ListedType DEF Live, Listed
<1>2. activeRequests[c] >= Outstanding(c)
  BY <1>1 DEF NeverUndercounts
<1>3. CASE c # s
  BY <1>1, <1>2, <1>3 DEF Outstanding
<1>4. CASE c = s
  BY <1>2, <1>4, OutstandingParts
<1> QED
  BY <1>3, <1>4

\* sendPacket counts one request, and puts at most one on the connection.
LEMMA UndercountSend ==
    ASSUME TypeOK, TypeOK', BranchInv, NeverUndercounts, SendPacket
    PROVE  NeverUndercounts'
<1>1. PICK s \in Conns : s = selectedServer
  BY ListedType DEF SendPacket, BranchInv
<1>2. PICK packet \in Requests : packet = buff
  BY DEF SendPacket, BranchInv
<1>3. UNCHANGED <<serverSockets, sock, reply>>
  BY DEF SendPacket
<1>4. InHand(s)' = InHand(s)
  BY <1>3 DEF InHand
<1>5. CASE SendFails
  <2>1. UNCHANGED <<toServer, fromServer, activeRequests>>
    BY <1>5 DEF SendFails, streams
  <2>2. Going(s)' = Going(s) /\ Coming(s)' = Coming(s)
    BY <2>1 DEF Going, Coming
  <2>3. Going(s)' + Coming(s)' + InHand(s)' - (Going(s) + Coming(s) + InHand(s))
            <= activeRequests'[s] - activeRequests[s]
    BY <1>4, <2>1, <2>2, OutstandingParts
  <2> QED
    BY <1>3, <2>1, <2>3, CountsOne
<1>6. CASE Sent
  <2>1. /\ activeRequests'[s] = activeRequests[s] + 1
        /\ \A c \in Conns \ {s} : activeRequests'[c] = activeRequests[c]
    BY <1>1, <1>6 DEF Sent, TypeOK
  <2>2. CASE /\ toServer' = [toServer EXCEPT ![s] = @ \o Cells(packet)]
             /\ UNCHANGED fromServer
    <3>1. toServer'[s] = toServer[s] \o Cells(packet)
          /\ \A c \in Conns \ {s} : toServer'[c] = toServer[c]
      BY <2>2 DEF TypeOK
    <3>2. toServer \in [Conns -> Seq([packet : Requests, part : 1 .. Parts])]
      BY DEF TypeOK, RequestCells
    <3>3. /\ [toServer EXCEPT ![s] = @ \o Cells(packet)]
                \in [Conns -> Seq([packet : Requests, part : 1 .. Parts])]
          /\ Len(toServer[s] \o Cells(packet)) = Len(toServer[s]) + Parts
          /\ Len(toServer[s]) \in Nat
      BY <3>2, SendOn
    <3>4. Going(s)' = Going(s) + Parts /\ Coming(s)' = Coming(s)
      BY <2>2, <3>1, <3>3 DEF Going, Coming
    <3>5. Parts = 1 => Going(s)' + Coming(s)' + InHand(s)' - (Going(s) + Coming(s) + InHand(s))
                           <= activeRequests'[s] - activeRequests[s]
      BY <1>4, <2>1, <3>4, OutstandingParts
    <3> QED
      BY <1>3, <2>1, <2>2, <3>1, <3>5, CountsOne
  <2>3. CASE LoseTail(s) /\ UNCHANGED toServer
    <3>1. /\ \A c \in Conns \ {s} : fromServer'[c] = fromServer[c]
          /\ Len(fromServer'[s]) \in 0 .. Len(fromServer[s])
      BY <2>3, LoseTailType
    <3>2. Going(s)' = Going(s) /\ Coming(s)' <= Coming(s)
      BY <2>3, <3>1 DEF Going, Coming
    <3>3. Going(s)' + Coming(s)' + InHand(s)' - (Going(s) + Coming(s) + InHand(s))
              <= activeRequests'[s] - activeRequests[s]
      BY <1>4, <2>1, <3>2, OutstandingParts
    <3> QED
      BY <1>3, <2>1, <2>3, <3>1, <3>3, CountsOne
  <2> QED
    BY <1>1, <1>2, <1>6, <2>2, <2>3 DEF Sent
<1> QED
  BY <1>5, <1>6 DEF SendPacket

\* recvPacket counts one answer, and takes at least one off the connection.
LEMMA UndercountReply ==
    ASSUME TypeOK, TypeOK', NeverUndercounts, ReceiveReply
    PROVE  NeverUndercounts'
<1>1. PICK s \in Conns : s = Server
  BY ServerType DEF ReceiveReply
<1>2. UNCHANGED <<serverSockets, sock, toServer, reply>>
  BY DEF ReceiveReply, servers
<1>3. PICK n \in 1 .. Len(fromServer[s]) :
        fromServer' = [fromServer EXCEPT ![s] = Rest(fromServer[s], n)]
  BY <1>1 DEF ReceiveReply
<1>4. /\ fromServer'[s] = Rest(fromServer[s], n) /\ activeRequests'[s] = activeRequests[s] - 1
      /\ \A c \in Conns \ {s} : /\ activeRequests'[c] = activeRequests[c]
                                /\ fromServer'[c] = fromServer[c]
  BY <1>1, <1>3 DEF ReceiveReply, TypeOK
<1>5. Len(Rest(fromServer[s], n)) = Len(fromServer[s]) - n /\ Len(fromServer[s]) \in Nat
  <2>1. n \in 0 .. Len(fromServer[s]) /\ fromServer[s] \in Seq(ReplyCells)
    BY <1>3 DEF TypeOK
  <2> QED
    BY <2>1, RestType, LenProperties
<1>6. Going(s)' = Going(s) /\ InHand(s)' = InHand(s) /\ Coming(s)' = Coming(s) - n /\ n \in Nat \ {0}
  BY <1>2, <1>3, <1>4, <1>5 DEF Going, Coming, InHand
<1>7. Going(s)' + Coming(s)' + InHand(s)' - (Going(s) + Coming(s) + InHand(s))
          <= activeRequests'[s] - activeRequests[s]
  BY <1>4, <1>6, OutstandingParts, SMTT(30)
<1> QED
  BY <1>2, <1>4, <1>7, CountsOne

\* A server takes requests for at most one answer, and sends the one it has.
LEMMA UndercountServer ==
    ASSUME TypeOK, TypeOK', NeverUndercounts, NEW c \in Conns, ServerReceive(c) \/ ServerSend(c)
    PROVE  NeverUndercounts'
<1>1. CASE ServerReceive(c)
  <2>1. PICK n \in 1 .. Len(toServer[c]) :
          toServer' = [toServer EXCEPT ![c] = Rest(toServer[c], n)]
    BY <1>1 DEF ServerReceive
  <2>2. /\ UNCHANGED <<serverSockets, sock, activeRequests, fromServer>> /\ reply[c] = None
        /\ \A d \in Conns \ {c} : toServer'[d] = toServer[d] /\ reply'[d] = reply[d]
        /\ toServer'[c] = Rest(toServer[c], n)
    BY <1>1, <2>1 DEF ServerReceive, balancer, TypeOK
  <2>3. Len(Rest(toServer[c], n)) = Len(toServer[c]) - n /\ Len(toServer[c]) \in Nat
    <3>1. n \in 0 .. Len(toServer[c]) /\ toServer[c] \in Seq(RequestCells)
      BY <2>1 DEF TypeOK
    <3> QED
      BY <3>1, RestType, LenProperties
  <2>4. Going(c)' = Going(c) - n /\ InHand(c) = 0 /\ Coming(c)' = Coming(c) /\ n \in Nat \ {0}
    BY <2>1, <2>2, <2>3 DEF Going, Coming, InHand
  <2>5. Going(c)' + Coming(c)' + InHand(c)' - (Going(c) + Coming(c) + InHand(c))
            <= activeRequests'[c] - activeRequests[c]
    BY <2>2, <2>4, OutstandingParts
  <2> QED
    BY <2>2, <2>5, CountsOne
<1>2. CASE ServerSend(c)
  <2>1. PICK packet \in Replies : packet = reply[c] /\ packet # None
    BY <1>2 DEF ServerSend, TypeOK
  <2>2. /\ UNCHANGED <<serverSockets, sock, activeRequests, toServer>>
        /\ fromServer'[c] = fromServer[c] \o Cells(packet) /\ reply'[c] = None
        /\ \A d \in Conns \ {c} : fromServer'[d] = fromServer[d] /\ reply'[d] = reply[d]
    BY <1>2, <2>1 DEF ServerSend, balancer, TypeOK
  <2>3. fromServer \in [Conns -> Seq([packet : Replies, part : 1 .. Parts])]
    BY DEF TypeOK, ReplyCells
  <2>4. /\ [fromServer EXCEPT ![c] = @ \o Cells(packet)]
              \in [Conns -> Seq([packet : Replies, part : 1 .. Parts])]
        /\ Len(fromServer[c] \o Cells(packet)) = Len(fromServer[c]) + Parts
        /\ Len(fromServer[c]) \in Nat
    <3> HIDE DEF Replies
    <3> QED
      BY <2>3, SendOn
  <2>5. Going(c)' = Going(c) /\ InHand(c) = 1 /\ InHand(c)' = 0 /\ Coming(c)' = Coming(c) + Parts
    BY <2>1, <2>2, <2>4 DEF Going, Coming, InHand
  <2>6. Parts = 1 => Going(c)' + Coming(c)' + InHand(c)' - (Going(c) + Coming(c) + InHand(c))
                         <= activeRequests'[c] - activeRequests[c]
    <3>1. activeRequests'[c] = activeRequests[c]
      BY <2>2
    <3> QED
      BY <2>5, <3>1, OutstandingParts
  <2> QED
    BY <2>2, <2>6, CountsOne
<1> QED
  BY <1>1, <1>2

LEMMA UndercountDie ==
    ASSUME TypeOK, TypeOK', NeverUndercounts, NEW c \in Conns, ServerDie(c)
    PROVE  NeverUndercounts'
<1>1. /\ UNCHANGED <<serverSockets, sock, activeRequests>>
      /\ \A d \in Conns \ {c} : /\ toServer'[d] = toServer[d] /\ fromServer'[d] = fromServer[d]
                                /\ reply'[d] = reply[d]
      /\ toServer'[c] = <<>> /\ reply'[c] = None
  BY LoseTailType, SMTT(30) DEF ServerDie, balancer, TypeOK
<1>2. Len(fromServer'[c]) <= Len(fromServer[c])
  <2>1. CASE UNCHANGED fromServer
    BY <2>1, LenProperties DEF TypeOK
  <2>2. CASE LoseTail(c)
    BY <2>2, LoseTailType
  <2> QED
    BY <2>1, <2>2 DEF ServerDie
<1>3. Going(c)' = 0 /\ InHand(c)' = 0 /\ Coming(c)' <= Coming(c)
  BY <1>1, <1>2 DEF Going, Coming, InHand
<1>4. Going(c)' + Coming(c)' + InHand(c)' - (Going(c) + Coming(c) + InHand(c))
          <= activeRequests'[c] - activeRequests[c]
  BY <1>1, <1>3, OutstandingParts
<1> QED
  BY <1>1, <1>4, CountsOne

LEMMA UndercountStep ==
    ASSUME TypeOK, TypeOK', ListInv, BranchInv, SocketInv, NeverUndercounts, [Next]_vars
    PROVE  NeverUndercounts'
<1>1. CASE Accept
  <2>1. PICK c \in Conns :
          /\ c \in Backlogged /\ Listed' = Listed \cup {c}
          /\ \E newSocket \in FDs : sock' = [sock EXCEPT ![c] = newSocket]
          /\ activeRequests' = [activeRequests EXCEPT ![c] = 0]
    BY <1>1, Accepted
  <2>2. UNCHANGED <<toServer, fromServer, reply>>
    BY <1>1 DEF Accept, streams, servers
  <2>3. Outstanding(c)' = 0 /\ activeRequests'[c] = 0
    <3>1. toServer'[c] = <<>> /\ fromServer'[c] = <<>> /\ reply'[c] = None
      BY <2>1, <2>2 DEF ListInv
    <3>2. activeRequests'[c] = 0
      BY <2>1 DEF TypeOK
    <3> QED
      BY <3>1, <3>2 DEF Outstanding
  <2>4. ASSUME NEW d \in Live', d # c, Parts = 1 PROVE activeRequests'[d] >= Outstanding(d)'
    <3>1. d \in Live /\ activeRequests'[d] = activeRequests[d]
      BY <2>1, <2>4, ListedType DEF Live, TypeOK
    <3>2. Outstanding(d)' = Outstanding(d)
      BY <2>2 DEF Outstanding
    <3> QED
      BY <2>4, <3>1, <3>2 DEF NeverUndercounts
  <2> QED
    BY <2>3, <2>4 DEF NeverUndercounts
<1>2. CASE SendPacket
  BY <1>2, UndercountSend
<1>3. CASE ReceiveReply
  BY <1>3, UndercountReply
<1>4. CASE LoseServer
  <2>1. /\ sock' = [sock EXCEPT ![Server] = INVALID_SOCKET] /\ Server \in Conns
        /\ activeRequests' = [activeRequests EXCEPT ![Server] = @ - 1]
        /\ UNCHANGED <<serverSockets, toServer, fromServer, reply>>
    BY <1>4, ServerType DEF LoseServer, streams, servers
  <2>2. ASSUME NEW d \in Live' PROVE d \in Live /\ activeRequests'[d] = activeRequests[d]
    <3>1. Listed' = Listed /\ d \in Listed' /\ sock'[d] # INVALID_SOCKET
      BY <2>1 DEF Live, Listed
    <3>2. d \in Conns
      BY <3>1, ListedType
    <3>3. d # Server
      BY <2>1, <3>1 DEF TypeOK
    <3>4. sock'[d] = sock[d] /\ activeRequests'[d] = activeRequests[d]
      BY <2>1, <3>2, <3>3 DEF TypeOK
    <3> QED
      BY <3>1, <3>4 DEF Live
  <2>3. \A d : Outstanding(d)' = Outstanding(d)
    BY <2>1 DEF Outstanding
  <2> QED
    BY <2>2, <2>3 DEF NeverUndercounts
<1>5. CASE EraseClosed
  <2>1. Listed' \subseteq Listed /\ UNCHANGED <<sock, activeRequests, toServer, fromServer, reply>>
    BY <1>5, Erased DEF EraseClosed, streams, servers
  <2>2. \A d : Outstanding(d)' = Outstanding(d)
    BY <2>1 DEF Outstanding
  <2> QED
    BY <2>1, <2>2 DEF NeverUndercounts, Live
<1>6. CASE UNCHANGED <<serverSockets, sock, activeRequests, toServer, fromServer, reply>>
  <2>1. \A d : Outstanding(d)' = Outstanding(d)
    BY <1>6 DEF Outstanding
  <2> QED
    BY <1>6, <2>1 DEF NeverUndercounts, Live, Listed
<1>7. ASSUME NEW c \in Conns, ServerReceive(c) \/ ServerSend(c) \/ ServerDie(c)
      PROVE  NeverUndercounts'
  BY <1>7, UndercountServer, UndercountDie
<1> QED
  BY <1>1, <1>2, <1>3, <1>4, <1>5, <1>6, <1>7 DEF Next, Balancer, SelectTimeout, Select,
     ReceiveRequest, SkipServer, ClientSend, Connect, balancer, streams, servers, vars

-----------------------------------------------------------------------------
(* The theorems *)

LEMMA BalancerInitially == Init => BalancerInv
<1> SUFFICES ASSUME Init PROVE BalancerInv
  OBVIOUS
<1>1. TypeOK
  BY TypeInit
<1>2. Len(serverSockets) = 0 /\ Len(backlog) = 0
  BY DEF Init
<1>3. Listed = {} /\ Backlogged = {} /\ Open = {} /\ Live = {}
  BY <1>2 DEF Listed, Backlogged, Open, Live
<1>4. ListInv
  BY <1>2, <1>3 DEF Init, ListInv, Distinct
<1>5. BranchInv /\ SocketInv
  BY <1>2, <1>3 DEF Init, BranchInv, SocketInv
<1>6. LowestInv
  BY <1>3, DescriptorAssumption DEF Init, LowestInv
<1>7. NeverUndercounts
  BY <1>3 DEF NeverUndercounts
<1> QED
  BY <1>1, <1>4, <1>5, <1>6, <1>7 DEF BalancerInv

LEMMA BalancerStep == BalancerInv /\ [Next]_vars => BalancerInv'
<1> SUFFICES ASSUME BalancerInv, [Next]_vars PROVE BalancerInv'
  OBVIOUS
<1>0. TypeOK /\ ListInv /\ BranchInv /\ SocketInv /\ LowestInv /\ NeverUndercounts
  BY DEF BalancerInv
<1>1. TypeOK'
  <2>1. CASE Balancer
    BY <1>0, <2>1, BalancerType
  <2>2. CASE UNCHANGED vars
    BY <1>0, <2>2 DEF vars, TypeOK
  <2>3. CASE ClientSend
    BY <1>0, <2>3 DEF ClientSend, TypeOK, balancer, loop, streams, servers
  <2> QED
    BY <1>0, <2>1, <2>2, <2>3, EnvironmentType DEF Next, SelectTimeout
<1>2. ListInv' /\ BranchInv' /\ SocketInv' /\ LowestInv'
  BY <1>0, ListStep, BranchStep, SocketStep, LowestStep
<1>3. NeverUndercounts'
  BY <1>0, <1>1, UndercountStep
<1> QED
  BY <1>1, <1>2, <1>3 DEF BalancerInv

LEMMA BalancerInductive == Spec => []BalancerInv
  BY BalancerInitially, BalancerStep, PTL DEF Spec

\* The list, the descriptors, the counts and the streams have the types the code
\* gives them: a header that a server read from the middle of a packet names no
\* client, and only a client of a request is ever sent to.
THEOREM TypeCorrect == Spec => []TypeOK
<1>1. BalancerInv => TypeOK
  BY DEF BalancerInv
<1> QED
  BY <1>1, BalancerInductive, PTL

\* accept, the loop that closes sockets and the erasure after it keep each
\* connection listed once with a descriptor of its own, and neither select nor
\* send ever gets a socket that was closed.
THEOREM SocketsStaySound == Spec => []SocketsSound
<1>1. BalancerInv => SocketsSound
  <2> SUFFICES ASSUME BalancerInv PROVE SocketsSound
    OBVIOUS
  <2>1. TypeOK /\ ListInv /\ BranchInv /\ SocketInv
    BY DEF BalancerInv
  <2>2. ASSUME NEW i \in 1 .. Len(serverSockets), NEW j \in 1 .. Len(serverSockets), i # j
        PROVE  /\ serverSockets[i] # serverSockets[j]
               /\ sock[serverSockets[i]] = sock[serverSockets[j]] =>
                    sock[serverSockets[i]] = INVALID_SOCKET
    BY <2>1, <2>2, ListedType DEF ListInv, Distinct, SocketInv
  <2>3. pc = "send" => selectedServer \in Live
    BY <2>1, ListedOpen, DescriptorAssumption DEF BranchInv, Live
  <2> QED
    BY <2>1, <2>2, <2>3 DEF SocketsSound, SocketInv
<1> QED
  BY <1>1, BalancerInductive, PTL

\* However maxFD is recomputed when servers are lost, it stays at or above the two
\* descriptors the load balancer starts with.
THEOREM ClientsAlwaysWatched == Spec => []ClientsWatched
<1>1. BalancerInv => ClientsWatched
  BY DescriptorAssumption DEF BalancerInv, TypeOK, ClientsWatched
<1> QED
  BY <1>1, BalancerInductive, PTL

\* While no server is lost, the descriptor of the last accept is the highest there
\* is, so select sees every server.
THEOREM ServersWatchedUntilLoss == Spec => []WatchedUntilLoss
<1>1. BalancerInv => WatchedUntilLoss
  <2> SUFFICES ASSUME BalancerInv, \A c \in Conns : peer[c] # "gone", Posix, NEW c \in Listed
               PROVE  sock[c] <= maxFD
    BY DEF WatchedUntilLoss, Watched
  <2>1. PICK i \in 1 .. Len(serverSockets) : c = serverSockets[i]
    BY DEF Listed
  <2>2. c \in Conns /\ sock[c] # INVALID_SOCKET
    BY <2>1, ListedType DEF BalancerInv, SocketInv
  <2>3. sock[c] \in FDs /\ sock[c] \in Open
    BY <2>2 DEF BalancerInv, TypeOK, Open
  <2> QED
    BY <2>3 DEF BalancerInv, LowestInv
<1> QED
  BY <1>1, BalancerInductive, PTL

\* As long as no packet is split, no request a connection still has to deal with
\* is missing from its count, in spite of the answers that recv returns together.
THEOREM LoadsNeverUndercounted == Spec => []NeverUndercounts
<1>1. BalancerInv => NeverUndercounts
  BY DEF BalancerInv
<1> QED
  BY <1>1, BalancerInductive, PTL
=============================================================================
