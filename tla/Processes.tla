------------------------------ MODULE Processes ------------------------------
(***************************************************************************)
(* The life of the processes: how the load balancer and the servers start, *)
(* are interrupted, end, and notice that the other is gone.  Every step of *)
(* a start-up may fail, and every process may be killed at any time.       *)
(*                                                                         *)
(* The relay is reduced to how many packets wait in each direction of each *)
(* connection, and the database to whether a server could start with it;   *)
(* modules LoadBalancer and AccountServer say what the packets are, and    *)
(* what becomes of a server that loses its database session later.  The    *)
(* sockets are those of Windows: a send to a peer that is gone fails       *)
(* without a signal.                                                       *)
(***************************************************************************)
EXTENDS Integers, Sequences

CONSTANTS
    Servers,      \* server processes, each of which runs once
    Files,        \* the address files that may be installed, as sequences of lines
    Localhost,    \* the address of a program whose line is not in the file
    None,         \* no server
    Window,       \* packets that fit into the buffers of one direction of a connection
    MaxRequests,  \* bound on the requests sent to servers
    MaxFailures,  \* bound on the start-up steps and connects that fail
    MaxLaunches   \* bound on the launches of the load balancer

ASSUME BoundsAssumption ==
    Window \in Nat \ {0} /\ MaxRequests \in Nat /\ MaxFailures \in Nat /\ MaxLaunches \in Nat
ASSUME NoneAssumption == None \notin Servers
ASSUME FilesAssumption == \A lines \in Files : Len(lines) \in Nat

VARIABLES
    file,        \* addresses.csv
    lb,          \* where the load balancer is
    lbRunning,   \* isRunning of the load balancer
    target,      \* the server that the load balancer sends to
    launches,    \* how often the load balancer was launched
    pc,          \* where each server is
    running,     \* isRunning of each server
    svEnd,       \* the server's end of its connection: open, closed
    lbEnd,       \* the load balancer's end: backlog, listed, closed
    ended,       \* what the server's kernel saw of the end: no, fin, reset, either
    toServer,    \* packets that the server did not read
    toBalancer,  \* packets that the load balancer did not read
    requests,    \* requests sent to servers, up to MaxRequests
    failures     \* steps that failed, up to MaxFailures

balancer == <<lb, lbRunning, target, launches>>
server == <<pc, running>>
connection == <<svEnd, lbEnd, ended, toServer, toBalancer>>
bounds == <<requests, failures>>
vars == <<file, lb, lbRunning, target, launches, pc, running,
          svEnd, lbEnd, ended, toServer, toBalancer, requests, failures>>

-----------------------------------------------------------------------------
(* addresses.csv *)

\* The address on the first line with one of the keys.
AddressOf(keys) ==
    LET lines == {i \in 1 .. Len(file) : file[i].key \in keys} IN
    IF lines = {} THEN Localhost
    ELSE file[CHOOSE i \in lines : \A j \in lines : i <= j].address

\* The load balancer's loadAddresses looks for its own line.
ListenAddress == AddressOf({"load_balancer"})

\* Defect: the search does not end at the line it looked for.
ConnectAddressLast ==
    IF file = <<>> THEN Localhost ELSE file[Len(file)].address

\* The server's stores the address of either line in LOAD_BALANCER_IP and stops.
ConnectAddress == AddressOf({"load_balancer", "server"})

-----------------------------------------------------------------------------
(* Where a process is *)

\* From the end of listen, which precedes the socket for the clients, to the end.
Listening == lb # "off"

Up(s) == pc[s] \in {"connect", "check", "select", "work"}

Backlog == {s \in Servers : lbEnd[s] = "backlog"}
Listed == {s \in Servers : lbEnd[s] = "listed"}

Fails == failures < MaxFailures /\ failures' = failures + 1

-----------------------------------------------------------------------------
Init ==
    /\ file \in Files
    /\ lb = "off" /\ lbRunning = FALSE /\ target = None /\ launches = 0
    /\ pc = [s \in Servers |-> "off"]
    /\ running = [s \in Servers |-> TRUE]
    /\ svEnd = [s \in Servers |-> "closed"]
    /\ lbEnd = [s \in Servers |-> "closed"]
    /\ ended = [s \in Servers |-> "no"]
    /\ toServer = [s \in Servers |-> 0] /\ toBalancer = [s \in Servers |-> 0]
    /\ requests = 0 /\ failures = 0

-----------------------------------------------------------------------------
(* The load balancer starts and ends *)

\* The sockets of a process are closed, by the process or for it.  A connection
\* ends in a reset when something was left unread in it, or it was not accepted;
\* a reset may overtake what the other end has not read.
CloseBalancer ==
    LET open == Backlog \cup Listed
        refused == {s \in open : s \in Backlog \/ toBalancer[s] > 0}
    IN  /\ lbEnd' = [s \in Servers |-> IF s \in open THEN "closed" ELSE lbEnd[s]]
        /\ ended' = [s \in Servers |-> IF s \in refused THEN "reset"
                                       ELSE IF s \in open THEN "fin" ELSE ended[s]]
        /\ toBalancer' = [s \in Servers |-> IF s \in open THEN 0 ELSE toBalancer[s]]
        /\ \E lost \in SUBSET refused :
              toServer' = [s \in Servers |-> IF s \in lost THEN 0 ELSE toServer[s]]
        /\ UNCHANGED svEnd

EndBalancer ==
    /\ lb' = "off" /\ lbRunning' = FALSE /\ target' = None
    /\ CloseBalancer
    /\ UNCHANGED launches

\* Up to listen: the handler, the addresses, the socket for the servers.  A step
\* that fails ends the process with nothing to close but that socket.
LaunchBalancer ==
    /\ lb = "off" /\ launches < MaxLaunches
    /\ launches' = launches + 1
    /\ \/ lb' = "socket" /\ lbRunning' = TRUE /\ UNCHANGED failures
       \/ Fails /\ UNCHANGED <<lb, lbRunning>>
    /\ UNCHANGED <<file, target, server, connection, requests>>

\* Servers may be waiting for accept already; they are reset when it fails.
CreateClientSocket ==
    /\ lb = "socket"
    /\ \/ lb' = "check" /\ UNCHANGED <<lbRunning, target, launches, connection, failures>>
       \/ Fails /\ EndBalancer
    /\ UNCHANGED <<file, server, requests>>

\* Defect: the loop does not look at isRunning.
CheckBalancerAlways ==
    /\ lb = "check" /\ lb' = "select"
    /\ UNCHANGED <<file, lbRunning, target, launches, connection, server, bounds>>

CheckBalancer ==
    /\ lb = "check"
    /\ \/ lbRunning /\ lb' = "select" /\ UNCHANGED <<lbRunning, target, launches, connection>>
       \/ ~lbRunning /\ EndBalancer
    /\ UNCHANGED <<file, server, bounds>>

InterruptBalancer ==
    /\ Listening /\ lbRunning
    /\ lbRunning' = FALSE
    /\ UNCHANGED <<file, lb, target, launches, server, connection, bounds>>

KillBalancer ==
    /\ Listening /\ EndBalancer
    /\ UNCHANGED <<file, server, bounds>>

-----------------------------------------------------------------------------
(* Its loop *)

Accept ==
    /\ lb = "select" /\ \E s \in Backlog : lbEnd' = [lbEnd EXCEPT ![s] = "listed"]
    /\ lb' = "check"
    /\ UNCHANGED <<file, lbRunning, target, launches, server, svEnd, ended, toServer, toBalancer,
                   bounds>>

\* Defect: requests are looked at before servers that connect.
TakeRequestFirst ==
    /\ lb = "select"
    /\ \/ Listed = {} /\ lb' = "check" /\ UNCHANGED <<target, requests>>
       \/ /\ Listed # {} /\ lb' = "send" /\ target' \in Listed
          /\ requests < MaxRequests /\ requests' = requests + 1
    /\ UNCHANGED <<file, lbRunning, launches, server, connection, failures>>

\* Defect: the list is not checked, and what is behind its end is taken.
TakeRequestUnchecked ==
    /\ lb = "select" /\ Backlog = {}
    /\ \/ Listed = {} /\ target' = None
       \/ target' \in Listed
    /\ lb' = "send" /\ requests < MaxRequests /\ requests' = requests + 1
    /\ UNCHANGED <<file, lbRunning, launches, server, connection, failures>>

\* A request is read; without a server it is dropped.
TakeRequest ==
    /\ lb = "select" /\ Backlog = {}
    /\ \/ Listed = {} /\ lb' = "check" /\ UNCHANGED <<target, requests>>
       \/ /\ Listed # {} /\ lb' = "send" /\ target' \in Listed
          /\ requests < MaxRequests /\ requests' = requests + 1
    /\ UNCHANGED <<file, lbRunning, launches, server, connection, failures>>

\* send blocks while the server does not read, unless the server is gone.
SendRequest ==
    /\ lb = "send"
    /\ \/ /\ svEnd[target] = "open" /\ toServer[target] < Window
          /\ toServer' = [toServer EXCEPT ![target] = @ + 1]
       \/ svEnd[target] = "closed" /\ UNCHANGED toServer
    /\ lb' = "check" /\ target' = None
    /\ UNCHANGED <<file, lbRunning, launches, server, svEnd, lbEnd, ended, toBalancer, bounds>>

Readable == {s \in Listed : toBalancer[s] > 0 \/ svEnd[s] = "closed"}

\* One recv for each connection that is readable takes any part of what waits in it;
\* one that has nothing left is closed and leaves the list.
ReadServers ==
    /\ lb = "select" /\ Backlog = {} /\ Readable # {}
    /\ \E left \in [Readable -> 0 .. Window] :
        /\ \A s \in Readable : left[s] = 0 \/ left[s] < toBalancer[s]
        /\ toBalancer' = [s \in Servers |-> IF s \in Readable THEN left[s] ELSE toBalancer[s]]
    /\ lbEnd' = [s \in Servers |->
          IF s \in Readable /\ toBalancer[s] = 0 THEN "closed" ELSE lbEnd[s]]
    /\ lb' = "check"
    /\ UNCHANGED <<file, lbRunning, target, launches, server, svEnd, ended, toServer, bounds>>

\* select times out, or the signal interrupts it.
BalancerTimeout ==
    /\ lb = "select" /\ Backlog = {} /\ Readable = {}
    /\ lb' = "check"
    /\ UNCHANGED <<file, lbRunning, target, launches, server, connection, bounds>>

Balancer == \/ CreateClientSocket \/ CheckBalancer \/ Accept \/ TakeRequest
            \/ SendRequest \/ ReadServers \/ BalancerTimeout

-----------------------------------------------------------------------------
(* A server starts and ends *)

CloseServer(s) ==
    /\ svEnd' = [svEnd EXCEPT ![s] = "closed"]
    /\ ended' = [ended EXCEPT ![s] = "no"]
    /\ toServer' = [toServer EXCEPT ![s] = 0]
    /\ \/ UNCHANGED toBalancer
       \/ toServer[s] > 0 /\ toBalancer' = [toBalancer EXCEPT ![s] = 0]
    /\ UNCHANGED lbEnd

\* The process ends, in order or not.
EndServer(s, end) ==
    /\ pc' = [pc EXCEPT ![s] = end]
    /\ running' = [running EXCEPT ![s] = FALSE]
    /\ CloseServer(s)

\* Up to the socket: the addresses, the credentials, the database session and the
\* schema.  A failure ends the process, not always in order: cleanup closes the session
\* through a null pointer when there is none, and the DatabaseManager throws to nobody.
StartServer(s) ==
    /\ pc[s] = "off"
    /\ \/ /\ pc' = [pc EXCEPT ![s] = "connect"]
          /\ UNCHANGED <<running, connection, failures>>
       \/ Fails /\ \E end \in {"returned", "killed"} : EndServer(s, end)
    /\ UNCHANGED <<file, balancer, requests>>

\* The kernel of the load balancer completes the connection before it is accepted.
Connect(s) ==
    /\ pc[s] = "connect"
    /\ \/ /\ Listening /\ ConnectAddress = ListenAddress
          /\ pc' = [pc EXCEPT ![s] = "check"]
          /\ svEnd' = [svEnd EXCEPT ![s] = "open"]
          /\ lbEnd' = [lbEnd EXCEPT ![s] = "backlog"]
          /\ UNCHANGED <<running, ended, toServer, toBalancer, failures>>
       \/ /\ ~(Listening /\ ConnectAddress = ListenAddress)
          /\ EndServer(s, "returned") /\ UNCHANGED failures
       \/ Fails /\ EndServer(s, "returned")
    /\ UNCHANGED <<file, balancer, requests>>

CheckServer(s) ==
    /\ pc[s] = "check"
    /\ \/ /\ running[s] /\ pc' = [pc EXCEPT ![s] = "select"]
          /\ UNCHANGED <<running, connection>>
       \/ ~running[s] /\ EndServer(s, "returned")
    /\ UNCHANGED <<file, balancer, bounds>>

InterruptServer(s) ==
    /\ Up(s) /\ running[s]
    /\ running' = [running EXCEPT ![s] = FALSE]
    /\ UNCHANGED <<file, balancer, pc, connection, bounds>>

KillServer(s) ==
    /\ Up(s) /\ EndServer(s, "killed")
    /\ UNCHANGED <<file, balancer, bounds>>

-----------------------------------------------------------------------------
(* Its loop *)

\* One recv takes one packet, which may be of a type that is not answered, or all
\* that wait.
ReceiveRequest(s) ==
    /\ pc[s] = "select" /\ toServer[s] > 0
    /\ \E left \in {0, toServer[s] - 1} : toServer' = [toServer EXCEPT ![s] = left]
    /\ \E next \in {"work", "check"} : pc' = [pc EXCEPT ![s] = next]
    /\ UNCHANGED <<file, balancer, running, svEnd, lbEnd, ended, toBalancer, bounds>>

\* recv returns 0, and the loop is left.
LoseBalancer(s) ==
    /\ pc[s] = "select" /\ toServer[s] = 0 /\ ended[s] \in {"fin", "either"}
    /\ EndServer(s, "returned")
    /\ UNCHANGED <<file, balancer, bounds>>

\* recv fails, and what it did not read is parsed: the checksum of a packet whose
\* size is (size_t)-1 runs off the stack.
FailToReceive(s) ==
    /\ pc[s] = "select" /\ toServer[s] = 0 /\ ended[s] \in {"reset", "either"}
    /\ EndServer(s, "crashed")
    /\ UNCHANGED <<file, balancer, bounds>>

ServerTimeout(s) ==
    /\ pc[s] = "select" /\ toServer[s] = 0 /\ ended[s] = "no"
    /\ pc' = [pc EXCEPT ![s] = "check"]
    /\ UNCHANGED <<file, balancer, running, connection, bounds>>

\* send blocks while the load balancer does not read, and fails when it is gone,
\* which is not looked at.
Answer(s) ==
    /\ pc[s] = "work"
    /\ \/ /\ ended[s] = "no" /\ toBalancer[s] < Window
          /\ toBalancer' = [toBalancer EXCEPT ![s] = @ + 1]
          /\ UNCHANGED ended
       \/ /\ ended[s] # "no" /\ UNCHANGED toBalancer
          /\ ended' = [ended EXCEPT ![s] = IF @ = "fin" THEN "either" ELSE @]
    /\ pc' = [pc EXCEPT ![s] = "check"]
    /\ UNCHANGED <<file, balancer, running, svEnd, lbEnd, toServer, bounds>>

Server(s) == \/ Connect(s) \/ CheckServer(s) \/ ReceiveRequest(s) \/ LoseBalancer(s)
             \/ FailToReceive(s) \/ ServerTimeout(s) \/ Answer(s)

Rest == UNCHANGED vars /\ lb = "off" /\ \A s \in Servers : ~Up(s)

Next == \/ LaunchBalancer \/ Balancer \/ InterruptBalancer \/ KillBalancer
        \/ \E s \in Servers : StartServer(s) \/ Server(s) \/ InterruptServer(s) \/ KillServer(s)
        \/ Rest

Spec == Init /\ [][Next]_vars
FairSpec == Spec /\ WF_vars(Balancer) /\ \A s \in Servers : WF_vars(Server(s))

-----------------------------------------------------------------------------
(* What the operator of the system relies on *)

\* The type of every variable, and that the balancer sends to a server.
TypeOK ==
    /\ file \in Files
    /\ lb \in {"off", "socket", "check", "select", "send"} /\ lbRunning \in BOOLEAN
    /\ target \in Servers \cup {None} /\ (lb = "send" => target \in Servers) /\ launches \in 0 .. MaxLaunches
    /\ pc \in [Servers -> {"off", "connect", "check", "select", "work",
                        "returned", "killed", "crashed"}]
    /\ running \in [Servers -> BOOLEAN]
    /\ svEnd \in [Servers -> {"open", "closed"}]
    /\ lbEnd \in [Servers -> {"backlog", "listed", "closed"}]
    /\ ended \in [Servers -> {"no", "fin", "reset", "either"}]
    /\ toServer \in [Servers -> 0 .. Window] /\ toBalancer \in [Servers -> 0 .. Window]
    /\ requests \in 0 .. MaxRequests /\ failures \in 0 .. MaxFailures

\* A server finds the load balancer that listens unless the line of the servers
\* comes first in the file.
ServerLineFirst == \E i \in 1 .. Len(file) : /\ file[i].key = "server"
                                           /\ \A j \in 1 .. i : file[j].key # "load_balancer"
ListenerFound == [][\A s \in Servers :
    pc[s] = "connect" /\ pc'[s] = "returned" /\ failures' = failures =>
        ~Listening \/ ServerLineFirst]_vars

\* The balancer and a server are both in send, and nobody reads.
SendingToEachOther ==
    /\ lb = "send" /\ svEnd[target] = "open" /\ toServer[target] = Window
    /\ pc[target] = "work" /\ toBalancer[target] = Window

\* A process that was interrupted ends, whatever the others do, and so does a server
\* that the balancer has left behind, listed or not yet accepted; but when the balancer
\* and a server are in send to each other neither looks at isRunning again.
LeftBehind(s) == svEnd[s] = "open" /\ lbEnd[s] = "closed"
ProcessesEnd ==
    /\ Listening /\ ~lbRunning ~> ~Listening \/ SendingToEachOther
    /\ \A s \in Servers : Up(s) /\ (~running[s] \/ LeftBehind(s)) ~>
          ~Up(s) \/ (SendingToEachOther /\ lbEnd[s] # "closed")

\* A server that connects, while the balancer starts or runs, is accepted unless the
\* balancer ends.
ServersAccepted == \A s \in Servers :
    lbEnd[s] = "backlog" ~> lbEnd[s] # "backlog" \/ SendingToEachOther

-----------------------------------------------------------------------------
(* What the repository says of the program, and the code does not do *)

\* TheSystemServer.cpp:196, "Load balancer disconnected": a server whose balancer is
\* gone leaves its loop and returns.  When the connection was reset recv fails
\* instead, and the loop goes on to parse a packet of -1 bytes.
LostBalancerNoticed == \A s \in Servers : pc[s] # "crashed"
=============================================================================
