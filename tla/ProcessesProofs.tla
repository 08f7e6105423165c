--------------------------- MODULE ProcessesProofs ---------------------------
(***************************************************************************)
(* Proofs, for any number of servers, launches, failures and requests, of  *)
(* what Processes states about types and addresses.                        *)
(***************************************************************************)
EXTENDS Processes, Numbers, TLAPS

USE BoundsAssumption, NoneAssumption

-----------------------------------------------------------------------------
(* The type invariant *)

\* The load balancer's sockets are closed: every variable of a connection keeps its
\* type, and no server's end is touched.
LEMMA CloseBalancerType ==
    ASSUME TypeOK, CloseBalancer
    PROVE  /\ lbEnd' \in [Servers -> {"backlog", "listed", "closed"}]
           /\ ended' \in [Servers -> {"no", "fin", "reset", "either"}]
           /\ toServer' \in [Servers -> 0 .. Window] /\ toBalancer' \in [Servers -> 0 .. Window]
           /\ svEnd' = svEnd
<1> DEFINE open == Backlog \cup Listed
           refused == {s \in open : s \in Backlog \/ toBalancer[s] > 0}
<1>1. /\ lbEnd' = [s \in Servers |-> IF s \in open THEN "closed" ELSE lbEnd[s]]
      /\ ended' = [s \in Servers |-> IF s \in refused THEN "reset"
                                     ELSE IF s \in open THEN "fin" ELSE ended[s]]
      /\ toBalancer' = [s \in Servers |-> IF s \in open THEN 0 ELSE toBalancer[s]]
      /\ svEnd' = svEnd
  BY DEF CloseBalancer
<1>2. PICK lost \in SUBSET refused :
        toServer' = [s \in Servers |-> IF s \in lost THEN 0 ELSE toServer[s]]
  BY DEF CloseBalancer
<1> HIDE DEF open, refused
<1> QED
  BY <1>1, <1>2 DEF TypeOK

\* The same of a server that closes its sockets.
LEMMA CloseServerType ==
    ASSUME TypeOK, NEW s \in Servers, CloseServer(s)
    PROVE  /\ svEnd' \in [Servers -> {"open", "closed"}] /\ svEnd'[s] = "closed"
           /\ \A t \in Servers \ {s} : svEnd'[t] = svEnd[t]
           /\ ended' \in [Servers -> {"no", "fin", "reset", "either"}]
           /\ toServer' \in [Servers -> 0 .. Window] /\ toBalancer' \in [Servers -> 0 .. Window]
           /\ lbEnd' = lbEnd
  BY DEF TypeOK, CloseServer

Ends == {"returned", "killed", "crashed"}

LEMMA EndServerType ==
    ASSUME TypeOK, NEW s \in Servers, NEW end \in Ends, EndServer(s, end),
           UNCHANGED <<file, balancer, requests>>, failures' \in 0 .. MaxFailures
    PROVE  TypeOK'
<1>1. /\ pc' = [pc EXCEPT ![s] = end] /\ running' = [running EXCEPT ![s] = FALSE]
      /\ CloseServer(s)
  BY DEF EndServer
<1>2. /\ svEnd' \in [Servers -> {"open", "closed"}]
      /\ ended' \in [Servers -> {"no", "fin", "reset", "either"}]
      /\ toServer' \in [Servers -> 0 .. Window] /\ toBalancer' \in [Servers -> 0 .. Window]
      /\ lbEnd' = lbEnd
  BY <1>1, CloseServerType
<1> QED
  BY <1>1, <1>2 DEF TypeOK, Ends, balancer

LEMMA FailsType == ASSUME TypeOK, Fails PROVE failures' \in 0 .. MaxFailures
  BY DEF TypeOK, Fails

LEMMA EndBalancerType ==
    ASSUME TypeOK, EndBalancer, UNCHANGED <<file, server, requests>>,
           failures' \in 0 .. MaxFailures
    PROVE  TypeOK'
  BY CloseBalancerType DEF TypeOK, EndBalancer, server

LEMMA TypeInit == Init => TypeOK
<1> SUFFICES ASSUME Init PROVE TypeOK
  OBVIOUS
<1>1. /\ launches \in 0 .. MaxLaunches /\ requests \in 0 .. MaxRequests
      /\ failures \in 0 .. MaxFailures
  BY DEF Init
<1>2. /\ toServer \in [Servers -> 0 .. Window] /\ toBalancer \in [Servers -> 0 .. Window]
      /\ running \in [Servers -> BOOLEAN]
  BY DEF Init
<1> QED
  BY <1>1, <1>2 DEF Init, TypeOK

LEMMA BalancerType ==
    ASSUME TypeOK, LaunchBalancer \/ Balancer \/ InterruptBalancer \/ KillBalancer
    PROVE  TypeOK'
<1>0. failures \in 0 .. MaxFailures
  BY DEF TypeOK
<1>1. CASE LaunchBalancer
  <2>1. launches' \in 0 .. MaxLaunches /\ failures' \in 0 .. MaxFailures
    BY <1>0, <1>1, FailsType DEF LaunchBalancer, TypeOK
  <2> QED
    BY <1>1, <2>1 DEF LaunchBalancer, TypeOK, server, connection
<1>2. CASE CreateClientSocket
  <2>1. CASE EndBalancer /\ Fails
    BY <1>2, <2>1, FailsType, EndBalancerType DEF CreateClientSocket
  <2> QED
    BY <1>2, <2>1 DEF CreateClientSocket, TypeOK, server, connection
<1>3. CASE CheckBalancer
  <2>1. CASE EndBalancer
    BY <1>0, <1>3, <2>1, EndBalancerType DEF CheckBalancer, bounds
  <2> QED
    BY <1>3, <2>1 DEF CheckBalancer, TypeOK, server, connection, bounds
<1>4. CASE KillBalancer
  BY <1>0, <1>4, EndBalancerType DEF KillBalancer, bounds
<1>5. CASE InterruptBalancer \/ BalancerTimeout
  BY <1>5 DEF InterruptBalancer, BalancerTimeout, TypeOK, server, connection, bounds
<1>6. CASE Accept
  BY <1>6 DEF Accept, TypeOK, server, bounds, Backlog
<1>7. CASE TakeRequest
  BY <1>7 DEF TakeRequest, TypeOK, server, connection, Listed
<1>8. CASE SendRequest
  <2>1. toServer' \in [Servers -> 0 .. Window]
    BY <1>8 DEF SendRequest, TypeOK
  <2> QED
    BY <1>8, <2>1 DEF SendRequest, TypeOK, server, bounds
<1>9. CASE ReadServers
  <2>1. toBalancer' \in [Servers -> 0 .. Window]
    <3>1. PICK left \in [Readable -> 0 .. Window] :
            toBalancer' = [s \in Servers |-> IF s \in Readable THEN left[s] ELSE toBalancer[s]]
      BY <1>9 DEF ReadServers
    <3> QED
      BY <3>1 DEF TypeOK
  <2> QED
    BY <1>9, <2>1 DEF ReadServers, TypeOK, server, bounds
<1> QED
  BY <1>1, <1>2, <1>3, <1>4, <1>5, <1>6, <1>7, <1>8, <1>9 DEF Balancer

LEMMA ServerType ==
    ASSUME TypeOK, NEW s \in Servers,
           StartServer(s) \/ Server(s) \/ InterruptServer(s) \/ KillServer(s)
    PROVE  TypeOK'
<1>0. failures \in 0 .. MaxFailures
  BY DEF TypeOK
<1>1. CASE StartServer(s)
  <2>1. ASSUME Fails, NEW end \in {"returned", "killed"}, EndServer(s, end) PROVE TypeOK'
    BY <1>1, <2>1, FailsType, EndServerType DEF StartServer, Ends
  <2> QED
    BY <1>1, <2>1 DEF StartServer, TypeOK, balancer, connection
<1>2. CASE Connect(s)
  <2>1. CASE EndServer(s, "returned") /\ (Fails \/ UNCHANGED failures)
    BY <1>0, <1>2, <2>1, FailsType, EndServerType DEF Connect, Ends
  <2> QED
    BY <1>2, <2>1 DEF Connect, TypeOK, balancer
<1>3. CASE CheckServer(s)
  <2>1. CASE EndServer(s, "returned")
    BY <1>0, <1>3, <2>1, EndServerType DEF CheckServer, Ends, bounds
  <2> QED
    BY <1>3, <2>1 DEF CheckServer, TypeOK, balancer, connection, bounds
<1>4. CASE LoseBalancer(s) \/ FailToReceive(s) \/ KillServer(s)
  BY <1>0, <1>4, EndServerType DEF LoseBalancer, FailToReceive, KillServer, Ends, bounds
<1>5. CASE ReceiveRequest(s)
  BY <1>5 DEF ReceiveRequest, TypeOK, balancer, bounds
<1>6. CASE ServerTimeout(s) \/ InterruptServer(s)
  BY <1>6 DEF ServerTimeout, InterruptServer, TypeOK, balancer, connection, bounds
<1>7. CASE Answer(s)
  BY <1>7 DEF Answer, TypeOK, balancer, bounds
<1> QED
  BY <1>1, <1>2, <1>3, <1>4, <1>5, <1>6, <1>7 DEF Server

LEMMA TypeStep == TypeOK /\ [Next]_vars => TypeOK'
<1> SUFFICES ASSUME TypeOK, [Next]_vars PROVE TypeOK'
  OBVIOUS
<1>1. CASE UNCHANGED vars
  BY <1>1 DEF vars, TypeOK
<1> QED
  BY <1>1, BalancerType, ServerType DEF Next, Rest

\* Every variable keeps its type, through every end of a process.
THEOREM TypeCorrect == Spec => []TypeOK
  BY TypeInit, TypeStep, PTL DEF Spec

-----------------------------------------------------------------------------
(* Who looks for the load balancer finds it *)

\* Unless the line of the servers comes first, both programs read the same line.
LEMMA SameAddress ==
    ASSUME file \in Files, ~ServerLineFirst
    PROVE  ConnectAddress = ListenAddress
<1> DEFINE lines(keys) == {i \in 1 .. Len(file) : file[i].key \in keys}
           both == {"load_balancer", "server"}
           own == {"load_balancer"}
<1>0. Len(file) \in Nat
  BY FilesAssumption
<1>1. CASE lines(both) = {}
  <2>1. lines(own) = {}
    BY <1>1
  <2> QED
    BY <1>1, <2>1 DEF ConnectAddress, ListenAddress, AddressOf
<1>2. CASE lines(both) # {}
  <2>1. PICK first \in lines(both) : \A j \in lines(both) : first <= j
    <3>1. lines(both) \in SUBSET Nat
      BY <1>0
    <3> HIDE DEF lines
    <3> QED
      BY <1>2, <3>1, LeastElement
  \* The first of all these lines is the load balancer's.
  <2>2. first \in lines(own)
    <3>1. file[first].key # "server"
      <4> SUFFICES ASSUME file[first].key = "server" PROVE FALSE
        OBVIOUS
      <4>1. PICK j \in 1 .. first : file[j].key = "load_balancer"
        BY <1>0, <2>1 DEF ServerLineFirst
      <4>2. j \in lines(both) /\ j = first
        BY <1>0, <2>1, <4>1
      <4> QED
        BY <4>1, <4>2
    <3> QED
      BY <2>1, <3>1
  <2>3. \A j \in lines(own) : first <= j
    BY <2>1
  <2>4. \A i \in lines(both) : (\A j \in lines(both) : i <= j) => i = first
    BY <1>0, <2>1
  <2>5. \A i \in lines(own) : (\A j \in lines(own) : i <= j) => i = first
    BY <1>0, <2>2, <2>3
  <2>6. (CHOOSE i \in lines(both) : \A j \in lines(both) : i <= j) = first
    BY <2>1, <2>4
  <2>7. (CHOOSE i \in lines(own) : \A j \in lines(own) : i <= j) = first
    BY <2>2, <2>3, <2>5
  <2>8. ConnectAddress = file[CHOOSE i \in lines(both) : \A j \in lines(both) : i <= j].address
    BY <1>2 DEF ConnectAddress, AddressOf
  <2>9. ListenAddress = file[CHOOSE i \in lines(own) : \A j \in lines(own) : i <= j].address
    BY <2>2 DEF ListenAddress, AddressOf
  <2> QED
    BY <2>6, <2>7, <2>8, <2>9
<1> QED
  BY <1>1, <1>2

FindsListener == \A s \in Servers :
    pc[s] = "connect" /\ pc'[s] = "returned" /\ failures' = failures =>
        ~Listening \/ ServerLineFirst

\* A server that returns because it could not connect, when nothing failed, had
\* nobody listening or a file with the line of the servers first.
THEOREM ListenersFound == Spec => ListenerFound
<1>1. TypeOK /\ [Next]_vars => [FindsListener]_vars
  <2> SUFFICES ASSUME TypeOK, [Next]_vars, NEW s \in Servers,
                      pc[s] = "connect", pc'[s] = "returned", failures' = failures
               PROVE  ~Listening \/ ServerLineFirst
    BY DEF FindsListener
  <2>1. CASE Connect(s)
    <3>1. ~(Listening /\ ConnectAddress = ListenAddress)
      BY <2>1 DEF Connect, Fails, TypeOK
    <3> QED
      BY <3>1, SameAddress DEF TypeOK
  <2>2. CASE UNCHANGED pc
    BY <2>2
  <2>3. ASSUME NEW t \in Servers, NEW label, pc' = [pc EXCEPT ![t] = label],
               label # "returned" \/ pc[t] # "connect"
        PROVE  FALSE
    BY <2>3 DEF TypeOK
  <2>4. CASE LaunchBalancer \/ Balancer \/ InterruptBalancer \/ KillBalancer
    BY <2>2, <2>4 DEF LaunchBalancer, Balancer, CreateClientSocket, CheckBalancer,
       Accept, TakeRequest, SendRequest, ReadServers, BalancerTimeout, InterruptBalancer,
       KillBalancer, server
  <2>5. ASSUME NEW t \in Servers, Connect(t) PROVE ~Listening \/ ServerLineFirst
    <3>1. t = s
      BY <2>5 DEF Connect, EndServer, TypeOK
    <3> QED
      BY <2>1, <2>5, <3>1
  <2>6. ASSUME NEW t \in Servers, CheckServer(t) \/ ReceiveRequest(t) \/ LoseBalancer(t)
                 \/ FailToReceive(t) \/ ServerTimeout(t) \/ Answer(t)
        PROVE  FALSE
    BY <2>3, <2>6 DEF CheckServer, ReceiveRequest, LoseBalancer, FailToReceive, ServerTimeout,
       Answer, EndServer
  <2>7. ASSUME NEW t \in Servers, StartServer(t) \/ KillServer(t) PROVE FALSE
    BY <2>3, <2>7 DEF StartServer, KillServer, EndServer
  <2>8. ASSUME NEW t \in Servers, InterruptServer(t) PROVE FALSE
    BY <2>2, <2>8 DEF InterruptServer
  <2> QED
    BY <2>2, <2>4, <2>5, <2>6, <2>7, <2>8 DEF Next, Server, Rest, vars
<1> QED
  BY <1>1, TypeCorrect, PTL DEF Spec, ListenerFound, FindsListener
=============================================================================
