------------------------- MODULE AccountServerProofs -------------------------
(***************************************************************************)
(* Proofs, for any number of servers, requests, names, faults and stops,   *)
(* of what AccountServer states about sessions.                            *)
(***************************************************************************)
EXTENDS AccountServer, TLAPS

(* The inductive invariant: the type, the keys of the two tables, what each
   server knows at each of its statements, and what was promised in answers. *)

\* A request has one server for as long as it is in that server's buffer.
RequestsInv == \A s \in Servers : pc[s] \in Busy => Packet(s).server = s

\* AUTO_INCREMENT keys are unique and no counter returns to a smaller value.
KeysInv ==
    /\ \A u \in users : u.id < nextUser
    /\ \A u, v \in users : u.id = v.id => u = v
    /\ \A row \in issued : row.id < nextSession
    /\ \A a, b \in issued : a.id = b.id => a = b
    /\ sessions \subseteq issued
    /\ \A row \in issued : asked[row.by] # None
    /\ \A r \in Requests : asked[r] # None => asked[r].at <= nextSession

\* The account with this ID is the one that packet p gave the credentials of.
Owns(id, p) == \E u \in users : u.id = id /\ Matches(u, p)

\* Session sid is one that p's own account was given, after p was received.
Granted(sid, p) == \E row \in issued : row.id = sid /\ Owns(row.user, p) /\ sid >= p.at

\* createSession, statement by statement.
CallerAt(s) ==
    /\ pc[s] = "lookup" => Recognized(Packet(s))
    /\ pc[s] \in {"delete", "insert", "read"} => Owns(uid[s], Packet(s))
    /\ pc[s] \in {"insert", "read"} =>
          \A row \in SelectSessions(uid[s]) : row.id >= Packet(s).at
    /\ pc[s] = "insert" =>
          \A row \in SelectSessions(uid[s]) : Server(row.by) # s
    /\ pc[s] = "reply" /\ result[s].success /\ Packet(s).sid = 0 =>
          Granted(result[s].sid, Packet(s))

CallerInv == \A s \in Servers : CallerAt(s)

AnswersInv == \A r \in Requests :
    /\ Answered(r) => asked[r] # None
    /\ SignedIn(r) => Granted(answer[r].sid, asked[r])

IInv == TypeOK /\ RequestsInv /\ KeysInv /\ CallerInv /\ AnswersInv /\ SessionsBoundedByServers

-----------------------------------------------------------------------------
(* The type invariant *)

USE DEF Statements, Busy, Labels

\* Statements change nothing but their own server's label and result; the
\* label is one the loop has and the result is one that can be sent.
LEMMA GotoType ==
    ASSUME TypeOK, NEW s \in Servers, NEW label \in Labels, Goto(s, label)
    PROVE  /\ pc' \in [Servers -> Labels] /\ result' \in [Servers -> Results \cup {None}]
           /\ pc'[s] = label /\ result' = result
           /\ \A t \in Servers \ {s} : pc'[t] = pc[t]
  BY DEF TypeOK, Goto

LEMMA FinishType ==
    ASSUME TypeOK, NEW s \in Servers, NEW success \in BOOLEAN, NEW msg \in Messages,
           NEW sid \in Nat, Finish(s, success, msg, sid)
    PROVE  /\ pc' \in [Servers -> Labels] /\ result' \in [Servers -> Results \cup {None}]
           /\ pc'[s] = "reply"
           /\ result'[s] = [success |-> success, msg |-> msg, sid |-> sid]
           /\ result'[s] \in Results /\ result'[s] # None
           /\ \A t \in Servers \ {s} : pc'[t] = pc[t] /\ result'[t] = result[t]
  BY NoneAssumption DEF TypeOK, Finish, Results

\* A statement returns or raises without passing a bound.
LEMMA StatementType ==
    ASSUME TypeOK, NEW s \in Servers, Returns(s) \/ Raises(s)
    PROVE  connected' \in [Servers -> BOOLEAN] /\ faults' \in 0 .. MaxFaults
  BY BoundsAssumption DEF TypeOK, Returns, Raises

LEMMA PacketType_Asked ==
    ASSUME TypeOK, NEW s \in Servers, pc[s] \in Busy
    PROVE  /\ req[s] \in Requests /\ Packet(s) \in Asked /\ asked[req[s]] # None
           /\ Packet(s).sid \in Nat /\ Packet(s).name \in Names /\ Packet(s).pass \in Passwords
           /\ Packet(s).at \in Nat
  BY DEF TypeOK, Packet, Asked

\* The labels that the local computation after a check leads to.
LEMMA OutcomeType ==
    ASSUME TypeOK, NEW s \in Servers, pc[s] \in Busy, NEW msg \in Messages
    PROVE  /\ Succeed(s, msg) => \/ Packet(s).sid = 0 /\ Goto(s, "lookup")
                                 \/ Packet(s).sid # 0 /\ Finish(s, TRUE, msg, Packet(s).sid)
           /\ Fail(s, msg) => Finish(s, FALSE, msg, Packet(s).sid)
  BY DEF Succeed, Fail

LEMMA HandlerType == \A p : Handler(p) \in {"credentials", "exists", "recv"}
  BY DEF Handler

LEMMA KnownSidsType == ASSUME TypeOK PROVE KnownSids \subseteq Nat
  BY DEF TypeOK, KnownSids, Answers

\* What all statements have in common: the server goes on to another label or to
\* its answer, and the packets and the answers stay.
Continues(s) ==
    /\ Returns(s) \/ Raises(s)
    /\ \/ \E label \in Labels \ {"reply"} : Goto(s, label)
       \/ \E success \in BOOLEAN, msg \in Messages, sid \in Nat : Finish(s, success, msg, sid)
    /\ UNCHANGED <<req, wire, stops>>

LEMMA ContinuesType ==
    ASSUME TypeOK, NEW s \in Servers, pc[s] \in Statements, Continues(s),
           users' \subseteq UserRows, sessions' \subseteq SessionRows, issued' \subseteq SessionRows,
           nextUser' \in Nat \ {0}, nextSession' \in Nat \ {0}, uid' \in [Servers -> Nat]
    PROVE  TypeOK'
<1>1. connected' \in [Servers -> BOOLEAN] /\ faults' \in 0 .. MaxFaults
  BY StatementType DEF Continues
<1>2. /\ pc' \in [Servers -> Labels] /\ result' \in [Servers -> Results \cup {None}]
      /\ \A t \in Servers \ {s} : pc'[t] = pc[t] /\ result'[t] = result[t]
      /\ pc'[s] = "reply" => result'[s] # None
  BY GotoType, FinishType, ZenonT(60) DEF Continues
<1>3. ASSUME NEW t \in Servers, pc'[t] \in Busy
      PROVE  req'[t] \in Requests /\ Packet(t)' # None
  BY <1>2, <1>3 DEF TypeOK, Continues, Packet, wire
<1> QED
  BY <1>1, <1>2, <1>3 DEF TypeOK, Continues, wire

LEMMA NewRowsType ==
    ASSUME TypeOK, NEW s \in Servers, pc[s] \in Statements
    PROVE  /\ InsertUser(s) => users' \subseteq UserRows /\ nextUser' \in Nat \ {0}
           /\ AddSession(s) => /\ sessions' \subseteq SessionRows /\ issued' \subseteq SessionRows
                               /\ nextSession' \in Nat \ {0}
           /\ RemoveSessions(s) => sessions' \subseteq SessionRows
<1>1. req[s] \in Requests /\ Packet(s).name \in Names /\ Packet(s).pass \in Passwords
  BY PacketType_Asked
<1>2. nextUser \in Nat /\ nextSession \in Nat /\ uid[s] \in Nat
  BY DEF TypeOK
<1> QED
  BY <1>1, <1>2 DEF TypeOK, InsertUser, AddSession, RemoveSessions, UserRows, SessionRows

\* Every statement continues, which is all that the type of pc, result, the
\* connection and the bounds depends on.
LEMMA WorkContinues ==
    ASSUME TypeOK, NEW s \in Servers, Work(s), ~SendResult(s)
    PROVE  pc[s] \in Statements /\ Continues(s)
<1>1. pc[s] \in Busy => Packet(s).sid \in Nat
  BY PacketType_Asked
<1>2. CASE SessionExists(s)
  BY <1>1, <1>2, OutcomeType, HandlerType DEF SessionExists, Continues, Messages
<1>3. CASE IsValidSignInAttempt(s)
  BY <1>1, <1>3, OutcomeType DEF IsValidSignInAttempt, Continues, Messages
<1>4. CASE UserExists(s)
  BY <1>1, <1>4, OutcomeType DEF UserExists, Continues, Messages
<1>5. CASE CreateUser(s)
  BY <1>1, <1>5, OutcomeType DEF CreateUser, Continues, Messages
<1>6. CASE LookupUser(s)
  BY <1>1, <1>6, OutcomeType DEF LookupUser, Continues, Messages
<1>7. CASE DeleteSessions(s)
  BY <1>7 DEF DeleteSessions, Continues
<1>8. CASE InsertSession(s)
  BY <1>8 DEF InsertSession, Continues
<1>9. CASE ReadSession(s)
  BY <1>1, <1>9, OutcomeType DEF ReadSession, Continues, Messages, TypeOK, SessionRows
<1>10. CASE CheckRaises(s)
  BY <1>1, <1>10, OutcomeType DEF CheckRaises, Continues, Messages
<1>11. CASE CreateUserRaises(s)
  BY <1>1, <1>11, OutcomeType DEF CreateUserRaises, Continues, Messages
<1>12. CASE CreateSessionRaises(s)
  BY <1>1, <1>12, OutcomeType DEF CreateSessionRaises, Continues, Messages
<1> QED
  BY <1>2, <1>3, <1>4, <1>5, <1>6, <1>7, <1>8, <1>9, <1>10, <1>11, <1>12 DEF Work

LEMMA TypeInit == Init => TypeOK
  BY BoundsAssumption DEF Init, TypeOK

LEMMA TypeStep == TypeOK /\ [Next]_vars => TypeOK'
<1> SUFFICES ASSUME TypeOK, [Next]_vars PROVE TypeOK'
  OBVIOUS
<1>1. ASSUME NEW s \in Servers, Receive(s) PROVE TypeOK'
  <2>1. PICK r \in Requests, p \in Packets(KnownSids) :
          /\ asked[r] = None
          /\ asked' = [asked EXCEPT ![r] = [server |-> s, at |-> nextSession, type |-> p.type,
                name |-> p.name, pass |-> p.pass, sid |-> p.sid, intact |-> p.intact]]
          /\ req' = [req EXCEPT ![s] = r]
          /\ \/ Finish(s, FALSE, "bad_packet", p.sid)
             \/ Goto(s, "session")
             \/ Goto(s, Handler(p))
    BY <1>1 DEF Receive
  <2>2. asked'[r] \in Asked /\ p.sid \in Nat
    BY <2>1, KnownSidsType DEF TypeOK, Packets, Asked
  <2>3. asked' \in [Requests -> Asked \cup {None}] /\ asked'[r] # None
    BY <2>1, <2>2, NoneAssumption DEF TypeOK
  <2>4. /\ pc' \in [Servers -> Labels] /\ result' \in [Servers -> Results \cup {None}]
        /\ \A t \in Servers \ {s} : pc'[t] = pc[t] /\ result'[t] = result[t]
        /\ pc'[s] = "reply" => result'[s] # None
    <3>1. CASE Finish(s, FALSE, "bad_packet", p.sid)
      BY <2>2, <3>1, FinishType DEF Messages
    <3>2. CASE Goto(s, "session")
      BY <3>2, GotoType
    <3>3. CASE Goto(s, Handler(p))
      <4>1. Handler(p) \in Labels \ {"reply"}
        BY HandlerType
      <4> QED
        BY <3>3, <4>1, GotoType
    <3> QED
      BY <2>1, <3>1, <3>2, <3>3
  <2>5. \A t \in Servers \ {s} : req'[t] = req[t]
    BY <2>1 DEF TypeOK
  <2>6. ASSUME NEW t \in Servers, pc'[t] \in Busy
        PROVE  req'[t] \in Requests /\ Packet(t)' # None
    <3>1. CASE t = s
      BY <2>1, <2>3, <3>1 DEF TypeOK, Packet
    <3>2. CASE t # s
      <4>1. pc[t] \in Busy /\ req'[t] = req[t]
        BY <2>4, <2>5, <2>6, <3>2
      <4>2. req[t] \in Requests /\ asked[req[t]] # None
        BY <4>1, PacketType_Asked
      <4> QED
        BY <2>1, <4>1, <4>2 DEF TypeOK, Packet
    <3> QED
      BY <3>1, <3>2
  <2>7. req' \in [Servers -> Requests \cup {None}]
    BY <2>1 DEF TypeOK
  <2>8. /\ UNCHANGED <<users, sessions, issued, nextUser, nextSession, uid, connected, answer,
                       faults, stops>>
        /\ \A t \in Servers : pc'[t] = "reply" => result'[t] # None
    BY <1>1, <2>4 DEF Receive, tables, bounds, TypeOK
  <2> QED
    BY <2>3, <2>4, <2>6, <2>7, <2>8 DEF TypeOK
<1>2. ASSUME NEW s \in Servers, Work(s), ~SendResult(s) PROVE TypeOK'
  <2>1. pc[s] \in Statements /\ Continues(s)
    BY <1>2, WorkContinues
  <2>2. uid' \in [Servers -> Nat]
    BY <1>2 DEF TypeOK, Work, SessionExists, IsValidSignInAttempt, UserExists, CreateUser,
         LookupUser, DeleteSessions, InsertSession, ReadSession, CheckRaises,
         CreateUserRaises, CreateSessionRaises, UserRows
  <2>3. users' \subseteq UserRows /\ nextUser' \in Nat \ {0}
    BY <1>2, <2>1, NewRowsType DEF TypeOK, Work, SessionExists, IsValidSignInAttempt, UserExists,
         CreateUser, LookupUser, DeleteSessions, InsertSession, ReadSession, CheckRaises,
         CreateUserRaises, CreateSessionRaises, tables
  <2>4. /\ sessions' \subseteq SessionRows /\ issued' \subseteq SessionRows
        /\ nextSession' \in Nat \ {0}
    BY <1>2, <2>1, NewRowsType DEF TypeOK, Work, SessionExists, IsValidSignInAttempt, UserExists,
         CreateUser, LookupUser, DeleteSessions, InsertSession, ReadSession, CheckRaises,
         CreateUserRaises, CreateSessionRaises, tables
  <2> QED
    BY <2>1, <2>2, <2>3, <2>4, ContinuesType
<1>3. ASSUME NEW s \in Servers, SendResult(s) PROVE TypeOK'
  <2>1. result[s] \in Results /\ req[s] \in Requests
    BY <1>3 DEF SendResult, TypeOK
  <2>2. answer' \in [Requests -> Answers \cup {None}]
    BY <1>3, <2>1 DEF SendResult, TypeOK, Results, Answers
  <2> QED
    BY <1>3, <2>2 DEF SendResult, TypeOK, tables, bounds, Packet
<1>4. ASSUME NEW s \in Servers, Stop(s) \/ Start(s) PROVE TypeOK'
  <2>1. stops' \in 0 .. MaxStops
    BY <1>4, BoundsAssumption DEF Stop, Start, TypeOK, bounds
  <2>2. /\ pc' \in [Servers -> Labels] /\ req' \in [Servers -> Requests \cup {None}]
        /\ uid' \in [Servers -> Nat] /\ result' \in [Servers -> Results \cup {None}]
        /\ connected' \in [Servers -> BOOLEAN]
    <3>1. CASE Stop(s)
      BY <3>1 DEF Stop, TypeOK
    <3>2. CASE Start(s)
      BY <3>2 DEF Start, TypeOK
    <3> QED
      BY <1>4, <3>1, <3>2
  <2>3. pc'[s] \notin Busy
    BY <1>4 DEF Stop, Start, TypeOK
  <2>4. \A t \in Servers \ {s} : pc'[t] = pc[t] /\ req'[t] = req[t] /\ result'[t] = result[t]
    BY <1>4 DEF Stop, Start, TypeOK
  <2>5. /\ UNCHANGED <<users, sessions, issued, nextUser, nextSession, asked, answer>>
        /\ faults' = faults
    BY <1>4 DEF Stop, Start, tables, wire, bounds
  <2> QED
    BY <1>4, <2>1, <2>2, <2>3, <2>4, <2>5 DEF TypeOK, Packet
<1>5. CASE UNCHANGED vars
  BY <1>5 DEF vars, TypeOK, Packet
<1> QED
  BY <1>1, <1>2, <1>3, <1>4, <1>5 DEF Next, Idle

\* Every variable keeps its type, and a server at a statement holds a packet.
THEOREM TypeCorrect == Spec => []TypeOK
  BY TypeInit, TypeStep, PTL DEF Spec

-----------------------------------------------------------------------------
(* What a step of one server can change *)

StepOf(s) == Receive(s) \/ Work(s) \/ Stop(s) \/ Start(s)

UsersStep(s) ==
    \/ UNCHANGED <<users, nextUser>>
    \/ pc[s] = "create" /\ InsertUser(s)
SessionsStep(s) ==
    \/ sessions' \subseteq sessions /\ UNCHANGED <<issued, nextSession>>
    \/ pc[s] = "insert" /\ AddSession(s)

LEMMA Locality ==
    ASSUME TypeOK, NEW s \in Servers, StepOf(s)
    PROVE  /\ UsersStep(s) /\ SessionsStep(s)
           /\ \A t \in Servers \ {s} : /\ pc'[t] = pc[t] /\ req'[t] = req[t]
                                       /\ uid'[t] = uid[t] /\ result'[t] = result[t]
           /\ \A r \in Requests : asked[r] # None => asked'[r] = asked[r]
<1>1. CASE Receive(s)
  BY <1>1 DEF Receive, UsersStep, SessionsStep, tables, TypeOK, Goto, Finish
<1>2. CASE Work(s) /\ ~SendResult(s)
  <2>1. /\ Continues(s)
        /\ \A t \in Servers \ {s} : pc'[t] = pc[t] /\ result'[t] = result[t]
    BY <1>2, WorkContinues DEF Continues, Goto, Finish, TypeOK
  <2>2. \A t \in Servers \ {s} : uid'[t] = uid[t]
    BY <1>2 DEF TypeOK, Work, SessionExists, IsValidSignInAttempt, UserExists, CreateUser,
         LookupUser, DeleteSessions, InsertSession, ReadSession, CheckRaises,
         CreateUserRaises, CreateSessionRaises
  <2>3. UsersStep(s)
    BY <1>2 DEF UsersStep, Work, SessionExists, IsValidSignInAttempt, UserExists, CreateUser,
         LookupUser, DeleteSessions, InsertSession, ReadSession, CheckRaises,
         CreateUserRaises, CreateSessionRaises, tables
  <2>4. SessionsStep(s)
    BY <1>2 DEF SessionsStep, Work, SessionExists, IsValidSignInAttempt, UserExists, CreateUser,
         LookupUser, DeleteSessions, InsertSession, ReadSession, CheckRaises,
         CreateUserRaises, CreateSessionRaises, tables, RemoveSessions
  <2> QED
    BY <2>1, <2>2, <2>3, <2>4 DEF Continues, wire
<1>3. CASE SendResult(s)
  BY <1>3 DEF SendResult, UsersStep, SessionsStep, tables, TypeOK
<1>4. CASE Stop(s)
  BY <1>4 DEF Stop, UsersStep, SessionsStep, tables, wire, TypeOK
<1>5. CASE Start(s)
  BY <1>5 DEF Start, UsersStep, SessionsStep, tables, wire, TypeOK
<1> QED
  BY <1>1, <1>2, <1>3, <1>4, <1>5 DEF StepOf

\* No step takes back an account or the record of a session that was issued.
LEMMA Monotone ==
    ASSUME TypeOK, NEW s \in Servers, StepOf(s)
    PROVE  /\ users \subseteq users' /\ issued \subseteq issued' /\ nextSession <= nextSession'
           /\ \A id, q : Owns(id, q) => Owns(id, q)'
           /\ \A sid, q : Granted(sid, q) => Granted(sid, q)'
<1>1. UsersStep(s) /\ SessionsStep(s)
  BY Locality
<1>2. /\ users \subseteq users' /\ issued \subseteq issued' /\ nextSession <= nextSession'
  BY <1>1 DEF UsersStep, SessionsStep, InsertUser, AddSession, TypeOK
<1>3. ASSUME NEW id, NEW q, Owns(id, q) PROVE Owns(id, q)'
  BY <1>2, <1>3 DEF Owns, Matches
<1>4. ASSUME NEW sid, NEW q, Granted(sid, q) PROVE Granted(sid, q)'
  BY <1>2, <1>3, <1>4 DEF Granted
<1> QED
  BY <1>2, <1>3, <1>4

\* The packet in a buffer stays the same while its server works on it.
LEMMA PacketStays ==
    ASSUME TypeOK, NEW s \in Servers, StepOf(s), NEW t \in Servers, pc[t] \in Busy,
           req'[t] = req[t]
    PROVE  Packet(t)' = Packet(t)
  BY Locality, PacketType_Asked DEF Packet

-----------------------------------------------------------------------------
(* Every step of a server preserves the inductive invariant *)

LEMMA IInvInit == Init => IInv
<1> SUFFICES ASSUME Init PROVE IInv
  OBVIOUS
<1>1. TypeOK
  BY TypeInit
<1>2. RequestsInv /\ CallerInv
  BY DEF Init, RequestsInv, CallerInv, CallerAt
<1>3. KeysInv /\ AnswersInv /\ SessionsBoundedByServers
  BY DEF Init, KeysInv, AnswersInv, SignedIn, Answered, SessionsBoundedByServers
<1> QED
  BY <1>1, <1>2, <1>3 DEF IInv

\* A server reaches a statement with the packet it has just received, or with the
\* one it already had.
LEMMA BufferStep ==
    ASSUME TypeOK, NEW s \in Servers, StepOf(s), pc'[s] \in Busy
    PROVE  \/ Receive(s)
           \/ pc[s] \in Busy /\ req'[s] = req[s] /\ Packet(s)' = Packet(s)
<1> SUFFICES ASSUME ~Receive(s) PROVE pc[s] \in Busy /\ req'[s] = req[s]
  BY PacketStays
<1>1. CASE Work(s) /\ ~SendResult(s)
  BY <1>1, WorkContinues DEF Continues
<1>2. CASE SendResult(s) \/ Stop(s) \/ Start(s)
  BY <1>2 DEF SendResult, Stop, Start, TypeOK
<1> QED
  BY <1>1, <1>2 DEF StepOf

LEMMA ReceiveStep ==
    ASSUME TypeOK, NEW s \in Servers, Receive(s)
    PROVE  /\ req'[s] \in Requests /\ asked[req'[s]] = None
           /\ asked'[req'[s]].server = s /\ asked'[req'[s]].at = nextSession
           /\ \A r \in Requests \ {req'[s]} : asked'[r] = asked[r]
<1>1. PICK r \in Requests, p \in Packets(KnownSids) :
        /\ asked[r] = None
        /\ asked' = [asked EXCEPT ![r] = [server |-> s, at |-> nextSession, type |-> p.type,
              name |-> p.name, pass |-> p.pass, sid |-> p.sid, intact |-> p.intact]]
        /\ req' = [req EXCEPT ![s] = r]
  BY DEF Receive
<1> QED
  BY <1>1 DEF TypeOK

LEMMA RequestsStep ==
    ASSUME TypeOK, RequestsInv, NEW s \in Servers, StepOf(s)
    PROVE  RequestsInv'
<1> SUFFICES ASSUME NEW t \in Servers, pc'[t] \in Busy PROVE Packet(t)'.server = t
  BY DEF RequestsInv
<1>1. CASE t # s
  BY <1>1, Locality, PacketStays DEF RequestsInv
<1>2. CASE t = s /\ Receive(s)
  <2>1. asked'[req'[s]].server = s
    BY <1>2, ReceiveStep
  <2> QED
    BY <1>2, <2>1 DEF Packet
<1>3. CASE t = s /\ ~Receive(s)
  BY <1>3, BufferStep DEF RequestsInv
<1> QED
  BY <1>1, <1>2, <1>3

LEMMA KeysStep ==
    ASSUME TypeOK, TypeOK', KeysInv, NEW s \in Servers, StepOf(s)
    PROVE  KeysInv'
<1>1. UsersStep(s) /\ SessionsStep(s) /\ nextSession <= nextSession'
  BY Locality, Monotone
<1>2. /\ \A u \in users' : u.id < nextUser'
      /\ \A u, v \in users' : u.id = v.id => u = v
  BY <1>1 DEF UsersStep, InsertUser, KeysInv, TypeOK, UserRows
<1>3. /\ \A row \in issued' : row.id < nextSession'
      /\ \A a, b \in issued' : a.id = b.id => a = b
      /\ sessions' \subseteq issued'
  BY <1>1 DEF SessionsStep, AddSession, KeysInv, TypeOK, SessionRows
<1>4. \A row \in issued' : asked'[row.by] # None
  <2>1. \A row \in issued : row.by \in Requests /\ asked'[row.by] # None
    BY Locality DEF KeysInv, TypeOK, SessionRows
  <2>2. pc[s] = "insert" => req[s] \in Requests /\ asked'[req[s]] # None
    BY Locality, PacketType_Asked
  <2> QED
    BY <1>1, <2>1, <2>2 DEF SessionsStep, AddSession
<1>5. \A r \in Requests : asked'[r] # None => asked'[r].at <= nextSession'
  <2>0. \A r \in Requests : asked[r] # None => asked[r].at \in Nat /\ asked[r].at <= nextSession'
    BY <1>1 DEF KeysInv, TypeOK, Asked
  <2>1. CASE Receive(s)
    BY <1>1, <2>0, <2>1, ReceiveStep
  <2>2. CASE ~Receive(s)
    <3>1. asked' = asked
      <4>1. CASE Work(s) /\ ~SendResult(s)
        BY <4>1, WorkContinues DEF Continues, wire
      <4>2. CASE SendResult(s) \/ Stop(s) \/ Start(s)
        BY <4>2 DEF SendResult, Stop, Start, wire
      <4> QED
        BY <2>2, <4>1, <4>2 DEF StepOf
    <3> QED
      BY <2>0, <3>1
  <2> QED
    BY <2>1, <2>2
<1> QED
  BY <1>2, <1>3, <1>4, <1>5 DEF KeysInv

LEMMA AnswersStep ==
    ASSUME TypeOK, CallerInv, AnswersInv, NEW s \in Servers, StepOf(s)
    PROVE  AnswersInv'
<1> SUFFICES ASSUME NEW r \in Requests
             PROVE  /\ Answered(r)' => asked'[r] # None
                    /\ SignedIn(r)' => Granted(answer[r].sid, asked[r])'
  BY DEF AnswersInv
<1>0. users \subseteq users' /\ issued \subseteq issued'
  BY Monotone
<1>1. CASE SendResult(s) /\ r = req[s]
  <2>1. /\ answer'[r].success = result[s].success /\ answer'[r].sid = result[s].sid
        /\ asked'[r] = Packet(s) /\ pc[s] = "reply"
    BY <1>1 DEF SendResult, TypeOK, Packet
  <2>2. Packet(s) # None
    BY <2>1, PacketType_Asked DEF Packet
  <2>3. ASSUME SignedIn(r)' PROVE Granted(answer[r].sid, asked[r])'
    <3>1. Granted(result[s].sid, Packet(s))
      BY <2>1, <2>3 DEF SignedIn, CallerInv, CallerAt
    <3> QED
      BY <1>0, <2>1, <3>1 DEF Granted, Owns, Matches
  <2> QED
    BY <2>1, <2>2, <2>3
<1>2. CASE ~(SendResult(s) /\ r = req[s])
  <2>1. answer'[r] = answer[r]
    <3>1. CASE Work(s) /\ ~SendResult(s)
      BY <3>1, WorkContinues DEF Continues, wire
    <3>2. CASE SendResult(s) \/ Stop(s) \/ Start(s) \/ Receive(s)
      BY <1>2, <3>2 DEF SendResult, Stop, Start, Receive, wire, TypeOK
    <3> QED
      BY <3>1, <3>2 DEF StepOf
  <2>2. Answered(r)' => asked[r] # None /\ asked'[r] = asked[r]
    BY <2>1, Locality DEF AnswersInv, Answered
  <2>3. ASSUME SignedIn(r)' PROVE Granted(answer[r].sid, asked[r])'
    <3>1. SignedIn(r)
      BY <2>1, <2>2, <2>3 DEF SignedIn, Answered
    <3>2. Granted(answer[r].sid, asked[r])
      BY <3>1 DEF AnswersInv
    <3>3. answer'[r].sid = answer[r].sid /\ asked'[r] = asked[r]
      BY <2>1, <2>2, <2>3 DEF SignedIn
    <3> QED
      BY <1>0, <3>2, <3>3 DEF Granted, Owns, Matches
  <2> QED
    BY <2>2, <2>3
<1> QED
  BY <1>1, <1>2

\* The rows of sessions after a step: the rows before it, and at most one more,
\* by the server that took the step.
LEMMA RowsStep ==
    ASSUME TypeOK, RequestsInv, KeysInv, NEW s \in Servers, StepOf(s), NEW row \in sessions'
    PROVE  /\ row.id \in Nat
           /\ \/ row \in sessions /\ Server(row.by)' = Server(row.by)
              \/ /\ pc[s] = "insert" /\ Server(row.by)' = s /\ row.user = uid[s]
                 /\ \A r \in Requests : asked[r] # None => row.id >= asked[r].at
<1>1. CASE row \in sessions
  <2>1. row.by \in Requests /\ asked[row.by] # None /\ row.id \in Nat
    BY <1>1 DEF TypeOK, KeysInv, SessionRows
  <2> QED
    BY <1>1, <2>1, Locality DEF Server
<1>2. CASE row \notin sessions
  <2>1. /\ pc[s] = "insert"
        /\ row = [id |-> nextSession, user |-> uid[s], by |-> req[s]]
    BY <1>2, Locality DEF SessionsStep, AddSession
  <2>2. asked'[req[s]] = Packet(s) /\ Packet(s).server = s
    BY <2>1, Locality, PacketType_Asked DEF RequestsInv, Packet
  <2> QED
    BY <2>1, <2>2 DEF TypeOK, KeysInv, Server
<1> QED
  BY <1>1, <1>2

\* What another server knows survives the step: its packet is the same, no account
\* goes away, and a row that appears is this server's and newer than the packet.
LEMMA OthersStep ==
    ASSUME TypeOK, RequestsInv, KeysInv, NEW s \in Servers, StepOf(s),
           NEW t \in Servers \ {s}, CallerAt(t)
    PROVE  CallerAt(t)'
<1>1. /\ pc'[t] = pc[t] /\ uid'[t] = uid[t] /\ result'[t] = result[t]
      /\ users \subseteq users' /\ issued \subseteq issued'
      /\ pc[t] \in Busy => Packet(t)' = Packet(t)
  BY Locality, Monotone, PacketStays
<1>2. pc'[t] = "lookup" => Recognized(Packet(t))'
  BY <1>1 DEF CallerAt, Recognized, Matches
<1>3. pc'[t] \in {"delete", "insert", "read"} => Owns(uid[t], Packet(t))'
  BY <1>1 DEF CallerAt, Owns, Matches
<1>4. ASSUME pc'[t] \in {"insert", "read"}, NEW row \in SelectSessions(uid[t])'
      PROVE  row.id >= Packet(t)'.at
  <2>1. row \in sessions' /\ row.user = uid[t]
    BY <1>1, <1>4 DEF SelectSessions
  <2>2. req[t] \in Requests /\ asked[req[t]] # None
    BY <1>1, <1>4, PacketType_Asked
  <2> QED
    BY <1>1, <1>4, <2>1, <2>2, RowsStep DEF CallerAt, SelectSessions, Packet
<1>5. ASSUME pc'[t] = "insert", NEW row \in SelectSessions(uid[t])'
      PROVE  Server(row.by)' # t
  <2>1. row \in sessions' /\ row.user = uid[t]
    BY <1>1, <1>5 DEF SelectSessions
  <2> QED
    BY <1>1, <1>5, <2>1, RowsStep DEF CallerAt, SelectSessions
<1>6. ASSUME (pc[t] = "reply" /\ result[t].success /\ Packet(t).sid = 0)'
      PROVE  Granted(result[t].sid, Packet(t))'
  BY <1>1, <1>6 DEF CallerAt, Granted, Owns, Matches
<1> QED
  BY <1>2, <1>3, <1>4, <1>5, <1>6 DEF CallerAt

\* A failure promises nothing.
LEMMA FailCaller ==
    ASSUME TypeOK, NEW s \in Servers, NEW msg \in Messages, NEW sid \in Nat,
           Finish(s, FALSE, msg, sid)
    PROVE  CallerAt(s)'
  BY DEF TypeOK, Finish, CallerAt

\* Nor does a label outside createSession.
LEMMA OutsideCaller ==
    ASSUME NEW s \in Servers,
           pc'[s] \in {"recv", "down", "session", "credentials", "exists", "create"}
    PROVE  CallerAt(s)'
  BY DEF CallerAt

\* A check that succeeds leads to createSession or to an answer without one.
LEMMA SucceedCaller ==
    ASSUME TypeOK, NEW s \in Servers, pc[s] \in Statements, NEW msg \in Messages,
           Succeed(s, msg), req'[s] = req[s], Packet(s)' = Packet(s), Recognized(Packet(s))'
    PROVE  CallerAt(s)'
<1>1. CASE Packet(s).sid = 0
  BY <1>1 DEF Succeed, Goto, CallerAt, TypeOK
<1>2. CASE Packet(s).sid # 0
  BY <1>2 DEF Succeed, Finish, CallerAt, TypeOK
<1> QED
  BY <1>1, <1>2

\* What the server that takes the step knows afterwards, statement by statement.
LEMMA OwnStep ==
    ASSUME TypeOK, RequestsInv, KeysInv, CallerInv, NEW s \in Servers, StepOf(s)
    PROVE  CallerAt(s)'
<1>0. CallerAt(s)
  BY DEF CallerInv
<1>1. CASE Receive(s)
  <2>1. PICK p \in Packets(KnownSids) : \/ Finish(s, FALSE, "bad_packet", p.sid)
                                       \/ Goto(s, "session")
                                       \/ Goto(s, Handler(p))
    BY <1>1 DEF Receive
  <2>2. p.sid \in Nat
    BY KnownSidsType DEF Packets
  <2>3. CASE Finish(s, FALSE, "bad_packet", p.sid)
    BY <2>2, <2>3, FailCaller DEF Messages
  <2>4. CASE Goto(s, "session") \/ Goto(s, Handler(p))
    BY <2>4, HandlerType, OutsideCaller DEF Goto, TypeOK
  <2> QED
    BY <2>1, <2>3, <2>4
<1>2. CASE Stop(s) \/ Start(s) \/ SendResult(s)
  BY <1>2, OutsideCaller DEF Stop, Start, SendResult, TypeOK
<1>3. CASE Work(s) /\ ~SendResult(s)
  <2>0. /\ pc[s] \in Statements /\ req'[s] = req[s] /\ Packet(s)' = Packet(s)
        /\ Packet(s).sid \in Nat
    BY <1>3, WorkContinues, PacketStays, PacketType_Asked DEF Continues
  <2>1. \A msg \in Messages : Fail(s, msg) => CallerAt(s)'
    BY <2>0, FailCaller DEF Fail
  <2>2. CASE SessionExists(s)
    BY <2>1, <2>2, HandlerType, OutsideCaller DEF SessionExists, Goto, TypeOK, Messages
  <2>3. CASE IsValidSignInAttempt(s)
    <3>1. users' = users
      BY <2>3 DEF IsValidSignInAttempt, tables
    <3>2. Recognized(Packet(s)) => Recognized(Packet(s))'
      BY <2>0, <3>1 DEF Recognized, Matches
    <3> QED
      BY <2>0, <2>1, <2>3, <3>2, SucceedCaller DEF IsValidSignInAttempt, Messages
  <2>4. CASE UserExists(s)
    BY <2>1, <2>4, OutsideCaller DEF UserExists, Goto, TypeOK, Messages
  <2>5. CASE CreateUser(s)
    <3> DEFINE row == [id |-> nextUser, name |-> Packet(s).name, pass |-> Packet(s).pass,
                       by |-> req[s]]
    <3>0. row \in users' /\ Matches(row, Packet(s))
      BY <2>5 DEF CreateUser, InsertUser, Matches
    <3>1. Recognized(Packet(s))'
      <4> HIDE DEF row
      <4> QED
        BY <2>0, <3>0 DEF Recognized, Matches
    <3> QED
      BY <2>0, <2>5, <3>1, SucceedCaller DEF CreateUser, Messages
  <2>6. CASE LookupUser(s)
    <3>1. CASE Fail(s, "no_session")
      BY <2>1, <3>1 DEF Messages
    <3>2. ASSUME NEW u \in users, SelectUser(Packet(s).name) = {u},
                 uid' = [uid EXCEPT ![s] = u.id], Goto(s, "delete")
          PROVE  CallerAt(s)'
      <4>1. PICK v \in users : Matches(v, Packet(s))
        BY <1>0, <2>6 DEF LookupUser, CallerAt, Recognized
      <4>2. v = u
        BY <3>2, <4>1 DEF SelectUser, Matches
      <4>3. users' = users /\ uid'[s] = u.id /\ pc'[s] = "delete"
        BY <2>6, <3>2 DEF LookupUser, Goto, TypeOK, tables
      <4>4. Owns(uid[s], Packet(s))'
        BY <2>0, <4>1, <4>2, <4>3 DEF Owns, Matches
      <4> QED
        BY <4>3, <4>4 DEF CallerAt
    <3> QED
      BY <2>6, <3>1, <3>2 DEF LookupUser
  <2>7. CASE DeleteSessions(s)
    <3>1. /\ users' = users /\ uid' = uid /\ pc'[s] = "insert"
          /\ sessions' = sessions \ SelectSessions(uid[s])
      BY <2>7 DEF DeleteSessions, RemoveSessions, Goto, TypeOK
    <3>2. SelectSessions(uid[s])' = {}
      BY <3>1 DEF SelectSessions
    <3>3. Owns(uid[s], Packet(s))'
      BY <1>0, <2>0, <2>7, <3>1 DEF DeleteSessions, CallerAt, Owns, Matches
    <3> QED
      BY <3>1, <3>2, <3>3 DEF CallerAt
  <2>8. CASE InsertSession(s)
    <3>1. users' = users /\ uid' = uid /\ pc'[s] = "read" /\ pc[s] = "insert"
      BY <2>8 DEF InsertSession, Goto, TypeOK
    <3>2. Owns(uid[s], Packet(s))'
      BY <1>0, <2>0, <3>1 DEF CallerAt, Owns, Matches
    <3>3. ASSUME NEW row \in SelectSessions(uid[s])' PROVE row.id >= Packet(s)'.at
      <4>1. row \in sessions' /\ row.user = uid[s]
        BY <3>1 DEF SelectSessions
      <4>2. req[s] \in Requests /\ asked[req[s]] # None
        BY <2>0, PacketType_Asked
      <4> QED
        BY <1>0, <2>0, <3>1, <4>1, <4>2, RowsStep DEF CallerAt, SelectSessions, Packet
    <3> QED
      BY <3>1, <3>2, <3>3 DEF CallerAt
  <2>9. CASE ReadSession(s)
    <3>1. CASE Fail(s, "no_session")
      BY <2>1, <3>1 DEF Messages
    <3>2. ASSUME NEW row \in sessions, SelectSessions(uid[s]) = {row},
                 Finish(s, TRUE, "welcome", row.id)
          PROVE  CallerAt(s)'
      <4>1. /\ pc[s] = "read" /\ pc'[s] = "reply" /\ result'[s].sid = row.id
            /\ users' = users /\ issued' = issued
        BY <2>9, <3>2 DEF ReadSession, Finish, TypeOK, tables
      <4>2. row \in issued /\ row.user = uid[s]
        BY <3>2 DEF SelectSessions, KeysInv
      <4>3. Owns(uid[s], Packet(s)) /\ row.id >= Packet(s).at
        BY <1>0, <3>2, <4>1 DEF CallerAt
      <4>4. Granted(result[s].sid, Packet(s))'
        BY <2>0, <4>1, <4>2, <4>3 DEF Granted, Owns, Matches
      <4> QED
        BY <4>1, <4>4 DEF CallerAt
    <3> QED
      BY <2>9, <3>1, <3>2 DEF ReadSession
  <2>10. CASE CheckRaises(s) \/ CreateUserRaises(s) \/ CreateSessionRaises(s)
    BY <2>1, <2>10, OutsideCaller
       DEF CheckRaises, CreateUserRaises, CreateSessionRaises, Goto, TypeOK, Messages
  <2> QED
    BY <1>3, <2>2, <2>3, <2>4, <2>5, <2>6, <2>7, <2>8, <2>9, <2>10 DEF Work
<1> QED
  BY <1>1, <1>2, <1>3 DEF StepOf

\* Two sessions of one account are of two servers: a row that appears is of a
\* server that has just deleted the account's rows, and no other server's rows
\* are its own.
LEMMA SessionsStepBounded ==
    ASSUME TypeOK, RequestsInv, KeysInv, CallerInv, SessionsBoundedByServers,
           NEW s \in Servers, StepOf(s)
    PROVE  SessionsBoundedByServers'
<1> SUFFICES ASSUME NEW a \in sessions', NEW b \in sessions', a.user = b.user, a # b
             PROVE  Server(a.by)' # Server(b.by)'
  BY DEF SessionsBoundedByServers
<1>1. CASE a \in sessions /\ b \in sessions
  <2>1. Server(a.by) # Server(b.by)
    BY <1>1 DEF SessionsBoundedByServers
  <2>2. Server(a.by)' = Server(a.by) /\ Server(b.by)' = Server(b.by)
    BY <1>1, Locality DEF TypeOK, KeysInv, SessionRows, Server
  <2> QED
    BY <2>1, <2>2
<1>2. ASSUME NEW c \in sessions', NEW d \in sessions', c.user = d.user,
             c \notin sessions, c # d
      PROVE  Server(c.by)' # Server(d.by)'
  <2>1. pc[s] = "insert" /\ Server(c.by)' = s /\ c.user = uid[s]
    BY <1>2, RowsStep
  <2>2. d \in sessions
    BY <1>2, <2>1, Locality DEF SessionsStep, AddSession
  <2>3. Server(d.by)' = Server(d.by)
    BY <2>2, Locality DEF TypeOK, KeysInv, SessionRows, Server
  <2>4. Server(d.by) # s
    BY <1>2, <2>1, <2>2 DEF CallerInv, CallerAt, SelectSessions
  <2> QED
    BY <2>1, <2>3, <2>4
<1> QED
  BY <1>1, <1>2

LEMMA IInvStep == IInv /\ [Next]_vars => IInv'
<1> SUFFICES ASSUME IInv, [Next]_vars PROVE IInv'
  OBVIOUS
<1>1. TypeOK'
  BY TypeStep DEF IInv
<1>2. ASSUME NEW s \in Servers, StepOf(s) PROVE IInv'
  <2>1. RequestsInv' /\ KeysInv' /\ AnswersInv' /\ SessionsBoundedByServers'
    BY <1>1, <1>2, RequestsStep, KeysStep, AnswersStep, SessionsStepBounded DEF IInv
  <2>2. ASSUME NEW t \in Servers PROVE CallerAt(t)'
    <3>1. CASE t = s
      BY <1>2, <3>1, OwnStep DEF IInv
    <3>2. CASE t # s
      <4>1. CallerAt(t)
        BY DEF IInv, CallerInv
      <4> QED
        BY <1>2, <3>2, <4>1, OthersStep DEF IInv
    <3> QED
      BY <3>1, <3>2
  <2> QED
    BY <1>1, <2>1, <2>2 DEF IInv, CallerInv
<1>3. CASE UNCHANGED vars
  <2>1. RequestsInv' /\ KeysInv'
    BY <1>3 DEF vars, IInv, RequestsInv, KeysInv, Packet
  <2>2. CallerInv' /\ AnswersInv' /\ SessionsBoundedByServers'
    BY <1>3 DEF vars, IInv, CallerInv, CallerAt, AnswersInv, SignedIn, Answered, Granted, Owns,
         Matches, Recognized, Packet, SelectSessions, Server, SessionsBoundedByServers
  <2> QED
    BY <1>1, <2>1, <2>2 DEF IInv
<1> QED
  BY <1>2, <1>3 DEF Next, Idle, StepOf

LEMMA Inductive == Spec => []IInv
  BY IInvInit, IInvStep, PTL DEF Spec

-----------------------------------------------------------------------------
(* The theorems *)

\* A client that is signed in holds a session of exactly the account whose
\* username and password it gave.
THEOREM CallerHoldsSession == Spec => []SessionBelongsToCaller
<1>1. IInv => SessionBelongsToCaller
  <2> SUFFICES ASSUME IInv, NEW r \in Requests, SignedIn(r)
               PROVE  \E u \in users : /\ Holders(answer[r].sid) = {u}
                                       /\ Matches(u, asked[r])
    BY DEF SessionBelongsToCaller
  <2>1. PICK row \in issued : row.id = answer[r].sid /\ Owns(row.user, asked[r])
    BY DEF IInv, AnswersInv, Granted
  <2>2. PICK u \in users : u.id = row.user /\ Matches(u, asked[r])
    BY <2>1 DEF Owns
  <2>3. Holders(answer[r].sid) = {u}
    BY <2>1, <2>2 DEF Holders, IInv, KeysInv
  <2> QED
    BY <2>2, <2>3
<1> QED
  BY <1>1, Inductive, PTL

\* The session of an answer was opened after the request arrived.
THEOREM SessionsAreFresh == Spec => []SessionIsFresh
<1>1. IInv => SessionIsFresh
  BY DEF IInv, AnswersInv, Granted, SessionIsFresh
<1> QED
  BY <1>1, Inductive, PTL

\* An account has at most one live session per server.
THEOREM OneSessionPerServer == Spec => []SessionsBoundedByServers
<1>1. IInv => SessionsBoundedByServers
  BY DEF IInv
<1> QED
  BY <1>1, Inductive, PTL
=============================================================================
