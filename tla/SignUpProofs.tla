----------------------------- MODULE SignUpProofs -----------------------------
(***************************************************************************)
(* Proofs, for any number of servers, requests, names, faults and stops,   *)
(* of what AccountServer states about accounts and sign-ups, and about the *)
(* sessions of the requests of one server; and that a single server        *)
(* implements AccountService.                                              *)
(***************************************************************************)
EXTENDS AccountServerProofs

(* The inductive invariant, on top of IInv *)

RowsBy(r) == {u \in users : u.by = r}
Owned(r) == \E u \in RowsBy(r) : Matches(u, asked[r])

\* A row of users is what its request asked for, and no request has two.
RowsInv ==
    /\ \A u \in users : asked[u.by] # None /\ Matches(u, asked[u.by])
    /\ \A a, b \in users : a.by = b.by => a = b

\* What a request whose server goes on to answer it with res knows of its account.
ToldTruth(r, res) ==
    /\ asked[r].type = "SNUP" /\ asked[r].sid = 0 /\ (res.success \/ res.msg = "no_session") => Owned(r)
    /\ res.msg \in {"taken", "bad_packet"} => RowsBy(r) = {}
    /\ res.msg = "taken" => \E u \in users : u.name = asked[r].name

\* resolveSignUp, statement by statement: only the handler of sign-ups creates a
\* row, once, and a sign-up goes on to createSession with a row of its own.
SignUpAt(s) ==
    /\ pc[s] \in Busy => ~Answered(req[s])
    /\ pc[s] = "credentials" => Packet(s).type = "SNIN"
    /\ pc[s] \in {"session", "credentials", "exists", "create"} => RowsBy(req[s]) = {}
    /\ pc[s] \in {"lookup", "delete", "insert", "read"} /\ Packet(s).type = "SNUP" => Owned(req[s])
    /\ pc[s] = "reply" =>
        /\ ToldTruth(req[s], result[s])
        /\ result[s].msg = "not_created" => RowsBy(req[s]) = {} \/ ~connected[s]

\* As long as no statement raised, a server that creates a row has none of that name.
AccountAt(s) ==
    faults = 0 =>
        /\ connected[s]
        /\ pc[s] = "create" => \A u \in users : u.name = Packet(s).name => Server(u.by) # s

\* The sessions a server signed others in with are older than the packet it has.
OlderAt(s) ==
    pc[s] \in Busy => \A q \in Requests : SignedIn(q) /\ Server(q) = s => answer[q].sid < Packet(s).at

ServerInv == \A s \in Servers : SignUpAt(s) /\ AccountAt(s) /\ OlderAt(s)

ToldInv == \A r \in Requests : Answered(r) => ToldTruth(r, answer[r])

SignUpInv == RowsInv /\ ServerInv /\ ToldInv /\ AccountsBoundedByServers /\ SessionIDsNew

SignUpIInv == IInv /\ SignUpInv

USE DEF Statements, Busy, Labels

-----------------------------------------------------------------------------
(* What a step of one server can change *)

\* A request is in the buffer of one server.
LEMMA OneBuffer ==
    ASSUME RequestsInv, NEW s \in Servers, NEW t \in Servers,
           pc[s] \in Busy, pc[t] \in Busy, req[s] = req[t]
    PROVE  s = t
  BY DEF RequestsInv, Packet

\* The answer to a request changes only when its server sends it.
LEMMA AnswerStays ==
    ASSUME TypeOK, NEW s \in Servers, StepOf(s), NEW r \in Requests,
           ~(SendResult(s) /\ r = req[s])
    PROVE  answer'[r] = answer[r]
<1>1. CASE Work(s) /\ ~SendResult(s)
  BY <1>1, WorkContinues DEF Continues, wire
<1>2. CASE SendResult(s) \/ Stop(s) \/ Start(s) \/ Receive(s)
  BY <1>2 DEF SendResult, Stop, Start, Receive, wire, TypeOK
<1> QED
  BY <1>1, <1>2 DEF StepOf

\* The database session of a server is its own.
LEMMA OthersConnected ==
    ASSUME TypeOK, NEW s \in Servers, StepOf(s), NEW t \in Servers \ {s}
    PROVE  connected'[t] = connected[t]
<1>1. CASE Work(s) /\ ~SendResult(s)
  <2>1. Returns(s) \/ Raises(s)
    BY <1>1, WorkContinues DEF Continues
  <2> QED
    BY <2>1 DEF Returns, Raises, TypeOK
<1>2. CASE Receive(s) \/ SendResult(s) \/ Stop(s) \/ Start(s)
  BY <1>2 DEF Receive, SendResult, Stop, Start, TypeOK
<1> QED
  BY <1>1, <1>2 DEF StepOf

\* A row that appears in users is what the server's packet asked for.
LEMMA NewUser ==
    ASSUME TypeOK, NEW s \in Servers, StepOf(s), NEW u \in users', u \notin users
    PROVE  /\ pc[s] = "create" /\ u.by = req[s] /\ Matches(u, Packet(s))
           /\ \A v \in users' : v \notin users => v = u
  BY Locality DEF UsersStep, InsertUser, Matches

\* The accounts of a request that the server does not work on stay as they are, and
\* so does what was told of them.
LEMMA RowsStay ==
    ASSUME TypeOK, NEW s \in Servers, StepOf(s), NEW r \in Requests, asked[r] # None,
           pc[s] \in Busy => req[s] # r
    PROVE  /\ RowsBy(r)' = RowsBy(r) /\ (Owned(r) => Owned(r)')
           /\ \A res : ToldTruth(r, res) => ToldTruth(r, res)'
<1>1. asked'[r] = asked[r] /\ users \subseteq users'
  BY Locality, Monotone
<1>2. RowsBy(r)' = RowsBy(r)
  BY <1>1, NewUser DEF RowsBy
<1>3. Owned(r) <=> Owned(r)'
  BY <1>1, <1>2 DEF Owned, Matches
<1>4. ASSUME NEW res, ToldTruth(r, res) PROVE ToldTruth(r, res)'
  BY <1>1, <1>2, <1>3, <1>4 DEF ToldTruth
<1> QED
  BY <1>2, <1>3, <1>4

LEMMA RowsInvStep ==
    ASSUME TypeOK, RowsInv, NEW s \in Servers, StepOf(s), SignUpAt(s)
    PROVE  RowsInv'
<1>1. ASSUME NEW u \in users' PROVE (asked[u.by] # None /\ Matches(u, asked[u.by]))'
  <2>1. CASE u \in users
    BY <2>1, Locality DEF RowsInv, TypeOK, UserRows, Matches
  <2>2. CASE u \notin users
    <3>1. pc[s] = "create" /\ u.by = req[s] /\ Matches(u, Packet(s))
      BY <2>2, NewUser
    <3> QED
      BY <3>1, Locality, PacketType_Asked DEF Packet, Matches
  <2> QED
    BY <2>1, <2>2
<1>2. ASSUME NEW a \in users', NEW b \in users', a.by = b.by PROVE a = b
  <2>1. CASE a \in users /\ b \in users
    BY <1>2, <2>1 DEF RowsInv
  <2>2. CASE a \notin users \/ b \notin users
    BY <1>2, <2>2, NewUser DEF SignUpAt, RowsBy
  <2> QED
    BY <2>1, <2>2
<1> QED
  BY <1>1, <1>2 DEF RowsInv

-----------------------------------------------------------------------------
(* Sign-ups *)

\* What another server knows of its request survives the step.
LEMMA OthersSignUp ==
    ASSUME TypeOK, RequestsInv, NEW s \in Servers, StepOf(s),
           NEW t \in Servers \ {s}, SignUpAt(t)
    PROVE  SignUpAt(t)'
<1>1. pc'[t] = pc[t] /\ req'[t] = req[t] /\ result'[t] = result[t] /\ connected'[t] = connected[t]
  BY Locality, OthersConnected
<1> SUFFICES ASSUME pc[t] \in Busy PROVE SignUpAt(t)'
  BY <1>1 DEF SignUpAt
<1>2. /\ req[t] \in Requests /\ asked[req[t]] # None /\ Packet(t)' = Packet(t)
      /\ pc[s] \in Busy => req[s] # req[t]
  BY <1>1, PacketType_Asked, PacketStays, OneBuffer
<1>3. ~Answered(req[t])'
  <2>1. answer'[req[t]] = answer[req[t]]
    BY <1>2, AnswerStays DEF SendResult
  <2> QED
    BY <1>1, <2>1 DEF SignUpAt, Answered
<1>4. /\ RowsBy(req[t])' = RowsBy(req[t]) /\ (Owned(req[t]) => Owned(req[t])')
      /\ ToldTruth(req[t], result[t]) => ToldTruth(req[t], result[t])'
  <2> DEFINE r == req[t]
             res == result[t]
  <2>1. r \in Requests /\ asked[r] # None /\ (pc[s] \in Busy => req[s] # r) /\ r' = r /\ res' = res
    BY <1>1, <1>2
  <2> HIDE DEF r, res
  <2>2. /\ RowsBy(r)' = RowsBy(r) /\ (Owned(r) => Owned(r)')
        /\ (ToldTruth(r, res) => ToldTruth(r, res)')
    BY <2>1, RowsStay
  <2> QED
    BY <2>1, <2>2 DEF r, res
<1> QED
  BY <1>1, <1>2, <1>3, <1>4 DEF SignUpAt

\* What a server that fails has to know of the account, unless the name is taken.
LEMMA FailSignUp ==
    ASSUME TypeOK, NEW s \in Servers, NEW msg \in Messages \ {"taken"}, NEW sid \in Nat,
           Finish(s, FALSE, msg, sid), ~Answered(req[s])',
           msg = "no_session" /\ Packet(s)'.type = "SNUP" => Owned(req[s])',
           msg = "bad_packet" => RowsBy(req[s])' = {},
           msg = "not_created" => RowsBy(req[s])' = {} \/ ~connected'[s]
    PROVE  SignUpAt(s)'
<1>1. pc'[s] = "reply" /\ result'[s].success = FALSE /\ result'[s].msg = msg
  BY DEF Finish, TypeOK
<1> QED
  BY <1>1 DEF SignUpAt, ToldTruth, Packet

\* What the server that takes the step knows afterwards.
LEMMA ReceiveSignUp ==
    ASSUME IInv, RowsInv, NEW s \in Servers, Receive(s)
    PROVE  SignUpAt(s)'
<1> USE DEF IInv
<1>1. PICK r \in Requests, p \in Packets(KnownSids) :
        /\ asked[r] = None
        /\ asked' = [asked EXCEPT ![r] = [server |-> s, at |-> nextSession, type |-> p.type,
              name |-> p.name, pass |-> p.pass, sid |-> p.sid, intact |-> p.intact]]
        /\ req' = [req EXCEPT ![s] = r]
        /\ Finish(s, FALSE, "bad_packet", p.sid) \/ Goto(s, "session") \/ Goto(s, Handler(p))
  BY DEF Receive
<1>2. req'[s] = r /\ asked'[r].type = p.type /\ p.sid \in Nat
  BY <1>1, KnownSidsType DEF TypeOK, Packets
<1>3. users' = users /\ answer' = answer
  BY DEF Receive, tables
<1>4. ~Answered(req[s])'
  BY <1>1, <1>2, <1>3 DEF AnswersInv, Answered
<1>5. RowsBy(req[s])' = {}
  BY <1>1, <1>2, <1>3 DEF RowsBy, RowsInv
<1>6. CASE Finish(s, FALSE, "bad_packet", p.sid)
  BY <1>2, <1>4, <1>5, <1>6, FailSignUp DEF Messages
<1>7. CASE Goto(s, "session") \/ Goto(s, Handler(p))
  <2>1. pc'[s] = "session" \/ pc'[s] = Handler(p)
    BY <1>7 DEF Goto, TypeOK
  <2>2. Handler(p) = "credentials" => p.type = "SNIN"
    BY DEF Handler, PacketType
  <2>3. Handler(p) \in {"credentials", "exists", "recv"}
    BY HandlerType
  <2>4. Packet(s)'.type = p.type
    BY <1>2 DEF Packet
  <2> QED
    BY <1>4, <1>5, <2>1, <2>2, <2>3, <2>4 DEF SignUpAt
<1> QED
  BY <1>1, <1>6, <1>7

LEMMA OwnSignUp ==
    ASSUME IInv, RowsInv, NEW s \in Servers, StepOf(s), SignUpAt(s)
    PROVE  SignUpAt(s)'
<1> USE DEF IInv
<1>1. CASE Receive(s)
  BY <1>1, ReceiveSignUp
<1>2. CASE Stop(s) \/ Start(s) \/ SendResult(s)
  BY <1>2 DEF Stop, Start, SendResult, SignUpAt, TypeOK
<1>3. CASE Work(s) /\ ~SendResult(s)
  <2>0. /\ pc[s] \in Statements /\ req'[s] = req[s] /\ Packet(s)' = Packet(s)
        /\ Packet(s).sid \in Nat /\ req[s] \in Requests /\ asked' = asked /\ answer' = answer
    BY <1>3, WorkContinues, PacketStays, PacketType_Asked DEF Continues, wire
  <2>1. ~Answered(req[s]) /\ ~Answered(req[s])'
    BY <2>0 DEF SignUpAt, Answered
  <2>2. ASSUME NEW msg \in Messages \ {"taken"}, Fail(s, msg),
               msg = "no_session" /\ Packet(s).type = "SNUP" => Owned(req[s])',
               msg = "bad_packet" => RowsBy(req[s])' = {},
               msg = "not_created" => RowsBy(req[s])' = {} \/ ~connected'[s]
        PROVE  SignUpAt(s)'
    BY <2>0, <2>1, <2>2, FailSignUp DEF Fail
  \* A check that succeeds leads to createSession, or to an answer without one.
  <2>3. ASSUME NEW msg \in {"welcome", "created"}, Succeed(s, msg),
               Packet(s).type = "SNUP" => Owned(req[s])'
        PROVE  SignUpAt(s)'
    <3>1. CASE Goto(s, "lookup")
      BY <2>0, <2>1, <2>3, <3>1 DEF Goto, SignUpAt, TypeOK
    <3>2. CASE Finish(s, TRUE, msg, Packet(s).sid) /\ Packet(s).sid # 0
      <4>1. pc'[s] = "reply" /\ result'[s].msg = msg /\ asked'[req'[s]].sid # 0
        BY <2>0, <3>2 DEF Finish, TypeOK, Packet
      <4> QED
        BY <2>1, <4>1 DEF SignUpAt, ToldTruth
    <3> QED
      BY <2>3, <3>1, <3>2 DEF Succeed
  <2>4. CASE SessionExists(s)
    <3>1. Fail(s, "bad_packet") /\ RowsBy(req[s])' = {}
      BY <2>0, <2>4 DEF SessionExists, SessionsColumns, SignUpAt, RowsBy, tables
    <3> QED
      BY <2>2, <3>1 DEF Messages
  <2>5. CASE IsValidSignInAttempt(s)
    BY <2>2, <2>3, <2>5 DEF IsValidSignInAttempt, SignUpAt, Messages
  <2>6. CASE UserExists(s)
    <3>1. RowsBy(req[s])' = {} /\ users' = users
      BY <2>0, <2>6 DEF UserExists, SignUpAt, RowsBy, tables
    <3>2. CASE Goto(s, "create")
      BY <2>1, <3>1, <3>2 DEF Goto, SignUpAt, TypeOK
    <3>3. CASE Fail(s, "taken") /\ Taken(Packet(s).name)
      <4>1. pc'[s] = "reply" /\ result'[s].success = FALSE /\ result'[s].msg = "taken"
        BY <3>3 DEF Fail, Finish, TypeOK
      <4>2. (\E u \in users : u.name = asked[req[s]].name)'
        BY <2>0, <3>1, <3>3 DEF Taken, Packet
      <4> QED
        BY <2>1, <3>1, <4>1, <4>2 DEF SignUpAt, ToldTruth
    <3> QED
      BY <2>6, <3>2, <3>3 DEF UserExists
  <2>7. CASE CreateUser(s)
    <3> DEFINE row == [id |-> nextUser, name |-> Packet(s).name, pass |-> Packet(s).pass,
                       by |-> req[s]]
    <3>1. row \in users' /\ row.by = req[s] /\ Matches(row, Packet(s))
      BY <2>7 DEF CreateUser, InsertUser, Matches
    <3> HIDE DEF row
    <3>2. Owned(req[s])'
      BY <2>0, <3>1 DEF Owned, RowsBy, Matches, Packet
    <3> QED
      BY <2>3, <2>7, <3>2 DEF CreateUser, Messages
  <2>8. CASE LookupUser(s) \/ DeleteSessions(s) \/ InsertSession(s)
    <3>1. users' = users /\ pc[s] \in {"lookup", "delete", "insert"}
      BY <2>8 DEF LookupUser, DeleteSessions, InsertSession, tables
    <3>2. Owned(req[s]) => Owned(req[s])'
      BY <2>0, <3>1 DEF Owned, RowsBy, Matches
    <3>3. \/ Fail(s, "no_session") \/ pc'[s] \in {"delete", "insert", "read"}
      BY <2>8 DEF LookupUser, DeleteSessions, InsertSession, Goto, TypeOK
    <3>4. CASE Fail(s, "no_session")
      BY <2>2, <3>1, <3>2, <3>4 DEF SignUpAt, Messages
    <3>5. CASE pc'[s] \in {"delete", "insert", "read"}
      BY <2>0, <2>1, <3>1, <3>2, <3>5 DEF SignUpAt
    <3> QED
      BY <3>3, <3>4, <3>5
  <2>9. CASE ReadSession(s)
    <3>1. users' = users /\ pc[s] = "read"
      BY <2>9 DEF ReadSession, tables
    <3>2. Owned(req[s]) => Owned(req[s])'
      BY <2>0, <3>1 DEF Owned, RowsBy, Matches
    <3>3. \/ Fail(s, "no_session")
          \/ \E sid : Finish(s, TRUE, "welcome", sid)
      BY <2>9 DEF ReadSession
    <3>4. ASSUME NEW sid, Finish(s, TRUE, "welcome", sid) PROVE SignUpAt(s)'
      <4>1. pc'[s] = "reply" /\ result'[s].msg = "welcome" /\ asked'[req'[s]] = Packet(s)
        BY <2>0, <3>4 DEF Finish, TypeOK, Packet
      <4> QED
        BY <2>1, <3>1, <3>2, <4>1 DEF SignUpAt, ToldTruth
    <3>5. CASE Fail(s, "no_session")
      BY <2>2, <3>1, <3>2, <3>5 DEF SignUpAt, Messages
    <3> QED
      BY <3>3, <3>4, <3>5
  <2>10. CASE CheckRaises(s)
    <3>1. users' = users
      BY <2>10 DEF CheckRaises, tables
    <3>2. CASE pc[s] = "exists" /\ Goto(s, "create")
      BY <2>0, <2>1, <3>1, <3>2 DEF Goto, SignUpAt, RowsBy, TypeOK
    <3>3. CASE pc[s] = "session" /\ Fail(s, "bad_packet")
      <4>1. RowsBy(req[s])' = {}
        BY <2>0, <3>1, <3>3 DEF SignUpAt, RowsBy
      <4> QED
        BY <2>2, <3>3, <4>1 DEF Messages
    <3>4. CASE Fail(s, "not_recognized")
      BY <2>2, <3>4 DEF Messages
    <3> QED
      BY <2>10, <3>2, <3>3, <3>4 DEF CheckRaises
  \* The row of an INSERT that raised is there only if the connection went with it.
  <2>11. CASE CreateUserRaises(s)
    <3>1. Fail(s, "not_created") /\ pc[s] = "create"
      BY <2>11 DEF CreateUserRaises
    <3>2. RowsBy(req[s])' = {} \/ ~connected'[s]
      BY <2>0, <2>11 DEF CreateUserRaises, LostAfter, SignUpAt, RowsBy
    <3> QED
      BY <2>2, <3>1, <3>2 DEF Messages
  <2>12. CASE CreateSessionRaises(s)
    <3>1. Fail(s, "no_session") /\ pc[s] \in {"lookup", "delete", "insert", "read"} /\ users' = users
      BY <2>12 DEF CreateSessionRaises
    <3>2. Packet(s).type = "SNUP" => Owned(req[s])'
      BY <2>0, <3>1 DEF SignUpAt, Owned, RowsBy, Matches
    <3> QED
      BY <2>2, <3>1, <3>2 DEF Messages
  <2> QED
    BY <1>3, <2>4, <2>5, <2>6, <2>7, <2>8, <2>9, <2>10, <2>11, <2>12 DEF Work
<1> QED
  BY <1>1, <1>2, <1>3 DEF StepOf

LEMMA ToldStep ==
    ASSUME IInv, ServerInv, ToldInv, NEW s \in Servers, StepOf(s)
    PROVE  ToldInv'
<1> USE DEF IInv
<1> SUFFICES ASSUME NEW r \in Requests, Answered(r)' PROVE ToldTruth(r, answer[r])'
  BY DEF ToldInv
<1>1. CASE SendResult(s) /\ r = req[s]
  <2>1. /\ users' = users /\ asked' = asked /\ pc[s] = "reply"
        /\ answer'[r].success = result[s].success /\ answer'[r].msg = result[s].msg
    BY <1>1 DEF SendResult, tables, TypeOK
  <2>2. ToldTruth(r, result[s])
    BY <1>1, <2>1 DEF ServerInv, SignUpAt
  <2> QED
    BY <2>1, <2>2 DEF ToldTruth, Owned, RowsBy, Matches
<1>2. CASE ~(SendResult(s) /\ r = req[s])
  <2>1. answer'[r] = answer[r] /\ Answered(r) /\ asked[r] # None
    BY <1>2, AnswerStays DEF Answered, AnswersInv
  <2>2. pc[s] \in Busy => req[s] # r
    BY <2>1 DEF ServerInv, SignUpAt
  <2>3. ToldTruth(r, answer[r])
    BY <2>1 DEF ToldInv
  <2> DEFINE res == answer[r]
  <2>4. res' = res /\ ToldTruth(r, res)
    BY <2>1, <2>3
  <2> HIDE DEF res
  <2>5. ToldTruth(r, res)'
    BY <2>1, <2>2, <2>4, RowsStay
  <2> QED
    BY <2>4, <2>5 DEF res
<1> QED
  BY <1>1, <1>2

-----------------------------------------------------------------------------
(* Accounts *)

\* Faults are only counted up, and where none was counted no statement raised: every
\* server has its session with the database.
LEMMA NoFault ==
    ASSUME TypeOK, ServerInv, NEW s \in Servers, StepOf(s), faults' = 0
    PROVE  /\ faults = 0 /\ ~Raises(s)
           /\ \A t \in Servers : connected[t] /\ connected'[t]
<1>1. faults <= faults'
  <2>0. faults \in Nat
    BY BoundsAssumption DEF TypeOK
  <2>1. CASE Work(s) /\ ~SendResult(s)
    <3>1. Returns(s) \/ Raises(s)
      BY <2>1, WorkContinues DEF Continues
    <3> QED
      BY <2>0, <3>1 DEF Returns, Raises
  <2>2. CASE Receive(s) \/ SendResult(s) \/ Stop(s) \/ Start(s)
    <3>1. faults' = faults
      BY <2>2 DEF Receive, SendResult, Stop, Start, bounds
    <3> QED
      BY <2>0, <3>1
  <2> QED
    BY <2>1, <2>2 DEF StepOf
<1>2. faults = 0
  BY <1>1, BoundsAssumption DEF TypeOK
<1>3. \A t \in Servers : connected[t]
  BY <1>2 DEF ServerInv, AccountAt
<1>4. ~Raises(s)
  BY <1>2, <1>3 DEF Raises
<1>5. connected' = connected \/ connected' = [connected EXCEPT ![s] = TRUE]
  <2>1. CASE Work(s) /\ ~SendResult(s)
    <3>1. Returns(s)
      BY <1>4, <2>1, WorkContinues DEF Continues
    <3> QED
      BY <3>1 DEF Returns
  <2>2. CASE Receive(s) \/ SendResult(s) \/ Stop(s) \/ Start(s)
    BY <2>2 DEF Receive, SendResult, Stop, Start
  <2> QED
    BY <2>1, <2>2 DEF StepOf
<1> QED
  BY <1>2, <1>3, <1>4, <1>5 DEF TypeOK

\* A row that appears belongs to a server that has no other of that name.
LEMMA NewAccount ==
    ASSUME TypeOK, RequestsInv, RowsInv, ServerInv, NEW s \in Servers, StepOf(s)
    PROVE  /\ \A u \in users : Server(u.by)' = Server(u.by)
           /\ \A u \in users' \ users :
                 /\ pc[s] = "create" /\ u.name = Packet(s).name /\ Server(u.by)' = s
                 /\ \A v \in users' : v \notin users => v = u
<1>1. ASSUME NEW u \in users PROVE Server(u.by)' = Server(u.by)
  BY Locality DEF RowsInv, TypeOK, UserRows, Server
<1>2. ASSUME NEW u \in users' \ users
      PROVE  pc[s] = "create" /\ u.name = Packet(s).name /\ Server(u.by)' = s
  <2>1. pc[s] = "create" /\ u.by = req[s] /\ Matches(u, Packet(s))
    BY NewUser
  <2>2. asked'[req[s]] = Packet(s) /\ Packet(s).server = s
    BY <2>1, Locality, PacketType_Asked DEF RequestsInv, Packet
  <2> QED
    BY <2>1, <2>2 DEF Matches, Server
<1> QED
  BY <1>1, <1>2, NewUser

LEMMA AccountsStep ==
    ASSUME IInv, RowsInv, ServerInv, AccountsBoundedByServers, NEW s \in Servers, StepOf(s)
    PROVE  AccountsBoundedByServers'
<1> USE DEF IInv
<1> SUFFICES ASSUME faults' = 0, NEW a \in users', NEW b \in users', a.name = b.name, a # b
             PROVE  Server(a.by)' # Server(b.by)'
  BY DEF AccountsBoundedByServers
<1>1. faults = 0
  BY NoFault
<1>2. CASE a \in users /\ b \in users
  BY <1>1, <1>2, NewAccount DEF AccountsBoundedByServers
<1>3. ASSUME NEW c \in users', NEW d \in users', c.name = d.name, c # d, c \notin users
      PROVE  Server(c.by)' # Server(d.by)'
  <2>1. /\ pc[s] = "create" /\ c.name = Packet(s).name /\ Server(c.by)' = s /\ d \in users
        /\ Server(d.by)' = Server(d.by)
    BY <1>3, NewAccount
  <2>2. Server(d.by) # s
    BY <1>1, <1>3, <2>1 DEF ServerInv, AccountAt
  <2> QED
    BY <2>1, <2>2
<1> QED
  BY <1>2, <1>3

LEMMA AccountAtStep ==
    ASSUME IInv, RowsInv, ServerInv, NEW s \in Servers, StepOf(s), NEW t \in Servers
    PROVE  AccountAt(t)'
<1> USE DEF IInv
<1> SUFFICES ASSUME faults' = 0 PROVE AccountAt(t)'
  BY DEF AccountAt
<1>1. faults = 0 /\ ~Raises(s) /\ connected'[t]
  BY NoFault
<1> SUFFICES ASSUME pc'[t] = "create", NEW u \in users', u.name = Packet(t)'.name
             PROVE  Server(u.by)' # t
  BY <1>1 DEF AccountAt
<1>2. CASE t # s
  <2>1. pc[t] = "create" /\ Packet(t)' = Packet(t)
    BY <1>2, Locality, PacketStays
  <2>2. CASE u \in users
    BY <1>1, <2>1, <2>2, NewAccount DEF ServerInv, AccountAt
  <2>3. CASE u \notin users
    BY <1>2, <2>3, NewAccount
  <2> QED
    BY <2>2, <2>3
\* Only the check of the name leads to the insert.
<1>3. CASE t = s
  <2>1. UserExists(s)
    <3>1. ~Receive(s)
      <4> SUFFICES ASSUME Receive(s) PROVE FALSE
        OBVIOUS
      <4>1. PICK p \in Packets(KnownSids) : \/ Finish(s, FALSE, "bad_packet", p.sid)
                                           \/ Goto(s, "session")
                                           \/ Goto(s, Handler(p))
        BY DEF Receive
      <4>2. pc'[s] = "reply" \/ pc'[s] = "session" \/ pc'[s] = Handler(p)
        BY <4>1 DEF Finish, Goto, TypeOK
      <4> QED
        BY <1>3, <4>2, HandlerType
    <3>2. ~Stop(s) /\ ~Start(s) /\ ~SendResult(s)
      BY <1>3 DEF Stop, Start, SendResult, TypeOK
    <3>3. ~CheckRaises(s) /\ ~CreateUserRaises(s) /\ ~CreateSessionRaises(s)
      BY <1>1 DEF CheckRaises, CreateUserRaises, CreateSessionRaises
    <3>4. ~SessionExists(s)
      BY <1>3, HandlerType DEF SessionExists, Goto, Fail, Finish, TypeOK
    <3>5. ~IsValidSignInAttempt(s) /\ ~CreateUser(s)
      BY <1>3 DEF IsValidSignInAttempt, CreateUser, Succeed, Fail, Goto, Finish, TypeOK
    <3>6. ~LookupUser(s) /\ ~DeleteSessions(s) /\ ~InsertSession(s) /\ ~ReadSession(s)
      BY <1>3 DEF LookupUser, DeleteSessions, InsertSession, ReadSession, Fail, Goto, Finish, TypeOK
    <3> QED
      BY <3>1, <3>2, <3>3, <3>4, <3>5, <3>6 DEF StepOf, Work
  <2>2. users' = users /\ Packet(s)' = Packet(s)
    BY <2>1 DEF UserExists, tables, wire, Packet
  <2>3. ~Taken(Packet(s).name)
    BY <1>3, <2>1 DEF UserExists, Fail, Finish, TypeOK
  <2> QED
    BY <1>3, <2>2, <2>3 DEF Taken
<1> QED
  BY <1>2, <1>3

-----------------------------------------------------------------------------
(* The sessions of the requests of one server *)

\* An answer that a step of s adds is to the request it worked on.
LEMMA SignedInBefore ==
    ASSUME TypeOK, RequestsInv, AnswersInv, NEW s \in Servers, StepOf(s), NEW q \in Requests,
           SignedIn(q)', ~(SendResult(s) /\ q = req[s])
    PROVE  SignedIn(q) /\ answer'[q] = answer[q] /\ Server(q)' = Server(q)
<1>1. answer'[q] = answer[q]
  BY AnswerStays
<1>2. asked[q] # None
  BY <1>1 DEF AnswersInv, SignedIn, Answered
<1> QED
  BY <1>1, <1>2, Locality DEF SignedIn, Answered, Server

LEMMA SentNow ==
    ASSUME TypeOK, RequestsInv, NEW s \in Servers, SendResult(s)
    PROVE  /\ pc[s] = "reply" /\ pc'[s] = "recv" /\ req[s] \in Requests
           /\ answer'[req[s]].success = result[s].success /\ answer'[req[s]].sid = result[s].sid
           /\ asked' = asked /\ asked[req[s]] = Packet(s) /\ Server(req[s]) = s
  BY DEF SendResult, TypeOK, RequestsInv, Packet, Server

LEMMA OlderStep ==
    ASSUME IInv, ServerInv, NEW s \in Servers, StepOf(s), NEW t \in Servers
    PROVE  OlderAt(t)'
<1> USE DEF IInv
<1> SUFFICES ASSUME pc'[t] \in Busy, NEW q \in Requests, SignedIn(q)', Server(q)' = t
             PROVE  answer'[q].sid < Packet(t)'.at
  BY DEF OlderAt
<1>1. ~(SendResult(s) /\ q = req[s])
  BY SentNow DEF Server
<1>2. SignedIn(q) /\ answer'[q] = answer[q] /\ Server(q) = t
  BY <1>1, SignedInBefore
<1>3. CASE t = s /\ Receive(s)
  <2>1. Packet(s)'.at = nextSession
    BY <1>3, ReceiveStep DEF Packet
  <2>2. PICK row \in issued : row.id = answer[q].sid
    BY <1>2 DEF AnswersInv, Granted
  <2> QED
    BY <1>2, <1>3, <2>1, <2>2 DEF KeysInv
<1>4. CASE ~(t = s /\ Receive(s))
  <2>1. pc[t] \in Busy /\ Packet(t)' = Packet(t)
    BY <1>4, BufferStep, Locality, PacketStays
  <2> QED
    BY <1>2, <2>1 DEF ServerInv, OlderAt
<1> QED
  BY <1>3, <1>4

LEMMA SessionIDsStep ==
    ASSUME IInv, ServerInv, SessionIDsNew, NEW s \in Servers, StepOf(s)
    PROVE  SessionIDsNew'
<1> USE DEF IInv
<1> SUFFICES ASSUME NEW q \in Requests, NEW r \in Requests, SignedIn(q)', SignedIn(r)',
                    answer'[q].sid = answer'[r].sid, q # r
             PROVE  Server(q)' # Server(r)'
  BY DEF SessionIDsNew
<1>1. CASE ~(SendResult(s) /\ (q = req[s] \/ r = req[s]))
  BY <1>1, SignedInBefore DEF SessionIDsNew
\* The new answer is no older than its request, and the earlier ones are.
<1>2. ASSUME SendResult(s), NEW new \in Requests, NEW old \in Requests, new = req[s], old # new,
             SignedIn(new)', SignedIn(old)', answer'[new].sid = answer'[old].sid, Server(old)' = s
      PROVE  FALSE
  <2>1. SignedIn(old) /\ answer'[old] = answer[old] /\ Server(old) = s
    BY <1>2, SignedInBefore
  <2>2. /\ pc[s] = "reply" /\ Packet(s).sid = 0 /\ result[s].success
        /\ answer'[new].sid = result[s].sid
    BY <1>2, SentNow DEF SignedIn
  <2>3. answer[old].sid < Packet(s).at
    BY <2>1, <2>2 DEF ServerInv, OlderAt
  <2>4. PICK row \in issued : row.id = result[s].sid /\ result[s].sid >= Packet(s).at
    BY <2>2 DEF CallerInv, CallerAt, Granted
  <2>5. row.id \in Nat /\ Packet(s).at \in Nat
    BY <2>2, PacketType_Asked DEF TypeOK, SessionRows
  <2> QED
    BY <1>2, <2>1, <2>2, <2>3, <2>4, <2>5
<1>3. CASE SendResult(s) /\ q = req[s]
  BY <1>2, <1>3, SentNow DEF Server
<1>4. CASE SendResult(s) /\ r = req[s]
  BY <1>2, <1>4, SentNow DEF Server
<1> QED
  BY <1>1, <1>3, <1>4

-----------------------------------------------------------------------------
(* Every step preserves the invariant *)

LEMMA SignUpInvInit == Init => SignUpInv
<1> SUFFICES ASSUME Init PROVE SignUpInv
  OBVIOUS
<1>1. RowsInv /\ ServerInv
  BY DEF Init, RowsInv, ServerInv, SignUpAt, AccountAt, OlderAt
<1>2. ToldInv /\ AccountsBoundedByServers /\ SessionIDsNew
  BY DEF Init, ToldInv, AccountsBoundedByServers, SessionIDsNew, SignedIn, Answered
<1> QED
  BY <1>1, <1>2 DEF SignUpInv

LEMMA SignUpInvStep == SignUpIInv /\ [Next]_vars => SignUpIInv'
<1> SUFFICES ASSUME IInv, SignUpInv, [Next]_vars PROVE SignUpIInv'
  BY DEF SignUpIInv
<1>1. IInv'
  BY IInvStep
<1>2. ASSUME NEW s \in Servers, StepOf(s) PROVE SignUpInv'
  <2>1. RowsInv'
    BY <1>2, RowsInvStep DEF IInv, SignUpInv, ServerInv
  <2>2. ASSUME NEW t \in Servers PROVE SignUpAt(t)'
    <3>1. CASE t = s
      BY <1>2, <3>1, OwnSignUp DEF SignUpInv, ServerInv
    <3>2. CASE t # s
      <4>1. SignUpAt(t)
        BY DEF SignUpInv, ServerInv
      <4> QED
        BY <1>2, <3>2, <4>1, OthersSignUp DEF IInv
    <3> QED
      BY <3>1, <3>2
  <2>3. ASSUME NEW t \in Servers PROVE AccountAt(t)' /\ OlderAt(t)'
    BY <1>2, AccountAtStep, OlderStep DEF SignUpInv
  <2>4. ToldInv' /\ AccountsBoundedByServers' /\ SessionIDsNew'
    BY <1>2, ToldStep, AccountsStep, SessionIDsStep DEF SignUpInv
  <2> QED
    BY <2>1, <2>2, <2>3, <2>4 DEF SignUpInv, ServerInv
<1>3. ASSUME UNCHANGED vars PROVE SignUpInv'
  <2>1. RowsInv' /\ ToldInv'
    BY <1>3 DEF vars, SignUpInv, RowsInv, ToldInv, ToldTruth, Owned, RowsBy, Matches, Answered
  <2>2. ServerInv'
    BY <1>3 DEF vars, SignUpInv, ServerInv, SignUpAt, AccountAt, OlderAt, ToldTruth, Owned, RowsBy,
       Matches, Answered, SignedIn, Server, Packet
  <2>3. AccountsBoundedByServers' /\ SessionIDsNew'
    BY <1>3 DEF vars, SignUpInv, AccountsBoundedByServers, SessionIDsNew, SignedIn, Answered, Server
  <2> QED
    BY <2>1, <2>2, <2>3 DEF SignUpInv
<1>4. (\E s \in Servers : StepOf(s)) \/ UNCHANGED vars
  BY DEF Next, Idle, StepOf
<1>5. SignUpInv'
  BY <1>2, <1>3, <1>4
<1> QED
  BY <1>1, <1>5 DEF SignUpIInv

LEMMA SignUpInductive == Spec => []SignUpIInv
<1>1. Init => SignUpIInv
  BY IInvInit, SignUpInvInit DEF SignUpIInv
<1> QED
  BY <1>1, SignUpInvStep, PTL DEF Spec

-----------------------------------------------------------------------------
(* A single server *)

SingleServer == \A s, t \in Servers : s = t

LEMMA UniqueNames ==
    ASSUME SingleServer, SignUpIInv, faults = 0
    PROVE  UsernamesUnique
<1> SUFFICES ASSUME NEW a \in users, NEW b \in users, a.name = b.name, a # b
             PROVE  FALSE
  BY DEF UsernamesUnique
<1>1. Server(a.by) # Server(b.by)
  BY DEF SignUpIInv, SignUpInv, AccountsBoundedByServers
<1>2. \A u \in users : asked[u.by] \in Asked
  BY DEF SignUpIInv, SignUpInv, IInv, TypeOK, RowsInv, UserRows
<1> QED
  BY <1>1, <1>2 DEF Asked, Server, SingleServer

-----------------------------------------------------------------------------
(* The theorems *)

\* What a sign-up is told about its account is true, the one answer excepted that no
\* account was created when the connection went with the INSERT: whoever gives it has
\* lost its database session.  No request creates two accounts.
THEOREM SignUpsToldTrue == Spec => []SignUpAnswersTrue
<1>1. SignUpIInv => SignUpAnswersTrue
  <2> SUFFICES ASSUME SignUpIInv PROVE SignUpAnswersTrue
    OBVIOUS
  <2>1. \A r \in Requests : Own(r) <=> Owned(r)
    BY DEF Own, Owned, RowsBy
  <2>2. ASSUME NEW r \in Requests, Answered(r), asked[r].type = "SNUP", asked[r].sid = 0
        PROVE  /\ answer[r].success \/ answer[r].msg = "no_session" => Own(r)
               /\ answer[r].msg \in {"taken", "bad_packet"} => ~Own(r)
               /\ answer[r].msg = "taken" => \E u \in users : u.name = asked[r].name /\ u.by # r
    BY <2>1, <2>2 DEF SignUpIInv, SignUpInv, ToldInv, ToldTruth, Owned, RowsBy
  <2>3. ASSUME NEW s \in Servers, pc[s] = "reply", result[s].msg = "not_created", Own(req[s])
        PROVE  ~connected[s]
    BY <2>3 DEF SignUpIInv, SignUpInv, ServerInv, SignUpAt, RowsBy, Own
  <2> QED
    BY <2>2, <2>3 DEF SignUpIInv, SignUpInv, RowsInv, SignUpAnswersTrue
<1> QED
  BY <1>1, SignUpInductive, PTL

\* While no statement raised, a username has at most one account per server.
THEOREM OneAccountPerServer == Spec => []AccountsBoundedByServers
<1>1. SignUpIInv => AccountsBoundedByServers
  BY DEF SignUpIInv, SignUpInv
<1> QED
  BY <1>1, SignUpInductive, PTL

\* With a single server, usernames are unique as long as no statement raised: what
\* the comment in resolveSignUp takes for granted is so in that case, and only then.
THEOREM OneServerUniqueNames ==
    ASSUME SingleServer
    PROVE  Spec => [](faults = 0 => UsernamesUnique)
<1>1. SignUpIInv => (faults = 0 => UsernamesUnique)
  BY UniqueNames
<1> QED
  BY <1>1, SignUpInductive, PTL

\* No two requests of one server are signed in with one session.
THEOREM SessionsNeverReused == Spec => []SessionIDsNew
<1>1. SignUpIInv => SessionIDsNew
  BY DEF SignUpIInv, SignUpInv
<1> QED
  BY <1>1, SignUpInductive, PTL

-----------------------------------------------------------------------------
(* Only new sessions are answered *)

\* Only requests without a session get past verifyHeader, so every success is a
\* new session, and no session has the ID 0 that a client takes for none.
FreshAt(s) ==
    /\ pc[s] \in Statements \ {"session"} => Packet(s).sid = 0
    /\ pc[s] = "reply" /\ result[s].success => Packet(s).sid = 0
FreshInv ==
    /\ \A s \in Servers : FreshAt(s)
    /\ \A r \in Requests : Answered(r) /\ answer[r].success => asked[r].sid = 0
    /\ \A row \in issued : row.id # 0

LEMMA FreshAtStep ==
    ASSUME IInv, NEW s \in Servers, StepOf(s), NEW t \in Servers, FreshAt(t)
    PROVE  FreshAt(t)'
<1> USE DEF IInv
<1>1. CASE t # s
  <2>1. /\ pc'[t] = pc[t] /\ result'[t] = result[t]
        /\ pc[t] \in Busy => Packet(t)' = Packet(t)
    BY <1>1, Locality, PacketStays
  <2> QED
    BY <2>1 DEF FreshAt
<1>2. CASE t = s /\ Receive(s)
  <2>1. PICK r \in Requests, p \in Packets(KnownSids) :
          /\ asked' = [asked EXCEPT ![r] = [server |-> s, at |-> nextSession, type |-> p.type,
                name |-> p.name, pass |-> p.pass, sid |-> p.sid, intact |-> p.intact]]
          /\ req' = [req EXCEPT ![s] = r]
          /\ \/ Finish(s, FALSE, "bad_packet", p.sid)
             \/ Goto(s, "session")
             \/ p.sid = 0 /\ Goto(s, Handler(p))
    BY <1>2 DEF Receive
  <2>2. Packet(s)'.sid = p.sid
    BY <2>1 DEF Packet, TypeOK
  <2>3. \/ pc'[s] = "reply" /\ result'[s].success = FALSE
        \/ pc'[s] = "session"
        \/ p.sid = 0 /\ pc'[s] = Handler(p)
    BY <2>1 DEF Finish, Goto, TypeOK
  <2> QED
    BY <1>2, <2>2, <2>3, HandlerType DEF FreshAt
<1>3. CASE t = s /\ Work(s) /\ ~SendResult(s)
  <2>1. pc[s] \in Statements /\ Packet(s)' = Packet(s)
    BY <1>3, WorkContinues, PacketStays DEF Continues
  <2>2. CASE pc[s] = "session"
    <3>1. Fail(s, "bad_packet")
      BY <1>3, <2>2 DEF Work, SessionExists, SessionsColumns, IsValidSignInAttempt, UserExists,
         CreateUser, LookupUser, DeleteSessions, InsertSession, ReadSession, CheckRaises,
         CreateUserRaises, CreateSessionRaises
    <3>2. pc'[s] = "reply" /\ result'[s].success = FALSE
      BY <3>1 DEF Fail, Finish, TypeOK
    <3> QED
      BY <1>3, <3>2 DEF FreshAt
  <2>3. CASE pc[s] # "session"
    BY <1>3, <2>1, <2>3 DEF FreshAt
  <2> QED
    BY <2>2, <2>3
<1>4. CASE t = s /\ (SendResult(s) \/ Stop(s) \/ Start(s))
  BY <1>4 DEF SendResult, Stop, Start, FreshAt, TypeOK
<1> QED
  BY <1>1, <1>2, <1>3, <1>4 DEF StepOf

\* An answer stays as it was sent.
LEMMA AnswerKept ==
    ASSUME SignUpIInv, NEW s \in Servers, StepOf(s), NEW r \in Requests, Answered(r)
    PROVE  answer'[r] = answer[r]
<1>1. ~(SendResult(s) /\ r = req[s])
  BY DEF SendResult, SignUpIInv, SignUpInv, ServerInv, SignUpAt
<1> QED
  BY <1>1, AnswerStays DEF SignUpIInv, IInv

LEMMA FreshStep ==
    ASSUME SignUpIInv, FreshInv, NEW s \in Servers, StepOf(s)
    PROVE  FreshInv'
<1> USE DEF SignUpIInv, IInv
<1>1. ASSUME NEW t \in Servers PROVE FreshAt(t)'
  BY FreshAtStep DEF FreshInv
<1>2. ASSUME NEW r \in Requests, Answered(r)', answer'[r].success PROVE asked'[r].sid = 0
  <2>1. CASE SendResult(s) /\ r = req[s]
    <3>1. answer'[r].success = result[s].success /\ asked' = asked /\ pc[s] = "reply"
      BY <2>1 DEF SendResult, TypeOK
    <3> QED
      BY <1>2, <2>1, <3>1 DEF FreshInv, FreshAt, Packet
  <2>2. CASE ~(SendResult(s) /\ r = req[s])
    <3>1. answer'[r] = answer[r]
      BY <2>2, AnswerStays
    <3>2. asked'[r] = asked[r]
      BY <1>2, <3>1, Locality DEF AnswersInv, Answered
    <3> QED
      BY <1>2, <3>1, <3>2 DEF FreshInv, Answered
  <2> QED
    BY <2>1, <2>2
<1>3. ASSUME NEW row \in issued' PROVE row.id # 0
  <2>1. issued' = issued \/ AddSession(s)
    BY Locality DEF SessionsStep
  <2> QED
    BY <1>3, <2>1 DEF FreshInv, AddSession, TypeOK
<1> QED
  BY <1>1, <1>2, <1>3 DEF FreshInv

-----------------------------------------------------------------------------
(* What a single server adds to the invariant *)

\* A server that is about to let a client in answers with the one session there is
\* under the client's name.
LetInAt(s) == pc[s] = "reply" /\ result[s].success =>
    \E row \in sessions : SessionsOf(Packet(s).name) = {row} /\ row.id = result[s].sid

ServiceInv ==
    /\ FreshInv
    /\ \A row \in sessions : \E u \in users : u.id = row.user
    /\ \A s \in Servers : LetInAt(s)

\* As long as no statement raised.
ServiceIInv == SignUpIInv /\ ServiceInv /\ faults = 0

\* An account has one session at most.
LEMMA UniqueSessions ==
    ASSUME SingleServer, SignUpIInv, NEW a \in sessions, NEW b \in sessions, a.user = b.user
    PROVE  a = b
<1>1. a # b => Server(a.by) # Server(b.by)
  BY DEF SignUpIInv, IInv, SessionsBoundedByServers
<1>2. \A row \in sessions : asked[row.by] \in Asked
  BY DEF SignUpIInv, IInv, TypeOK, KeysInv, SessionRows
<1> QED
  BY <1>1, <1>2 DEF Asked, Server, SingleServer

\* The sessions of a name are those of its account.
LEMMA SessionsOfAccount ==
    ASSUME SingleServer, SignUpIInv, faults = 0, NEW u \in users
    PROVE  AccountsNamed(u.name) = {u} /\ SessionsOf(u.name) = SelectSessions(u.id)
<1>1. AccountsNamed(u.name) = {u}
  BY UniqueNames DEF UsernamesUnique, AccountsNamed
<1> QED
  BY <1>1 DEF SessionsOf, SelectSessions

\* From delete on, uid[s] is the account of the name in the packet, and of no other.
LEMMA CallersAccount ==
    ASSUME SingleServer, SignUpIInv, faults = 0, NEW s \in Servers,
           pc[s] \in {"delete", "insert", "read"}
    PROVE  /\ Taken(Packet(s).name)
           /\ SessionsOf(Packet(s).name) = SelectSessions(uid[s])
           /\ \A n \in Names : \A u \in AccountsNamed(n) : u.id = uid[s] => n = Packet(s).name
<1>1. PICK u \in users : u.id = uid[s] /\ u.name = Packet(s).name
  BY DEF SignUpIInv, IInv, CallerInv, CallerAt, Owns, Matches
<1>2. SessionsOf(u.name) = SelectSessions(u.id)
  BY SessionsOfAccount
<1>3. \A n \in Names : \A v \in AccountsNamed(n) : v.id = uid[s] => n = Packet(s).name
  BY <1>1 DEF SignUpIInv, IInv, KeysInv, AccountsNamed
<1> QED
  BY <1>1, <1>2, <1>3 DEF Taken

\* No statement raises, and the steps that are left.
LEMMA NoRaise ==
    ASSUME SignUpIInv, NEW s \in Servers, StepOf(s), faults' = 0
    PROVE  /\ ~Raises(s)
           /\ \/ Receive(s) \/ SendResult(s) \/ Stop(s) \/ Start(s)
              \/ SessionExists(s) \/ IsValidSignInAttempt(s) \/ UserExists(s) \/ CreateUser(s)
              \/ LookupUser(s) \/ DeleteSessions(s) \/ InsertSession(s) \/ ReadSession(s)
<1>1. ~Raises(s)
  BY NoFault DEF SignUpIInv, SignUpInv, IInv
<1> QED
  BY <1>1 DEF StepOf, Work, CheckRaises, CreateUserRaises, CreateSessionRaises

\* Nothing is let in that the account does not have.
LEMMA LetInStep ==
    ASSUME SingleServer, ServiceIInv, NEW s \in Servers, StepOf(s), faults' = 0
    PROVE  LetInAt(s)'
<1> USE DEF ServiceIInv
<1>0. TypeOK
  BY DEF SignUpIInv, IInv
<1> SUFFICES ASSUME pc'[s] = "reply", result'[s].success
             PROVE  \E row \in sessions' : /\ SessionsOf(Packet(s).name)' = {row}
                                           /\ row.id = result'[s].sid
  BY DEF LetInAt
<1>1. CASE ReadSession(s)
  <2>1. /\ pc[s] = "read" /\ Packet(s)' = Packet(s)
        /\ users' = users /\ sessions' = sessions
    BY <1>0, <1>1, PacketStays DEF ReadSession, tables
  <2>2. PICK row \in sessions : SelectSessions(uid[s]) = {row} /\ Finish(s, TRUE, "welcome", row.id)
    <3>1. ~Fail(s, "no_session")
      BY <1>0 DEF Fail, Finish, TypeOK
    <3> QED
      BY <1>1, <3>1 DEF ReadSession
  <2>3. result'[s].sid = row.id
    BY <1>0, <2>2 DEF Finish, TypeOK
  <2>4. SessionsOf(Packet(s).name) = {row}
    BY <2>1, <2>2, CallersAccount
  <2>5. SessionsOf(Packet(s).name)' = SessionsOf(Packet(s).name)
    BY <2>1 DEF SessionsOf, AccountsNamed
  <2> QED
    BY <2>1, <2>3, <2>4, <2>5
<1>2. CASE Receive(s)
  <2>1. PICK r \in Requests, p \in Packets(KnownSids) :
          \/ Finish(s, FALSE, "bad_packet", p.sid)
          \/ Goto(s, "session")
          \/ Goto(s, Handler(p))
    BY <1>2 DEF Receive
  <2>2. result'[s].success = FALSE \/ pc'[s] = "session" \/ pc'[s] = Handler(p)
    BY <1>0, <2>1 DEF Finish, Goto, TypeOK
  <2> QED
    BY <2>2, HandlerType
<1>3. CASE SessionExists(s) \/ IsValidSignInAttempt(s) \/ UserExists(s) \/ CreateUser(s) \/ LookupUser(s)
  <2>1. pc[s] \in {"session", "credentials", "exists", "create", "lookup"}
    BY <1>3 DEF SessionExists, IsValidSignInAttempt, UserExists, CreateUser, LookupUser
  <2>2. pc[s] # "session" => Packet(s).sid = 0
    BY <2>1 DEF ServiceInv, FreshInv, FreshAt
  <2>3. \E msg \in Messages, label \in Labels \ {"reply"} : Fail(s, msg) \/ Goto(s, label)
    BY <1>3, <2>1, <2>2 DEF SessionExists, IsValidSignInAttempt, UserExists, CreateUser, LookupUser,
       SessionsColumns, Succeed, Messages
  <2> QED
    BY <1>0, <2>3 DEF Fail, Finish, Goto, TypeOK
<1>4. CASE DeleteSessions(s) \/ InsertSession(s) \/ SendResult(s) \/ Stop(s) \/ Start(s)
  BY <1>0, <1>4 DEF DeleteSessions, InsertSession, SendResult, Stop, Start, Goto, TypeOK
<1> QED
  BY <1>1, <1>2, <1>3, <1>4, NoRaise

\* The account of a session stays.
LEMMA KnownUsersStep ==
    ASSUME SignUpIInv, \A row \in sessions : \E u \in users : u.id = row.user,
           NEW s \in Servers, StepOf(s), NEW row \in sessions'
    PROVE  \E u \in users' : u.id = row.user
<1> USE DEF SignUpIInv, IInv
<1>1. users \subseteq users' /\ SessionsStep(s)
  BY Locality, Monotone
<1>2. CASE row \in sessions
  BY <1>1, <1>2
<1>3. CASE row \notin sessions
  <2>1. pc[s] = "insert" /\ row.user = uid[s]
    BY <1>1, <1>3 DEF SessionsStep, AddSession
  <2>2. \E u \in users : u.id = uid[s]
    BY <2>1 DEF CallerInv, CallerAt, Owns
  <2> QED
    BY <1>1, <2>1, <2>2
<1> QED
  BY <1>2, <1>3

LEMMA ServiceInit == Init => ServiceIInv
<1> SUFFICES ASSUME Init PROVE ServiceIInv
  OBVIOUS
<1>1. SignUpIInv
  BY IInvInit, SignUpInvInit DEF SignUpIInv
<1>2. FreshInv
  BY DEF Init, FreshInv, FreshAt, Answered
<1>3. sessions = {} /\ faults = 0 /\ \A s \in Servers : LetInAt(s)
  BY DEF Init, LetInAt
<1> QED
  BY <1>1, <1>2, <1>3 DEF ServiceIInv, ServiceInv

LEMMA ServiceStep ==
    ASSUME SingleServer, ServiceIInv, [Next]_vars, faults' = 0
    PROVE  ServiceIInv'
<1>1. SignUpIInv'
  BY SignUpInvStep DEF ServiceIInv
<1>2. ASSUME NEW s \in Servers, StepOf(s) PROVE ServiceInv'
  <2>1. FreshInv'
    BY <1>2, FreshStep DEF ServiceIInv, ServiceInv
  <2>2. \A row \in sessions' : \E u \in users' : u.id = row.user
    BY <1>2, KnownUsersStep DEF ServiceIInv, ServiceInv
  <2>3. ASSUME NEW t \in Servers PROVE LetInAt(t)'
    <3>1. t = s
      BY DEF SingleServer
    <3> QED
      BY <1>2, <3>1, LetInStep
  <2> QED
    BY <2>1, <2>2, <2>3 DEF ServiceInv
<1>3. ASSUME UNCHANGED vars PROVE ServiceInv'
  BY <1>3 DEF vars, ServiceIInv, ServiceInv, FreshInv, FreshAt, LetInAt, SessionsOf, AccountsNamed,
     Packet, Answered
<1>4. (\E s \in Servers : StepOf(s)) \/ UNCHANGED vars
  BY DEF Next, Idle, StepOf
<1> QED
  BY <1>1, <1>2, <1>3, <1>4 DEF ServiceIInv

-----------------------------------------------------------------------------
(* A single server implements the service *)

\* The variables of AccountService, as Service defines them.
Any(S) == CHOOSE x \in S : TRUE
Asks == [r \in Requests |-> IF asked[r] = None THEN None ELSE asked[r].name]
OwnerOf(n) == IF Taken(n) THEN Any(AccountsNamed(n)).by ELSE None
Owner == [n \in Names |-> OwnerOf(n)]
CurrentOf(n) == IF SessionsOf(n) = {} THEN 0 ELSE Any(SessionsOf(n)).id
Current == [n \in Names |-> CurrentOf(n)]
Reply == [r \in Requests |-> IF answer[r] = None THEN None
                             ELSE IF answer[r].success THEN answer[r].sid ELSE 0]

LEMMA AnyOfOne == ASSUME NEW x PROVE Any({x}) = x
  BY DEF Any

LEMMA OwnerStays ==
    ASSUME users' = users, sessions' = sessions
    PROVE  Owner' = Owner /\ Current' = Current
<1>1. \A n \in Names : (Taken(n)' <=> Taken(n)) /\ AccountsNamed(n)' = AccountsNamed(n)
  BY DEF Taken, AccountsNamed
<1>2. \A n \in Names : SessionsOf(n)' = SessionsOf(n)
  BY DEF SessionsOf, AccountsNamed
<1> QED
  BY <1>1, <1>2 DEF Owner, OwnerOf, Current, CurrentOf

LEMMA ServiceStutters ==
    ASSUME users' = users, sessions' = sessions, nextSession' = nextSession,
           asked' = asked, answer' = answer, faults' = faults
    PROVE  UNCHANGED Service!vars
<1>1. Owner' = Owner /\ Current' = Current /\ Asks' = Asks /\ Reply' = Reply
  BY OwnerStays DEF Asks, Reply
<1> QED
  BY <1>1 DEF Service!vars, Owner, OwnerOf, Current, CurrentOf, Any, Asks, Reply

\* A server at work on a request has not answered it.
LEMMA AtWork ==
    ASSUME SignUpIInv, NEW s \in Servers, pc[s] \in Busy
    PROVE  /\ req[s] \in Requests /\ Asks[req[s]] = Packet(s).name /\ Packet(s).name \in Names
           /\ answer[req[s]] = None
           /\ Service!Pending(req[s])
<1>1. /\ req[s] \in Requests /\ Packet(s).name \in Names /\ asked[req[s]] # None
      /\ answer[req[s]] = None
  BY PacketType_Asked DEF SignUpIInv, SignUpInv, IInv, ServerInv, SignUpAt, Answered
<1> QED
  BY <1>1, NoneAssumption DEF Asks, Packet, Service!Pending

LEMMA AskRefines ==
    ASSUME ServiceIInv, NEW s \in Servers, Receive(s)
    PROVE  \E r \in Requests : Service!Act(r)
<1>1. PICK r \in Requests, p \in Packets(KnownSids) :
        /\ asked[r] = None
        /\ asked' = [asked EXCEPT ![r] = [server |-> s, at |-> nextSession, type |-> p.type,
              name |-> p.name, pass |-> p.pass, sid |-> p.sid, intact |-> p.intact]]
  BY DEF Receive
<1>2. p.name \in Names
  BY DEF Packets
<1>3. asked'[r].name = p.name /\ asked'[r] # None
  <2>1. asked'[r] \in Asked
    BY <1>1, KnownSidsType DEF Asked, Packets, TypeOK, ServiceIInv, SignUpIInv, IInv
  <2> QED
    BY <1>1, <2>1, NoneAssumption DEF ServiceIInv, SignUpIInv, IInv, TypeOK
<1>4. Asks' = [Asks EXCEPT ![r] = p.name] /\ Asks[r] = None
  BY <1>1, <1>3 DEF Asks, ServiceIInv, SignUpIInv, IInv, TypeOK
<1>5. Owner' = Owner /\ Current' = Current /\ nextSession' = nextSession /\ Reply' = Reply
  BY OwnerStays DEF Receive, tables, Reply
<1>6. Service!Ask(r, p.name)
  BY <1>4, <1>5 DEF Service!Ask, Asks, Owner, OwnerOf, Current, CurrentOf, Any, Reply
<1> QED
  BY <1>2, <1>6 DEF Service!Act

LEMMA ClaimRefines ==
    ASSUME ServiceIInv, SingleServer, NEW s \in Servers, CreateUser(s)
    PROVE  \E r \in Requests : Service!Act(r)
<1> PICK name \in Names : name = Packet(s).name
  BY PacketType_Asked DEF CreateUser, ServiceIInv, SignUpIInv, IInv
<1> DEFINE row == [id |-> nextUser, name |-> name, pass |-> Packet(s).pass, by |-> req[s]]
<1>0. /\ TypeOK /\ SignUpIInv /\ pc[s] = "create"
      /\ users' = users \cup {row} /\ sessions' = sessions /\ nextSession' = nextSession
      /\ asked' = asked /\ answer' = answer
  BY DEF ServiceIInv, SignUpIInv, IInv, CreateUser, InsertUser, wire
<1>1. req[s] \in Requests /\ Asks[req[s]] = name /\ Service!Pending(req[s])
  BY <1>0, AtWork
<1>2. AccountsNamed(name) = {} /\ ~Taken(name)
  <2>1. ASSUME NEW u \in users, u.name = name PROVE FALSE
    <3>1. Server(u.by) # s
      BY <1>0, <2>1 DEF ServiceIInv, SignUpIInv, SignUpInv, ServerInv, AccountAt
    <3>2. asked[u.by] \in Asked
      BY <1>0 DEF SignUpIInv, SignUpInv, RowsInv, TypeOK, UserRows
    <3> QED
      BY <3>1, <3>2 DEF Asked, Server, SingleServer
  <2> QED
    BY <2>1 DEF AccountsNamed, Taken
<1>3. /\ AccountsNamed(name)' = {row} /\ Taken(name)'
      /\ \A n \in Names \ {name} : AccountsNamed(n)' = AccountsNamed(n) /\ (Taken(n)' <=> Taken(n))
  <2>1. row.name = name /\ row \in users'
    BY <1>0
  <2> HIDE DEF row
  <2>2. AccountsNamed(name)' = {row}
    BY <1>0, <1>2, <2>1 DEF AccountsNamed
  <2>3. Taken(name)'
    BY <2>1 DEF Taken
  <2>4. ASSUME NEW n \in Names \ {name}
        PROVE  AccountsNamed(n)' = AccountsNamed(n) /\ (Taken(n)' <=> Taken(n))
    BY <1>0, <2>1 DEF AccountsNamed, Taken
  <2> QED
    BY <2>2, <2>3, <2>4
<1>4. \A n \in Names : SessionsOf(n)' = SessionsOf(n)
  <2>1. \A a \in sessions : a.user # nextUser
    BY <1>0 DEF ServiceIInv, ServiceInv, SignUpIInv, IInv, KeysInv, TypeOK, UserRows
  <2>2. ASSUME NEW n \in Names, NEW a \in sessions, NEW u \in AccountsNamed(n)', u.id = a.user
        PROVE  u \in AccountsNamed(n)
    BY <1>0, <2>1, <2>2 DEF AccountsNamed
  <2>3. ASSUME NEW n \in Names PROVE AccountsNamed(n) \subseteq AccountsNamed(n)'
    BY <1>0 DEF AccountsNamed
  <2> QED
    BY <1>0, <2>2, <2>3 DEF SessionsOf
<1>5. Owner' = [Owner EXCEPT ![name] = req[s]]
  <2>1. OwnerOf(name)' = req[s]
    <3>1. OwnerOf(name)' = Any({row}).by
      BY <1>3 DEF OwnerOf
    <3>2. Any({row}) = row
      BY AnyOfOne
    <3> QED
      BY <3>1, <3>2
  <2>2. \A n \in Names \ {name} : OwnerOf(n)' = OwnerOf(n)
    BY <1>3 DEF OwnerOf
  <2> QED
    BY <1>1, <2>1, <2>2 DEF Owner
<1>6. Owner[name] = None
  BY <1>1, <1>2 DEF Owner, OwnerOf
<1>7. Current' = Current /\ Asks' = Asks /\ Reply' = Reply
  BY <1>0, <1>4 DEF Current, CurrentOf, Asks, Reply
<1>8. Service!Claim(req[s])
  BY <1>0, <1>1, <1>5, <1>6, <1>7 DEF Service!Claim, Asks, Owner, OwnerOf, Current, CurrentOf, Any, Reply
<1> QED
  BY <1>1, <1>8 DEF Service!Act

LEMMA AnyInside == ASSUME NEW S, S # {} PROVE Any(S) \in S
  BY DEF Any

LEMMA LeaveRefines ==
    ASSUME ServiceIInv, SingleServer, NEW s \in Servers, DeleteSessions(s)
    PROVE  (\E r \in Requests : Service!Act(r)) \/ UNCHANGED Service!vars
<1> PICK name \in Names : name = Packet(s).name
  BY PacketType_Asked DEF DeleteSessions, ServiceIInv, SignUpIInv, IInv
<1>0. /\ SignUpIInv /\ pc[s] = "delete"
      /\ users' = users /\ sessions' = sessions \ SelectSessions(uid[s]) /\ nextSession' = nextSession
      /\ asked' = asked /\ answer' = answer /\ faults' = faults
  BY DEF ServiceIInv, DeleteSessions, Returns, RemoveSessions, wire
<1>1. req[s] \in Requests /\ Asks[req[s]] = name /\ Service!Pending(req[s])
  BY <1>0, AtWork
<1>2. /\ SessionsOf(name) = SelectSessions(uid[s])
      /\ \A n \in Names : \A u \in AccountsNamed(n) : u.id = uid[s] => n = name
  BY <1>0, CallersAccount DEF ServiceIInv
<1>3. CASE SelectSessions(uid[s]) = {}
  BY <1>0, <1>3, ServiceStutters
<1>4. CASE SelectSessions(uid[s]) # {}
  <2>1. SessionsOf(name)' = {}
    BY <1>0, <1>2 DEF SessionsOf, AccountsNamed
  <2>2. ASSUME NEW n \in Names \ {name} PROVE SessionsOf(n)' = SessionsOf(n)
    BY <1>0, <1>2 DEF SessionsOf, AccountsNamed, SelectSessions
  <2>3. Current' = [Current EXCEPT ![name] = 0]
    BY <2>1, <2>2 DEF Current, CurrentOf
  <2>4. Current[name] # 0
    <3>1. Any(SessionsOf(name)) \in issued
      BY <1>0, <1>2, <1>4, AnyInside DEF SelectSessions, SignUpIInv, IInv, KeysInv
    <3> QED
      BY <1>2, <1>4, <3>1 DEF Current, CurrentOf, ServiceIInv, ServiceInv, FreshInv
  <2>5. Owner' = Owner /\ Asks' = Asks /\ Reply' = Reply
    BY <1>0 DEF Owner, OwnerOf, Taken, AccountsNamed, Asks, Reply
  <2>6. Service!Leave(req[s])
    BY <1>0, <1>1, <2>3, <2>4, <2>5
       DEF Service!Leave, Asks, Owner, OwnerOf, Current, CurrentOf, Any, Reply
  <2> QED
    BY <1>1, <2>6 DEF Service!Act
<1> QED
  BY <1>3, <1>4

LEMMA EnterRefines ==
    ASSUME ServiceIInv, SingleServer, NEW s \in Servers, InsertSession(s)
    PROVE  \E r \in Requests : Service!Act(r)
<1> PICK name \in Names : name = Packet(s).name
  BY PacketType_Asked DEF InsertSession, ServiceIInv, SignUpIInv, IInv
<1> DEFINE row == [id |-> nextSession, user |-> uid[s], by |-> req[s]]
<1>0. /\ SignUpIInv /\ pc[s] = "insert" /\ row.id = nextSession /\ row.user = uid[s]
      /\ users' = users /\ sessions' = sessions \cup {row} /\ nextSession' = nextSession + 1
      /\ asked' = asked /\ answer' = answer /\ nextSession \in Nat \ {0}
  BY DEF ServiceIInv, SignUpIInv, IInv, TypeOK, InsertSession, AddSession, wire
<1> HIDE DEF row
<1>1. req[s] \in Requests /\ Asks[req[s]] = name /\ Service!Pending(req[s])
  BY <1>0, AtWork
<1>2. /\ SessionsOf(name) = SelectSessions(uid[s]) /\ Taken(name)
      /\ \A n \in Names : \A u \in AccountsNamed(n) : u.id = uid[s] => n = name
  BY <1>0, CallersAccount DEF ServiceIInv
<1>3. SessionsOf(name) = {}
  <2>1. ASSUME NEW a \in SelectSessions(uid[s]) PROVE FALSE
    <3>1. Server(a.by) # s
      BY <1>0 DEF SignUpIInv, IInv, CallerInv, CallerAt
    <3>2. asked[a.by] \in Asked
      BY <1>0 DEF SelectSessions, SignUpIInv, IInv, KeysInv, TypeOK, SessionRows
    <3> QED
      BY <3>1, <3>2 DEF Asked, Server, SingleServer
  <2> QED
    BY <1>2, <2>1
<1>4. SessionsOf(name)' = {row}
  <2>1. PICK u \in AccountsNamed(name) : u.id = uid[s]
    BY <1>0 DEF SignUpIInv, IInv, CallerInv, CallerAt, Owns, Matches, AccountsNamed
  <2> QED
    BY <1>0, <1>3, <2>1 DEF SessionsOf, AccountsNamed
<1>5. ASSUME NEW n \in Names \ {name} PROVE SessionsOf(n)' = SessionsOf(n)
  BY <1>0, <1>2 DEF SessionsOf, AccountsNamed
<1>6. Current[name] = 0 /\ Current' = [Current EXCEPT ![name] = nextSession]
  <2>1. CurrentOf(name)' = nextSession
    <3>1. CurrentOf(name)' = Any({row}).id
      BY <1>4 DEF CurrentOf
    <3>2. Any({row}) = row
      BY AnyOfOne
    <3> QED
      BY <1>0, <3>1, <3>2
  <2> QED
    BY <1>3, <1>5, <2>1 DEF Current, CurrentOf
<1>7. Owner[name] # None
  <2>1. Any(AccountsNamed(name)) \in users
    BY <1>2, AnyInside DEF Taken, AccountsNamed
  <2> QED
    BY <1>0, <1>2, <2>1, NoneAssumption DEF Owner, OwnerOf, SignUpIInv, IInv, TypeOK, UserRows
<1>8. Owner' = Owner /\ Asks' = Asks /\ Reply' = Reply
  BY <1>0 DEF Owner, OwnerOf, Taken, AccountsNamed, Asks, Reply
<1>9. nextSession' - 1 = (nextSession - 1) + 1 /\ (nextSession - 1) + 1 = nextSession
  BY <1>0
<1>10. Service!Enter(req[s])
  BY <1>1, <1>6, <1>7, <1>8, <1>9
     DEF Service!Enter, Asks, Owner, OwnerOf, Current, CurrentOf, Any, Reply
<1> QED
  BY <1>1, <1>10 DEF Service!Act

LEMMA AnswerRefines ==
    ASSUME ServiceIInv, NEW s \in Servers, SendResult(s)
    PROVE  \E r \in Requests : Service!Act(r)
<1>0. /\ TypeOK /\ SignUpIInv /\ pc[s] = "reply" /\ UNCHANGED <<users, sessions, nextSession, asked>>
      /\ TypeOK'
  BY TypeStep DEF ServiceIInv, SignUpIInv, IInv, SendResult, tables, Next, Work
<1> PICK name \in Names : name = Packet(s).name
  BY <1>0, AtWork
<1> PICK q \in Requests : q = req[s]
  BY <1>0, AtWork
<1>1. Asks[q] = name /\ Service!Pending(q)
  BY <1>0, AtWork
<1>2. Owner' = Owner /\ Current' = Current /\ Asks' = Asks
  BY <1>0, OwnerStays DEF Asks
<1>3. Reply' = [Reply EXCEPT ![q] = IF result[s].success THEN result[s].sid ELSE 0]
  <2>1. answer'[q].success = result[s].success /\ answer'[q].sid = result[s].sid
    BY <1>0 DEF SendResult, TypeOK
  <2>2. \A r \in Requests \ {q} : answer'[r] = answer[r]
    BY <1>0 DEF SendResult, TypeOK
  <2>3. answer'[q] # None
    <3> DEFINE ans == [success |-> result[s].success, msg |-> result[s].msg, sid |-> result[s].sid,
                       verifies |-> CrcSpan(Packet(s), result[s].msg) = Sent]
    <3>1. answer'[q] = ans
      BY <1>0 DEF SendResult, TypeOK
    <3>2. result[s] \in Results
      BY <1>0 DEF TypeOK
    <3>3. ans \in Answers
      BY <3>2 DEF Results, Answers
    <3> QED
      BY <3>1, <3>3, NoneAssumption
  <2> QED
    BY <2>1, <2>2, <2>3 DEF Reply
<1>4. CASE ~result[s].success
  <2>1. Service!Refuse(q)
    BY <1>0, <1>1, <1>2, <1>3, <1>4
       DEF Service!Refuse, Asks, Owner, OwnerOf, Current, CurrentOf, Any, Reply
  <2> QED
    BY <2>1 DEF Service!Act
<1>5. CASE result[s].success
  <2>1. PICK row \in sessions : SessionsOf(name) = {row} /\ row.id = result[s].sid
    BY <1>0, <1>5 DEF ServiceIInv, ServiceInv, LetInAt
  <2>2. Any({row}) = row
    BY AnyOfOne
  <2>3. Current[name] = result[s].sid
    BY <2>1, <2>2 DEF Current, CurrentOf
  <2>4. row.id # 0
    BY <1>0, <2>1 DEF ServiceIInv, ServiceInv, FreshInv, SignUpIInv, IInv, KeysInv
  <2>5. Service!Grant(q)
    BY <1>0, <1>1, <1>2, <1>3, <1>5, <2>1, <2>3, <2>4
       DEF Service!Grant, Asks, Owner, OwnerOf, Current, CurrentOf, Any, Reply
  <2> QED
    BY <2>5 DEF Service!Act
<1> QED
  BY <1>4, <1>5

LEMMA ServiceInitRefines == Init => Service!Init
<1> SUFFICES ASSUME Init PROVE Service!Init
  OBVIOUS
<1>1. /\ Asks = [r \in Requests |-> None] /\ Reply = [r \in Requests |-> None]
      /\ nextSession - 1 = 0 /\ (faults > 0) = FALSE
  BY DEF Init, Asks, Reply
<1>2. Owner = [n \in Names |-> None] /\ Current = [n \in Names |-> 0]
  BY DEF Init, Owner, OwnerOf, Taken, Current, CurrentOf, SessionsOf
<1> QED
  BY <1>1, <1>2 DEF Service!Init, Asks, Owner, OwnerOf, Current, CurrentOf, Any, Reply

\* A step in which no statement raised.
LEMMA SoundStepRefines ==
    ASSUME ServiceIInv, SingleServer, [Next]_vars, faults' = 0
    PROVE  Service!Next \/ UNCHANGED Service!vars
<1>0. faults' = faults
  BY DEF ServiceIInv
<1>1. ASSUME NEW s \in Servers, StepOf(s) PROVE Service!Next \/ UNCHANGED Service!vars
  <2>1. CASE Receive(s) \/ CreateUser(s) \/ DeleteSessions(s) \/ InsertSession(s) \/ SendResult(s)
    <3>1. (\E r \in Requests : Service!Act(r)) \/ UNCHANGED Service!vars
      BY <2>1, AskRefines, ClaimRefines, LeaveRefines, EnterRefines, AnswerRefines
    <3>2. (faults > 0)' = (faults > 0)
      BY <1>0
    <3> QED
      BY <3>1, <3>2 DEF Service!Next
  <2>2. CASE \/ SessionExists(s) \/ IsValidSignInAttempt(s) \/ UserExists(s) \/ LookupUser(s)
             \/ ReadSession(s) \/ Stop(s) \/ Start(s)
    BY <1>0, <2>2, ServiceStutters DEF SessionExists, IsValidSignInAttempt, UserExists, LookupUser,
       ReadSession, Stop, Start, tables, wire
  <2> QED
    BY <1>1, <2>1, <2>2, NoRaise DEF ServiceIInv
<1>2. CASE UNCHANGED vars
  BY <1>2, ServiceStutters DEF vars
<1> QED
  BY <1>1, <1>2 DEF Next, Idle, StepOf

\* Faults are only counted up, so the service is implemented by every step up to the
\* first that is counted; from then on it promises nothing.
ServiceBehaves == SignUpIInv /\ (faults = 0 => ServiceIInv)

LEMMA ServiceStepRefines ==
    ASSUME ServiceBehaves, SingleServer, [Next]_vars
    PROVE  ServiceBehaves' /\ (Service!Next \/ UNCHANGED Service!vars)
<1>1. SignUpIInv'
  BY SignUpInvStep DEF ServiceBehaves
<1>2. CASE faults' = 0
  <2>1. faults = 0
    <3>1. CASE UNCHANGED vars
      BY <1>2, <3>1 DEF vars
    <3>2. CASE \E s \in Servers : StepOf(s)
      BY <1>2, <3>2, NoFault DEF ServiceBehaves, SignUpIInv, SignUpInv, IInv
    <3> QED
      BY <3>1, <3>2 DEF Next, Idle, StepOf
  <2>2. ServiceIInv
    BY <2>1 DEF ServiceBehaves
  <2> QED
    BY <1>1, <1>2, <2>2, ServiceStep, SoundStepRefines DEF ServiceBehaves
<1>3. CASE faults' # 0
  <2>1. faults' \in Nat
    BY <1>1, BoundsAssumption DEF SignUpIInv, IInv, TypeOK
  <2>2. (faults > 0)'
    BY <1>3, <2>1
  <2>3. Service!Next
    BY <2>2 DEF Service!Next
  <2> QED
    BY <1>1, <1>3, <2>3 DEF ServiceBehaves
<1> QED
  BY <1>2, <1>3

\* A single server implements the abstract service, also when it stops half way
\* through a request and is started again: until a statement raises, a username never
\* changes its owner, and who is let in gets the session that is current.
THEOREM SingleServerImplementsService ==
    ASSUME SingleServer
    PROVE  Spec => ImplementsService
<1>1. Init => ServiceBehaves /\ Service!Init
  BY ServiceInit, ServiceInitRefines DEF ServiceBehaves, ServiceIInv
<1>2. ServiceBehaves /\ [Next]_vars => ServiceBehaves' /\ [Service!Next]_(Service!vars)
  BY ServiceStepRefines
<1> QED
  BY <1>1, <1>2, PTL DEF Spec, ImplementsService, Service!Spec
=============================================================================
