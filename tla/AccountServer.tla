---------------------------- MODULE AccountServer ----------------------------
(***************************************************************************)
(* The server processes of The System and the database they share: the     *)
(* loop of TheSystemServer.cpp, RequestHandler, UsersDAO, SessionsDAO and  *)
(* the two tables of the_system_dump.sql.                                  *)
(*                                                                         *)
(* Each server is one thread that takes a packet off its connection to the *)
(* load balancer, executes it to the end and sends one answer.  Servers    *)
(* meet only in the database, where every statement commits by itself, so  *)
(* an action of this module is one statement with the local computation    *)
(* up to the next one.                                                     *)
(***************************************************************************)
EXTENDS Integers

CONSTANTS
    Servers,     \* the server processes
    Requests,    \* identities of the packets that reach a server
    Names,       \* usernames that appear in packets
    Passwords,   \* passwords that appear in packets
    Fold,        \* the collation of users.username: names it compares equal fold together
    MaxFaults,   \* bound on the statements that raise an exception
    MaxStops,    \* bound on the server processes that stop
    None         \* no request, no name, no packet, no answer

ASSUME FoldAssumption == Fold \in [Names -> Names]
ASSUME BoundsAssumption == MaxFaults \in Nat /\ MaxStops \in Nat

VARIABLES
    users,        \* table users; .by is the request whose statement inserted the row (not a column)
    sessions,     \* table sessions; .by likewise
    nextUser,     \* AUTO_INCREMENT of users
    nextSession,  \* AUTO_INCREMENT of sessions
    pc,           \* the statement each server executes next
    req,          \* the packet in each server's buffer
    uid,          \* userID in createSession
    result,       \* what each server is about to send
    connected,    \* the server's database session is usable
    asked,        \* the packet of each request, once a server has received it
    answer,       \* the packet sent back for each request
    issued,       \* history: every row ever inserted into sessions
    faults,       \* statements that raised, up to MaxFaults
    stops         \* processes that stopped, up to MaxStops

tables == <<users, sessions, nextUser, nextSession, issued>>
wire == <<asked, answer>>
bounds == <<faults, stops>>
vars == <<users, sessions, nextUser, nextSession, pc, req, uid, result,
          connected, asked, answer, issued, faults, stops>>

-----------------------------------------------------------------------------
(* Packets *)

PacketTypes == {"SNIN", "SNUP", "other"}

\* The wording of the answers is abstracted to these.
Messages == {"welcome", "created", "not_recognized", "no_session", "taken",
             "not_created", "bad_packet"}

\* intact: the checksum of the bytes that one recv returned agrees with the
\* first header in them.
Packets(sids) == [type : PacketTypes, name : Names, pass : Passwords, sid : sids,
                  intact : BOOLEAN]

HeaderSize == 28
ResultSize == 68
SignUpSize == 256

\* The type is compared as a C string that starts in char packetType[4] and
\* has no terminator there: it goes on into the low byte of sessionID.
PacketType(p) == IF p.sid % 256 = 0 THEN p.type ELSE "other"

\* The bytes of the answer that its checksum covers, and the bytes sent.
CrcSpan(p, msg) == IF p.type = "SNUP" /\ msg # "bad_packet"
                   THEN HeaderSize + SignUpSize
                   ELSE HeaderSize + ResultSize
Sent == HeaderSize + ResultSize

\* The labels of a server: the statement or call it executes next.
Statements == {"session", "credentials", "exists", "create", "lookup", "delete", "insert", "read"}
Busy == Statements \cup {"reply"}
Labels == Busy \cup {"recv", "down"}

Asked == [server : Servers, at : Nat, type : PacketTypes, name : Names, pass : Passwords,
          sid : Nat, intact : BOOLEAN]
Results == [success : BOOLEAN, msg : Messages, sid : Nat]
Answers == [success : BOOLEAN, msg : Messages, sid : Nat, verifies : BOOLEAN]

ASSUME NoneAssumption ==
    /\ None \notin Requests /\ None \notin Names
    /\ None \notin Asked /\ None \notin Results /\ None \notin Answers

\* The columns of table sessions.
SessionsColumns == {"session_id", "user_id", "creation_datetime"}

-----------------------------------------------------------------------------
(* Rows the statements select *)

Matches(u, p) == u.name = p.name /\ u.pass = p.pass
UserRows == [id : Nat, name : Names, pass : Passwords, by : Requests]
SessionRows == [id : Nat, user : Nat, by : Requests]

\* Defect: userExists compares the wrong column of the row.
TakenByColumn(name) == \E u \in users : u.pass = name

\* userExists and isValidSignInAttempt fetch the table and compare with ==;
\* createSession lets the database compare, under its collation.
Taken(name) == \E u \in users : u.name = name
Recognized(p) == \E u \in users : Matches(u, p)
SelectUser(name) == {u \in users : Fold[u.name] = Fold[name]}
SelectSessions(id) == {row \in sessions : row.user = id}

\* Session IDs a client can put in a header: the ones it was given.
KnownSids == {answer[r].sid : r \in {q \in Requests : answer[q] # None}} \cup {0}

Packet(s) == asked[req[s]]

-----------------------------------------------------------------------------
Init ==
    /\ users = {} /\ sessions = {} /\ issued = {}
    /\ nextUser = 1 /\ nextSession = 1
    /\ pc = [s \in Servers |-> "recv"]
    /\ req = [s \in Servers |-> None]
    /\ uid = [s \in Servers |-> 0]
    /\ result = [s \in Servers |-> None]
    /\ connected = [s \in Servers |-> TRUE]
    /\ asked = [r \in Requests |-> None]
    /\ answer = [r \in Requests |-> None]
    /\ faults = 0 /\ stops = 0

\* A statement that returns, and one that raises: a transient error leaves the
\* database session usable, a lost connection fails every later statement too.
Returns(s) == connected[s] /\ UNCHANGED <<connected, faults>>
Raises(s) ==
    \/ ~connected[s] /\ UNCHANGED <<connected, faults>>
    \/ /\ connected[s] /\ faults < MaxFaults
       /\ faults' = faults + 1
       /\ \E usable \in BOOLEAN : connected' = [connected EXCEPT ![s] = usable]
\* The server never learns of a statement that committed as the connection went.
LostAfter(s) == connected[s] /\ ~connected'[s]

Goto(s, label) == pc' = [pc EXCEPT ![s] = label] /\ UNCHANGED result
Finish(s, success, msg, sid) ==
    /\ pc' = [pc EXCEPT ![s] = "reply"]
    /\ result' = [result EXCEPT ![s] = [success |-> success, msg |-> msg, sid |-> sid]]

\* What follows a successful check: a session for a client that has none.
Succeed(s, msg) ==
    IF Packet(s).sid = 0 THEN Goto(s, "lookup") ELSE Finish(s, TRUE, msg, Packet(s).sid)

\* Defect: the result packet is filled in only on success.
FailUnsaid(s, msg) == pc' = [pc EXCEPT ![s] = "reply"] /\ UNCHANGED result

Fail(s, msg) == Finish(s, FALSE, msg, Packet(s).sid)

\* The label of the handler for a verified packet; an unrecognized type is
\* dropped without an answer.
Handler(p) == CASE PacketType(p) = "SNIN" -> "credentials"
                [] PacketType(p) = "SNUP" -> "exists"
                [] OTHER -> "recv"

-----------------------------------------------------------------------------
(* The loop of main: recv and the checks of verifyHeader that are local *)

Receive(s) ==
    /\ pc[s] = "recv"
    /\ \E r \in Requests, p \in Packets(KnownSids) :
        /\ asked[r] = None
        /\ asked' = [asked EXCEPT ![r] = [server |-> s, at |-> nextSession, type |-> p.type,
              name |-> p.name, pass |-> p.pass, sid |-> p.sid, intact |-> p.intact]]
        /\ req' = [req EXCEPT ![s] = r]
        /\ \/ ~p.intact /\ Finish(s, FALSE, "bad_packet", p.sid)
           \/ p.intact /\ p.sid > 0 /\ Goto(s, "session")
           \/ p.intact /\ p.sid = 0 /\ Goto(s, Handler(p))
    /\ UNCHANGED <<tables, uid, connected, answer, bounds>>

\* sessionExists: the SELECT raises when it names a column the table lacks;
\* when it does not, COUNT yields its one row whatever the session ID.
SessionExists(s) ==
    /\ pc[s] = "session"
    /\ Returns(s)
    /\ IF "id" \in SessionsColumns
       THEN Goto(s, Handler(Packet(s)))
       ELSE Fail(s, "bad_packet")
    /\ UNCHANGED <<tables, req, uid, wire, stops>>

-----------------------------------------------------------------------------
(* resolveSignIn and resolveSignUp up to createSession *)

IsValidSignInAttempt(s) ==
    /\ pc[s] = "credentials"
    /\ Returns(s)
    /\ IF Recognized(Packet(s)) THEN Succeed(s, "welcome") ELSE Fail(s, "not_recognized")
    /\ UNCHANGED <<tables, req, uid, wire, stops>>

UserExists(s) ==
    /\ pc[s] = "exists"
    /\ Returns(s)
    /\ IF Taken(Packet(s).name) THEN Fail(s, "taken") ELSE Goto(s, "create")
    /\ UNCHANGED <<tables, req, uid, wire, stops>>

InsertUser(s) ==
    /\ users' = users \cup {[id |-> nextUser, name |-> Packet(s).name,
                             pass |-> Packet(s).pass, by |-> req[s]]}
    /\ nextUser' = nextUser + 1

CreateUser(s) ==
    /\ pc[s] = "create"
    /\ Returns(s)
    /\ InsertUser(s)
    /\ Succeed(s, "created")
    /\ UNCHANGED <<sessions, nextSession, issued, req, uid, wire, stops>>

-----------------------------------------------------------------------------
(* createSession *)

\* Defect: the first of several rows is taken.
LookupFirstUser(s) ==
    /\ pc[s] = "lookup"
    /\ Returns(s)
    /\ \/ \E u \in SelectUser(Packet(s).name) : /\ uid' = [uid EXCEPT ![s] = u.id]
                                              /\ Goto(s, "delete")
       \/ /\ SelectUser(Packet(s).name) = {}
          /\ Fail(s, "no_session") /\ UNCHANGED uid
    /\ UNCHANGED <<tables, req, wire, stops>>

\* Defect: a session the account already has is handed out again.
LookupUserReuses(s) ==
    /\ pc[s] = "lookup"
    /\ Returns(s)
    /\ \/ \E u \in users : /\ SelectUser(Packet(s).name) = {u}
                           /\ uid' = [uid EXCEPT ![s] = u.id]
                           /\ Goto(s, IF SelectSessions(u.id) = {} THEN "delete" ELSE "read")
       \/ /\ \A u \in users : SelectUser(Packet(s).name) # {u}
          /\ Fail(s, "no_session") /\ UNCHANGED uid
    /\ UNCHANGED <<tables, req, wire, stops>>

LookupUser(s) ==
    /\ pc[s] = "lookup"
    /\ Returns(s)
    /\ \/ \E u \in users : /\ SelectUser(Packet(s).name) = {u}
                           /\ uid' = [uid EXCEPT ![s] = u.id]
                           /\ Goto(s, "delete")
       \/ /\ \A u \in users : SelectUser(Packet(s).name) # {u}
          /\ Fail(s, "no_session") /\ UNCHANGED uid
    /\ UNCHANGED <<tables, req, wire, stops>>

\* Defect: the DELETE names the wrong column.
RemoveSessionsById(s) == sessions' = {row \in sessions : row.id # uid[s]}

RemoveSessions(s) == sessions' = sessions \ SelectSessions(uid[s])

DeleteSessions(s) ==
    /\ pc[s] = "delete"
    /\ Returns(s)
    /\ RemoveSessions(s)
    /\ Goto(s, "insert")
    /\ UNCHANGED <<users, nextUser, nextSession, issued, req, uid, wire, stops>>

AddSession(s) ==
    LET row == [id |-> nextSession, user |-> uid[s], by |-> req[s]] IN
    /\ sessions' = sessions \cup {row}
    /\ issued' = issued \cup {row}
    /\ nextSession' = nextSession + 1

InsertSession(s) ==
    /\ pc[s] = "insert"
    /\ Returns(s)
    /\ AddSession(s)
    /\ Goto(s, "read")
    /\ UNCHANGED <<users, nextUser, req, uid, wire, stops>>

ReadSession(s) ==
    /\ pc[s] = "read"
    /\ Returns(s)
    /\ \/ \E row \in sessions : /\ SelectSessions(uid[s]) = {row}
                                /\ Finish(s, TRUE, "welcome", row.id)
       \/ /\ \A row \in sessions : SelectSessions(uid[s]) # {row}
          /\ Fail(s, "no_session")
    /\ UNCHANGED <<tables, req, uid, wire, stops>>

-----------------------------------------------------------------------------
(* The exception handlers of the DAOs *)

\* Defect: a sign-in whose check raises returns without an answer.
CheckRaisesSilently(s) ==
    /\ Raises(s)
    /\ \/ pc[s] = "session" /\ Fail(s, "bad_packet")
       \/ pc[s] = "credentials" /\ Goto(s, "recv")
       \/ pc[s] = "exists" /\ Goto(s, "create")
    /\ UNCHANGED <<tables, req, uid, wire, stops>>

CheckRaises(s) ==
    /\ Raises(s)
    /\ \/ pc[s] = "session" /\ Fail(s, "bad_packet")
       \/ pc[s] = "credentials" /\ Fail(s, "not_recognized")
       \/ pc[s] = "exists" /\ Goto(s, "create")
    /\ UNCHANGED <<tables, req, uid, wire, stops>>

\* Defect: a statement behind the INSERT is in its try block, and raises.
CreateUserRaisesLater(s) ==
    /\ pc[s] = "create"
    /\ Raises(s)
    /\ connected[s] /\ InsertUser(s)
    /\ Fail(s, "not_created")
    /\ UNCHANGED <<sessions, nextSession, issued, req, uid, wire, stops>>

CreateUserRaises(s) ==
    /\ pc[s] = "create"
    /\ Raises(s)
    /\ \/ LostAfter(s) /\ InsertUser(s)
       \/ UNCHANGED <<users, nextUser>>
    /\ Fail(s, "not_created")
    /\ UNCHANGED <<sessions, nextSession, issued, req, uid, wire, stops>>

CreateSessionRaises(s) ==
    /\ pc[s] \in {"lookup", "delete", "insert", "read"}
    /\ Raises(s)
    /\ \/ pc[s] = "delete" /\ LostAfter(s) /\ RemoveSessions(s) /\ UNCHANGED <<issued, nextSession>>
       \/ pc[s] = "insert" /\ LostAfter(s) /\ AddSession(s)
       \/ UNCHANGED <<sessions, issued, nextSession>>
    /\ Fail(s, "no_session")
    /\ UNCHANGED <<users, nextUser, req, uid, wire, stops>>

-----------------------------------------------------------------------------
(* The answer, and the end and the start of a process *)

SendResult(s) ==
    /\ pc[s] = "reply"
    /\ answer' = [answer EXCEPT ![req[s]] =
          [success |-> result[s].success, msg |-> result[s].msg, sid |-> result[s].sid,
           verifies |-> CrcSpan(Packet(s), result[s].msg) = Sent]]
    /\ pc' = [pc EXCEPT ![s] = "recv"]
    /\ result' = [result EXCEPT ![s] = None]
    /\ req' = [req EXCEPT ![s] = None]
    /\ UNCHANGED <<tables, uid, connected, asked, bounds>>

\* The process is killed, or recv returns 0 because the load balancer is gone.
Stop(s) ==
    /\ pc[s] # "down" /\ stops < MaxStops
    /\ stops' = stops + 1
    /\ pc' = [pc EXCEPT ![s] = "down"]
    /\ req' = [req EXCEPT ![s] = None]
    /\ result' = [result EXCEPT ![s] = None]
    /\ UNCHANGED <<tables, uid, connected, wire, faults>>

Start(s) ==
    /\ pc[s] = "down"
    /\ pc' = [pc EXCEPT ![s] = "recv"]
    /\ connected' = [connected EXCEPT ![s] = TRUE]
    /\ uid' = [uid EXCEPT ![s] = 0]
    /\ UNCHANGED <<tables, req, result, wire, bounds>>

\* select times out: nothing is left to receive.
Idle ==
    /\ \A s \in Servers : pc[s] = "recv"
    /\ \A r \in Requests : asked[r] # None
    /\ UNCHANGED vars

-----------------------------------------------------------------------------
\* A server that has a packet goes on by itself.
Work(s) ==
    \/ SessionExists(s) \/ IsValidSignInAttempt(s)
    \/ UserExists(s) \/ CreateUser(s)
    \/ LookupUser(s) \/ DeleteSessions(s) \/ InsertSession(s) \/ ReadSession(s)
    \/ CheckRaises(s) \/ CreateUserRaises(s) \/ CreateSessionRaises(s)
    \/ SendResult(s)

Next == \/ \E s \in Servers : Receive(s) \/ Work(s) \/ Stop(s) \/ Start(s)
        \/ Idle

Spec == Init /\ [][Next]_vars
FairSpec == Spec /\ \A s \in Servers : WF_vars(Work(s))
-----------------------------------------------------------------------------
(* What clients rely on *)

Answered(r) == answer[r] # None
SignedIn(r) == Answered(r) /\ answer[r].success /\ asked[r].sid = 0
Server(r) == asked[r].server

\* The type of every variable, and that a server at a statement holds a packet.
TypeOK ==
    /\ users \subseteq UserRows /\ sessions \subseteq SessionRows /\ issued \subseteq SessionRows
    /\ nextUser \in Nat \ {0} /\ nextSession \in Nat \ {0}
    /\ pc \in [Servers -> Labels]
    /\ req \in [Servers -> Requests \cup {None}]
    /\ uid \in [Servers -> Nat]
    /\ result \in [Servers -> Results \cup {None}]
    /\ connected \in [Servers -> BOOLEAN]
    /\ asked \in [Requests -> Asked \cup {None}]
    /\ answer \in [Requests -> Answers \cup {None}]
    /\ faults \in 0 .. MaxFaults /\ stops \in 0 .. MaxStops
    /\ \A s \in Servers : pc[s] \in Busy => req[s] \in Requests /\ Packet(s) # None
    /\ \A s \in Servers : pc[s] = "reply" => result[s] # None

\* The accounts a session ID was ever issued to.
Holders(sid) == {u \in users : \E row \in issued : row.id = sid /\ row.user = u.id}

\* A client that is signed in holds a session of exactly one account, the one
\* whose username and password it gave: although createSession looks the account
\* up again, by name alone and under the collation of the database, and two
\* servers may be replacing each other's sessions between its four statements.
SessionBelongsToCaller ==
    \A r \in Requests : SignedIn(r) =>
        \E u \in users : Holders(answer[r].sid) = {u} /\ Matches(u, asked[r])

\* The session of an answer was opened after the request arrived: one that was
\* replaced is never handed out again, so a client that signs in twice does not
\* share a session with its earlier self.
SessionIsFresh ==
    \A r \in Requests : SignedIn(r) => answer[r].sid >= asked[r].at

\* createSession deletes the account's sessions before it inserts one, so an
\* account has at most one live session per server, whatever the interleaving,
\* lost connections and processes that stop half way.
SessionsBoundedByServers ==
    \A a, b \in sessions : a.user = b.user /\ a # b => Server(a.by) # Server(b.by)

\* As long as no statement raised, a username has at most one account per
\* server: check and insert are two statements, and only another server can
\* come between them.
AccountsBoundedByServers ==
    faults = 0 => \A a, b \in users : a.name = b.name /\ a # b => Server(a.by) # Server(b.by)

\* The account that a request created.
Own(r) == \E u \in users : u.by = r /\ Matches(u, asked[r])

\* What a sign-up is told about its account: a client that is let in, or told that
\* only its session failed, has an account of its own; one told that the name is
\* taken, or its packet bad, has none; and no request creates two.  "Failed to create
\* a new account" is not always true: the account exists when the INSERT committed as
\* the connection was lost, and only then, so the server that says it has lost its
\* database session.
SignUpAnswersTrue ==
    /\ \A a, b \in users : a.by = b.by => a = b
    /\ \A r \in Requests : Answered(r) /\ asked[r].type = "SNUP" /\ asked[r].sid = 0 =>
        /\ answer[r].success \/ answer[r].msg = "no_session" => Own(r)
        /\ answer[r].msg \in {"taken", "bad_packet"} => ~Own(r)
        /\ answer[r].msg = "taken" => \E u \in users : u.name = asked[r].name /\ u.by # r
    /\ \A s \in Servers : pc[s] = "reply" /\ result[s].msg = "not_created" /\ Own(req[s]) =>
        ~connected[s]

\* A recognized request whose server stays up is answered, on every way through its
\* handler: statements that raise and a database session that is lost included.
RequestsAnswered ==
    \A s \in Servers, r \in Requests :
        req[s] = r /\ pc[s] \in Busy ~> Answered(r) \/ pc[s] = "down"

\* RequestHandler.cpp:60, "generate new session ID": no two requests of one server
\* are signed in with one session, also when another server replaces the session
\* in between.  Requests of two servers can be: of two that sign in one user at
\* once, the second deletes the session of the first, inserts its own, and both
\* read that one.
SessionIDsNew ==
    \A q, r \in Requests :
        SignedIn(q) /\ SignedIn(r) /\ answer[q].sid = answer[r].sid /\ q # r =>
            Server(q) # Server(r)

-----------------------------------------------------------------------------
(* What the repository says of the program, and the code does not do *)

\* RequestHandler.cpp:111, "user does not exist and new user was created": no two
\* accounts ever have one username.  Two servers that check before either inserts
\* create both, and createSession then refuses both for ever.
UsernamesUnique == \A a, b \in users : a.name = b.name => a = b

\* interface design document.txt:18, the result tells the client "whether their
\* request was fulfilled": a sign-up that is answered with a failure created no
\* account.  One that differs from another username only in case is created, found
\* twice by createSession, and reported as failed.
FailedSignUpsCreateNothing ==
    \A r \in Requests, u \in users : Answered(r) /\ u.by = r => answer[r].success

-----------------------------------------------------------------------------
(* The abstract service the servers implement *)

AccountsNamed(n) == {u \in users : u.name = n}
SessionsOf(n) == {row \in sessions : \E u \in AccountsNamed(n) : u.id = row.user}

Service == INSTANCE AccountService WITH
    asks <- [r \in Requests |-> IF asked[r] = None THEN None ELSE asked[r].name],
    owner <- [n \in Names |-> IF Taken(n) THEN (CHOOSE u \in AccountsNamed(n) : TRUE).by ELSE None],
    current <- [n \in Names |-> IF SessionsOf(n) = {} THEN 0
                                ELSE (CHOOSE row \in SessionsOf(n) : TRUE).id],
    last <- nextSession - 1,
    reply <- [r \in Requests |-> IF answer[r] = None THEN None
                                 ELSE IF answer[r].success THEN answer[r].sid ELSE 0],
    failed <- faults > 0

\* One server implements the service, also when it stops half way through a
\* request and is started again: the session it answers with is the one that is
\* current, and no username changes hands, until a statement raises.
ImplementsService == Service!Spec
=============================================================================
