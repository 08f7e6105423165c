------------------------------ MODULE TheSystem ------------------------------
(***************************************************************************)
(* Clients, servers and their database together.  The load balancer and    *)
(* the network between them are what a client sees of them: a request      *)
(* reaches some server, once, often or never, and an answer likewise goes  *)
(* to the client whose address it carries.                                 *)
(***************************************************************************)
EXTENDS AccountServer, Sequences

CONSTANTS Clients, MaxMishaps

ASSUME MishapsAssumption == MaxMishaps \in Nat

VARIABLES sessionID, backStack, label, events, sent, arrived, mishaps

client == <<sessionID, backStack, label, events, sent, arrived, mishaps>>
system == <<vars, client>>

Client == INSTANCE DesktopClient

SystemInit == Init /\ Client!Init

\* What a server receives is what a client sent; mangled when it ran together
\* with another packet.
Sends(r) ==
    /\ sent[r] # None
    /\ asked'[r].type = sent[r].type /\ asked'[r].name = sent[r].name
    /\ asked'[r].pass = sent[r].pass /\ asked'[r].sid = sent[r].sid
    /\ Client!Mishap(IF asked'[r].intact THEN 0 ELSE 1)

Deliver(s) ==
    /\ pc[s] = "recv" /\ \E r \in Requests : sent[r] # None /\ asked[r] = None
    /\ Receive(s)
    /\ \A r \in Requests : asked'[r] # asked[r] => Sends(r)
    /\ UNCHANGED <<sessionID, backStack, label, events, sent, arrived>>

Serve(s) == (Work(s) \/ Stop(s) \/ Start(s)) /\ UNCHANGED client

Use == Client!Next /\ UNCHANGED <<tables, pc, req, uid, result, connected, asked, bounds>>

\* Every select times out.
Wait ==
    /\ \A s \in Servers : pc[s] = "recv"
    /\ \A c \in Clients : events[c] = <<>>
    /\ UNCHANGED system

SystemNext == \/ \E s \in Servers : Deliver(s) \/ Serve(s)
              \/ Use \/ Wait

System == SystemInit /\ [][SystemNext]_system

-----------------------------------------------------------------------------
(* What a user relies on *)

\* The types of the clients' variables, and that a queued slot is one of a page
\* that is connected.
ClientTypeOK ==
    /\ sessionID \in [Clients -> Nat]
    /\ backStack \in [Clients -> Seq(Client!PageNames)]
    /\ label \in [Clients -> [Client!Listeners -> Messages \cup {""}]]
    /\ events \in [Clients -> Seq([at : SUBSET Nat, success : BOOLEAN, message : Messages])]
    /\ sent \in [Requests -> Client!Datagrams \cup {None}]
    /\ arrived \subseteq Requests /\ mishaps \in 0 .. MaxMishaps
    /\ \A c \in Clients : \A i \in 1 .. Len(events[c]) : events[c][i].at \subseteq Client!Connected(c)

AtHome(c) == \E i \in 1 .. Len(backStack[c]) : backStack[c][i] = "HOME"

\* Whoever is at the home page holds a session of the one account whose username
\* and password were typed at this very client, although two threads of the
\* client handle the answer, one after the other, and answers of its earlier
\* requests may come late, twice, or not at all.
HomeHoldsOwnSession ==
    \A c \in Clients : AtHome(c) =>
        \E r \in Requests : /\ sent[r] # None /\ sent[r].client = c
                            /\ Answered(r) /\ answer[r].success
                            /\ answer[r].sid = sessionID[c]
                            /\ \E u \in users : /\ Holders(sessionID[c]) = {u}
                                                /\ Matches(u, sent[r])

\* A client is signed out by a sign-in to its own account only: the session it
\* holds stays in the table until a newer one of that account takes its place, as
\* long as no server stops or fails between the two statements that do it.
Replaced(row) ==
    \/ \E newer \in issued : newer.user = row.user /\ newer.id > row.id
    \/ \E s \in Servers : pc[s] = "insert" /\ uid[s] = row.user
SignedOutByReplacement ==
    stops = 0 /\ faults = 0 => \A c \in Clients, row \in issued :
        row.id = sessionID[c] => row \in sessions \/ Replaced(row)

\* The sign-in page comes first, the sign-up page once at most and before any
\* home page: late results never put a form above the home page or leave a
\* client with two pages of one kind that both listen.
PagesInOrder ==
    \A c \in Clients :
        /\ backStack[c][1] = "SIGN_IN"
        /\ \A i \in 2 .. Len(backStack[c]) :
              backStack[c][i] = "HOME" \/ (i = 2 /\ backStack[c][i] = "SIGN_UP")

-----------------------------------------------------------------------------
(* What the repository says of the program, and the code does not do *)

\* interface design document.txt:18, a result is sent "to notify the client whether
\* their request was fulfilled": a page shows an error only when a request of its
\* client was refused.  The answer to a sign-up never verifies at the client, so
\* the page of an account that was created and signed in shows an error.
ErrorsAreTrue ==
    \A c \in Clients, page \in Client!Listeners : label[c][page] = Client!BadPacket =>
        \E r \in Requests : /\ sent[r] # None /\ sent[r].client = c
                            /\ Answered(r) /\ ~answer[r].success
=============================================================================
