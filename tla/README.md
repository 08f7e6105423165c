# The System: formal verification

TLA+ modules, TLC configurations and TLAPS proofs for The System: a desktop
client, a load balancer, and servers that share a MySQL database.  The modules
are translated from the C++ and SQL sources; `PROJECT.json` gives, under "map",
the lines every definition stands for, and under "hazards" the places that are
hard to test and the properties that watch them.

## 1. Inventory

    client --UDP:request--> load balancer --TCP--> server --SQL--> database
    client <--UDP:result--- load balancer <--TCP-- server

One request of a client is one datagram.  The load balancer writes it to the
TCP connection with the fewest active requests.  A server takes it off the
stream, executes it, and writes one result packet back; the load balancer reads
the IP address out of that packet and sends it there.  Nothing is retried, and
nothing carries a request number.

| Component | State | Operations | Correct when | Modelled by |
|---|---|---|---|---|
| Server loop, `TheSystemServer.cpp`, `RequestHandler.cpp` | the packet in `buff`, the header that is turned into the answer | recv, `verifyHeader`, `resolveSignIn`, `resolveSignUp`, send | every recognized request has one answer; what it says of the account is true; it goes to the caller alone | `AccountServer` |
| `UsersDAO`, `SessionsDAO`, `DatabaseManager` | one database session; the locals of `createSession` | `userExists`, `isValidSignInAttempt`, `createUser`, `sessionExists`, `createSession` | a session belongs to the account that signed in, an account has few sessions, a username one account | `AccountServer` |
| Schema, `the_system_dump.sql` | tables `users`, `sessions`, two AUTO_INCREMENT counters | each statement commits by itself | the keys the code relies on exist | `AccountServer` |
| Load balancer, `TheSystemLoadBalancer.cpp` | `serverSockets`, `maxFD`, `readSet` | select, accept, relay a request, relay the replies, drop lost servers | every open socket is watched; requests go to the least loaded server and stay in one place; lost servers are forgotten | `LoadBalancer` |
| `ServerConnection` | `sock`, `activeRequests` | `sendPacket`, `recvPacket`, `invalidateSocket` | the count is never below the load | `LoadBalancer` |
| Wire format, `PacketFormat.cpp`, and its copy in the client | none | pack and unpack, checksum | what is packed is what is unpacked; only whole packets are acted upon; the checksum covers what is sent | `Packets`, and in `AccountServer` what answers need of it |
| Client `PacketManager` | `sessionID`, the socket | receiving thread, `verifyHeader`, two senders | only verified answers act on the pages; the session is the client's own | `DesktopClient` |
| Client pages and `PageNavigator` | `backStack`, the stack of widgets, the connected slots | `navigate`, `navigateBackTo`, slots on `receivedResult` | pages open in order; an error that is shown is one | `DesktopClient` |
| Start and end of the processes, `main`, `loadAddresses`, `signalHandler`, `cleanup` | `isRunning`, `LOAD_BALANCER_IP`, the sockets, the database session | start-up in steps that may fail, SIGINT, end, loss of the peer | who is told to end ends; a server finds and follows its balancer; who connects is accepted | `Processes` |
| Socket wrappers | the flag of WSAStartup | system calls | | where they are used |

### How they interact

* Client and balancer share UDP ports and no connection: a datagram may be
  lost, repeated, or overtaken.
* Balancer and server share a TCP stream in each direction.  A stream has no
  packet boundaries, and neither side restores them: one `recv` is taken for one
  packet (`TheSystemServer.cpp:207` asks the question in a TODO).
* Servers never talk to each other.  They meet in the database, where each
  statement is its own transaction.
* In the client, the receiving thread emits `receivedResult`, which the GUI
  thread delivers later to every page that is still connected.

### What is hard

* **Interleaving.**  Check and insert of a username are two statements, and
  `createSession` is four; any number of servers interleave them.
* **Partial failure.**  Each DAO catches its own exceptions and answers as if the
  table were empty; a connection may go after its statement has committed.
* **Crashes.**  A server may stop between any two statements.  The balancer may
  hold requests for a peer that is gone.
* **Streams.**  Packets are merged and split, and the balancer's count of active
  requests is kept per recv.
* **Descriptors.**  They are reused as soon as they are closed, while `maxFD`
  follows the order of the list.
* **Blocking.**  Both ends send with blocking sockets and no reader of their own.
* **Bytes.**  Texts are copied by length, not by end; the type of a packet has no
  end at all; a size of -1 is a size.
* **Start and end.**  Servers connect while the balancer still starts; SIGINT may
  come at any point, and only the top of a loop looks at it.
* **Progress.**  Nobody has a timeout: a request without an answer leaves the
  page waiting.  Requests are served before replies.

## 2. Modules

| Module | Lines of code it stands for | Depends on |
|---|---|---|
| `AccountServer` | server loop, `RequestHandler`, DAOs, schema | |
| `AccountService` | what the server layer promises, with no servers and tables | |
| `AccountServerMC` | constants and symmetry for TLC | `AccountServer` |
| `AccountServerProofs` | theorems about sessions | `AccountServer` |
| `SignUpProofs` | theorems about accounts, sign-ups, the sessions of one server, and the proof that a single one implements `AccountService` | `AccountServerProofs` |
| `Relay` | what the load balancer promises, with no sockets and streams | |
| `LoadBalancer` | select loop, `ServerConnection`; TCP and servers as its environment | `Relay` (INSTANCE) |
| `LoadBalancerMC` | constants and symmetry for TLC | `LoadBalancer` |
| `LoadBalancerProofs` | theorems about the list, its descriptors and its counts | `LoadBalancer` |
| `RelayProofs` | the proof that the balancer implements `Relay` | `LoadBalancerProofs` |
| `Processes` | start-up, signal handlers, end and loss of the peer, of balancer and servers | |
| `ProcessesMC` | constants for TLC | `Processes` |
| `ProcessesProofs` | theorems about connections and addresses | `Processes`, `Numbers` |
| `Packets` | `PacketFormat`, `verifyHeader`, and the client's packing and reading | |
| `PacketsMC` | constants for TLC | `Packets` |
| `PacketsProofs` | theorems about the bytes | `Packets`, `Numbers` |
| `Numbers` | lemmas about naturals: least elements, division, rows | |
| `DesktopClient` | pages, `PageNavigator`, `PacketManager`; the network as its environment | |
| `TheSystem` | clients and servers composed | `AccountServer`, `DesktopClient` |
| `TheSystemMC` | constants and symmetry for TLC | `TheSystem` |
| `TheSystemProofs` | theorems about the whole system | `TheSystem`, `SignUpProofs` |

### AccountServer

A server is a thread with a label `pc[s]`.  The label names the statement, or
the call, that it executes next, and an action is that statement with all the
local computation up to the next one:

| Label | Action | Code |
|---|---|---|
| `recv` | `Receive`: the recv, the checksum, and the dispatch of what needs no statement | `TheSystemServer.cpp:189-228` |
| `session` | `SessionExists` | `SessionsDAO.cpp:15` |
| `credentials` | `IsValidSignInAttempt` | `UsersDAO.cpp:24`, `RequestHandler.cpp:57` |
| `exists`, `create` | `UserExists`, `CreateUser` | `RequestHandler.cpp:106-128` |
| `lookup`, `delete`, `insert`, `read` | `LookupUser`, `DeleteSessions`, `InsertSession`, `ReadSession` | `SessionsDAO.cpp:27-75` |
| `reply` | `SendResult` | `RequestHandler.cpp:129-141` |
| `down` | `Stop`, `Start` | end and start of the process |

A statement **returns** or **raises**.  `CheckRaises`, `CreateUserRaises` and
`CreateSessionRaises` are the three ways the DAOs treat an exception.  After one
the database session is either still usable or lost for good: the program never
reconnects.  A statement that changes a table may commit and still raise.

State to code: `users` and `sessions` are the tables, `nextUser` and
`nextSession` their AUTO_INCREMENT counters, `req[s]` the packet in `buff`,
`uid[s]` the local `userID`, `result[s]` the answer being built, `connected[s]`
the database session.  `asked` and `answer` are the packet that was received and
the one that was sent for each request.  Ghosts: the field `by` of a row is the
request whose statement inserted it, `issued` is every row that was ever in
`sessions`, and `asked[r].at` is the value of `nextSession` when the request
arrived.  No action reads a ghost.

Abstractions: names and passwords are model values.  `Fold` is the collation
utf8mb4_0900_ai_ci: names that it maps together are equal for a WHERE clause and
different for `==`.  Wording is reduced to `Messages`.  A packet is intact or
not; merged and split packets are not intact.  `PacketType` is the comparison of
the unterminated `packetType[4]`, which reads on into the session ID behind it.
`verifies` records whether the checksum of the answer covers the bytes that are
sent; the client will need it.

### AccountService

The abstract specification: a username has one owner for ever, one session at
most is current under it, and a client is let in only with the session that is
current under the name it gave.  `ImplementsService` is the refinement: `owner`
is the request whose row in `users` has the name, `current` the row of that
account in `sessions`, `last` is `nextSession - 1`, `failed` is that a statement has
raised.  After that the service promises nothing any more (`Next` is true with
`failed'`): when the check of a name raises, the program goes on as if the name were
free.  A single server implements the service, also when it stops half way through a
request; two servers do not, and the violation runs show how.

### LoadBalancer

One thread with a label: `select`, then one of `accept`, `client`, `servers`,
as the chain of `else if` has it.  `client` is recvfrom and `min_element`;
`send` is `sendPacket`.  `servers` is the loop over `serverSockets`, one position
(`next`) an action: `SkipServer`, `ReceiveReply`, or `LoseServer` with the
recomputation of `maxFD`; at its end `EraseClosed` is `remove_if` and `erase`.  Servers act
between any two of these.

A packet is `Parts` cells of a stream.  A recv returns any non-empty prefix of
what waits, so packets merge, and are split when `Parts` is over 1.  `Window` is
the number of cells that fit into the buffers of one direction.  `Posix` chooses
between the two platforms of the code: on POSIX select looks at descriptors up
to nfds only, accept returns the lowest free one, and a send to a peer that
refuses data raises SIGPIPE; on Windows nfds is ignored and a handle is any
value.  There `std::max` with INVALID_SOCKET, which is the largest value, makes
`maxFD` that value when a lost connection is a neighbour; nothing depends on it,
and the model has -1 on both platforms.

The environment (mapped as external where it is TCP): clients send, servers
connect, take packets off the stream, answer or do not, and die.  A server that
dies with unread data resets the connection; otherwise the balancer learns of it
after its first send, which is accepted and lost.

### Relay

The abstract specification: a request is handed to one server at most, answers of
a server come back in the order in which its requests were handed to it, each
goes to the client that asked, at most once; anything may be lost, of one
connection at a time a run of neighbours (`Lose`).  Under
`ImplementsRelay`, `pending` is what is not sent yet, in the client socket, or in
`buff`; `queue[c]` is the answers on their way back, the one in the server's hands,
and the requests on their way to it; `delivered` is what was sent to a client.  The
balancer itself keeps none of this: it has a count for each connection and an
address in each answer.  The refinement is for whole packets (`Parts` is 1);
`Packets` says what becomes of parts.

### Processes

The balancer is at `off`, `client socket` (it listens, and has no socket for the
clients yet), or in its loop: `check` reads `isRunning`, `select`, `send`.  A server
is at `off`, `connect` (its start-up is done), in its loop, or at one of its ends:
`returned`, `killed`, `crashed`.  The steps of a start-up that nobody else can see
are one action, which succeeds or fails (`LaunchBalancer`, `StartServer`); `Fails`
counts against `MaxFailures`.  `cleanup` of a server before it has a session goes
through a null pointer, so such a start-up may end in `killed`.

`svEnd` and `lbEnd` are the two ends of a connection, `ended` what the server's
kernel saw of the balancer's end: `fin`; `reset`, when something was left unread
or the connection was never accepted; `either`, after a send to a peer that is
gone.  A recv then returns 0 (`LoseBalancer`) or fails (`FailToReceive`).  The relay
itself is reduced to a number of packets in each direction; one recv of the balancer
takes any part of what has arrived, since it reads a buffer at most.  The database
session has no variable: a server that loses it goes on, and what its requests are
then told is in `AccountServer` (`Raises`, `connected`).  Sockets are those of Windows,
the platform for which the server builds: `sockets.h:29` has a `strncpy_s` for POSIX
and there is a makefile, but neither use of `localtime` for other platforms
(`SessionsDAO.cpp:48-52`) compiles.

`file` is `addresses.csv` as a sequence of lines.  `ListenAddress` and
`ConnectAddress` are what the two `loadAddresses` make of it: the server's also
stops at the line `server`, and stores that address for the balancer's.

### Packets

A packet is its checksum and its body, a sequence of bytes.  A checksum is the
bytes it was computed of, so `Verifies` is equality with what was read; collisions
are left out.  `Field` is the memcpy of a fixed length from a text, `Text` a C
string that ends at the first zero, `At` a zero-filled buffer, `Word` and `WordOf`
htonl and ntohl.  `Payload` is one field after the other, `Request` the packet that a
client makes of a form.  The four letters of a type are one byte.  `TypeText` is
`packetType` read as a C string: on into the session ID, low byte first.

`Takes` is what one recv makes of a TCP stream: a packet, a part of one, or two in
one; after a part, the next recv starts in the middle.  Three packets in one, or a
packet and a part, are left out: like two, they do not verify, and their header is
that of the first.  A typed text may fill its field: it has no end then, and `TextsOf`
reads on into the next text, or behind the last one into memory, a byte of which is
`Junk`.  Between client and
balancer, datagrams are lost, repeated and overtaken.  `SessionExists` is false, as
in `AccountServer`: the SELECT names a column that the table lacks.  What the
database answers is arbitrary.

Ghosts: `executed` is what the handlers were called with, `packed` what
`packResultPacket` was, `shown` what was emitted last.

### DesktopClient

Two threads of each client.  The GUI thread clicks (`ClickSignIn`, `ClickSignUp`,
`ClickFinish`, only on the page that is on top) and executes queued signals
(`ReceivedResult`).  The receiving thread takes a datagram, verifies it, adopts
the first session ID it sees, and emits `receivedResult` (`Receive`).  The signal
crosses threads, so Qt queues one slot for each page that is connected when it is
emitted (`Queue`, `Connected`); pages stay connected behind the page on top.  An
event is the result and the positions in `backStack` of the pages whose slots are
still to be executed, lowest first, which is the order of connection (`Executed`).

`sent[r]` is the datagram of request r.  `answer` belongs to the servers.  A
datagram is lost when nobody takes it, and overtaken when a later one is taken
first; repeats and mangled datagrams count against `MaxMishaps`.  `backStack` is
also the stack of widgets: `changedPage` pushes the same page on it, and nothing
calls `navigateBackTo`.  `label` is the last result that each page shows; errors
the form finds by itself are the empty text.

### TheSystem

The actions of both modules on their own variables.  `Deliver` is the `Receive` of
a server for a packet that a client sent.  The load balancer is what a client
sees of it: some server gets the request.  That this is all it does to a request
is what `ImplementsRelay` says of `LoadBalancer`; that two packets may run together
is the mishap that mangles, and `Packets` has the bytes of it.

## 3. Runs

### Runs that pass

| Run | Instance | States | What it shows |
|---|---|---|---|
| `accounts_two_servers` | 2 servers, 3 requests, names Bob and bob, 1 password, 1 fault, 1 stop, symmetry | 1.5 million | `TypeOK`, `SessionBelongsToCaller`, `SessionIsFresh`, `SessionsBoundedByServers`, `AccountsBoundedByServers`, `SignUpAnswersTrue`, `SessionIDsNew` |
| `accounts_one_server` | 1 server, 3 requests, 2 names, 1 fault, 1 stop | 0.75 million | `ImplementsService`, `RequestsAnswered` |
| `balancer_posix` | 3 connections on 3 descriptors, 3 requests, whole packets, POSIX, symmetry | 0.15 million | `TypeOK`, `SocketsSound`, `ClientsWatched`, `WatchedUntilLoss`, `NeverUndercounts`, `ImplementsRelay` |
| `balancer_progress` | 2 connections, 2 requests, packets of two cells, windows of three, Windows | 0.4 million | `RequestsTaken`, `RepliesRelayed`, `LostServersForgotten`, `SendReturns` |
| `processes` | 2 servers, 2 launches of the balancer, 1 failing step, 4 requests, windows of 2 packets, 2 orders of the file | 0.3 million | `TypeOK`, `ListenerFound`, `ProcessesEnd`, `ServersAccepted` |
| `wire_format` | 2 clients, 2 requests, 2 deliveries, 1 cut; bytes 0 to 3, words of 2, fields of 2 | 0.26 million | `TypeOK`, `ExecutedAsTyped`, `ReadsAnswered`, `ShownWasPacked` |
| `system_clients` | 2 clients, 1 server, 3 requests, names Bob and Eve, 1 mishap of the network, symmetry | 0.6 million | `ClientTypeOK`, `HomeHoldsOwnSession`, `SignedOutByReplacement`, `PagesInOrder` |

In words: `SessionBelongsToCaller`, who is signed in holds a session of the one
account whose credentials it gave; `SessionIsFresh`, a replaced session is never
handed out again; `SessionsBoundedByServers` and `AccountsBoundedByServers`, two
live sessions of an account, or two accounts of a name, come from different
servers; `SignUpAnswersTrue`, what a sign-up is told about its account is so, with
one exception that is part of the property: "Failed to create a new account" is said
of an account that exists when the INSERT committed as the connection was lost, and
the server that says so has lost its database session; `SessionIDsNew`, two requests
that are let in with one session were handled by two servers; `RequestsAnswered`, a
request whose server stays up is answered, by the handlers of exceptions too.
`SocketsSound`, no connection is listed twice, shares a descriptor, or is listed
after it was closed; `ClientsWatched` and `WatchedUntilLoss`, select sees requests
always, and every listed server until the first one is lost; `NeverUndercounts`, `activeRequests` is at
least the load while packets are whole; `ImplementsRelay`, no request goes to two
servers and no answer to another client; `SendReturns`, a send of the balancer
returns unless a server is in send to it; `RepliesRelayed`, every stream from a
server is read, and the reply at its head goes to its client, when recv returns a
part of it too.  The rest of that reply has no header and is dropped: a reply in
two parts reaches the client as a packet that fails its checksum.
`ListenerFound`, a server finds the balancer unless the file has the servers' line
first; `ProcessesEnd`, who is interrupted, or left behind by its balancer, ends;
`ServersAccepted`, who connects is accepted, during the balancer's start-up too.
`ExecutedAsTyped`, the server acts only upon whole forms that somebody filled in:
texts that fit arrive as typed, and a text that fills its field goes on with exactly
what the server takes for the next one, or with the memory behind the last; `ReadsAnswered`, whatever the server reads is
answered, which rests on the check of the session failing before the type is
compared; `ShownWasPacked`, what a client shows was packed for it, under its
session.
`HomeHoldsOwnSession` is `SessionBelongsToCaller` carried to the page the user
sees.

### Runs that find a disagreement

| Run | Property | What happens |
|---|---|---|
| `accounts_race` | `UsernamesUnique` | Two servers check a name, then both insert it.  The table has no unique key.  `createSession` then finds two rows and refuses both accounts for ever. |
| `accounts_case` | `FailedSignUpsCreateNothing` | bob signs up when Bob exists: the C++ comparison says it is new, the row is inserted, the lookup under the collation finds two, and the client is told it failed. |
| `balancer_unwatched` | `EveryServerWatched` | `maxFD` is the newest descriptor, not the largest: after a descriptor is reused, an open connection is not watched. |
| `processes_reset` | `LostBalancerNoticed` | The balancer ends with something unread, or before it accepts: the connection is reset, recv fails instead of returning 0, and the server computes a checksum over 4 GB of its stack. |
| `system_sign_up` | `ErrorsAreTrue` | The account is created, the client is signed in on the server, and its page shows an error: the checksum of the answer covers 284 bytes and 96 are sent. |

Three further disagreements follow from the models and have no run of their own.
Of two servers that sign one user in at once, one may insert its session, the other
delete it and insert its own, and both then read the one row that is left: two clients
share a session.  `SessionIDsNew` says that one server alone never does this.  `sessionExists` selects the column `id` where the table has
`session_id`, so a packet with any session ID is a bad packet.  On POSIX, two
requests that wait while a server dies end the balancer with SIGPIPE
(`SendFails` in `LoadBalancer`).

### Bounds, and why they are enough

* **Two servers** are the least that interleave, and the bounds the properties
  state are per server; the theorems lift the session properties to any number.
* **Three requests**: an account that exists, and two that compete for it or for
  its session; or two sign-ups and a sign-in.
* **Two names with one fold** give the case clash; a name that does not clash
  behaves like one that is never used.  **One password** leaves the check of the
  password to the theorem, and to a request whose name is not in the table.
* **One fault, one stop**: every exception handler and every point of a stop is
  reached, in both runs of `AccountServer`.  A lost database session fails every later statement for free.
* **Three connections on three descriptors**: the loss of the middle, the first
  and the last of the list, and reuse.  With one more request than the two that a
  SIGPIPE takes.
* Every action and every disjunct of the next-state relations is taken by some
  passing run.
* Two clients compete for the server and for one account; their requests are
  enough for a sign-up, a sign-in to the new account, and one that replaces it.
* **Windows**: three cells in `balancer_progress`, so that a part of one packet and a
  whole one wait together; two packets in `processes`, so that a recv leaves some.
* **In send to each other.**  Balancer and server block each other in send when the
  buffers of both directions are full, one more answer is being sent and one more
  request.  `SendingToEachOther` names this state, and the liveness properties of
  `balancer_progress` and `processes` have it as their only exception: they do not
  exclude it, since the code does not.  The bounds of the two runs do not reach it.
  The least instances that do, one connection with three requests and windows of
  two cells, and one server with six requests, pass as well (49050 and 8170 states).
* **Two launches** of the balancer: servers left behind by the first meet the
  second.  A server runs once.
* **Sizes of `Packets`**: fields of two bytes hold texts that are shorter, as long,
  and longer; words of two bytes have IDs with a zero low byte (4) and without
  (1).  A second cut only makes more parts that do not verify.
* Deadlock is checked except on POSIX runs of the balancer, which may be killed.

### Fairness

* `AccountServer`: weak fairness of `Work(s)`, the statements and the answer of
  one server.  The thread runs on by itself once it has a packet; a statement
  returns or raises.  `Receive`, `Stop` and `Start` are not fair: nobody has to
  send a packet, stop or start a process.
* `LoadBalancer`: weak fairness of `Balancer`, the one thread, and of receiving
  and sending by each server, which is the weak fairness of its loop.  Clients,
  connects and deaths are not fair.
* `Processes`: weak fairness of the balancer's and of each server's own steps.
  Launches, interrupts, kills and starts are not fair; nor is it assumed that a
  request ever comes.
* `RepliesRelayed` relies on a finite number of requests.  Requests are served
  before replies (`TheSystemLoadBalancer.cpp:196`), so an unending stream of them
  would starve every waiting client; no fairness that the code gives excludes it.

## 4. Proofs

TLAPS proves the theorems below for every value of the constants that meets the
assumptions: any number of processes, requests, faults and stops, any streams,
any sizes.  All safety properties that the passing runs check, the two refinements
included, are among them; TLC found every invariant true on the instances of
section 3 before it was proved.

| Module | Theorem | States |
|---|---|---|
| `AccountServerProofs` | `TypeCorrect` | `Spec => []TypeOK` |
| | `CallerHoldsSession` | `Spec => []SessionBelongsToCaller` |
| | `SessionsAreFresh` | `Spec => []SessionIsFresh` |
| | `OneSessionPerServer` | `Spec => []SessionsBoundedByServers` |
| `SignUpProofs` | `SignUpsToldTrue` | `Spec => []SignUpAnswersTrue` |
| | `OneAccountPerServer` | `Spec => []AccountsBoundedByServers` |
| | `OneServerUniqueNames` | for one server, `Spec => [](faults = 0 => UsernamesUnique)` |
| | `SessionsNeverReused` | `Spec => []SessionIDsNew` |
| | `SingleServerImplementsService` | for one server, `Spec => ImplementsService` |
| `LoadBalancerProofs` | `TypeCorrect` | `Spec => []TypeOK` |
| | `SocketsStaySound` | `Spec => []SocketsSound` |
| | `ClientsAlwaysWatched` | `Spec => []ClientsWatched` |
| | `ServersWatchedUntilLoss` | `Spec => []WatchedUntilLoss` |
| | `LoadsNeverUndercounted` | `Spec => []NeverUndercounts` |
| `RelayProofs` | `BalancerImplementsRelay` | for whole packets (`Parts` is 1), `Spec => ImplementsRelay` |
| `ProcessesProofs` | `TypeCorrect` | `Spec => []TypeOK` |
| | `ListenersFound` | `Spec => ListenerFound` |
| `PacketsProofs` | `TypeCorrect` | `Spec => []TypeOK` |
| | `ExecutedTrue` | `Spec => []ExecutedAsTyped` |
| | `ShownTrue` | `Spec => []ShownWasPacked` |
| | `ReadsStayAnswered` | `Spec => ReadsAnswered` |
| `TheSystemProofs` | `SystemRunsServers` | `System => Spec`, the servers of `AccountServer` |
| | `ClientTypeCorrect` | `System => []ClientTypeOK` |
| | `PagesStayInOrder` | `System => []PagesInOrder` |
| | `HomeIsOwn` | `System => []HomeHoldsOwnSession` |
| | `OnlyReplacementSignsOut` | `System => []SignedOutByReplacement` |

### Assumptions

| Assumption | Says | Why the code justifies it |
|---|---|---|
| `FoldAssumption` | the collation is a function on names | a collation compares what it maps names to |
| `BoundsAssumption`, `MishapsAssumption` | bounds are naturals, the window of `Processes` is not 0 | bounds; a socket has a buffer |
| `NoneAssumption` (three modules) | None is no process, request, name, packet, answer | a value of the model alone |
| `StreamAssumption`, `DescriptorAssumption` | a packet has a cell; descriptors that accept returns are above those the balancer starts with | those two are open as long as it runs |
| `FilesAssumption` | a file has a number of lines | `getline` ends |
| `SizesAssumption` | a word is not longer than a field, a byte has a value for each type | 4 and 64; a type is four bytes in the code |
| `TextsAssumption` | addresses and results fit their fields with their end, typed texts may have any length, none holds a zero; session IDs are not 0 and fit their word | results are literals of the code; AUTO_INCREMENT starts at 1; the `.c_str()` of a text ends at its first zero |
| `PowersAssumption` | `b^0` is 1 and `b^(n+1)` is `b * b^n`, up to the length of a word | what `^` is; the provers do not know it |

TLC evaluates all of them in the runs.

### AccountServer: sessions

The three properties are not inductive.  That a session belongs to the caller
depends on what every server knows half way through `createSession`.  The
inductive invariant `IInv` adds

* `RequestsInv`: the request in a server's buffer was received by that server;
* `KeysInv`: keys are unique and below their counters, live sessions were
  issued, and a request arrived no later than now;
* `CallerInv`: at `lookup` the credentials were recognized; from `delete` on
  `uid[s]` is the account that has them; from `insert` on every live session of
  that account is newer than the request, and at `insert` none of them was
  inserted by this server itself; at `reply` the session in the result was
  granted to the caller;
* `AnswersInv`: the same for answers that were sent.

The argument: rows of `users` are never changed or deleted and `issued` only
grows, so what an answer or another server relies on stays true (`Monotone`,
`Locality`, `OthersStep`).  A server's own step establishes the next label's
knowledge from the last one's (`OwnStep`).  Between `delete` and `insert` another
server may insert a session of the account, but it is newer than the request, and
it is not this server's; so the row that `insert` adds is the only one of this
server, and whichever single row `read` finds is fresh and belongs to `uid[s]`.

### AccountServer: accounts and sign-ups

`SignUpInv`, on top of `IInv`, follows a sign-up through `resolveSignUp`: its
request has no row up to `create` and one from `lookup` on (`SignUpAt`).  At
`reply` that depends on the answer: one that says "Failed to create a new account"
has no row, unless the server has lost its database session, which it never gets
back while its process lives.  That alone gives `SignUpAnswersTrue`, with `RowsInv`: a
row is what its request asked for, and stays.  `AccountAt` is what a server knows after the check of a name: as
long as no statement has raised, none of the rows of that name is its own, because
only it could have added one since.  `OlderAt` is why one server never hands out a
session twice: the sessions it answered with are older than the request it works
on, and what it reads back is not.  `OneServerUniqueNames` is the corollary that
`accounts_race` refutes for two servers.

### AccountServer: the abstract service

`SingleServerImplementsService` maps `Receive` to `Ask`, `CreateUser` to `Claim`,
`DeleteSessions` to `Leave` when there is something to delete, `InsertSession` to
`Enter`, `SendResult` to `Grant` or `Refuse`, and every other step to none
(`SoundStepRefines`); from the first statement that raises on, `failed` holds and any
step is one of the service (`ServiceStepRefines`).
`UniqueNames` and `UniqueSessions` make `owner` and `current` functions: of one
server's rows no two have one name, and no two live sessions one account.  On top of
`SignUpIInv` the proof needs `ServiceInv`: no session is 0, which `current` uses for
none, and only requests without a session are let in (`FreshInv`); every live session
has its account; and what is about to be answered is still the one session under
the name (`LetInAt`).

One server is needed: two claim one name, or answer with a session that the other
has replaced.  So is the end of the promise with the first failure: when the check of
a name raises, the program goes on as if the name were free (`CheckRaises`), so the
name gets a second account and the service has no step for it.

### LoadBalancer

`BalancerInv` has, besides the type,

* `ListInv`: a connection waits for accept or is listed, once, and its streams
  are empty until then.  Without it, accept could list a connection again, or one
  with a load that no count has;
* `SocketInv`: listed connections have descriptors of their own, unless closed;
  a closed one lies before `next` in the loop that closed it.  This is `SocketsSound`
  with what it rests on: `EraseClosed` runs before the thread leaves the loop;
* `BranchInv`: what the thread found when it chose its branch is still so: the
  backlog does not run empty before accept, the chosen server stays listed until
  send, and what `readSet` has of connections not yet looked at stays readable;
* `LowestInv`: on POSIX, as long as no server is gone, the open descriptors are
  all those up to `maxFD`, since accept takes the lowest free one and nothing was
  closed.  This is why the wrong `maxFD` goes unnoticed until the first loss;
* `NeverUndercounts` itself: with whole packets each recv takes at least one of
  what is outstanding and subtracts one.

### Relay

`BalancerImplementsRelay` maps every step of `LoadBalancer` to a step of `Relay` or to
none.  `queue[c]` is what comes back, then what the server has in hand, then what
waits for it, so the proof follows one sequence that is cut in three pieces.
Lemmas say what becomes of the whole when something is sent at its end
(`JoinSend`), taken from its front (`JoinTake`), moved over a border
(`JoinReceive`, `JoinMove`), or lost from the end or the middle (`JoinTail`,
`Cut`).  On top of `BalancerInv` the proof needs `RelayInv`: a request is in one place
until it is sent (not taken, in `buff`, or gone), a peer that is gone has nothing
in hand or on its way to it, and every answer on its way names a client.  The
hypothesis is the code's own: with parts of packets one recv may return half an
answer, and the balancer then relays a datagram that answers nobody.

### Processes

`TypeOK` is inductive.  What needs a step of its own is that `target` is a server
whenever the balancer is in send: `min_element` of an empty list is not taken, because
the branch is (`TakeRequest`).  `ListenersFound` is a property of steps; it needs the
first line with a key, which exists by `LeastElement`, the only induction that the
provers need here.

### Packets

`PacketsInv` adds to the properties what the streams keep: every packet in one is
`Sound`, that is the rest of a packet, or one whose checksum is of its body and at
most padded with zeros; whatever verifies in a stream to the server is the packet of a
request (`ToServerInv`), whatever verifies on the way back, or in a datagram, reads
as a result that was packed (`ToBalancerInv`, `AnswersInv`).  The proofs are
about the operators first:

* words: `WordExists` and `WordInjective`, by induction over the digits (`UpTo`),
  give that ntohl undoes htonl (`WordRoundTrip`) and that any bytes are some ID
  (`WordOfType`);
* texts: what a field holds (`FieldBytes`), that `Text` undoes `Field` for texts that
  fit (`FieldRoundTrip`), that a text that fills its field goes on with the text of
  what lies behind it (`TextSplits`, `FieldAgrees`), which is where the server finds
  the next text (`MoreRest`) or the end of memory (`EndOfMore`);
* packets: what `Pack` writes lies where `Header`, `TextsOf` and `Receive` look for it
  (`BodyBytes`, `ResultBytes`, `RequestBytes`, `RequestAgrees`);
* streams: of what one recv takes, only a whole packet verifies (`PartFails`,
  `BothFail`, `TakeSound`).

`ReadsStayAnswered` needs `ToServerInv` and `TypeIsRead`: a packet that verifies is a
request with the ID 0, and with zeros behind it a type is read as it is.

### TheSystem

`SystemRunsServers` carries every theorem about the servers into the system.
`SystemInv` adds `SentInv` (a server has what a client sent), `FreshInv`, and `HomeInv`:
whoever is at the home page, *or has a success queued*, was let in with the
session it has now.  The page follows the result by several steps, and the
receiving thread adopts the ID before; `HomeInv` ties the two.  `HomeIsOwn` is then
`CallerHoldsSession`.  `ReplacedInv` is `SignedOutByReplacement` of every session that
was issued, not only of those that clients hold.

### Only model-checked

* Liveness: `RequestsAnswered`, `RequestsTaken`, `RepliesRelayed`, `SendReturns`,
  `LostServersForgotten`, `ProcessesEnd`, `ServersAccepted`.  They need fairness and
  ENABLED, which are out of the prover's reach.
* The properties of the violation runs, which the code does not have.

## 5. Not modelled

* The failure of accept, recvfrom and sendto, which only skips an iteration.
* In `AccountServer` and `LoadBalancer`, SIGINT and the orderly end, which are in
  `Processes`: there a process stops or dies.
* A recv of the server that returns less than four bytes, for which the size of
  the checksum underflows as it does for -1.
* Collisions of crc32; bytes of a checksum that are mistaken for something else.
* The text of SQL statements, and quotes in names.
* Times, wording, logging, error texts; the trimming of lines of the files.
* The client's constructor when it gives up half way: its thread and its senders
  then use a socket and an address that were never set, and what the system does
  with them is not in the code.
* The `#else` branches of the client's `PacketManager`, which are stubs, and
  `DatabaseManager::executeAsMap`, which is empty.
* `navigateBackTo`, which nothing calls; closing the window, which stops the
  thread within a second and sends nothing; errors of select and recv in the
  client.
* Supervision: nobody in the repository restarts a process.

## 6. Plan

1. The models and their runs: done.
2. Proofs of all safety properties: done.
3. Proofs of the refinements, `ImplementsService` and `ImplementsRelay`: done.
4. `TheSystem` with more than one server and with stops: `HomeIsOwn` is proved for
   any number of both; TLC checks one server.
