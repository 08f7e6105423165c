---------------------------- MODULE TheSystemProofs ----------------------------
(***************************************************************************)
(* Proofs, for any number of clients, servers, requests, names and mishaps *)
(* on the network, of what TheSystem states about a user at its client:    *)
(* what the servers guarantee they guarantee within the system, and what   *)
(* the two threads of a client keep of it.                                 *)
(***************************************************************************)
EXTENDS TheSystem, SignUpProofs, SequenceTheorems

USE DEF Statements, Busy, Labels

(* The inductive invariant, on top of that of the servers *)

\* The sign-in page is never left behind.
PagesInv == PagesInOrder /\ \A c \in Clients : Len(backStack[c]) >= 1

\* A server has what a client sent.
SentInv == \A r \in Requests : asked[r] # None =>
    /\ sent[r] # None
    /\ asked[r].type = sent[r].type /\ asked[r].name = sent[r].name
    /\ asked[r].pass = sent[r].pass /\ asked[r].sid = sent[r].sid

\* A client that is at home or about to get there was told so, and holds the
\* session it was told.
Welcome(c) == AtHome(c) \/ \E i \in 1 .. Len(events[c]) : events[c][i].success
ToldBy(c, r) == /\ sent[r] # None /\ sent[r].client = c /\ Answered(r) /\ answer[r].success
                /\ answer[r].sid = sessionID[c] /\ sessionID[c] # 0
HomeInv == \A c \in Clients : Welcome(c) => \E r \in Requests : ToldBy(c, r)

\* A session is in the table, or a newer one of its account was inserted or will be.
ReplacedInv == stops = 0 /\ faults = 0 => \A row \in issued : row \in sessions \/ Replaced(row)

SystemInv == ClientTypeOK /\ PagesInv /\ SentInv /\ FreshInv /\ HomeInv /\ ReplacedInv

-----------------------------------------------------------------------------
(* The servers in the system *)

\* No step of a client or of the network touches what the servers have.
LEMMA ClientLeavesServers ==
    ASSUME Use
    PROVE  UNCHANGED vars
<1>1. UNCHANGED answer
  BY DEF Use, Client!Next, Client!ClickSignIn, Client!ClickSignUp, Client!ClickFinish,
     Client!ReceivedResult, Client!Receive, Client!Repeat
<1> QED
  BY <1>1 DEF Use, vars, tables, bounds

LEMMA ServersStep == [SystemNext]_system => [Next]_vars
<1>1. \A s \in Servers : Deliver(s) \/ Serve(s) => Next
  BY DEF Deliver, Serve, Next
<1>2. Use \/ Wait \/ UNCHANGED system => UNCHANGED vars
  BY ClientLeavesServers DEF Wait, system
<1> QED
  BY <1>1, <1>2 DEF SystemNext

\* Whatever clients and network do, the servers run as AccountServer has them: each
\* theorem about them holds in the system.
THEOREM SystemRunsServers == System => Spec
<1>1. SystemInit => Init
  BY DEF SystemInit
<1> QED
  BY <1>1, ServersStep, PTL DEF System, Spec

LEMMA ServersInvariant == System => []SignUpIInv
  BY SystemRunsServers, SignUpInductive, PTL

\* What a server takes was sent by a client; nothing else of the clients changes.
LEMMA Delivered ==
    ASSUME TypeOK, NEW s \in Servers, Deliver(s)
    PROVE  /\ \E r \in Requests : asked[r] = None /\ Sends(r)
           /\ \A r \in Requests : asked'[r] # asked[r] => Sends(r)
           /\ UNCHANGED <<sessionID, backStack, label, events, sent, arrived>>
<1>1. PICK r \in Requests, p \in Packets(KnownSids) :
        /\ asked[r] = None
        /\ asked' = [asked EXCEPT ![r] = [server |-> s, at |-> nextSession, type |-> p.type,
              name |-> p.name, pass |-> p.pass, sid |-> p.sid, intact |-> p.intact]]
  BY DEF Deliver, Receive
<1>2. asked'[r] \in Asked
  BY <1>1, KnownSidsType DEF TypeOK, Asked, Packets, PacketTypes
<1>3. asked'[r] # asked[r]
  BY <1>1, <1>2, NoneAssumption
<1> QED
  BY <1>1, <1>3 DEF Deliver

\* A step of the system, as its invariants see it.
LEMMA SystemStep ==
    ASSUME TypeOK, [SystemNext]_system
    PROVE  \/ \E s \in Servers : Deliver(s) /\ StepOf(s)
           \/ \E s \in Servers : StepOf(s) /\ Serve(s) /\ asked' = asked /\ UNCHANGED client
           \/ Client!Next /\ UNCHANGED vars
           \/ UNCHANGED system
<1>1. ASSUME NEW s \in Servers, Serve(s) PROVE StepOf(s) /\ asked' = asked /\ UNCHANGED client
  <2>1. StepOf(s) /\ UNCHANGED client
    BY <1>1 DEF Serve, StepOf
  <2>2. asked' = asked
    <3>1. CASE Work(s) /\ ~SendResult(s)
      BY <3>1, WorkContinues DEF Continues, wire
    <3>2. CASE SendResult(s) \/ Stop(s) \/ Start(s)
      BY <3>2 DEF SendResult, Stop, Start, wire
    <3> QED
      BY <1>1, <3>1, <3>2 DEF Serve
  <2> QED
    BY <2>1, <2>2
<1>2. \A s \in Servers : Deliver(s) => StepOf(s)
  BY DEF Deliver, StepOf
<1>3. Use => Client!Next /\ UNCHANGED vars
  BY ClientLeavesServers DEF Use
<1>4. Wait => UNCHANGED system
  BY DEF Wait
<1> QED
  BY <1>1, <1>2, <1>3, <1>4 DEF SystemNext

-----------------------------------------------------------------------------
(* The type invariant of the clients *)

Events == [at : SUBSET Nat, success : BOOLEAN, message : Messages]

\* A page is only ever put on top: the pages below stay, and so does what is
\* connected of them.
LEMMA NavigateType ==
    ASSUME ClientTypeOK, NEW c \in Clients, NEW page \in Client!PageNames,
           Client!Navigate(c, page)
    PROVE  /\ backStack' \in [Clients -> Seq(Client!PageNames)]
           /\ Len(backStack'[c]) = Len(backStack[c]) + 1 /\ Len(backStack[c]) \in Nat
           /\ backStack'[c][Len(backStack[c]) + 1] = page
           /\ \A i \in 1 .. Len(backStack[c]) : backStack'[c][i] = backStack[c][i]
           /\ \A d \in Clients \ {c} : backStack'[d] = backStack[d]
           /\ \A d \in Clients : Client!Connected(d) \subseteq Client!Connected(d)'
<1> DEFINE pages == backStack[c]
           more == Append(pages, page)
<1>1. pages \in Seq(Client!PageNames) /\ backStack' = [backStack EXCEPT ![c] = more]
  BY DEF ClientTypeOK, Client!Navigate
<1>2. /\ more \in Seq(Client!PageNames) /\ Len(pages) \in Nat /\ Len(more) = Len(pages) + 1
      /\ more[Len(pages) + 1] = page /\ \A i \in 1 .. Len(pages) : more[i] = pages[i]
  BY <1>1, AppendProperties, LenProperties
<1> HIDE DEF pages, more
<1>3. \A d \in Clients : backStack'[d] = IF d = c THEN more ELSE backStack[d]
  BY <1>1 DEF ClientTypeOK
<1>4. ASSUME NEW d \in Clients PROVE Client!Connected(d) \subseteq Client!Connected(d)'
  <2>1. CASE d # c
    BY <1>3, <2>1 DEF Client!Connected
  <2>2. CASE d = c
    <3>1. \A i \in 1 .. Len(pages) : i \in 1 .. Len(more)
      BY <1>2
    <3> QED
      BY <1>2, <1>3, <2>2, <3>1 DEF Client!Connected, pages
  <2> QED
    BY <2>1, <2>2
<1>5. backStack' \in [Clients -> Seq(Client!PageNames)]
  BY <1>1, <1>2 DEF ClientTypeOK
<1> QED
  BY <1>2, <1>3, <1>4, <1>5 DEF pages

\* A signal is queued behind the others.
LEMMA QueueType ==
    ASSUME ClientTypeOK, NEW c \in Clients, NEW success \in BOOLEAN, NEW message \in Messages,
           Client!Emit(c, success, message)
    PROVE  /\ events' \in [Clients -> Seq(Events)]
           /\ \A d \in Clients : \A i \in 1 .. Len(events'[d]) :
                 \/ i \in 1 .. Len(events[d]) /\ events'[d][i] = events[d][i]
                 \/ d = c /\ events'[d][i].at = Client!Connected(c)
                           /\ events'[d][i].success = success
<1> DEFINE event == [at |-> Client!Connected(c), success |-> success, message |-> message]
           queue == events[c]
<1>1. queue \in Seq(Events) /\ events' = [events EXCEPT ![c] = Append(queue, event)]
  BY DEF ClientTypeOK, Events, Client!Emit, Client!Queue
<1>2. event \in Events
  <2>1. Len(backStack[c]) \in Nat
    BY LenProperties DEF ClientTypeOK
  <2> QED
    BY <2>1 DEF Events, Client!Connected
<1>3. event.at = Client!Connected(c) /\ event.success = success
  OBVIOUS
<1> HIDE DEF event, queue
<1>4. /\ Append(queue, event) \in Seq(Events) /\ Len(queue) \in Nat
      /\ Len(Append(queue, event)) = Len(queue) + 1
      /\ Append(queue, event)[Len(queue) + 1] = event
      /\ \A i \in 1 .. Len(queue) : Append(queue, event)[i] = queue[i]
  BY <1>1, <1>2, AppendProperties, LenProperties
<1>5. events' \in [Clients -> Seq(Events)]
  BY <1>1, <1>4 DEF ClientTypeOK, Events
<1>6. \A d \in Clients : events'[d] = IF d = c THEN Append(queue, event) ELSE events[d]
  BY <1>1 DEF ClientTypeOK
<1> QED
  BY <1>3, <1>4, <1>5, <1>6 DEF queue

\* A slot that was executed leaves the queue, and the others stay in it.
LEMMA DequeueType ==
    ASSUME ClientTypeOK, NEW c \in Clients, events[c] # <<>>, NEW i \in Head(events[c]).at,
           events' = [events EXCEPT ![c] = Client!Executed(@, i)]
    PROVE  /\ events' \in [Clients -> Seq(Events)]
           /\ \A d \in Clients : \A j \in 1 .. Len(events'[d]) :
                 \E k \in 1 .. Len(events[d]) : /\ events'[d][j].at \subseteq events[d][k].at
                                               /\ events'[d][j].success = events[d][k].success
<1> DEFINE queue == events[c]
           rest == Tail(queue)
           less == [queue EXCEPT ![1].at = @ \ {i}]
<1>1. queue \in Seq(Events) /\ queue # <<>>
  BY DEF ClientTypeOK, Events
<1>2. /\ Head(queue) = queue[1] /\ queue[1] \in Events /\ Len(queue) \in Nat \ {0}
      /\ rest \in Seq(Events) /\ Len(rest) = Len(queue) - 1
      /\ \A j \in 1 .. Len(rest) : rest[j] = queue[j + 1]
  BY <1>1, HeadTailProperties, EmptySeq, ElementOfSeq
<1>3. /\ less \in Seq(Events) /\ Len(less) = Len(queue)
      /\ \A j \in 1 .. Len(queue) : /\ less[j].at \subseteq queue[j].at
                                     /\ less[j].success = queue[j].success
  <2> DEFINE one == [queue[1] EXCEPT !.at = @ \ {i}]
  <2>1. one \in Events /\ one.at \subseteq queue[1].at /\ one.success = queue[1].success
    BY <1>2 DEF Events
  <2>2. less = [queue EXCEPT ![1] = one]
    OBVIOUS
  <2>3. 1 \in 1 .. Len(queue)
    BY <1>2
  <2> HIDE DEF one, less, queue
  <2>4. /\ less \in Seq(Events) /\ Len(less) = Len(queue)
        /\ \A j \in 1 .. Len(queue) : less[j] = IF j = 1 THEN one ELSE queue[j]
    BY <1>1, <2>1, <2>2, <2>3, ExceptSeq
  <2> QED
    BY <2>1, <2>4
<1>4. \A d \in Clients : events'[d] = IF d # c THEN events[d]
                                      ELSE IF Head(queue).at = {i} THEN rest ELSE less
  <2>1. events' = [events EXCEPT ![c] = IF Head(queue).at = {i} THEN rest ELSE less]
    BY DEF Client!Executed
  <2> HIDE DEF less, rest, queue
  <2> QED
    BY <2>1 DEF ClientTypeOK
<1> HIDE DEF less, rest, queue
<1>5. events' \in [Clients -> Seq(Events)]
  <2>1. events' = [d \in Clients |-> events'[d]]
    BY DEF ClientTypeOK
  <2>2. \A d \in Clients : events'[d] \in Seq(Events)
    BY <1>2, <1>3, <1>4 DEF ClientTypeOK, Events
  <2> QED
    BY <2>1, <2>2
<1>6. ASSUME NEW d \in Clients, NEW j \in 1 .. Len(events'[d])
      PROVE  \E k \in 1 .. Len(events[d]) : /\ events'[d][j].at \subseteq events[d][k].at
                                            /\ events'[d][j].success = events[d][k].success
  <2>1. CASE d # c
    BY <1>4, <1>6, <2>1
  <2>2. CASE d = c /\ events'[d] = rest
    <3>1. j \in 1 .. Len(rest) /\ j + 1 \in 1 .. Len(queue)
      BY <1>2, <1>6, <2>2
    <3>2. events'[d][j] = queue[j + 1]
      BY <1>2, <2>2, <3>1
    <3> QED
      BY <2>2, <3>1, <3>2 DEF queue
  <2>3. CASE d = c /\ events'[d] = less
    BY <1>3, <1>6, <2>3 DEF queue
  <2> QED
    BY <1>4, <2>1, <2>2, <2>3
<1> QED
  BY <1>5, <1>6

LEMMA SendType ==
    ASSUME ClientTypeOK, NEW c \in Clients, NEW type \in {"SNIN", "SNUP"}, Client!Send(c, type)
    PROVE  /\ sent' \in [Requests -> Client!Datagrams \cup {None}]
           /\ \A r \in Requests : sent[r] # None => sent'[r] = sent[r]
<1> DEFINE datagram(name, pass) ==
      [client |-> c, type |-> type, name |-> name, pass |-> pass, sid |-> sessionID[c]]
<1>1. PICK r \in Requests, name \in Names, pass \in Passwords :
        sent[r] = None /\ sent' = [sent EXCEPT ![r] = datagram(name, pass)]
  BY DEF Client!Send
<1>2. sessionID[c] \in Nat /\ sent \in [Requests -> Client!Datagrams \cup {None}]
  BY DEF ClientTypeOK
<1>3. datagram(name, pass) \in Client!Datagrams
  BY <1>2 DEF Client!Datagrams
<1> HIDE DEF datagram
<1> QED
  BY <1>1, <1>2, <1>3

LEMMA MishapType ==
    ASSUME ClientTypeOK, NEW n \in Nat, Client!Mishap(n)
    PROVE  mishaps' \in 0 .. MaxMishaps
<1>1. mishaps \in 0 .. MaxMishaps
  BY DEF ClientTypeOK
<1>2. mishaps' = mishaps + n /\ mishaps' <= MaxMishaps
  BY DEF Client!Mishap
<1> QED
  BY <1>1, <1>2, MishapsAssumption

\* The text that a listener shows is changed.
LEMMA ShowType ==
    ASSUME ClientTypeOK, NEW c \in Clients, NEW page \in Client!Listeners,
           NEW text \in Messages \cup {""}, Client!Show(c, page, text)
    PROVE  label' \in [Clients -> [Client!Listeners -> Messages \cup {""}]]
<1>1. label \in [Clients -> [Client!Listeners -> Messages \cup {""}]]
  BY DEF ClientTypeOK
<1>2. [label[c] EXCEPT ![page] = text] \in [Client!Listeners -> Messages \cup {""}]
  BY <1>1
<1>3. label' = [label EXCEPT ![c] = [label[c] EXCEPT ![page] = text]]
  BY DEF Client!Show
<1> QED
  BY <1>1, <1>2, <1>3

LEMMA ClientTypeInit == SystemInit => ClientTypeOK
<1> SUFFICES ASSUME SystemInit PROVE ClientTypeOK
  OBVIOUS
<1>1. \A page \in Client!PageNames : <<page>> \in Seq(Client!PageNames)
  OBVIOUS
<1>2. Len(<<>>) = 0 /\ <<>> \in Seq(Events)
  BY EmptySeq
<1>3. \A c \in Clients : 1 .. Len(events[c]) = {}
  <2>1. \A c \in Clients : events[c] = <<>>
    BY DEF SystemInit, Client!Init
  <2>2. 1 .. Len(<<>>) = {}
    BY <1>2
  <2> QED
    BY <2>1, <2>2
<1>4. backStack \in [Clients -> Seq(Client!PageNames)]
  BY <1>1 DEF SystemInit, Client!Init, Client!PageNames, Client!Listeners
<1>5. events \in [Clients -> Seq(Events)]
  BY <1>2 DEF SystemInit, Client!Init
<1>6. label \in [Clients -> [Client!Listeners -> Messages \cup {""}]]
  BY DEF SystemInit, Client!Init
<1>7. sent \in [Requests -> Client!Datagrams \cup {None}] /\ sessionID \in [Clients -> Nat]
  BY DEF SystemInit, Client!Init
<1>8. arrived \subseteq Requests /\ mishaps \in 0 .. MaxMishaps
  <2>1. arrived = {} /\ mishaps = 0
    BY DEF SystemInit, Client!Init
  <2> QED
    BY <2>1, MishapsAssumption
<1>9. \A c \in Clients :
        \A i \in 1 .. Len(events[c]) : events[c][i].at \subseteq Client!Connected(c)
  BY <1>3
<1> QED
  BY <1>4, <1>5, <1>6, <1>7, <1>8, <1>9 DEF ClientTypeOK, Events

\* A slot acts on a page that listens.
LEMMA SlotOfListener ==
    ASSUME ClientTypeOK, NEW c \in Clients, events[c] # <<>>, NEW i \in Head(events[c]).at
    PROVE  /\ Head(events[c]) \in Events /\ 1 \in 1 .. Len(events[c])
           /\ Head(events[c]) = events[c][1] /\ backStack[c][i] \in Client!Listeners
<1> DEFINE queue == events[c]
<1>1. queue \in Seq(Events) /\ queue # <<>>
  BY DEF ClientTypeOK, Events
<1>2. Head(queue) \in Events /\ Head(queue) = queue[1] /\ Len(queue) \in Nat \ {0}
  BY <1>1, HeadTailProperties, EmptySeq
<1>3. 1 \in 1 .. Len(queue)
  BY <1>2
<1>4. queue[1].at \subseteq Client!Connected(c)
  BY <1>3 DEF ClientTypeOK
<1> QED
  BY <1>2, <1>3, <1>4 DEF Client!Connected

\* What the type invariant says of queued slots, for the steps that queue nothing.
LEMMA SlotsStay ==
    ASSUME ClientTypeOK,
           \A c \in Clients : Client!Connected(c) \subseteq Client!Connected(c)',
           \A c \in Clients : \A i \in 1 .. Len(events'[c]) :
               \E k \in 1 .. Len(events[c]) : events'[c][i].at \subseteq events[c][k].at
    PROVE  \A c \in Clients :
               \A i \in 1 .. Len(events'[c]) : events'[c][i].at \subseteq Client!Connected(c)'
<1> SUFFICES ASSUME NEW c \in Clients, NEW i \in 1 .. Len(events'[c])
             PROVE  events'[c][i].at \subseteq Client!Connected(c)'
  OBVIOUS
<1>1. PICK k \in 1 .. Len(events[c]) : events'[c][i].at \subseteq events[c][k].at
  OBVIOUS
<1>2. events[c][k].at \subseteq Client!Connected(c)
  BY DEF ClientTypeOK
<1> QED
  BY <1>1, <1>2

LEMMA ClientTypeStep ==
    ASSUME TypeOK, ClientTypeOK, [SystemNext]_system
    PROVE  ClientTypeOK'
<1>0. ASSUME \A c \in Clients : events'[c] = events[c],
             \A c \in Clients : Client!Connected(c) \subseteq Client!Connected(c)'
      PROVE  \A c \in Clients :
               \A i \in 1 .. Len(events'[c]) : events'[c][i].at \subseteq Client!Connected(c)'
  BY <1>0, SlotsStay
<1>1. ASSUME NEW s \in Servers, Deliver(s) PROVE ClientTypeOK'
  <2>1. UNCHANGED <<sessionID, backStack, label, events, sent, arrived>>
    BY <1>1 DEF Deliver
  <2>2. \E n \in Nat : Client!Mishap(n)
    BY <1>1, Delivered DEF Sends
  <2>3. \A c \in Clients : Client!Connected(c)' = Client!Connected(c)
    BY <2>1 DEF Client!Connected
  <2> QED
    BY <2>1, <2>2, <2>3, MishapType DEF ClientTypeOK
<1>2. ASSUME UNCHANGED client PROVE ClientTypeOK'
  <2>1. \A c \in Clients : Client!Connected(c)' = Client!Connected(c)
    BY <1>2 DEF Client!Connected, client
  <2> QED
    BY <1>2, <2>1 DEF ClientTypeOK, client
<1>3. ASSUME NEW c \in Clients, Client!ClickSignIn(c) PROVE ClientTypeOK'
  <2>1. \A d \in Clients : Client!Connected(d)' = Client!Connected(d)
    BY <1>3 DEF Client!Connected, Client!ClickSignIn, Client!gui
  <2> QED
    BY <1>3, <2>1, SendType DEF Client!ClickSignIn, ClientTypeOK, Client!gui
<1>4. ASSUME NEW c \in Clients, Client!ClickSignUp(c) PROVE ClientTypeOK'
  <2>1. /\ backStack' \in [Clients -> Seq(Client!PageNames)]
        /\ \A d \in Clients : Client!Connected(d) \subseteq Client!Connected(d)'
    BY <1>4, NavigateType DEF Client!ClickSignUp, Client!PageNames, Client!Listeners
  <2> QED
    BY <1>0, <1>4, <2>1 DEF Client!ClickSignUp, ClientTypeOK
<1>5. ASSUME NEW c \in Clients, Client!ClickFinish(c) PROVE ClientTypeOK'
  <2>1. \A d \in Clients : Client!Connected(d)' = Client!Connected(d)
    BY <1>5 DEF Client!Connected, Client!ClickFinish
  <2>2. label' \in [Clients -> [Client!Listeners -> Messages \cup {""}]]
    BY <1>5, ShowType DEF Client!ClickFinish, Client!Listeners
  <2>3. sent' \in [Requests -> Client!Datagrams \cup {None}]
    BY <1>5, SendType DEF Client!ClickFinish, ClientTypeOK
  <2> QED
    BY <1>5, <2>1, <2>2, <2>3, ZenonT(60) DEF Client!ClickFinish, ClientTypeOK
<1>6. ASSUME NEW c \in Clients, Client!ReceivedResult(c) PROVE ClientTypeOK'
  <2>1. PICK i \in Head(events[c]).at :
          /\ \/ Client!Navigate(c, "HOME") /\ UNCHANGED label
             \/ Client!Show(c, backStack[c][i], Head(events[c]).message) /\ UNCHANGED backStack
          /\ events' = [events EXCEPT ![c] = Client!Executed(@, i)]
    BY <1>6 DEF Client!ReceivedResult
  <2>2. events[c] # <<>> /\ UNCHANGED <<sessionID, sent, answer, arrived, mishaps>>
    BY <1>6 DEF Client!ReceivedResult
  <2>3. Head(events[c]).message \in Messages /\ backStack[c][i] \in Client!Listeners
    BY <2>2, SlotOfListener DEF Events
  <2>4. /\ backStack' \in [Clients -> Seq(Client!PageNames)]
        /\ \A d \in Clients : Client!Connected(d) \subseteq Client!Connected(d)'
    <3>1. CASE Client!Navigate(c, "HOME")
      BY <3>1, NavigateType DEF Client!PageNames
    <3>2. CASE UNCHANGED backStack
      BY <3>2 DEF Client!Connected, ClientTypeOK
    <3> QED
      BY <2>1, <3>1, <3>2
  <2>5. label' \in [Clients -> [Client!Listeners -> Messages \cup {""}]]
    <3>1. CASE UNCHANGED label
      BY <3>1 DEF ClientTypeOK
    <3>2. CASE Client!Show(c, backStack[c][i], Head(events[c]).message)
      BY <2>3, <3>2, ShowType
    <3> QED
      BY <2>1, <3>1, <3>2
  <2>6. /\ events' \in [Clients -> Seq(Events)]
        /\ \A d \in Clients : \A j \in 1 .. Len(events'[d]) :
              \E k \in 1 .. Len(events[d]) : events'[d][j].at \subseteq events[d][k].at
    BY <2>1, <2>2, DequeueType
  <2>7. \A d \in Clients :
          \A j \in 1 .. Len(events'[d]) : events'[d][j].at \subseteq Client!Connected(d)'
    BY <2>4, <2>6, SlotsStay
  <2> QED
    BY <2>2, <2>4, <2>5, <2>6, <2>7 DEF ClientTypeOK, Events
<1>7. ASSUME NEW c \in Clients, Client!Receive(c) PROVE ClientTypeOK'
  <2>1. PICK r \in Requests, intact \in BOOLEAN :
          /\ answer[r] # None
          /\ arrived' = arrived \cup {r}
          /\ Client!Mishap((IF r \in arrived THEN 1 ELSE 0) + (IF intact THEN 0 ELSE 1))
          /\ \/ Client!Adopt(c, answer[r]) /\ Client!Emit(c, answer[r].success, answer[r].msg)
             \/ Client!Emit(c, FALSE, Client!BadPacket) /\ UNCHANGED sessionID
    BY <1>7 DEF Client!Receive
  <2>2. UNCHANGED <<backStack, label, sent>>
    BY <1>7 DEF Client!Receive, Client!gui
  <2>3. answer[r] \in Answers /\ Client!BadPacket \in Messages
    BY <2>1 DEF TypeOK, Client!BadPacket, Messages
  <2>4. sessionID' \in [Clients -> Nat]
    BY <2>1, <2>3 DEF Client!Adopt, Answers, ClientTypeOK
  <2>5. PICK success \in BOOLEAN, message \in Messages : Client!Emit(c, success, message)
    BY <2>1, <2>3 DEF Answers
  <2>6. /\ events' \in [Clients -> Seq(Events)]
        /\ \A d \in Clients : \A i \in 1 .. Len(events'[d]) :
              \/ i \in 1 .. Len(events[d]) /\ events'[d][i] = events[d][i]
              \/ d = c /\ events'[d][i].at = Client!Connected(c)
    BY <2>5, QueueType
  <2>7. \A d \in Clients : Client!Connected(d)' = Client!Connected(d)
    BY <2>2 DEF Client!Connected
  <2>8. \A d \in Clients :
          \A i \in 1 .. Len(events'[d]) : events'[d][i].at \subseteq Client!Connected(d)'
    BY <2>6, <2>7, ZenonT(60) DEF ClientTypeOK
  <2> QED
    <3>1. mishaps' \in 0 .. MaxMishaps
      <4> DEFINE n == (IF r \in arrived THEN 1 ELSE 0) + (IF intact THEN 0 ELSE 1)
      <4>1. n \in Nat /\ Client!Mishap(n)
        BY <2>1
      <4> HIDE DEF n
      <4> QED
        BY <4>1, MishapType
    <3>2. arrived' \subseteq Requests
      BY <2>1 DEF ClientTypeOK
    <3>3. /\ backStack' \in [Clients -> Seq(Client!PageNames)]
          /\ label' \in [Clients -> [Client!Listeners -> Messages \cup {""}]]
          /\ sent' \in [Requests -> Client!Datagrams \cup {None}]
      BY <2>2 DEF ClientTypeOK
    <3>4. events' \in [Clients -> Seq([at : SUBSET Nat, success : BOOLEAN, message : Messages])]
      BY <2>6 DEF Events
    <3> QED
      BY <2>4, <2>8, <3>1, <3>2, <3>3, <3>4 DEF ClientTypeOK
<1>8. ASSUME Client!Repeat PROVE ClientTypeOK'
  <2>1. \A d \in Clients : Client!Connected(d)' = Client!Connected(d)
    BY <1>8 DEF Client!Connected, Client!Repeat, Client!gui
  <2>2. sent' \in [Requests -> Client!Datagrams \cup {None}]
    BY <1>8 DEF Client!Repeat, ClientTypeOK
  <2>3. mishaps' \in 0 .. MaxMishaps
    BY <1>8, MishapType DEF Client!Repeat
  <2>4. UNCHANGED <<sessionID, backStack, label, events, arrived>>
    BY <1>8 DEF Client!Repeat, Client!gui
  <2> QED
    BY <2>1, <2>2, <2>3, <2>4 DEF ClientTypeOK
<1> QED
  BY <1>1, <1>2, <1>3, <1>4, <1>5, <1>6, <1>7, <1>8, SystemStep DEF Client!Next, system

-----------------------------------------------------------------------------
(* Pages and packets *)

\* PageNavigator pushes a home page, or the sign-up page on a sign-in page.
LEMMA BackStackStep ==
    ASSUME TypeOK, [SystemNext]_system
    PROVE  \/ UNCHANGED backStack
           \/ \E c \in Clients :
                 \/ Client!Navigate(c, "HOME")
                 \/ Client!Navigate(c, "SIGN_UP") /\ Client!CurrentPage(c) = "SIGN_IN"
<1>1. (\E s \in Servers : Deliver(s)) \/ UNCHANGED client => UNCHANGED backStack
  BY DEF Deliver, client
<1>2. ASSUME Client!Next
      PROVE  \/ UNCHANGED backStack
             \/ \E c \in Clients :
                   \/ Client!Navigate(c, "HOME")
                   \/ Client!Navigate(c, "SIGN_UP") /\ Client!CurrentPage(c) = "SIGN_IN"
  BY <1>2 DEF Client!Next, Client!ClickSignIn, Client!ClickSignUp, Client!ClickFinish,
     Client!ReceivedResult, Client!Receive, Client!Repeat, Client!gui
<1> QED
  BY <1>1, <1>2, SystemStep DEF system

LEMMA PagesStep ==
    ASSUME TypeOK, ClientTypeOK, PagesInv, [SystemNext]_system
    PROVE  PagesInv'
<1>1. CASE UNCHANGED backStack
  BY <1>1 DEF PagesInv, PagesInOrder
<1>2. ASSUME NEW c \in Clients, NEW page \in {"HOME", "SIGN_UP"}, Client!Navigate(c, page),
             page = "SIGN_UP" => Client!CurrentPage(c) = "SIGN_IN"
      PROVE  PagesInv'
  <2>1. /\ Len(backStack'[c]) = Len(backStack[c]) + 1 /\ Len(backStack[c]) \in Nat
        /\ backStack'[c][Len(backStack[c]) + 1] = page
        /\ \A i \in 1 .. Len(backStack[c]) : backStack'[c][i] = backStack[c][i]
        /\ \A d \in Clients \ {c} : backStack'[d] = backStack[d]
    BY <1>2, NavigateType DEF Client!PageNames, Client!Listeners
  <2>2. Len(backStack[c]) >= 1
    BY DEF PagesInv
  <2>3. page = "SIGN_UP" => Len(backStack[c]) = 1
    <3> DEFINE top == Len(backStack[c])
    <3>1. top \in 2 .. top => backStack[c][top] # "SIGN_IN"
      BY DEF PagesInv, PagesInOrder
    <3>2. page = "SIGN_UP" => backStack[c][top] = "SIGN_IN"
      BY <1>2 DEF Client!CurrentPage
    <3>3. top \in Nat /\ top >= 1
      BY <2>1, <2>2
    <3> HIDE DEF top
    <3>4. top \in 2 .. top \/ top = 1
      BY <3>3
    <3> QED
      BY <3>1, <3>2, <3>4 DEF top
  <2>4. ASSUME NEW d \in Clients
        PROVE  /\ Len(backStack'[d]) >= 1 /\ backStack'[d][1] = "SIGN_IN"
               /\ \A i \in 2 .. Len(backStack'[d]) :
                     backStack'[d][i] = "HOME" \/ (i = 2 /\ backStack'[d][i] = "SIGN_UP")
    <3>1. CASE d # c
      BY <2>1, <3>1 DEF PagesInv, PagesInOrder
    <3>2. CASE d = c
      <4>1. Len(backStack'[c]) >= 1 /\ 1 \in 1 .. Len(backStack[c])
        BY <2>1, <2>2
      <4>2. ASSUME NEW i \in 2 .. Len(backStack'[c])
            PROVE  backStack'[c][i] = "HOME" \/ (i = 2 /\ backStack'[c][i] = "SIGN_UP")
        <5>1. i \in 2 .. Len(backStack[c]) \/ i = Len(backStack[c]) + 1
          BY <2>1
        <5>2. CASE i \in 2 .. Len(backStack[c])
          BY <2>1, <5>2 DEF PagesInv, PagesInOrder
        <5>3. CASE i = Len(backStack[c]) + 1
          BY <1>2, <2>1, <2>3, <5>3
        <5> QED
          BY <5>1, <5>2, <5>3
      <4> QED
        BY <2>1, <3>2, <4>1, <4>2 DEF PagesInv, PagesInOrder
    <3> QED
      BY <3>1, <3>2
  <2> QED
    BY <2>4 DEF PagesInv, PagesInOrder
<1> QED
  BY <1>1, <1>2, BackStackStep

\* A datagram is sent once under each identity.
LEMMA SentKept ==
    ASSUME TypeOK, ClientTypeOK, [SystemNext]_system, NEW r \in Requests, sent[r] # None
    PROVE  sent'[r] = sent[r]
<1>1. (\E s \in Servers : Deliver(s)) \/ UNCHANGED client => UNCHANGED sent
  BY DEF Deliver, client
<1>2. ASSUME Client!Next PROVE sent'[r] = sent[r]
  <2>1. ASSUME NEW c \in Clients, Client!ClickSignIn(c) \/ Client!ClickFinish(c)
        PROVE  sent'[r] = sent[r]
    BY <2>1, SendType DEF Client!ClickSignIn, Client!ClickFinish
  <2>2. CASE Client!Repeat
    BY <2>2 DEF Client!Repeat, ClientTypeOK
  <2>3. ASSUME NEW c \in Clients,
               Client!ClickSignUp(c) \/ Client!ReceivedResult(c) \/ Client!Receive(c)
        PROVE  UNCHANGED sent
    BY <2>3 DEF Client!ClickSignUp, Client!ReceivedResult, Client!Receive
  <2> QED
    BY <1>2, <2>1, <2>2, <2>3 DEF Client!Next
<1> QED
  BY <1>1, <1>2, SystemStep DEF system

LEMMA SentStep ==
    ASSUME TypeOK, ClientTypeOK, SentInv, [SystemNext]_system
    PROVE  SentInv'
<1> SUFFICES ASSUME NEW r \in Requests, asked'[r] # None
             PROVE  /\ sent'[r] # None
                    /\ asked'[r].type = sent'[r].type /\ asked'[r].name = sent'[r].name
                    /\ asked'[r].pass = sent'[r].pass /\ asked'[r].sid = sent'[r].sid
  BY DEF SentInv
<1>1. CASE asked'[r] = asked[r]
  BY <1>1, SentKept DEF SentInv
<1>2. CASE asked'[r] # asked[r]
  <2>1. PICK s \in Servers : Deliver(s)
    BY <1>2, SystemStep DEF vars, system
  <2>2. Sends(r) /\ sent' = sent
    BY <1>2, <2>1, Delivered
  <2> QED
    BY <2>2 DEF Sends
<1> QED
  BY <1>1, <1>2

-----------------------------------------------------------------------------
(* What a client was told *)

\* A session ID is adopted once.
LEMMA SessionIDKept ==
    ASSUME TypeOK, ClientTypeOK, [SystemNext]_system, NEW c \in Clients, sessionID[c] # 0
    PROVE  sessionID'[c] = sessionID[c]
<1>1. (\E s \in Servers : Deliver(s)) \/ UNCHANGED client => UNCHANGED sessionID
  BY DEF Deliver, client
<1>2. ASSUME Client!Next PROVE sessionID'[c] = sessionID[c]
  <2>1. ASSUME NEW d \in Clients, Client!Receive(d) PROVE sessionID'[c] = sessionID[c]
    <3>1. (\E r \in Requests : Client!Adopt(d, answer[r])) \/ UNCHANGED sessionID
      BY <2>1 DEF Client!Receive
    <3> QED
      BY <3>1 DEF Client!Adopt, ClientTypeOK
  <2>2. ASSUME ~\E d \in Clients : Client!Receive(d) PROVE UNCHANGED sessionID
    BY <1>2, <2>2 DEF Client!Next, Client!ClickSignIn, Client!ClickSignUp, Client!ClickFinish,
       Client!ReceivedResult, Client!Repeat
  <2> QED
    BY <2>1, <2>2
<1> QED
  BY <1>1, <1>2, SystemStep DEF system

LEMMA ToldStays ==
    ASSUME SignUpIInv, ClientTypeOK, [SystemNext]_system, NEW c \in Clients, NEW r \in Requests,
           ToldBy(c, r)
    PROVE  ToldBy(c, r)'
<1>1. TypeOK /\ Answered(r) /\ sent[r] # None /\ sessionID[c] # 0
  BY DEF SignUpIInv, IInv, ToldBy
<1>2. answer'[r] = answer[r]
  BY <1>1, AnswerKept, SystemStep DEF vars, system
<1>3. sent'[r] = sent[r] /\ sessionID'[c] = sessionID[c]
  BY <1>1, SentKept, SessionIDKept
<1> QED
  BY <1>2, <1>3 DEF ToldBy, Answered

\* The receiving thread queues a success only with the session it holds from then on.
LEMMA ReceiveTold ==
    ASSUME SignUpIInv, ClientTypeOK, FreshInv, NEW c \in Clients, Client!Receive(c),
           NEW d \in Clients, Welcome(d)'
    PROVE  Welcome(d) \/ \E r \in Requests : ToldBy(d, r)'
<1> USE DEF SignUpIInv, IInv
<1>1. PICK r \in Requests :
        /\ sent[r] # None /\ sent[r].client = c /\ answer[r] # None
        /\ \/ /\ sessionID[c] = 0 \/ answer[r].sid = sessionID[c]
              /\ Client!Adopt(c, answer[r])
              /\ Client!Emit(c, answer[r].success, answer[r].msg)
           \/ Client!Emit(c, FALSE, Client!BadPacket)
  BY DEF Client!Receive, Client!VerifyHeader
<1>2. UNCHANGED <<backStack, label, sent, answer>>
  BY DEF Client!Receive, Client!gui
<1>3. answer[r] \in Answers
  BY <1>1 DEF TypeOK
<1>4. AtHome(d)' <=> AtHome(d)
  BY <1>2 DEF AtHome
<1> SUFFICES ASSUME NEW i \in 1 .. Len(events'[d]), events'[d][i].success
             PROVE  Welcome(d) \/ \E q \in Requests : ToldBy(d, q)'
  BY <1>4 DEF Welcome
<1>5. CASE Client!Emit(c, FALSE, Client!BadPacket)
  <2>1. Client!BadPacket \in Messages
    BY DEF Client!BadPacket, Messages
  <2>2. i \in 1 .. Len(events[d]) /\ events'[d][i] = events[d][i]
    BY <1>5, <2>1, QueueType
  <2> QED
    BY <2>2 DEF Welcome
<1>6. CASE /\ sessionID[c] = 0 \/ answer[r].sid = sessionID[c]
           /\ Client!Adopt(c, answer[r])
           /\ Client!Emit(c, answer[r].success, answer[r].msg)
  <2>1. answer[r].success \in BOOLEAN /\ answer[r].msg \in Messages
    BY <1>3 DEF Answers
  <2>2. \/ i \in 1 .. Len(events[d]) /\ events'[d][i] = events[d][i]
        \/ d = c /\ answer[r].success
    BY <1>6, <2>1, QueueType
  <2>3. CASE d = c /\ answer[r].success
    <3>1. sessionID'[c] = answer[r].sid
      BY <1>6 DEF Client!Adopt, ClientTypeOK
    <3>2. answer[r].sid # 0
      <4>1. SignedIn(r)
        BY <1>1, <2>3 DEF FreshInv, SignedIn, Answered
      <4>2. PICK row \in issued : row.id = answer[r].sid
        BY <4>1 DEF AnswersInv, Granted
      <4> QED
        BY <4>2 DEF FreshInv
    <3>3. ToldBy(c, r)'
      BY <1>1, <1>2, <2>3, <3>1, <3>2 DEF ToldBy, Answered
    <3> QED
      BY <2>3, <3>3
  <2> QED
    BY <2>2, <2>3 DEF Welcome
<1> QED
  BY <1>1, <1>5, <1>6

\* A page on the way home was told to go there.
LEMMA ResultTold ==
    ASSUME ClientTypeOK, NEW c \in Clients, Client!ReceivedResult(c), NEW d \in Clients, Welcome(d)'
    PROVE  Welcome(d)
<1>1. PICK i \in Head(events[c]).at :
        /\ \/ Head(events[c]).success /\ Client!Navigate(c, "HOME")
           \/ UNCHANGED backStack
        /\ events' = [events EXCEPT ![c] = Client!Executed(@, i)]
  BY DEF Client!ReceivedResult
<1>2. events[c] # <<>>
  BY DEF Client!ReceivedResult
<1>3. CASE \E j \in 1 .. Len(events'[d]) : events'[d][j].success
  BY <1>1, <1>2, <1>3, DequeueType, ZenonT(60) DEF Welcome
<1>4. CASE AtHome(d)'
  <2>1. CASE UNCHANGED backStack
    BY <1>4, <2>1 DEF AtHome, Welcome
  <2>2. CASE Head(events[c]).success /\ Client!Navigate(c, "HOME")
    <3>1. CASE d = c
      <4>1. 1 \in 1 .. Len(events[c]) /\ events[c][1].success
        BY <1>1, <1>2, <2>2, SlotOfListener
      <4> QED
        BY <3>1, <4>1 DEF Welcome
    <3>2. CASE d # c
      <4>1. backStack'[d] = backStack[d]
        BY <2>2, <3>2, NavigateType DEF Client!PageNames
      <4> QED
        BY <1>4, <4>1 DEF AtHome, Welcome
    <3> QED
      BY <3>1, <3>2
  <2> QED
    BY <1>1, <2>1, <2>2
<1> QED
  BY <1>3, <1>4 DEF Welcome

LEMMA HomeStep ==
    ASSUME SignUpIInv, ClientTypeOK, FreshInv, HomeInv, [SystemNext]_system
    PROVE  HomeInv'
<1>0. TypeOK
  BY DEF SignUpIInv, IInv
<1> SUFFICES ASSUME NEW c \in Clients, Welcome(c)'
             PROVE  \E r \in Requests : ToldBy(c, r)'
  BY DEF HomeInv
<1> SUFFICES Welcome(c) \/ \E r \in Requests : ToldBy(c, r)'
  BY ToldStays DEF HomeInv
<1>1. (\E s \in Servers : Deliver(s)) \/ UNCHANGED client => Welcome(c)
  BY DEF Deliver, client, Welcome, AtHome
<1>2. ASSUME NEW d \in Clients, Client!ClickSignIn(d) \/ Client!ClickFinish(d) PROVE Welcome(c)
  BY <1>2 DEF Client!ClickSignIn, Client!ClickFinish, Client!gui, Welcome, AtHome
<1>3. ASSUME NEW d \in Clients, Client!ClickSignUp(d) PROVE Welcome(c)
  <2>1. Client!Navigate(d, "SIGN_UP") /\ UNCHANGED events
    BY <1>3 DEF Client!ClickSignUp
  <2>2. /\ Len(backStack'[d]) = Len(backStack[d]) + 1 /\ Len(backStack[d]) \in Nat
        /\ backStack'[d][Len(backStack[d]) + 1] = "SIGN_UP"
        /\ \A i \in 1 .. Len(backStack[d]) : backStack'[d][i] = backStack[d][i]
        /\ \A e \in Clients \ {d} : backStack'[e] = backStack[e]
    BY <2>1, NavigateType DEF Client!PageNames, Client!Listeners
  <2>3. AtHome(c)' => AtHome(c)
    <3>1. CASE c # d
      BY <2>2, <3>1 DEF AtHome
    <3>2. CASE c = d
      <4> SUFFICES ASSUME NEW i \in 1 .. Len(backStack'[d]), backStack'[d][i] = "HOME"
                   PROVE  AtHome(d)
        BY <3>2 DEF AtHome
      <4>1. i # Len(backStack[d]) + 1
        BY <2>2
      <4>2. i \in 1 .. Len(backStack[d])
        BY <2>2, <4>1
      <4> QED
        BY <2>2, <4>2 DEF AtHome
    <3> QED
      BY <3>1, <3>2
  <2> QED
    BY <2>1, <2>3 DEF Welcome
<1>4. ASSUME NEW d \in Clients, Client!ReceivedResult(d) PROVE Welcome(c)
  BY <1>4, ResultTold
<1>5. ASSUME NEW d \in Clients, Client!Receive(d)
      PROVE  Welcome(c) \/ \E r \in Requests : ToldBy(c, r)'
  BY <1>5, ReceiveTold
<1>6. CASE Client!Repeat
  BY <1>6 DEF Client!Repeat, Client!gui, Welcome, AtHome
<1> QED
  BY <1>0, <1>1, <1>2, <1>3, <1>4, <1>5, <1>6, SystemStep DEF Client!Next, system

-----------------------------------------------------------------------------
(* Who is signed out *)

LEMMA ReplacedStep ==
    ASSUME SignUpIInv, SignUpIInv', ReplacedInv, NEW s \in Servers, StepOf(s)
    PROVE  ReplacedInv'
<1> USE DEF SignUpIInv, SignUpInv, IInv
<1> SUFFICES ASSUME stops' = 0, faults' = 0, NEW row \in issued'
             PROVE  row \in sessions' \/ Replaced(row)'
  BY DEF ReplacedInv
<1>1. faults = 0 /\ ~Raises(s)
  BY NoFault
<1>2. stops = 0 /\ ~Stop(s)
  <2>1. stops' = stops \/ stops' = stops + 1
    <3>1. CASE Work(s) /\ ~SendResult(s)
      BY <3>1, WorkContinues DEF Continues
    <3>2. CASE Receive(s) \/ SendResult(s) \/ Stop(s) \/ Start(s)
      BY <3>2 DEF Receive, SendResult, Stop, Start, bounds
    <3> QED
      BY <3>1, <3>2 DEF StepOf
  <2>2. stops \in Nat
    BY BoundsAssumption DEF TypeOK
  <2> QED
    BY <2>1, <2>2 DEF Stop
<1>3. issued \subseteq issued'
  BY Monotone
<1>4. CASE row \notin issued
  <2>1. AddSession(s)
    BY <1>4, Locality DEF SessionsStep
  <2> QED
    BY <1>4, <2>1 DEF AddSession
<1>5. CASE row \in issued
  <2>1. row \in sessions \/ Replaced(row)
    BY <1>1, <1>2, <1>5 DEF ReplacedInv
  \* A row leaves the table when its account is about to get another.
  <2>2. CASE row \in sessions /\ row \notin sessions'
    <3>1. DeleteSessions(s)
      <4>1. ~Receive(s) /\ ~SendResult(s) /\ ~Start(s)
        BY <2>2 DEF Receive, SendResult, Start, tables
      <4>2. ~SessionExists(s) /\ ~IsValidSignInAttempt(s) /\ ~UserExists(s) /\ ~CreateUser(s)
        BY <2>2 DEF SessionExists, IsValidSignInAttempt, UserExists, CreateUser, tables
      <4>3. ~LookupUser(s) /\ ~InsertSession(s) /\ ~ReadSession(s)
        BY <2>2 DEF LookupUser, InsertSession, AddSession, ReadSession, tables
      <4>4. ~CheckRaises(s) /\ ~CreateUserRaises(s) /\ ~CreateSessionRaises(s)
        BY <1>1 DEF CheckRaises, CreateUserRaises, CreateSessionRaises
      <4> QED
        BY <1>2, <4>1, <4>2, <4>3, <4>4 DEF StepOf, Work
    <3>2. pc'[s] = "insert" /\ uid'[s] = uid[s] /\ row.user = uid[s]
      BY <2>2, <3>1 DEF DeleteSessions, RemoveSessions, SelectSessions, Goto, TypeOK
    <3> QED
      BY <3>2 DEF Replaced
  <2>3. ASSUME NEW newer \in issued, newer.user = row.user, newer.id > row.id
        PROVE  Replaced(row)'
    BY <1>3, <2>3 DEF Replaced
  <2>4. ASSUME NEW t \in Servers, pc[t] = "insert", uid[t] = row.user
        PROVE  Replaced(row)'
    <3>1. CASE t # s
      <4>1. pc'[t] = "insert" /\ uid'[t] = row.user
        BY <2>4, <3>1, Locality
      <4> QED
        BY <4>1 DEF Replaced
    <3>2. CASE t = s
      <4>1. InsertSession(s)
        <5>1. ~Receive(s) /\ ~SendResult(s) /\ ~Start(s) /\ ~SessionExists(s)
              /\ ~IsValidSignInAttempt(s) /\ ~UserExists(s) /\ ~CreateUser(s)
              /\ ~LookupUser(s) /\ ~DeleteSessions(s) /\ ~ReadSession(s)
          BY <2>4, <3>2 DEF Receive, SendResult, Start, SessionExists, IsValidSignInAttempt,
             UserExists, CreateUser, LookupUser, DeleteSessions, ReadSession
        <5>2. ~CheckRaises(s) /\ ~CreateUserRaises(s) /\ ~CreateSessionRaises(s)
          BY <1>1 DEF CheckRaises, CreateUserRaises, CreateSessionRaises
        <5> QED
          BY <1>2, <5>1, <5>2 DEF StepOf, Work
      <4> DEFINE newer == [id |-> nextSession, user |-> uid[s], by |-> req[s]]
      <4>2. newer \in issued' /\ newer.user = row.user /\ newer.id = nextSession
        BY <2>4, <3>2, <4>1 DEF InsertSession, AddSession
      <4> HIDE DEF newer
      <4>3. row.id < nextSession /\ row.id \in Nat /\ nextSession \in Nat
        BY <1>5 DEF KeysInv, TypeOK, SessionRows
      <4>4. newer.id > row.id
        BY <4>2, <4>3
      <4>5. \E other \in issued' : other.user = row.user /\ other.id > row.id
        BY <4>2, <4>4
      <4> QED
        BY <4>5 DEF Replaced
    <3> QED
      BY <3>1, <3>2
  <2> QED
    BY <2>1, <2>2, <2>3, <2>4 DEF Replaced
<1> QED
  BY <1>4, <1>5

-----------------------------------------------------------------------------
(* The invariant is inductive *)

LEMMA SystemInvInit == SystemInit => SystemInv
<1> SUFFICES ASSUME SystemInit PROVE SystemInv
  OBVIOUS
<1> USE DEF SystemInit
<1>1. ClientTypeOK
  BY ClientTypeInit
<1>2. \A c \in Clients : backStack[c] = <<"SIGN_IN">> /\ events[c] = <<>>
  BY DEF Client!Init
<1>3. Len(<<"SIGN_IN">>) = 1 /\ <<"SIGN_IN">>[1] = "SIGN_IN" /\ Len(<<>>) = 0
  OBVIOUS
<1>4. PagesInv
  BY <1>2, <1>3 DEF PagesInv, PagesInOrder
<1>5. HomeInv
  BY <1>2, <1>3 DEF HomeInv, Welcome, AtHome
<1>6. SentInv /\ FreshInv /\ ReplacedInv
  BY DEF Init, SentInv, FreshInv, FreshAt, ReplacedInv, Answered
<1> QED
  BY <1>1, <1>4, <1>5, <1>6 DEF SystemInv

LEMMA SystemInvStep == SignUpIInv /\ SignUpIInv' /\ SystemInv /\ [SystemNext]_system => SystemInv'
<1> SUFFICES ASSUME SignUpIInv, SignUpIInv', SystemInv, [SystemNext]_system PROVE SystemInv'
  OBVIOUS
<1> USE DEF SystemInv
<1>0. TypeOK
  BY DEF SignUpIInv, IInv
<1>1. ClientTypeOK' /\ PagesInv' /\ SentInv' /\ HomeInv'
  BY <1>0, ClientTypeStep, PagesStep, SentStep, HomeStep
<1>2. FreshInv' /\ ReplacedInv'
  <2>1. CASE \E s \in Servers : StepOf(s)
    BY <2>1, FreshStep, ReplacedStep
  <2>2. CASE UNCHANGED vars
    BY <2>2 DEF vars, FreshInv, FreshAt, Packet, Answered, ReplacedInv, Replaced
  <2> QED
    BY <1>0, <2>1, <2>2, SystemStep DEF system
<1> QED
  BY <1>1, <1>2

LEMMA SystemInductive == System => [](SignUpIInv /\ SystemInv)
  BY ServersInvariant, SystemInvInit, SystemInvStep, PTL DEF System

-----------------------------------------------------------------------------
(* The theorems *)

\* The clients' variables keep their types, and no slot is queued for a page that
\* is not connected.
THEOREM ClientTypeCorrect == System => []ClientTypeOK
<1>1. SystemInv => ClientTypeOK
  BY DEF SystemInv
<1> QED
  BY <1>1, SystemInductive, PTL

\* The sign-in page comes first, the sign-up page second at most, and home pages
\* above them, whenever results come in.
THEOREM PagesStayInOrder == System => []PagesInOrder
<1>1. SystemInv => PagesInOrder
  BY DEF SystemInv, PagesInv
<1> QED
  BY <1>1, SystemInductive, PTL

\* Who is at home holds a session of the account whose credentials were typed at
\* this client, and of no other.
THEOREM HomeIsOwn == System => []HomeHoldsOwnSession
<1>1. SignUpIInv /\ SystemInv /\ SessionBelongsToCaller => HomeHoldsOwnSession
  <2> SUFFICES ASSUME SystemInv, SessionBelongsToCaller, SignUpIInv, NEW c \in Clients, AtHome(c)
               PROVE  \E r \in Requests : /\ sent[r] # None /\ sent[r].client = c
                            /\ Answered(r) /\ answer[r].success
                            /\ answer[r].sid = sessionID[c]
                            /\ \E u \in users : /\ Holders(sessionID[c]) = {u}
                                                /\ Matches(u, sent[r])
    BY DEF HomeHoldsOwnSession
  <2>1. PICK r \in Requests : ToldBy(c, r)
    BY DEF SystemInv, HomeInv, Welcome
  <2>2. SignedIn(r) /\ asked[r] # None
    BY <2>1 DEF SystemInv, FreshInv, ToldBy, SignedIn, SignUpIInv, IInv, AnswersInv
  <2>3. PICK u \in users : Holders(answer[r].sid) = {u} /\ Matches(u, asked[r])
    BY <2>2 DEF SessionBelongsToCaller
  <2>4. Matches(u, sent[r])
    BY <2>2, <2>3 DEF SystemInv, SentInv, Matches
  <2> QED
    BY <2>1, <2>3, <2>4 DEF ToldBy
<1> QED
  BY <1>1, SystemInductive, SystemRunsServers, CallerHoldsSession, PTL

\* As long as no server stops and no statement raises, a client loses its session
\* to a newer one of its own account only.
THEOREM OnlyReplacementSignsOut == System => []SignedOutByReplacement
<1>1. SystemInv => SignedOutByReplacement
  BY DEF SystemInv, ReplacedInv, SignedOutByReplacement
<1> QED
  BY <1>1, SystemInductive, PTL
=============================================================================
