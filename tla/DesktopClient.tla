---------------------------- MODULE DesktopClient ----------------------------
(***************************************************************************)
(* The desktop clients: the pages a user clicks on, PageNavigator, and     *)
(* PacketManager, whose thread receives results and emits receivedResult.  *)
(* The signal crosses threads, so it is queued for each page connected     *)
(* when it is emitted; the GUI thread executes the slots later, one by     *)
(* one, in the order in which the pages were connected.                    *)
(*                                                                         *)
(* Between client and server lies a network that loses, repeats, reorders  *)
(* and mangles datagrams.  The module is open: variable answer is what the *)
(* servers send back.                                                      *)
(***************************************************************************)
EXTENDS Integers, Sequences

CONSTANTS
    Clients,     \* the client processes, each with an IP address of its own
    Requests,    \* identities of the datagrams that reach the servers
    Names,
    Passwords,
    MaxMishaps,  \* bound on the datagrams the network repeats or mangles
    None

VARIABLES
    sessionID,  \* PacketManager.sessionID
    backStack,  \* PageNavigator.backStack, which the stack of widgets repeats
    label,      \* the result in statusLabel of the sign-in, errorLabel of the sign-up page
    events,     \* receivedResult, queued for the GUI thread: at is the pages of
                \* backStack whose slots are still to be executed
    sent,       \* the datagram of each request
    answer,     \* the answer the servers sent to each request
    arrived,    \* the answers that were delivered
    mishaps     \* datagrams that were repeated or mangled, up to MaxMishaps

gui == <<backStack, label>>
vars == <<sessionID, backStack, label, events, sent, answer, arrived, mishaps>>

\* The pages that are connected to receivedResult.
Listeners == {"SIGN_IN", "SIGN_UP"}
PageNames == Listeners \cup {"HOME"}
Datagrams == [client : Clients, type : {"SNIN", "SNUP"}, name : Names, pass : Passwords, sid : Nat]

BadPacket == "bad_packet"

\* Defect: the stack of widgets stays at its first page.
CurrentPageFirst(c) == Head(backStack[c])

CurrentPage(c) == backStack[c][Len(backStack[c])]
Connected(c) == {i \in 1 .. Len(backStack[c]) : backStack[c][i] \in Listeners}

-----------------------------------------------------------------------------
Init ==
    /\ sessionID = [c \in Clients |-> 0]
    /\ backStack = [c \in Clients |-> <<"SIGN_IN">>]
    /\ label = [c \in Clients |-> [page \in Listeners |-> ""]]
    /\ events = [c \in Clients |-> <<>>]
    /\ sent = [r \in Requests |-> None]
    /\ arrived = {}
    /\ mishaps = 0

Navigate(c, page) == backStack' = [backStack EXCEPT ![c] = Append(@, page)]
Show(c, page, text) == label' = [label EXCEPT ![c][page] = text]

Mishap(n) == mishaps' = mishaps + n /\ mishaps' <= MaxMishaps

-----------------------------------------------------------------------------
(* The GUI thread *)

\* packHeader reads sessionID, which the receiving thread writes.
Send(c, type) ==
    \E r \in Requests, name \in Names, pass \in Passwords :
        /\ sent[r] = None
        /\ sent' = [sent EXCEPT ![r] = [client |-> c, type |-> type, name |-> name, pass |-> pass,
                                        sid |-> sessionID[c]]]

ClickSignIn(c) ==
    /\ CurrentPage(c) = "SIGN_IN"
    /\ Send(c, "SNIN")
    /\ UNCHANGED <<sessionID, gui, events, answer, arrived, mishaps>>

ClickSignUp(c) ==
    /\ CurrentPage(c) = "SIGN_IN"
    /\ Navigate(c, "SIGN_UP")
    /\ UNCHANGED <<sessionID, label, events, sent, answer, arrived, mishaps>>

\* finishButton: the label is cleared, and the packet sent unless the form has an
\* error, which the label then names.
ClickFinish(c) ==
    /\ CurrentPage(c) = "SIGN_UP"
    /\ \/ Show(c, "SIGN_UP", "") /\ UNCHANGED sent
       \/ Show(c, "SIGN_UP", "") /\ Send(c, "SNUP")
    /\ UNCHANGED <<sessionID, backStack, events, answer, arrived, mishaps>>

\* The queue once the slot of page i is executed.
Executed(queue, i) ==
    IF Head(queue).at = {i} THEN Tail(queue) ELSE [queue EXCEPT ![1].at = @ \ {i}]

\* Every page that is connected has its own slot: to the home page, or the text.
ReceivedResult(c) ==
    /\ events[c] # <<>>
    /\ LET event == Head(events[c]) IN \E i \in event.at :
        /\ \A j \in event.at : i <= j
        /\ \/ event.success /\ Navigate(c, "HOME") /\ UNCHANGED label
           \/ ~event.success /\ Show(c, backStack[c][i], event.message) /\ UNCHANGED backStack
        /\ events' = [events EXCEPT ![c] = Executed(@, i)]
    /\ UNCHANGED <<sessionID, sent, answer, arrived, mishaps>>

-----------------------------------------------------------------------------
(* PacketManager::run, the receiving thread *)

Queue(c, pages, success, message) == events' = [events EXCEPT ![c] =
    Append(@, [at |-> pages, success |-> success, message |-> message])]

\* Defect: the home page is connected as well.
EmitToAll(c, success, message) == Queue(c, 1 .. Len(backStack[c]), success, message)

Emit(c, success, message) == Queue(c, Connected(c), success, message)

\* The checksum, and the session ID once one is known; the address in the header
\* is this client's, or the load balancer had not sent it here.
VerifyHeader(c, header, intact) ==
    /\ intact /\ header.verifies
    /\ sessionID[c] = 0 \/ header.sid = sessionID[c]

\* Defect: the session ID is not kept.
AdoptNothing(c, header) == UNCHANGED sessionID

Adopt(c, header) ==
    sessionID' = [sessionID EXCEPT ![c] = IF @ = 0 THEN header.sid ELSE @]

Receive(c) ==
    /\ \E r \in Requests, intact \in BOOLEAN :
        /\ sent[r] # None /\ sent[r].client = c
        /\ answer[r] # None
        /\ arrived' = arrived \cup {r}
        /\ Mishap((IF r \in arrived THEN 1 ELSE 0) + (IF intact THEN 0 ELSE 1))
        /\ \/ /\ VerifyHeader(c, answer[r], intact)
              /\ Adopt(c, answer[r])
              /\ Emit(c, answer[r].success, answer[r].msg)
           \/ /\ ~VerifyHeader(c, answer[r], intact)
              /\ Emit(c, FALSE, BadPacket)
              /\ UNCHANGED sessionID
    /\ UNCHANGED <<gui, sent, answer>>

\* The network repeats a datagram on its way to the servers.
Repeat ==
    /\ \E r, again \in Requests :
        /\ sent[r] # None /\ sent[again] = None
        /\ sent' = [sent EXCEPT ![again] = sent[r]]
    /\ Mishap(1)
    /\ UNCHANGED <<sessionID, gui, events, answer, arrived>>

Next == \/ \E c \in Clients : \/ ClickSignIn(c) \/ ClickSignUp(c) \/ ClickFinish(c)
                              \/ ReceivedResult(c) \/ Receive(c)
        \/ Repeat
=============================================================================
