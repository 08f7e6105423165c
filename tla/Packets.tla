------------------------------- MODULE Packets -------------------------------
(***************************************************************************)
(* The bytes of the packets: how clients and servers pack, check and read  *)
(* them, and what the connection between the load balancer and a server,   *)
(* a stream of bytes without boundaries, does to them.                     *)
(*                                                                         *)
(* A packet is its checksum and its body, the bytes behind the checksum.   *)
(* A checksum is the bytes it was computed of: two texts that crc32 does   *)
(* not tell apart are left out.  The four letters of a type are one byte,  *)
(* and recv does not split a packet inside its checksum, nor leave less    *)
(* than a checksum of it.                                                  *)
(***************************************************************************)
EXTENDS Integers, Sequences

CONSTANTS
    Clients,
    Address,     \* the IP address of each client, as text
    Forms,       \* what users fill in: [type, texts]
    Results,     \* the messages of results, as texts
    BadPacket,   \* "ERROR: Bad packet"
    Sids,        \* session IDs that the database gives out
    Junk,        \* values of the bytes that lie behind the end of a text in memory
    Base,        \* values of a byte, 256 in the code
    WordLen,     \* bytes of a uint32_t, 4
    IPLen,       \* bytes of an address, 16
    StrLen,      \* MAX_STR_LEN, STD_STRING_LENGTH: 64
    MaxRequests, \* bound on the requests clients send
    MaxRelayed,  \* bound on the requests that reach the server, repeated ones included
    MaxCuts      \* bound on the packets that a stream cuts in two

Byte == 0 .. Base - 1
Char == 1 .. Base - 1

SNIN == 1
SNUP == 2
RSLT == 3
Fields(type) == IF type = SNIN THEN 2 ELSE 4

ASSUME SizesAssumption ==
    /\ Base \in Nat /\ Base > RSLT /\ StrLen \in Nat /\ WordLen \in 1 .. StrLen
    /\ IPLen \in Nat /\ MaxRequests \in Nat
    /\ MaxRelayed \in Nat /\ MaxCuts \in Nat
ASSUME TextsAssumption ==
    /\ \A c \in Clients : Address[c] \in Seq(Char) /\ Len(Address[c]) < IPLen
    /\ \A form \in Forms : /\ form.type \in {SNIN, SNUP} /\ Len(form.texts) = Fields(form.type)
                           /\ form.texts \in Seq(Seq(Char))
    /\ \A text \in Results \cup {BadPacket} : text \in Seq(Char) /\ Len(text) < StrLen
    /\ Sids \subseteq 1 .. Base^WordLen - 1 /\ Junk \subseteq Byte

\* What ^ is, of which the provers know nothing.
ASSUME PowersAssumption == Base^0 = 1 /\ \A n \in 0 .. WordLen - 1 : Base^(n + 1) = Base * Base^n

VARIABLES
    session,    \* sessionID of each client
    sent,       \* the requests: who sent what form, in what packet
    relayed,    \* requests that reached the server, up to MaxRelayed
    cuts,       \* packets that were cut in two, up to MaxCuts
    toServer,   \* packets and parts of packets in the connection, one way
    toBalancer, \* and the other
    executed,   \* the forms the server acted upon
    packed,     \* the results the server packed
    answers,    \* the datagrams the balancer sent to clients
    shown       \* the last result each client emitted

vars == <<session, sent, relayed, cuts, toServer, toBalancer, executed, packed, answers,
          shown>>

-----------------------------------------------------------------------------
(* Words and texts *)

\* A word in memory, low byte first.
InMemory(v) == [i \in 1 .. WordLen |-> (v \div Base^(i - 1)) % Base]

\* Defect: a shorter word is written than is read, as by htons.
NarrowWord(v) == [i \in 1 .. WordLen - 1 |-> (v \div Base^(WordLen - 1 - i)) % Base]

\* htonl and ntohl: the high byte comes first.
Word(v) == [i \in 1 .. WordLen |-> (v \div Base^(WordLen - i)) % Base]
WordOf(bytes) == CHOOSE v \in 0 .. Base^WordLen - 1 : Word(v) = bytes

\* n bytes of a buffer that was filled with zeros.
At(bytes, from, n) ==
    [i \in 1 .. n |-> IF from + i <= Len(bytes) THEN bytes[from + i] ELSE 0]

\* Defect: the text is copied without its end.
OpenField(text, n, junk) == SubSeq(text \o [i \in 1 .. n |-> junk], 1, n)

\* n bytes from where the text lies, whatever its length.
Field(text, n, junk) == SubSeq(text \o <<0>> \o [i \in 1 .. n |-> junk], 1, n)

\* A text ends at the first zero, wherever that is.
Text(bytes) ==
    LET zeros == {i \in 1 .. Len(bytes) : bytes[i] = 0} IN
    IF zeros = {} THEN bytes
    ELSE SubSeq(bytes, 1, (CHOOSE i \in zeros : \A j \in zeros : i <= j) - 1)

-----------------------------------------------------------------------------
(* Packets, and what a stream makes of them *)

HeaderLen == IPLen + 1 + WordLen
ResultLen == HeaderLen + WordLen + StrLen
SignUpLen == HeaderLen + 4 * StrLen

Header(body) == [ip |-> At(body, 0, IPLen), type |-> At(body, IPLen, 1)[1],
                 sid |-> WordOf(At(body, IPLen + 1, WordLen))]

\* packHeader: the checksum is that of the first size bytes of the buffer.
Pack(ip, type, sid, payload, size) ==
    LET body == ip \o <<type>> \o Word(sid) \o payload IN
    [crc |-> At(body, 0, size), body |-> body]

\* The checksum is computed again, of the bytes that were read.
Verifies(packet) == packet.crc = packet.body

\* What is read as a checksum in the middle of a packet, and a checksum that is
\* read as something else.
NoCrc == <<Base>>
Opaque == [i \in 1 .. WordLen |-> Base - 1]

\* What one recv may take from a stream, and what it leaves: a packet, a part of
\* one, or two that ran together.
Takes(stream) ==
    LET first == stream[1]
        Part(n) == [crc |-> first.crc, body |-> SubSeq(first.body, 1, n)]
        Remainder(n) == [crc |-> NoCrc,
                         body |-> SubSeq(first.body, n + 1 + WordLen, Len(first.body))]
        Both == [crc |-> first.crc, body |-> first.body \o Opaque \o stream[2].body]
    IN  {[packet |-> first, left |-> Tail(stream), cut |-> 0]}
        \cup {[packet |-> Part(n), left |-> <<Remainder(n)>> \o Tail(stream), cut |-> 1] :
                  n \in 1 .. Len(first.body) - WordLen}
        \cup (IF Len(stream) < 2 THEN {}
              ELSE {[packet |-> Both, left |-> Tail(Tail(stream)), cut |-> 0]})

Cut(take) == cuts' = cuts + take.cut /\ cuts' <= MaxCuts

-----------------------------------------------------------------------------
Init ==
    /\ session = [c \in Clients |-> 0]
    /\ sent = <<>> /\ relayed = 0 /\ cuts = 0
    /\ toServer = <<>> /\ toBalancer = <<>>
    /\ executed = {} /\ packed = {} /\ answers = {}
    /\ shown = [c \in Clients |-> [success |-> FALSE, message |-> <<>>]]

\* One field after the other.
Payload(texts, junk) ==
    [i \in 1 .. Len(texts) * StrLen |->
        Field(texts[((i - 1) \div StrLen) + 1], StrLen, junk)[((i - 1) % StrLen) + 1]]

Request(c, form, sid, junk) ==
    LET payload == Payload(form.texts, junk) IN
    Pack(Field(Address[c], IPLen, junk), form.type, sid, payload, HeaderLen + Len(payload))

\* sendSignInPacket and sendSignUpPacket
SendForm(c) ==
    /\ Len(sent) < MaxRequests
    /\ \E form \in Forms, junk \in Junk :
        sent' = Append(sent, [client |-> c, form |-> form,
                              packet |-> Request(c, form, session[c], junk)])
    /\ UNCHANGED <<session, relayed, cuts, toServer, toBalancer, executed, packed, answers,
                   shown>>

\* The network loses, repeats and reorders datagrams; the balancer passes on what
\* it receives.
RelayRequest ==
    /\ relayed < MaxRelayed
    /\ \E i \in 1 .. Len(sent) : toServer' = Append(toServer, sent[i].packet)
    /\ relayed' = relayed + 1
    /\ UNCHANGED <<session, sent, cuts, toBalancer, executed, packed, answers, shown>>

-----------------------------------------------------------------------------
(* The server *)

\* Defect: a COUNT has a row, whatever it counts.
SessionExistsCounted(sid) == TRUE

\* The SELECT names a column that the table lacks, and raises.
SessionExists(sid) == FALSE

\* packetType has no end of its own: what follows it in memory is the session ID.
TypeText(header) == Text(<<header.type>> \o InMemory(header.sid))

\* A text that fills its field runs on into the next ones, and beyond the last.
TextsOf(body, n, junk) ==
    [i \in 1 .. n |-> Text(At(body, HeaderLen + (i - 1) * StrLen, (n - i + 1) * StrLen)
                           \o <<junk, 0>>)]

\* packResultPacket, packHeader and send, with the header of the request.
Reply(header, sid, success, message, size) ==
    LET payload == Word(success) \o Field(message, StrLen, 0) IN
    /\ packed' = packed \cup {[ip |-> Text(header.ip), sid |-> sid, success |-> success = 1,
                               message |-> message]}
    /\ toBalancer' = Append(toBalancer, Pack(header.ip, RSLT, sid, payload, size))

\* The checksum of the answer to a sign-up is that of a packet as long as the
\* request; 0 is not an ID.
Execute(type, body, header) ==
    /\ \E junk \in Junk : executed' = executed \cup
           {[type |-> type, texts |-> TextsOf(body, Fields(type), junk)]}
    /\ \E success \in {0, 1}, sid \in Sids, message \in Results :
           Reply(header, IF success = 1 /\ header.sid = 0 THEN sid ELSE header.sid, success,
                 message, IF type = SNUP THEN SignUpLen ELSE ResultLen)

ServerReceive ==
    /\ toServer # <<>>
    /\ \E take \in Takes(toServer) :
        LET body == take.packet.body
            header == Header(body)
            valid == Verifies(take.packet) /\ (header.sid > 0 => SessionExists(header.sid))
        IN  /\ toServer' = take.left /\ Cut(take)
            /\ \/ ~valid /\ Reply(header, header.sid, 0, BadPacket, ResultLen) /\ UNCHANGED executed
               \/ \E type \in {SNIN, SNUP} :
                      valid /\ TypeText(header) = <<type>> /\ Execute(type, body, header)
               \/ /\ valid /\ TypeText(header) \notin {<<SNIN>>, <<SNUP>>}
                  /\ UNCHANGED <<executed, packed, toBalancer>>
    /\ UNCHANGED <<session, sent, relayed, answers, shown>>

-----------------------------------------------------------------------------
(* Back to the client *)

\* The balancer reads the address from the bytes, and drops what is for nobody.
RelayResult ==
    /\ toBalancer # <<>>
    /\ \E take \in Takes(toBalancer) :
        /\ toBalancer' = take.left /\ Cut(take)
        /\ answers' = answers \cup
               {[client |-> c, packet |-> take.packet] :
                   c \in {d \in Clients : Address[d] = Text(Header(take.packet.body).ip)}}
    /\ UNCHANGED <<session, sent, relayed, toServer, executed, packed, shown>>

Emit(c, success, message) ==
    shown' = [shown EXCEPT ![c] = [success |-> success, message |-> message]]

\* Defect: answers under another session are taken.
ExpectedAddress(c, header) == Text(header.ip) = Address[c]

Expected(c, header) == Text(header.ip) = Address[c] /\ session[c] \in {0, header.sid}

\* verifyHeader keeps the first session ID; an answer may come late, twice or never.
Receive(c) ==
    /\ \E answer \in answers :
        LET body == answer.packet.body
            header == Header(body)
            valid == Verifies(answer.packet) /\ Expected(c, header)
        IN  /\ answer.client = c
            /\ \/ ~valid /\ Emit(c, FALSE, BadPacket) /\ UNCHANGED session
               \/ /\ valid /\ session' = [session EXCEPT ![c] = IF @ = 0 THEN header.sid ELSE @]
                  /\ IF header.type # RSLT THEN UNCHANGED shown
                     ELSE Emit(c, WordOf(At(body, HeaderLen, WordLen)) # 0,
                               Text(At(body, HeaderLen + WordLen, StrLen)))
    /\ UNCHANGED <<sent, relayed, cuts, toServer, toBalancer, executed, packed, answers>>

Done == Len(sent) = MaxRequests /\ relayed = MaxRelayed /\ toServer = <<>> /\ toBalancer = <<>>
        /\ UNCHANGED vars

Next == \/ \E c \in Clients : SendForm(c) \/ Receive(c)
        \/ RelayRequest \/ ServerReceive \/ RelayResult \/ Done

Spec == Init /\ [][Next]_vars

-----------------------------------------------------------------------------
(* What users rely on *)

\* The type of every variable; every element of a packet is a byte, and a request is
\* as long as its type says.
TypeOK ==
    LET Packet == [crc : Seq(Byte) \cup {NoCrc}, body : Seq(Byte)]
        Sid == 0 .. Base^WordLen - 1
    IN  /\ session \in [Clients -> Sid]
        /\ sent \in Seq([client : Clients, form : Forms, packet : Packet])
        /\ relayed \in 0 .. MaxRelayed /\ cuts \in 0 .. MaxCuts
        /\ toServer \in Seq(Packet) /\ toBalancer \in Seq(Packet)
        /\ \A e \in executed : e.type \in {SNIN, SNUP} /\ e.texts \in Seq(Seq(Byte))
        /\ packed \subseteq [ip : Seq(Byte), sid : Sid, success : BOOLEAN,
                             message : Results \cup {BadPacket}]
        /\ answers \subseteq [client : Clients, packet : Packet]
        /\ shown \in [Clients -> [success : BOOLEAN, message : Seq(Byte)]]
        /\ \A i \in 1 .. Len(sent) :
              Len(sent[i].packet.body) = HeaderLen + Fields(sent[i].form.type) * StrLen

\* The server acts upon nothing that nobody filled in: not on a part of a packet, nor
\* on two that ran together.  A text that fits its field arrives as it was typed.  One
\* that fills it loses its end, and what the server takes for it is the part that fits
\* and all that lies behind it: the next text, and that way the texts up to one that
\* fits, or the memory behind the last.
Behind(e, k) == IF k < Fields(e.type) THEN {e.texts[k + 1]}
                ELSE {IF byte = 0 THEN <<>> ELSE <<byte>> : byte \in Junk}
Agree(e, k, typed) ==
    IF Len(typed) < StrLen THEN e.texts[k] = typed
    ELSE \E more \in Behind(e, k) : e.texts[k] = SubSeq(typed, 1, StrLen) \o more
ExecutedAsTyped == \A e \in executed : \E i \in 1 .. Len(sent) :
    /\ sent[i].form.type = e.type
    /\ \A k \in 1 .. Fields(e.type) : Agree(e, k, sent[i].form.texts[k])

\* Whatever one recv of the server takes gets an answer, although a type is compared
\* together with the low byte of the session ID behind it: with any ID but 0 the
\* check fails before the type is looked at.
ReadsAnswered == [][toServer' # toServer =>
    \/ Len(toServer') > Len(toServer) /\ UNCHANGED toBalancer
    \/ Len(toBalancer') > Len(toBalancer)]_vars

\* A result that a client shows was packed for a request that bore its address, in
\* the same words, and under the session that the client now has; the parts and
\* heaps of answers that the stream makes never pass for one.
ShownWasPacked == \A c \in Clients :
    \/ shown[c].message \in {<<>>, BadPacket}
    \/ \E p \in packed : /\ p.ip = Address[c] /\ p.success = shown[c].success
                         /\ p.message = shown[c].message /\ p.sid = session[c]
=============================================================================
