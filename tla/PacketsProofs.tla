---------------------------- MODULE PacketsProofs ----------------------------
(***************************************************************************)
(* Proofs, for any sizes of words, texts and addresses, of what Packets    *)
(* states about bytes: what is read from a packet is what was written to   *)
(* it, and what the streams make of packets does not verify.               *)
(***************************************************************************)
EXTENDS Packets, Numbers, SequenceTheorems, TLAPS

(* The inductive invariant *)

ID == 0 .. Base^WordLen - 1

\* A packet in a stream is the rest of one, or has a checksum: the bytes of its
\* body, and zeros when it was computed of more than was sent.
Padded(packet) ==
    /\ packet.crc \in Seq(Byte) /\ Len(packet.body) <= Len(packet.crc)
    /\ \A i \in 1 .. Len(packet.crc) :
          packet.crc[i] = IF i <= Len(packet.body) THEN packet.body[i] ELSE 0
Sound(packet) == packet.body \in Seq(Byte) /\ (packet.crc = NoCrc \/ Padded(packet))

\* What is read from a packet is what was written to it.
IsResult(body, result) ==
    /\ Text(At(body, 0, IPLen)) = result.ip
    /\ At(body, IPLen, 1)[1] = RSLT
    /\ At(body, IPLen + 1, WordLen) = Word(result.sid)
    /\ At(body, HeaderLen, WordLen) = Word(IF result.success THEN 1 ELSE 0)
    /\ At(body, HeaderLen + WordLen, StrLen) = Field(result.message, StrLen, 0)

SentInv == \A j \in 1 .. Len(sent) : \E sid \in ID, junk \in Junk :
    sent[j].packet = Request(sent[j].client, sent[j].form, sid, junk)

\* Nothing that verifies was made by the streams.
ToServerInv == \A i \in 1 .. Len(toServer) :
    /\ Sound(toServer[i])
    /\ Verifies(toServer[i]) => \E j \in 1 .. Len(sent) : toServer[i] = sent[j].packet
ToBalancerInv == \A i \in 1 .. Len(toBalancer) :
    /\ Sound(toBalancer[i])
    /\ Verifies(toBalancer[i]) => \E result \in packed : IsResult(toBalancer[i].body, result)
AnswersInv == \A answer \in answers : Verifies(answer.packet) =>
    \E result \in packed : /\ result.ip = Address[answer.client]
                           /\ IsResult(answer.packet.body, result)

PacketsInv == /\ TypeOK /\ SentInv /\ ToServerInv /\ ToBalancerInv /\ AnswersInv
              /\ ExecutedAsTyped /\ ShownWasPacked

USE SizesAssumption DEF Byte, Char, SNIN, SNUP, RSLT

-----------------------------------------------------------------------------
(* Words *)

LEMMA PowerType == \A n \in 0 .. WordLen : Base^n \in Nat \ {0}
<1> DEFINE S == {n \in 0 .. WordLen : Base^n \in Nat \ {0}}
<1>1. 0 \in S
  BY PowersAssumption
<1>2. ASSUME NEW n \in 0 .. WordLen - 1, n \in S PROVE n + 1 \in S
  <2>1. Base^(n + 1) = Base * Base^n /\ Base^n \in Nat \ {0} /\ n + 1 \in 0 .. WordLen
    BY <1>2, PowersAssumption
  <2> QED
    BY <2>1
<1> HIDE DEF S
<1>3. \A n \in 0 .. WordLen : n \in S
  BY <1>1, <1>2, UpTo
<1> QED
  BY <1>3 DEF S

\* The largest power is more than the base, and the IDs are those below it.
LEMMA WordSize ==
    /\ Base^WordLen \in Nat /\ Base <= Base^WordLen
    /\ 0 \in ID /\ 1 \in ID /\ Sids \subseteq ID /\ ID \subseteq Nat
<1>1. WordLen - 1 \in 0 .. WordLen - 1 /\ WordLen - 1 \in 0 .. WordLen /\ WordLen \in 0 .. WordLen
  OBVIOUS
<1>2. Base^(WordLen - 1) \in Nat \ {0} /\ Base^WordLen \in Nat \ {0}
  BY <1>1, PowerType
<1>3. Base^WordLen = Base * Base^(WordLen - 1)
  <2>1. Base^((WordLen - 1) + 1) = Base * Base^(WordLen - 1)
    BY <1>1, PowersAssumption
  <2>2. (WordLen - 1) + 1 = WordLen
    OBVIOUS
  <2> QED
    BY <2>1, <2>2
<1>4. Base <= Base^WordLen
  BY <1>2, <1>3
<1> QED
  BY <1>2, <1>4, TextsAssumption DEF ID

Digit(v, i) == (v \div Base^i) % Base

LEMMA DigitType == \A v \in Nat, i \in 0 .. WordLen : Digit(v, i) \in Byte
<1> SUFFICES ASSUME NEW v \in Nat, NEW i \in 0 .. WordLen PROVE Digit(v, i) \in Byte
  OBVIOUS
<1>1. Base^i \in Nat \ {0}
  BY PowerType
<1>2. v \div Base^i \in Nat
  BY <1>1, DivMod
<1> QED
  BY <1>2, DivMod DEF Digit

LEMMA WordDigits ==
    ASSUME NEW v \in Nat
    PROVE  /\ Word(v) \in [1 .. WordLen -> Byte] /\ Word(v) \in Seq(Byte) /\ Len(Word(v)) = WordLen
           /\ \A i \in 1 .. WordLen : Word(v)[i] = Digit(v, WordLen - i)
<1>1. \A i \in 1 .. WordLen : WordLen - i \in 0 .. WordLen
  OBVIOUS
<1>2. Word(v) = [i \in 1 .. WordLen |-> Digit(v, WordLen - i)]
  BY DEF Word, Digit
<1>3. \A i \in 1 .. WordLen : Digit(v, WordLen - i) \in Byte
  BY <1>1, DigitType
<1>4. Word(v) \in [1 .. WordLen -> Byte]
  BY <1>2, <1>3
<1> QED
  BY <1>2, <1>4

\* A digit shifted up by one: the rest of the number without its lowest digit.
LEMMA DigitUp ==
    ASSUME NEW v \in Nat, NEW b \in Byte, NEW i \in 0 .. WordLen - 1
    PROVE  /\ Digit(Base * v + b, 0) = b
           /\ Digit(Base * v + b, i + 1) = Digit(v, i)
<1> DEFINE w == Base * v + b
           p == Base^i
           q == Base^(i + 1)
<1>1. w \in Nat /\ w \div Base = v /\ w % Base = b
  BY DivModUnique
<1>2. p \in Nat \ {0} /\ q = Base * p /\ i \in 0 .. WordLen
  BY PowerType, PowersAssumption
<1>3. Base^0 = 1
  BY PowersAssumption
<1> HIDE DEF w, p, q
<1>4. w \div 1 = w
  BY <1>1
<1>5. (w \div Base) \div p = w \div (Base * p)
  <2>1. w \in Nat /\ Base \in Nat \ {0} /\ p \in Nat \ {0}
    BY <1>1, <1>2
  <2> QED
    BY <2>1, DivDiv
<1>6. w \div q = v \div p
  BY <1>1, <1>2, <1>5
<1>7. (w \div Base^0) % Base = b
  BY <1>1, <1>3, <1>4
<1>8. (w \div q) % Base = (v \div p) % Base
  BY <1>6
<1> QED
  BY <1>7, <1>8 DEF Digit, w, p, q

\* Every sequence of bytes as long as a word is a word.
LEMMA WordExists ==
    ASSUME NEW bytes \in [1 .. WordLen -> Byte]
    PROVE  \E v \in ID : Word(v) = bytes
<1> DEFINE Prefix(k, v) == \A i \in 0 .. k - 1 : Digit(v, i) = bytes[k - i]
           S == {k \in 0 .. WordLen : \E v \in 0 .. Base^k - 1 : Prefix(k, v)}
<1>1. 0 \in S
  <2>1. 0 \in 0 .. Base^0 - 1 /\ 0 .. 0 - 1 = {}
    BY PowersAssumption
  <2> QED
    BY <2>1
<1>2. ASSUME NEW k \in 0 .. WordLen - 1, k \in S PROVE k + 1 \in S
  <2>1. PICK v \in 0 .. Base^k - 1 : Prefix(k, v)
    BY <1>2
  <2> DEFINE b == bytes[k + 1]
             w == Base * v + b
  <2>2. b \in Byte /\ v \in Nat /\ k + 1 \in 1 .. WordLen /\ k \in 0 .. WordLen
    BY PowerType
  <2>3. w \in 0 .. Base^(k + 1) - 1
    <3>1. Base^(k + 1) = Base * Base^k /\ Base^k \in Nat \ {0} /\ v <= Base^k - 1
      BY <2>2, PowersAssumption, PowerType
    <3>2. Base * v <= Base * (Base^k - 1)
      BY <2>2, <3>1
    <3>3. Base * (Base^k - 1) = Base * Base^k - Base
      BY <3>1
    <3>4. Base * v \in Nat /\ Base * Base^k \in Nat
      BY <2>2, <3>1
    <3> QED
      BY <2>2, <3>1, <3>2, <3>3, <3>4, SMTT(30)
  <2>4. ASSUME NEW i \in 0 .. k PROVE Digit(w, i) = bytes[(k + 1) - i]
    <3>1. CASE i = 0
      <4>1. 0 \in 0 .. WordLen - 1
        OBVIOUS
      <4>2. Digit(w, 0) = b
        BY <2>2, <4>1, DigitUp
      <4> QED
        BY <3>1, <4>2
    <3>2. CASE i # 0
      <4>1. i - 1 \in 0 .. k - 1 /\ i - 1 \in 0 .. WordLen - 1 /\ (i - 1) + 1 = i
            /\ k - (i - 1) = (k + 1) - i
        BY <3>2
      <4>2. Digit(w, (i - 1) + 1) = Digit(v, i - 1)
        BY <2>2, <4>1, DigitUp
      <4>3. Digit(v, i - 1) = bytes[k - (i - 1)]
        BY <2>1, <4>1
      <4> QED
        BY <4>1, <4>2, <4>3
    <3> QED
      BY <3>1, <3>2
  <2>5. (k + 1) - 1 = k /\ k + 1 \in 0 .. WordLen
    OBVIOUS
  <2>6. Prefix(k + 1, w)
    <3> HIDE DEF w
    <3> QED
      BY <2>4, <2>5
  <2> HIDE DEF w, Prefix
  <2> QED
    BY <2>3, <2>5, <2>6
<1> HIDE DEF S
<1>3. WordLen \in S
  <2>0. WordLen \in Nat
    OBVIOUS
  <2>1. \A n \in 0 .. WordLen - 1 : n \in S => n + 1 \in S
    BY <1>2
  <2>2. \A n \in 0 .. WordLen : n \in S
    BY <1>1, <2>0, <2>1, UpTo, Zenon
  <2> QED
    BY <2>2
<1>4. PICK v \in ID : \A i \in 0 .. WordLen - 1 : Digit(v, i) = bytes[WordLen - i]
  BY <1>3 DEF S, ID
<1>5. v \in Nat
  BY WordSize
<1>6. \A i \in 1 .. WordLen : Word(v)[i] = bytes[i]
  <2> SUFFICES ASSUME NEW i \in 1 .. WordLen PROVE Word(v)[i] = bytes[i]
    OBVIOUS
  <2>1. WordLen - i \in 0 .. WordLen - 1 /\ WordLen - (WordLen - i) = i
    OBVIOUS
  <2> QED
    BY <1>4, <1>5, <2>1, WordDigits
<1>7. Word(v) \in [1 .. WordLen -> Byte]
  BY <1>5, WordDigits
<1>8. Word(v) = bytes
  BY <1>6, <1>7
<1> QED
  BY <1>8

\* No two IDs are one word.
LEMMA WordInjective ==
    ASSUME NEW v \in ID, NEW w \in ID, Word(v) = Word(w)
    PROVE  v = w
<1> DEFINE S == {k \in 0 .. WordLen : v \div Base^(WordLen - k) = w \div Base^(WordLen - k)}
<1>0. v \in Nat /\ w \in Nat
  BY WordSize
<1>1. 0 \in S
  <2>1. v < Base^WordLen /\ w < Base^WordLen /\ Base^WordLen \in Nat \ {0} /\ WordLen - 0 = WordLen
    BY PowerType DEF ID
  <2>2. v \div Base^WordLen = 0 /\ w \div Base^WordLen = 0
    BY <1>0, <2>1
  <2> QED
    BY <2>1, <2>2
<1>2. ASSUME NEW k \in 0 .. WordLen - 1, k \in S PROVE k + 1 \in S
  <2> DEFINE i == WordLen - (k + 1)
             p == Base^i
             q == Base^(i + 1)
  <2>1. i \in 0 .. WordLen - 1 /\ i \in 0 .. WordLen /\ i + 1 = WordLen - k /\ k + 1 \in 0 .. WordLen
        /\ k + 1 \in 1 .. WordLen
    OBVIOUS
  <2>2. p \in Nat \ {0} /\ q = Base * p
    BY <2>1, PowerType, PowersAssumption
  <2>3. v \div q = w \div q
    BY <1>2, <2>1
  <2>4. (v \div p) % Base = (w \div p) % Base
    <3>1. Digit(v, i) = Word(v)[k + 1] /\ Digit(w, i) = Word(w)[k + 1]
      BY <1>0, <2>1, WordDigits
    <3> QED
      BY <3>1 DEF Digit
  <2> HIDE DEF p, q
  <2>5. v \div p \in Nat /\ w \div p \in Nat
    BY <1>0, <2>2, DivMod
  <2>6. (v \div p) \div Base = v \div q /\ (w \div p) \div Base = w \div q
    <3>1. p * Base = q /\ Base \in Nat \ {0} /\ p \in Nat \ {0}
      BY <2>2
    <3>2. (v \div p) \div Base = v \div (p * Base) /\ (w \div p) \div Base = w \div (p * Base)
      BY <1>0, <3>1, DivDiv, ZenonT(60)
    <3> QED
      BY <3>1, <3>2
  <2>7. v \div p = w \div p
    <3> DEFINE x == v \div p
               y == w \div p
    <3>1. x \in Nat /\ y \in Nat /\ x \div Base = y \div Base /\ x % Base = y % Base
      BY <2>3, <2>4, <2>5, <2>6
    <3>2. Base \in Nat \ {0}
      OBVIOUS
    <3> HIDE DEF x, y
    <3>3. x = Base * (x \div Base) + (x % Base) /\ y = Base * (y \div Base) + (y % Base)
      BY <3>1, <3>2, DivMod
    <3>4. x = y
      BY <3>1, <3>3
    <3> QED
      BY <3>4 DEF x, y
  <2> QED
    BY <2>1, <2>7 DEF p
<1> HIDE DEF S
<1>3. WordLen \in S
  BY <1>1, <1>2, UpTo
<1>4. v \div Base^0 = w \div Base^0
  BY <1>3 DEF S
<1> QED
  BY <1>0, <1>4, PowersAssumption

\* ntohl undoes htonl, and gives an ID for any bytes.
LEMMA WordRoundTrip == \A v \in ID : WordOf(Word(v)) = v
  BY WordInjective DEF WordOf, ID
LEMMA WordOfType ==
    ASSUME NEW bytes \in Seq(Byte), Len(bytes) = WordLen
    PROVE  WordOf(bytes) \in ID /\ Word(WordOf(bytes)) = bytes
<1>1. bytes \in [1 .. WordLen -> Byte]
  <2>1. bytes \in [1 .. Len(bytes) -> Byte]
    BY LenProperties
  <2> QED
    BY <2>1
<1>2. \E v \in ID : Word(v) = bytes
  BY <1>1, WordExists
<1> QED
  BY <1>2 DEF WordOf, ID

-----------------------------------------------------------------------------
(* Texts *)

LEMMA ConcatBytes ==
    ASSUME NEW S, NEW a \in Seq(S), NEW b \in Seq(S)
    PROVE  /\ a \o b \in Seq(S) /\ Len(a \o b) = Len(a) + Len(b)
           /\ Len(a) \in Nat /\ Len(b) \in Nat
           /\ \A i \in 1 .. Len(a) : (a \o b)[i] = a[i]
           /\ \A i \in 1 .. Len(b) : (a \o b)[Len(a) + i] = b[i]
<1> DEFINE m == Len(a)
           n == Len(b)
           c == a \o b
<1>1. m \in Nat /\ n \in Nat
  BY LenProperties
<1>2. /\ c \in Seq(S) /\ Len(c) = m + n
      /\ \A i \in 1 .. m + n : c[i] = IF i <= m THEN a[i] ELSE b[i - m]
  BY ConcatProperties
<1> HIDE DEF m, n, c
<1>3. \A i \in 1 .. m : c[i] = a[i]
  BY <1>1, <1>2
<1>4. \A i \in 1 .. n : m + i \in 1 .. m + n /\ ~(m + i <= m) /\ (m + i) - m = i
  BY <1>1
<1>5. \A i \in 1 .. n : c[m + i] = b[i]
  BY <1>2, <1>4
<1> QED
  BY <1>1, <1>2, <1>3, <1>5 DEF m, n, c

LEMMA TextCases ==
    ASSUME NEW S, NEW bytes \in Seq(S)
    PROVE  \/ /\ \A i \in 1 .. Len(bytes) : bytes[i] # 0
              /\ Text(bytes) = bytes
           \/ \E n \in 1 .. Len(bytes) :
                 /\ bytes[n] = 0 /\ \A i \in 1 .. n - 1 : bytes[i] # 0
                 /\ Text(bytes) = SubSeq(bytes, 1, n - 1)
<1> DEFINE zeros == {i \in 1 .. Len(bytes) : bytes[i] = 0}
           First(n) == n \in zeros /\ \A j \in zeros : n <= j
<1>1. CASE zeros = {}
  BY <1>1 DEF Text
<1>2. CASE zeros # {}
  <2>1. \E n \in zeros : \A j \in zeros : n <= j
    <3>1. zeros \in SUBSET Nat
      OBVIOUS
    <3> HIDE DEF zeros
    <3> QED
      BY <1>2, <3>1, LeastElement
  <2> DEFINE n == CHOOSE i \in zeros : \A j \in zeros : i <= j
  <2>2. n \in zeros /\ \A j \in zeros : n <= j
    BY <2>1
  <2>3. Text(bytes) = SubSeq(bytes, 1, n - 1)
    BY <1>2 DEF Text
  <2> HIDE DEF n
  <2>4. ASSUME NEW i \in 1 .. n - 1 PROVE bytes[i] # 0
    <3>1. i \in 1 .. Len(bytes) /\ ~(n <= i)
      BY <2>2
    <3> QED
      BY <2>2, <3>1
  <2> QED
    BY <2>2, <2>3, <2>4
<1> QED
  BY <1>1, <1>2

LEMMA TextType ==
    ASSUME NEW S, NEW bytes \in Seq(S)
    PROVE  Text(bytes) \in Seq(S)
<1>1. ASSUME NEW n \in 1 .. Len(bytes) PROVE SubSeq(bytes, 1, n - 1) \in Seq(S)
  <2>1. Len(bytes) \in Nat /\ \A i \in 1 .. n - 1 : bytes[i] \in S
    BY LenProperties, ElementOfSeq
  <2> QED
    BY <2>1, SubSeqProperties
<1> QED
  BY <1>1, TextCases

\* A text ends where the first zero is ...
LEMMA TextEnds ==
    ASSUME NEW S, NEW bytes \in Seq(S), NEW text \in Seq(S), Len(text) < Len(bytes),
           bytes[Len(text) + 1] = 0,
           \A i \in 1 .. Len(text) : bytes[i] = text[i] /\ text[i] # 0
    PROVE  Text(bytes) = text
<1> DEFINE m == Len(text)
<1>1. m \in Nat /\ Len(bytes) \in Nat /\ m + 1 \in 1 .. Len(bytes)
  BY LenProperties
<1>2. PICK n \in 1 .. Len(bytes) :
        /\ bytes[n] = 0 /\ \A i \in 1 .. n - 1 : bytes[i] # 0
        /\ Text(bytes) = SubSeq(bytes, 1, n - 1)
  BY <1>1, TextCases
<1>3. n = m + 1
  <2>1. ~(n \in 1 .. m)
    BY <1>2
  <2>2. ~(m + 1 \in 1 .. n - 1)
    BY <1>2
  <2> HIDE DEF m
  <2> QED
    BY <1>1, <1>2, <2>1, <2>2
<1>4. n - 1 = m /\ \A i \in 1 .. m : i \in 1 .. Len(bytes)
  BY <1>1, <1>3
<1>5. SubSeq(bytes, 1, m) \in Seq(S) /\ Len(SubSeq(bytes, 1, m)) = m
      /\ \A i \in 1 .. m : SubSeq(bytes, 1, m)[i] = bytes[i]
  <2>1. \A i \in 1 .. m : bytes[i] \in S
    BY <1>4, ElementOfSeq
  <2> HIDE DEF m
  <2> QED
    BY <1>1, <2>1, SubSeqProperties
<1>6. SubSeq(bytes, 1, m) = text
  <2>1. \A i \in 1 .. m : SubSeq(bytes, 1, m)[i] = text[i]
    BY <1>5
  <2> QED
    BY <1>5, <2>1, SeqEqual
<1> QED
  BY <1>2, <1>4, <1>6

LEMMA PartBytes ==
    ASSUME NEW S, NEW bytes \in Seq(S), NEW first \in 0 .. Len(bytes),
           NEW last \in first .. Len(bytes)
    PROVE  LET part == SubSeq(bytes, first + 1, last) IN
           /\ part \in Seq(S) /\ Len(part) = last - first
           /\ \A i \in 1 .. last - first : part[i] = bytes[first + i]
<1>1. Len(bytes) \in Nat /\ \A i \in first + 1 .. last : bytes[i] \in S
  <2>1. \A i \in first + 1 .. last : i \in 1 .. Len(bytes)
    OBVIOUS
  <2> QED
    BY <2>1, LenProperties, ElementOfSeq
<1>2. first \in Nat /\ last \in Nat /\ first <= last
  BY <1>1
<1>3. first + 1 \in Int /\ last \in Int /\ first + 1 <= last + 1
  BY <1>2
<1> DEFINE part == SubSeq(bytes, first + 1, last)
<1>4. /\ part \in Seq(S)
      /\ Len(part) = IF first + 1 <= last THEN last - (first + 1) + 1 ELSE 0
      /\ \A i \in 1 .. last - (first + 1) + 1 : part[i] = bytes[(first + 1) + i - 1]
  BY <1>1, <1>2, SubSeqProperties
<1> HIDE DEF part
<1>5. Len(part) = last - first
  BY <1>2, <1>4
<1>6. \A i \in 1 .. last - first : (first + 1) + i - 1 = first + i
                                    /\ i \in 1 .. last - (first + 1) + 1
  BY <1>2
<1> QED
  BY <1>4, <1>5, <1>6 DEF part

\* ... and not before: what lies behind bytes without a zero belongs to their text.
LEMMA TextSplits ==
    ASSUME NEW S, NEW bytes \in Seq(S), NEW m \in 0 .. Len(bytes),
           \A i \in 1 .. m : bytes[i] # 0
    PROVE  Text(bytes) = SubSeq(bytes, 1, m) \o Text(SubSeq(bytes, m + 1, Len(bytes)))
<1> DEFINE n == Len(bytes)
           first == SubSeq(bytes, 1, m)
           rest == SubSeq(bytes, m + 1, n)
           more == Text(rest)
           text == first \o more
<1>1. n \in Nat /\ m \in Nat /\ m <= n
  BY LenProperties
<1>2. first \in Seq(S) /\ Len(first) = m /\ \A i \in 1 .. m : first[i] = bytes[i]
  <2>1. \A i \in 1 .. m : bytes[i] \in S
    BY <1>1, ElementOfSeq
  <2> QED
    BY <1>1, <2>1, SubSeqProperties
<1>3. rest \in Seq(S) /\ Len(rest) = n - m /\ \A i \in 1 .. n - m : rest[i] = bytes[m + i]
  BY <1>1, PartBytes
<1>4. more \in Seq(S)
  <2> HIDE DEF rest
  <2> QED
    BY <1>3, TextType
<1> HIDE DEF first, rest, more
<1>5. /\ text \in Seq(S) /\ Len(text) = m + Len(more) /\ Len(more) \in Nat
      /\ \A i \in 1 .. m : text[i] = first[i]
      /\ \A i \in 1 .. Len(more) : text[m + i] = more[i]
  <2>1. first \in Seq(S) /\ more \in Seq(S)
    BY <1>2, <1>4
  <2>2. /\ text \in Seq(S) /\ Len(text) = Len(first) + Len(more) /\ Len(more) \in Nat
        /\ \A i \in 1 .. Len(first) : text[i] = first[i]
        /\ \A i \in 1 .. Len(more) : text[Len(first) + i] = more[i]
    BY ONLY <2>1, ConcatBytes
  <2> QED
    BY <1>2, <2>2
<1> HIDE DEF text
<1>6. CASE (\A i \in 1 .. Len(rest) : rest[i] # 0) /\ more = rest
  <2>1. ASSUME NEW i \in 1 .. n PROVE bytes[i] # 0 /\ text[i] = bytes[i]
    <3>1. CASE i \in 1 .. m
      BY <1>2, <1>5, <3>1
    <3>2. CASE ~(i \in 1 .. m)
      <4>1. PICK x \in 1 .. n - m : x = i - m
        BY <1>1, <3>2
      <4>2. m + x = i
        BY <1>1, <4>1
      <4> QED
        BY <1>3, <1>5, <1>6, <4>2
    <3> QED
      BY <3>1, <3>2
  <2>2. Len(text) = n
    BY <1>1, <1>3, <1>5, <1>6
  <2>3. text = bytes
    BY <1>5, <2>1, <2>2, SeqEqual
  <2>4. Text(bytes) = bytes
    BY <2>1, TextCases
  <2> QED
    BY <2>3, <2>4 DEF text, first, more, rest
<1>7. ASSUME NEW z \in 1 .. Len(rest), rest[z] = 0, \A i \in 1 .. z - 1 : rest[i] # 0,
             more = SubSeq(rest, 1, z - 1)
      PROVE  Text(bytes) = text
  <2>1. Len(more) = z - 1 /\ \A i \in 1 .. z - 1 : more[i] = rest[i]
    <3>1. z - 1 \in Nat /\ \A i \in 1 .. z - 1 : rest[i] \in S
      BY <1>1, <1>3, ElementOfSeq
    <3> QED
      BY <1>3, <1>7, <3>1, SubSeqProperties
  <2>2. Len(text) = m + (z - 1) /\ Len(text) + 1 = m + z /\ Len(text) < n
    BY <1>1, <1>3, <1>5, <2>1
  <2>3. bytes[Len(text) + 1] = 0
    BY <1>3, <1>7, <2>2
  <2>4. ASSUME NEW i \in 1 .. Len(text) PROVE bytes[i] = text[i] /\ text[i] # 0
    <3>1. CASE i \in 1 .. m
      BY <1>2, <1>5, <3>1
    <3>2. CASE ~(i \in 1 .. m)
      <4>1. PICK x \in 1 .. z - 1 : x = i - m
        BY <1>1, <2>2, <3>2
      <4>2. m + x = i /\ x \in 1 .. n - m /\ x \in 1 .. Len(more)
        BY <1>1, <1>3, <2>1, <4>1
      <4>3. text[m + x] = more[x] /\ more[x] = rest[x]
        BY <1>5, <2>1, <4>2
      <4>4. rest[x] = bytes[m + x] /\ rest[x] # 0
        BY <1>3, <1>7, <4>2
      <4> QED
        BY <4>2, <4>3, <4>4
    <3> QED
      BY <3>1, <3>2
  <2> QED
    BY <1>5, <2>2, <2>3, <2>4, TextEnds
<1>8. Text(bytes) = text
  BY <1>3, <1>6, <1>7, TextCases DEF more, text, first, rest
<1> QED
  BY <1>8 DEF text, first, more, rest

LEMMA CharsAreBytes == \A text \in Seq(Char) : text \in Seq(Byte)
<1> SUFFICES ASSUME NEW text \in Seq(Char) PROVE text \in Seq(Byte)
  OBVIOUS
<1>1. text \in [1 .. Len(text) -> Char] /\ Len(text) \in Nat
  BY LenProperties
<1>2. text \in [1 .. Len(text) -> Byte]
  BY <1>1
<1> QED
  BY <1>1, <1>2

\* What memcpy takes from where a text lies.
LEMMA FieldBytes ==
    ASSUME NEW text \in Seq(Char), NEW n \in Nat, NEW junk \in Byte
    PROVE  /\ Field(text, n, junk) \in Seq(Byte) /\ Len(Field(text, n, junk)) = n
           /\ \A i \in 1 .. n : Field(text, n, junk)[i] =
                 IF i <= Len(text) THEN text[i] ELSE IF i = Len(text) + 1 THEN 0 ELSE junk
<1> DEFINE m == Len(text)
           more == [i \in 1 .. n |-> junk]
           ended == text \o <<0>>
           all == ended \o more
<1>1. text \in Seq(Byte) /\ m \in Nat /\ <<0>> \in Seq(Byte) /\ Len(<<0>>) = 1
  BY CharsAreBytes, LenProperties
<1>2. /\ ended \in Seq(Byte) /\ Len(ended) = m + 1
      /\ \A i \in 1 .. m + 1 : ended[i] = IF i <= m THEN text[i] ELSE 0
  <2>1. /\ ended \in Seq(Byte) /\ Len(ended) = m + 1
        /\ \A i \in 1 .. m + 1 : ended[i] = IF i <= m THEN text[i] ELSE <<0>>[i - m]
    BY <1>1, ConcatProperties
  <2>2. \A i \in 1 .. m + 1 : ~(i <= m) => <<0>>[i - m] = 0
    <3> HIDE DEF m
    <3>1. \A i \in 1 .. m + 1 : ~(i <= m) => i - m = 1
      BY <1>1
    <3> QED
      BY <3>1
  <2> HIDE DEF ended, m
  <2> QED
    BY <2>1, <2>2
<1>3. more \in Seq(Byte) /\ Len(more) = n /\ \A i \in 1 .. n : more[i] = junk
  OBVIOUS
<1> HIDE DEF m, more, ended
<1>4. /\ all \in Seq(Byte) /\ Len(all) = m + 1 + n
      /\ \A i \in 1 .. m + 1 + n : all[i] = IF i <= m + 1 THEN ended[i] ELSE more[i - (m + 1)]
  <2>1. /\ all \in Seq(Byte) /\ Len(all) = Len(ended) + Len(more)
        /\ \A i \in 1 .. Len(ended) + Len(more) :
              all[i] = IF i <= Len(ended) THEN ended[i] ELSE more[i - Len(ended)]
    BY <1>2, <1>3, ConcatProperties
  <2> HIDE DEF all
  <2>2. Len(ended) = m + 1 /\ Len(more) = n
    BY <1>2, <1>3
  <2> QED
    BY <2>1, <2>2
<1> HIDE DEF all
<1>5. \A i \in 1 .. n : /\ i \in 1 .. m + 1 + n /\ all[i] \in Byte
                        /\ all[i] = IF i <= m THEN text[i] ELSE IF i = m + 1 THEN 0 ELSE junk
  <2> SUFFICES ASSUME NEW i \in 1 .. n
               PROVE  /\ i \in 1 .. m + 1 + n /\ all[i] \in Byte
                      /\ all[i] = IF i <= m THEN text[i] ELSE IF i = m + 1 THEN 0 ELSE junk
    OBVIOUS
  <2>1. i \in 1 .. m + 1 + n
    BY <1>1
  <2>2. all[i] \in Byte
    BY <1>4, <2>1, ElementOfSeq
  <2>3. CASE i <= m + 1
    <3>1. i \in 1 .. m + 1
      BY <1>1, <2>3
    <3>2. all[i] = IF i <= m THEN text[i] ELSE 0
      BY <1>2, <1>4, <2>1, <2>3, <3>1
    <3>3. ~(i <= m) => i = m + 1
      BY <1>1, <3>1
    <3> QED
      BY <2>1, <2>2, <3>2, <3>3
  <2>4. CASE ~(i <= m + 1)
    <3>1. i - (m + 1) \in 1 .. n /\ ~(i <= m) /\ i # m + 1
      BY <1>1, <2>4
    <3>2. all[i] = junk
      BY <1>3, <1>4, <2>1, <2>4, <3>1
    <3> QED
      BY <2>1, <2>2, <3>1, <3>2
  <2> QED
    BY <2>3, <2>4
<1>6. /\ SubSeq(all, 1, n) \in Seq(Byte) /\ Len(SubSeq(all, 1, n)) = n
      /\ \A i \in 1 .. n : SubSeq(all, 1, n)[i] = all[i]
  BY <1>1, <1>4, <1>5, SubSeqProperties
<1>7. Field(text, n, junk) = SubSeq(all, 1, n)
  BY DEF Field, all, ended, more
<1> QED
  BY <1>5, <1>6, <1>7 DEF m

\* A text that fits its field, with its end, is read as it was.
LEMMA FieldRoundTrip ==
    ASSUME NEW text \in Seq(Char), NEW n \in Nat, NEW junk \in Byte, Len(text) < n
    PROVE  Text(Field(text, n, junk)) = text
<1>1. text \in Seq(Byte) /\ Len(text) \in Nat
  BY CharsAreBytes, LenProperties
<1>2. /\ Field(text, n, junk) \in Seq(Byte) /\ Len(Field(text, n, junk)) = n
      /\ \A i \in 1 .. n : Field(text, n, junk)[i] =
            IF i <= Len(text) THEN text[i] ELSE IF i = Len(text) + 1 THEN 0 ELSE junk
  BY FieldBytes, ZenonT(60)
<1> DEFINE m == Len(text)
           field == Field(text, n, junk)
<1> HIDE DEF field
<1>3. m + 1 \in 1 .. n /\ ~(m + 1 <= m) /\ \A i \in 1 .. m : i \in 1 .. n /\ i <= m
  BY <1>1
<1>4. field[m + 1] = 0
  BY <1>2, <1>3 DEF field
<1>5. \A i \in 1 .. m : field[i] = text[i]
  BY <1>2, <1>3 DEF field
<1>6. \A i \in 1 .. m : text[i] # 0
  BY ElementOfSeq
<1>7. field \in Seq(Byte) /\ m < Len(field)
  BY <1>2 DEF field
<1>8. Text(field) = text
  BY <1>1, <1>4, <1>5, <1>6, <1>7, TextEnds
<1> QED
  BY <1>8 DEF field

-----------------------------------------------------------------------------
(* Packets *)

LEMMA AtBytes ==
    ASSUME NEW bytes \in Seq(Byte), NEW from \in Nat, NEW n \in Nat
    PROVE  /\ At(bytes, from, n) \in Seq(Byte) /\ Len(At(bytes, from, n)) = n
           /\ \A i \in 1 .. n : At(bytes, from, n)[i] =
                 IF from + i <= Len(bytes) THEN bytes[from + i] ELSE 0
<1>1. ASSUME NEW i \in 1 .. n, from + i <= Len(bytes) PROVE bytes[from + i] \in Byte
  <2>1. from + i \in 1 .. Len(bytes)
    BY <1>1, LenProperties
  <2> QED
    BY <2>1, ElementOfSeq
<1> DEFINE at == [i \in 1 .. n |-> IF from + i <= Len(bytes) THEN bytes[from + i] ELSE 0]
<1>2. at \in [1 .. n -> Byte]
  BY <1>1
<1>3. at \in Seq(Byte) /\ Len(at) = n
  BY <1>2
<1>4. At(bytes, from, n) = at
  BY DEF At
<1> QED
  BY <1>3, <1>4

\* Bytes that lie where they are read from.
LEMMA AtEqual ==
    ASSUME NEW bytes \in Seq(Byte), NEW from \in Nat, NEW part \in Seq(Byte),
           from + Len(part) <= Len(bytes),
           \A i \in 1 .. Len(part) : bytes[from + i] = part[i]
    PROVE  At(bytes, from, Len(part)) = part
<1> DEFINE n == Len(part)
<1>1. n \in Nat /\ Len(bytes) \in Nat
  BY LenProperties
<1>2. At(bytes, from, n) \in Seq(Byte) /\ Len(At(bytes, from, n)) = n
      /\ \A i \in 1 .. n : At(bytes, from, n)[i] =
            IF from + i <= Len(bytes) THEN bytes[from + i] ELSE 0
  BY <1>1, AtBytes
<1>3. \A i \in 1 .. n : from + i <= Len(bytes)
  <2> HIDE DEF n
  <2> QED
    BY <1>1 DEF n
<1>4. \A i \in 1 .. n : At(bytes, from, n)[i] = part[i]
  BY <1>2, <1>3
<1> QED
  BY <1>2, <1>4, SeqEqual

Body(ip, type, word, payload) == ip \o <<type>> \o word \o payload

LEMMA HeaderLenType == HeaderLen \in Nat /\ HeaderLen = IPLen + 1 + WordLen
  BY DEF HeaderLen

\* What packHeader and the copies around it put into a buffer lies where unpackHeader
\* looks for it.
LEMMA BodyBytes ==
    ASSUME NEW ip \in Seq(Byte), Len(ip) = IPLen, NEW type \in Byte,
           NEW word \in Seq(Byte), Len(word) = WordLen, NEW payload \in Seq(Byte)
    PROVE  LET body == Body(ip, type, word, payload) IN
           /\ body \in Seq(Byte) /\ Len(body) = HeaderLen + Len(payload) /\ Len(payload) \in Nat
           /\ At(body, 0, IPLen) = ip /\ At(body, IPLen, 1) = <<type>>
           /\ At(body, IPLen + 1, WordLen) = word
           /\ \A i \in 1 .. Len(payload) : body[HeaderLen + i] = payload[i]
<1> DEFINE one == <<type>>
           two == ip \o one
           three == two \o word
           body == Body(ip, type, word, payload)
           n == Len(payload)
           p == IPLen + 1
<1>1. one \in Seq(Byte) /\ Len(one) = 1 /\ one[1] = type
  OBVIOUS
<1>0. body = three \o payload
  BY DEF Body
<1> HIDE DEF one, n, body
<1>2. /\ two \in Seq(Byte) /\ Len(two) = p
      /\ \A i \in 1 .. IPLen : two[i] = ip[i]
      /\ \A i \in 1 .. 1 : two[IPLen + i] = one[i]
  <2> HIDE DEF Byte
  <2>0. ip \in Seq(Byte) /\ one \in Seq(Byte)
    BY <1>1
  <2>1. /\ two \in Seq(Byte) /\ Len(two) = Len(ip) + Len(one)
        /\ Len(ip) \in Nat /\ Len(one) \in Nat
        /\ \A i \in 1 .. Len(ip) : two[i] = ip[i]
        /\ \A i \in 1 .. Len(one) : two[Len(ip) + i] = one[i]
    BY ONLY <2>0, ConcatBytes
  <2> HIDE DEF two
  <2> QED
    BY <1>1, <2>1
<1> HIDE DEF two
<1>3. /\ three \in Seq(Byte) /\ Len(three) = p + WordLen
      /\ \A i \in 1 .. p : three[i] = two[i]
      /\ \A i \in 1 .. WordLen : three[p + i] = word[i]
  <2> HIDE DEF Byte
  <2>0. two \in Seq(Byte) /\ word \in Seq(Byte)
    BY <1>2
  <2>1. /\ three \in Seq(Byte) /\ Len(three) = Len(two) + Len(word)
        /\ Len(two) \in Nat /\ Len(word) \in Nat
        /\ \A i \in 1 .. Len(two) : three[i] = two[i]
        /\ \A i \in 1 .. Len(word) : three[Len(two) + i] = word[i]
    BY ONLY <2>0, ConcatBytes
  <2> HIDE DEF three
  <2> QED
    BY <1>2, <2>1
<1>4. /\ body \in Seq(Byte) /\ Len(body) = HeaderLen + n /\ n \in Nat
      /\ \A i \in 1 .. HeaderLen : body[i] = three[i]
      /\ \A i \in 1 .. n : body[HeaderLen + i] = payload[i]
  <2> HIDE DEF three
  <2> HIDE DEF Byte
  <2>0. three \in Seq(Byte) /\ payload \in Seq(Byte)
    BY <1>3
  <2>1. /\ three \o payload \in Seq(Byte) /\ Len(three \o payload) = Len(three) + Len(payload)
        /\ Len(three) \in Nat /\ Len(payload) \in Nat
        /\ \A i \in 1 .. Len(three) : (three \o payload)[i] = three[i]
        /\ \A i \in 1 .. Len(payload) : (three \o payload)[Len(three) + i] = payload[i]
    BY ONLY <2>0, ConcatBytes
  <2>2. HeaderLen = Len(three) /\ n = Len(payload)
    BY <1>3 DEF n, HeaderLen
  <2>3. /\ body \in Seq(Byte) /\ Len(body) = Len(three) + Len(payload)
        /\ Len(three) \in Nat /\ Len(payload) \in Nat
        /\ \A i \in 1 .. Len(three) : body[i] = three[i]
        /\ \A i \in 1 .. Len(payload) : body[Len(three) + i] = payload[i]
    BY <1>0, <2>1
  <2> QED
    BY <2>2, <2>3
<1> HIDE DEF three
<1>5. \A i \in 1 .. IPLen : i \in 1 .. IPLen + 1 /\ i \in 1 .. HeaderLen /\ body[0 + i] = ip[i]
  BY <1>2, <1>3, <1>4, HeaderLenType
<1>6. \A i \in 1 .. 1 : body[IPLen + i] = one[i]
  <2>1. p \in 1 .. p /\ p \in 1 .. HeaderLen
    BY HeaderLenType
  <2>2. body[p] = two[p] /\ two[p] = one[1]
    BY <1>2, <1>3, <1>4, <2>1
  <2> QED
    BY <2>2
<1>7. \A i \in 1 .. WordLen : body[IPLen + 1 + i] = word[i]
  <2>1. \A i \in 1 .. WordLen : IPLen + 1 + i \in 1 .. HeaderLen
    BY HeaderLenType
  <2> QED
    BY <1>3, <1>4, <2>1
<1>8. At(body, 0, IPLen) = ip
  <2>1. 0 + Len(ip) <= Len(body)
    BY <1>4, HeaderLenType
  <2> QED
    BY <1>4, <1>5, <2>1, AtEqual
<1>9. At(body, IPLen, 1) = one
  <2>1. IPLen + Len(one) <= Len(body) /\ IPLen \in Nat
    BY <1>1, <1>4, HeaderLenType
  <2> QED
    BY <1>1, <1>4, <1>6, <2>1, AtEqual, Zenon
<1>10. At(body, IPLen + 1, WordLen) = word
  <2>1. IPLen + 1 + Len(word) <= Len(body) /\ IPLen + 1 \in Nat
    BY <1>4, HeaderLenType
  <2> QED
    BY <1>4, <1>7, <2>1, AtEqual
<1> QED
  BY <1>4, <1>8, <1>9, <1>10 DEF n, one, body

\* A packet is sound when its checksum is of at least what is sent, and verifies
\* when it is of just that.
LEMMA PackBytes ==
    ASSUME NEW ip \in Seq(Byte), Len(ip) = IPLen, NEW type \in Byte, NEW sid \in ID,
           NEW payload \in Seq(Byte), NEW size \in Nat, HeaderLen + Len(payload) <= size,
           NEW packet, packet = Pack(ip, type, sid, payload, size)
    PROVE  /\ packet \in [crc : Seq(Byte), body : Seq(Byte)]
           /\ Sound(packet) /\ (size = HeaderLen + Len(payload) => Verifies(packet))
           /\ Len(packet.body) = HeaderLen + Len(payload) /\ Len(payload) \in Nat
           /\ At(packet.body, 0, IPLen) = ip /\ At(packet.body, IPLen, 1) = <<type>>
           /\ At(packet.body, IPLen + 1, WordLen) = Word(sid)
           /\ \A i \in 1 .. Len(payload) : packet.body[HeaderLen + i] = payload[i]
<1> DEFINE body == Body(ip, type, Word(sid), payload)
           crc == At(body, 0, size)
<1>1. Word(sid) \in Seq(Byte) /\ Len(Word(sid)) = WordLen
  BY WordSize, WordDigits
<1>2. /\ body \in Seq(Byte) /\ Len(body) = HeaderLen + Len(payload) /\ Len(payload) \in Nat
      /\ At(body, 0, IPLen) = ip /\ At(body, IPLen, 1) = <<type>>
      /\ At(body, IPLen + 1, WordLen) = Word(sid)
      /\ \A i \in 1 .. Len(payload) : body[HeaderLen + i] = payload[i]
  BY <1>1, BodyBytes, ZenonT(60)
<1>3. packet = [crc |-> crc, body |-> body]
  BY DEF Pack, Body
<1> HIDE DEF body
<1>4. /\ crc \in Seq(Byte) /\ Len(crc) = size
      /\ \A i \in 1 .. size : crc[i] = IF 0 + i <= Len(body) THEN body[0 + i] ELSE 0
  <2>1. body \in Seq(Byte) /\ 0 \in Nat
    BY <1>2
  <2> QED
    BY <2>1, AtBytes
<1>5. size = Len(body) => crc = body
  <2>1. size = Len(body) => \A i \in 1 .. size : 0 + i <= Len(body) /\ 0 + i = i
    OBVIOUS
  <2>2. size = Len(body) => \A i \in 1 .. size : crc[i] = body[i]
    BY <1>4, <2>1
  <2> HIDE DEF crc
  <2> QED
    BY <1>2, <1>4, <2>2, SeqEqual
<1> HIDE DEF crc
<1>6. \A i \in 1 .. size : 0 + i = i
  OBVIOUS
<1>7. Padded(packet)
  <2>1. packet.crc = crc /\ packet.body = body /\ Len(body) <= Len(crc)
    BY <1>2, <1>3, <1>4
  <2>2. \A i \in 1 .. Len(crc) : crc[i] = IF i <= Len(body) THEN body[i] ELSE 0
    BY <1>4, <1>6
  <2> QED
    BY <1>4, <2>1, <2>2 DEF Padded
<1> QED
  BY <1>2, <1>3, <1>4, <1>5, <1>7 DEF Sound, Verifies

-----------------------------------------------------------------------------
(* Streams *)

AnyPacket == [crc : Seq(Byte) \cup {NoCrc}, body : Seq(Byte)]

LEMMA BytesNotNoCrc == \A bytes \in Seq(Byte) : bytes # NoCrc
<1> SUFFICES ASSUME NEW bytes \in Seq(Byte), bytes = NoCrc PROVE FALSE
  OBVIOUS
<1>1. Len(bytes) = 1 /\ bytes[1] = Base
  BY DEF NoCrc
<1>2. bytes[1] \in Byte
  <2>1. 1 \in 1 .. Len(bytes)
    BY <1>1
  <2> QED
    BY <2>1, ElementOfSeq
<1> QED
  BY <1>1, <1>2

LEMMA NoCrcFails == \A packet : packet.body \in Seq(Byte) /\ packet.crc = NoCrc => ~Verifies(packet)
  BY BytesNotNoCrc DEF Verifies

LEMMA SoundInAny == \A packet \in [crc : Seq(Byte), body : Seq(Byte)] : packet \in AnyPacket
  BY DEF AnyPacket

\* The part of a packet that recv takes does not verify, nor does what is left.
LEMMA PartFails ==
    ASSUME NEW first \in AnyPacket, Sound(first), NEW n \in 1 .. Len(first.body) - WordLen,
           NEW part, part = [crc |-> first.crc, body |-> SubSeq(first.body, 1, n)],
           NEW rest, rest = [crc |-> NoCrc,
                             body |-> SubSeq(first.body, n + 1 + WordLen, Len(first.body))]
    PROVE  /\ part \in AnyPacket /\ ~Verifies(part)
           /\ rest \in AnyPacket /\ Sound(rest) /\ rest.crc = NoCrc
<1> DEFINE bytes == first.body
           len == Len(bytes)
           front == SubSeq(bytes, 1, n)
           m == n + 1 + WordLen
           back == SubSeq(bytes, m, len)
<1>1. bytes \in Seq(Byte) /\ len \in Nat /\ n \in Nat /\ n + WordLen <= len
  BY LenProperties DEF AnyPacket
<1> HIDE DEF Byte
<1>2. front \in Seq(Byte) /\ Len(front) = n
  <2>1. \A i \in 1 .. n : bytes[i] \in Byte
    <3>1. \A i \in 1 .. n : i \in 1 .. len
      BY <1>1
    <3> QED
      BY <1>1, <3>1, ElementOfSeq
  <2> QED
    BY <1>1, <2>1, SubSeqProperties
<1>3. back \in Seq(Byte)
  <2>1. m \in Int /\ len \in Int /\ 1 <= m
    BY <1>1
  <2>2. \A i \in m .. len : bytes[i] \in Byte
    <3>1. \A i \in m .. len : i \in 1 .. len
      BY <1>1, <2>1
    <3> QED
      BY <1>1, <3>1, ElementOfSeq
  <2> HIDE DEF m, len
  <2> QED
    BY <2>1, <2>2, SubSeqProperties
<1>4. part.body = front /\ part.crc = first.crc /\ rest.body = back /\ rest.crc = NoCrc
  OBVIOUS
<1> HIDE DEF front, back
<1>5. part \in AnyPacket /\ rest \in AnyPacket
  BY <1>2, <1>3 DEF AnyPacket, front, back
<1>6. CASE first.crc = NoCrc
  BY <1>2, <1>3, <1>4, <1>5, <1>6, BytesNotNoCrc DEF Verifies, Sound
<1>7. CASE Padded(first)
  <2>1. len <= Len(first.crc) /\ Len(first.crc) \in Nat
    BY <1>7, LenProperties DEF Padded
  <2>2. Len(first.crc) # n
    BY <1>1, <2>1
  <2> QED
    BY <1>2, <1>3, <1>4, <1>5, <2>2 DEF Verifies, Sound
<1> QED
  BY <1>6, <1>7 DEF Sound

\* Two packets that ran together do not verify.
LEMMA BothFail ==
    ASSUME NEW first \in AnyPacket, Sound(first), NEW second \in AnyPacket,
           NEW both, both = [crc |-> first.crc, body |-> first.body \o Opaque \o second.body]
    PROVE  both \in AnyPacket /\ ~Verifies(both)
<1> DEFINE a == first.body
           b == second.body
           front == a \o Opaque
           all == front \o b
           len == Len(a)
<1>1. a \in Seq(Byte) /\ b \in Seq(Byte) /\ len \in Nat
  BY LenProperties DEF AnyPacket
<1>2. Opaque \in Seq(Byte) /\ Len(Opaque) = WordLen /\ Opaque[1] = Base - 1 /\ 1 \in 1 .. WordLen
  BY DEF Opaque
<1> HIDE DEF Byte, a, b
<1>3. /\ front \in Seq(Byte) /\ Len(front) = Len(a) + Len(Opaque)
      /\ Len(a) \in Nat /\ Len(Opaque) \in Nat
      /\ \A i \in 1 .. Len(a) : front[i] = a[i]
      /\ \A i \in 1 .. Len(Opaque) : front[Len(a) + i] = Opaque[i]
  <2>1. a \in Seq(Byte) /\ Opaque \in Seq(Byte)
    BY <1>1, <1>2
  <2> QED
    BY ONLY <2>1, ConcatBytes
<1> HIDE DEF front
<1>4. /\ all \in Seq(Byte) /\ Len(all) = Len(front) + Len(b)
      /\ Len(front) \in Nat /\ Len(b) \in Nat
      /\ \A i \in 1 .. Len(front) : all[i] = front[i]
      /\ \A i \in 1 .. Len(b) : all[Len(front) + i] = b[i]
  <2>1. front \in Seq(Byte) /\ b \in Seq(Byte)
    BY <1>1, <1>3
  <2> QED
    BY ONLY <2>1, ConcatBytes
<1> HIDE DEF all
<1>5. both.crc = first.crc /\ both.body = all
  BY DEF all, front, a, b
<1>6. both \in AnyPacket
  BY <1>4, <1>5 DEF AnyPacket, all, front, a, b
<1>7. CASE first.crc = NoCrc
  BY <1>4, <1>5, <1>6, <1>7, BytesNotNoCrc DEF Verifies
<1>8. CASE Padded(first)
  <2>1. len + 1 \in 1 .. Len(front) /\ len + 1 \in 1 .. Len(all) /\ ~(len + 1 <= len)
    BY <1>1, <1>2, <1>3, <1>4
  <2>2. front[len + 1] = Base - 1
    BY <1>2, <1>3
  <2>3. all[len + 1] = front[len + 1]
    BY <1>4, <2>1
  <2>4. ASSUME first.crc = all PROVE FALSE
    <3>1. \A i \in 1 .. Len(all) : all[i] = IF i <= len THEN a[i] ELSE 0
      BY <1>8, <2>4 DEF Padded, a
    <3>2. all[len + 1] = 0
      BY <2>1, <3>1
    <3> QED
      BY <2>2, <2>3, <3>2
  <2> QED
    BY <1>5, <1>6, <2>4 DEF Verifies
<1> QED
  BY <1>7, <1>8 DEF Sound

LEMMA TakeSound ==
    ASSUME NEW stream \in Seq(AnyPacket), stream # <<>>,
           \A i \in 1 .. Len(stream) : Sound(stream[i]), NEW take \in Takes(stream)
    PROVE  /\ take.packet \in AnyPacket /\ take.cut \in {0, 1} /\ take.left \in Seq(AnyPacket)
           /\ Verifies(take.packet) => take.packet = stream[1]
           /\ \A i \in 1 .. Len(take.left) :
                 /\ Sound(take.left[i])
                 /\ take.left[i].crc = NoCrc \/ \E j \in 1 .. Len(stream) : take.left[i] = stream[j]
           /\ Len(stream) \in Nat \ {0} /\ stream[1] \in AnyPacket
<1> DEFINE len == Len(stream)
           first == stream[1]
           tail == Tail(stream)
<1>1. len \in Nat \ {0} /\ 1 \in 1 .. len /\ first \in AnyPacket
  BY EmptySeq, LenProperties, ElementOfSeq
<1>2. tail \in Seq(AnyPacket) /\ Len(tail) = len - 1 /\ \A i \in 1 .. Len(tail) : tail[i] = stream[i + 1]
  BY HeadTailProperties
<1> HIDE DEF tail
<1>3. \A i \in 1 .. Len(tail) : i + 1 \in 1 .. len /\ tail[i] = stream[i + 1]
  BY <1>1, <1>2
<1>4. CASE take = [packet |-> first, left |-> tail, cut |-> 0]
  BY <1>1, <1>2, <1>3, <1>4
<1>5. ASSUME NEW n \in 1 .. Len(first.body) - WordLen,
             NEW part, part = [crc |-> first.crc, body |-> SubSeq(first.body, 1, n)],
             NEW rest, rest = [crc |-> NoCrc,
                               body |-> SubSeq(first.body, n + 1 + WordLen, Len(first.body))],
             take = [packet |-> part, left |-> <<rest>> \o tail, cut |-> 1]
      PROVE  /\ take.packet \in AnyPacket /\ take.cut \in {0, 1} /\ take.left \in Seq(AnyPacket)
             /\ ~Verifies(take.packet)
             /\ \A i \in 1 .. Len(take.left) :
                   /\ Sound(take.left[i])
                   /\ take.left[i].crc = NoCrc
                      \/ \E j \in 1 .. Len(stream) : take.left[i] = stream[j]
  <2>1. /\ part \in AnyPacket /\ ~Verifies(part)
        /\ rest \in AnyPacket /\ Sound(rest) /\ rest.crc = NoCrc
    BY <1>1, <1>5, PartFails
  <2> DEFINE one == <<rest>>
             left == one \o tail
  <2>2. one \in Seq(AnyPacket) /\ Len(one) = 1 /\ one[1] = rest
    BY <2>1
  <2> HIDE DEF one
  <2>3. /\ left \in Seq(AnyPacket) /\ Len(left) = Len(one) + Len(tail)
        /\ Len(one) \in Nat /\ Len(tail) \in Nat
        /\ \A i \in 1 .. Len(one) : left[i] = one[i]
        /\ \A i \in 1 .. Len(tail) : left[Len(one) + i] = tail[i]
    <3>1. one \in Seq(AnyPacket) /\ tail \in Seq(AnyPacket)
      BY <1>2, <2>2
    <3> QED
      BY ONLY <3>1, ConcatBytes
  <2> HIDE DEF left
  <2>4. ASSUME NEW i \in 1 .. Len(left)
        PROVE  Sound(left[i]) /\ (left[i].crc = NoCrc \/ \E j \in 1 .. len : left[i] = stream[j])
    <3>1. CASE i = 1
      <4>1. left[1] = rest
        BY <2>2, <2>3
      <4> QED
        BY <2>1, <3>1, <4>1
    <3>2. CASE i # 1
      <4>1. i - 1 \in 1 .. Len(tail) /\ 1 + (i - 1) = i
        BY <2>2, <2>3, <3>2
      <4>2. left[i] = tail[i - 1]
        BY <2>2, <2>3, <4>1
      <4> QED
        BY <1>3, <4>1, <4>2
    <3> QED
      BY <3>1, <3>2
  <2>5. take.packet = part /\ take.left = left /\ take.cut = 1
    BY <1>5 DEF left, one
  <2> QED
    BY <2>1, <2>3, <2>4, <2>5
<1>6. ASSUME len >= 2, NEW both,
             both = [crc |-> first.crc, body |-> first.body \o Opaque \o stream[2].body],
             take = [packet |-> both, left |-> Tail(tail), cut |-> 0]
      PROVE  /\ take.packet \in AnyPacket /\ take.cut \in {0, 1} /\ take.left \in Seq(AnyPacket)
             /\ ~Verifies(take.packet)
             /\ \A i \in 1 .. Len(take.left) :
                   Sound(take.left[i]) /\ \E j \in 1 .. Len(stream) : take.left[i] = stream[j]
  <2>1. stream[2] \in AnyPacket
    <3>1. 2 \in 1 .. len
      BY <1>6
    <3> QED
      BY <3>1, ElementOfSeq
  <2>2. both \in AnyPacket /\ ~Verifies(both)
    BY <1>1, <1>6, <2>1, BothFail
  <2> DEFINE left == Tail(tail)
  <2>3. tail # <<>>
    <3>1. Len(tail) # 0
      BY <1>2, <1>6
    <3> QED
      BY <3>1
  <2>4. left \in Seq(AnyPacket) /\ Len(left) = Len(tail) - 1 /\ \A i \in 1 .. Len(left) : left[i] = tail[i + 1]
    BY <1>2, <2>3, HeadTailProperties
  <2> HIDE DEF left
  <2>5. \A i \in 1 .. Len(left) : i + 1 \in 1 .. Len(tail)
    BY <1>1, <1>2, <1>6, <2>4
  <2>6. take.packet = both /\ take.left = left /\ take.cut = 0
    BY <1>6 DEF left
  <2> QED
    BY <1>3, <2>2, <2>4, <2>5, <2>6
<1> DEFINE Part(n) == [crc |-> first.crc, body |-> SubSeq(first.body, 1, n)]
           Remainder(n) == [crc |-> NoCrc,
                            body |-> SubSeq(first.body, n + 1 + WordLen, Len(first.body))]
           Both == [crc |-> first.crc, body |-> first.body \o Opaque \o stream[2].body]
<1>7. \/ take = [packet |-> first, left |-> tail, cut |-> 0]
      \/ \E n \in 1 .. Len(first.body) - WordLen :
            take = [packet |-> Part(n), left |-> <<Remainder(n)>> \o tail, cut |-> 1]
      \/ ~(len < 2) /\ take = [packet |-> Both, left |-> Tail(tail), cut |-> 0]
  BY Zenon DEF Takes, tail
<1>8. CASE \E n \in 1 .. Len(first.body) - WordLen :
              take = [packet |-> Part(n), left |-> <<Remainder(n)>> \o tail, cut |-> 1]
  <2>1. PICK n \in 1 .. Len(first.body) - WordLen :
              take = [packet |-> Part(n), left |-> <<Remainder(n)>> \o tail, cut |-> 1]
    BY <1>8
  <2> DEFINE part == Part(n)
             rest == Remainder(n)
  <2>2. /\ part = [crc |-> first.crc, body |-> SubSeq(first.body, 1, n)]
        /\ rest = [crc |-> NoCrc, body |-> SubSeq(first.body, n + 1 + WordLen, Len(first.body))]
        /\ take = [packet |-> part, left |-> <<rest>> \o tail, cut |-> 1]
    BY <2>1
  <2> HIDE DEF part, rest
  <2>3. /\ take.packet \in AnyPacket /\ take.cut \in {0, 1} /\ take.left \in Seq(AnyPacket)
        /\ ~Verifies(take.packet)
        /\ \A i \in 1 .. Len(take.left) :
              /\ Sound(take.left[i])
              /\ take.left[i].crc = NoCrc \/ \E j \in 1 .. Len(stream) : take.left[i] = stream[j]
    BY <1>5, <2>2
  <2> QED
    BY <1>1, <2>3
<1>9. CASE ~(len < 2) /\ take = [packet |-> Both, left |-> Tail(tail), cut |-> 0]
  <2> DEFINE both == Both
  <2>1. /\ both = [crc |-> first.crc, body |-> first.body \o Opaque \o stream[2].body]
        /\ take = [packet |-> both, left |-> Tail(tail), cut |-> 0]
    BY <1>9
  <2>2. len >= 2
    BY <1>1, <1>9
  <2> HIDE DEF both
  <2>3. /\ take.packet \in AnyPacket /\ take.cut \in {0, 1} /\ take.left \in Seq(AnyPacket)
        /\ ~Verifies(take.packet)
        /\ \A i \in 1 .. Len(take.left) :
              Sound(take.left[i]) /\ \E j \in 1 .. Len(stream) : take.left[i] = stream[j]
    BY <1>6, <2>1, <2>2
  <2> QED
    BY <1>1, <2>3
<1> QED
  BY <1>4, <1>7, <1>8, <1>9

-----------------------------------------------------------------------------
(* What is packed is what is unpacked *)

LEMMA HeaderType ==
    ASSUME NEW body \in Seq(Byte)
    PROVE  /\ Header(body).ip = At(body, 0, IPLen) /\ Header(body).ip \in Seq(Byte)
           /\ Len(Header(body).ip) = IPLen
           /\ Header(body).type = At(body, IPLen, 1)[1] /\ Header(body).type \in Byte
           /\ Header(body).sid = WordOf(At(body, IPLen + 1, WordLen)) /\ Header(body).sid \in ID
<1>1. At(body, 0, IPLen) \in Seq(Byte) /\ Len(At(body, 0, IPLen)) = IPLen
  <2>1. 0 \in Nat /\ IPLen \in Nat
    OBVIOUS
  <2> QED
    BY <2>1, AtBytes
<1>2. At(body, IPLen, 1) \in Seq(Byte) /\ Len(At(body, IPLen, 1)) = 1
  <2>1. \A n \in Nat : At(body, IPLen, n) \in Seq(Byte) /\ Len(At(body, IPLen, n)) = n
    <3>1. IPLen \in Nat
      OBVIOUS
    <3> QED
      BY <3>1, AtBytes
  <2>2. 1 \in Nat
    OBVIOUS
  <2> QED
    BY ONLY <2>1, <2>2, Zenon
<1>3. At(body, IPLen + 1, WordLen) \in Seq(Byte) /\ Len(At(body, IPLen + 1, WordLen)) = WordLen
  <2>1. WordLen \in Nat /\ IPLen + 1 \in Nat
    OBVIOUS
  <2> QED
    BY <2>1, AtBytes
<1>4. At(body, IPLen, 1)[1] \in Byte
  <2> DEFINE at == At(body, IPLen, 1)
  <2> HIDE DEF at
  <2>1. at \in Seq(Byte) /\ Len(at) = 1
    BY <1>2 DEF at
  <2>2. 1 \in 1 .. Len(at)
    BY <2>1
  <2>3. at[1] \in Byte
    BY <2>1, <2>2, ElementOfSeq
  <2> QED
    BY <2>3 DEF at
<1>5. WordOf(At(body, IPLen + 1, WordLen)) \in ID
  BY <1>3, WordOfType
<1> QED
  BY <1>1, <1>4, <1>5 DEF Header

\* A result is unpacked as it was packed, whatever size its checksum was computed of.
LEMMA ResultBytes ==
    ASSUME NEW ip \in Seq(Byte), Len(ip) = IPLen, NEW sid \in ID, NEW success \in {0, 1},
           NEW message \in Results \cup {BadPacket}, NEW size \in {ResultLen, SignUpLen},
           NEW packet,
           packet = Pack(ip, RSLT, sid, Word(success) \o Field(message, StrLen, 0), size)
    PROVE  /\ packet \in AnyPacket /\ Sound(packet)
           /\ IsResult(packet.body, [ip |-> Text(ip), sid |-> sid, success |-> success = 1,
                                     message |-> message])
<1> DEFINE word == Word(success)
           field == Field(message, StrLen, 0)
           payload == word \o field
<1>1. word \in Seq(Byte) /\ Len(word) = WordLen
  <2>1. success \in Nat
    OBVIOUS
  <2> QED
    BY <2>1, WordDigits
<1>2. field \in Seq(Byte) /\ Len(field) = StrLen
  <2>1. message \in Seq(Char) /\ StrLen \in Nat /\ 0 \in Byte
    BY TextsAssumption
  <2> QED
    BY <2>1, FieldBytes
<1> HIDE DEF word, field
<1>3. /\ payload \in Seq(Byte) /\ Len(payload) = Len(word) + Len(field)
      /\ Len(word) \in Nat /\ Len(field) \in Nat
      /\ \A i \in 1 .. Len(word) : payload[i] = word[i]
      /\ \A i \in 1 .. Len(field) : payload[Len(word) + i] = field[i]
  <2>1. word \in Seq(Byte) /\ field \in Seq(Byte)
    BY <1>1, <1>2
  <2> QED
    BY ONLY <2>1, ConcatBytes
<1>4. packet = Pack(ip, RSLT, sid, payload, size)
  BY DEF word, field
<1> HIDE DEF payload
<1>5. size \in Nat /\ HeaderLen + Len(payload) <= size
  <2>1. ResultLen = HeaderLen + WordLen + StrLen /\ SignUpLen = HeaderLen + 4 * StrLen
    BY DEF ResultLen, SignUpLen
  <2> QED
    BY <1>1, <1>2, <1>3, <2>1, HeaderLenType, SMTT(30)
<1>6. RSLT \in Byte
  OBVIOUS
<1>7. /\ packet \in [crc : Seq(Byte), body : Seq(Byte)] /\ Sound(packet)
      /\ Len(packet.body) = HeaderLen + Len(payload)
      /\ At(packet.body, 0, IPLen) = ip /\ At(packet.body, IPLen, 1) = <<RSLT>>
      /\ At(packet.body, IPLen + 1, WordLen) = Word(sid)
      /\ \A i \in 1 .. Len(payload) : packet.body[HeaderLen + i] = payload[i]
  <2>1. /\ ip \in Seq(Byte) /\ Len(ip) = IPLen /\ RSLT \in Byte /\ sid \in ID
        /\ payload \in Seq(Byte) /\ size \in Nat /\ HeaderLen + Len(payload) <= size
        /\ packet = Pack(ip, RSLT, sid, payload, size)
    BY <1>3, <1>4, <1>5, <1>6
  <2> HIDE DEF RSLT, Byte
  <2> QED
    BY ONLY <2>1, PackBytes
<1> DEFINE body == packet.body
<1>8. body \in Seq(Byte) /\ packet \in AnyPacket
  BY <1>7, SoundInAny
<1>9. At(body, HeaderLen, WordLen) = word
  <2>1. HeaderLen \in Nat /\ HeaderLen + Len(word) <= Len(body)
    BY <1>1, <1>2, <1>3, <1>7, HeaderLenType
  <2>2. \A i \in 1 .. Len(word) : i \in 1 .. Len(payload)
    BY <1>1, <1>2, <1>3
  <2>3. \A i \in 1 .. Len(word) : body[HeaderLen + i] = word[i]
    BY <1>3, <1>7, <2>2
  <2> HIDE DEF body
  <2> QED
    BY <1>1, <1>8, <2>1, <2>3, AtEqual
<1>10. At(body, HeaderLen + WordLen, StrLen) = field
  <2> DEFINE from == HeaderLen + WordLen
  <2>1. from \in Nat /\ from + Len(field) <= Len(body)
    BY <1>1, <1>2, <1>3, <1>7, HeaderLenType
  <2>2. \A i \in 1 .. Len(field) : /\ WordLen + i \in 1 .. Len(payload)
                                   /\ HeaderLen + (WordLen + i) = from + i
    BY <1>1, <1>2, <1>3, HeaderLenType
  <2>3. \A i \in 1 .. Len(field) : body[HeaderLen + (WordLen + i)] = field[i]
    BY <1>1, <1>3, <1>7, <2>2
  <2>4. \A i \in 1 .. Len(field) : body[from + i] = field[i]
    <3> HIDE DEF body, from
    <3> QED
      BY <2>2, <2>3
  <2> HIDE DEF body, from
  <2>5. At(body, from, StrLen) = field
    BY <1>2, <1>8, <2>1, <2>4, AtEqual
  <2> QED
    BY <2>5 DEF from
<1> DEFINE result == [ip |-> Text(ip), sid |-> sid, success |-> success = 1, message |-> message]
<1>11. /\ result.ip = Text(ip) /\ result.sid = sid /\ result.message = message
       /\ (IF result.success THEN 1 ELSE 0) = success
  OBVIOUS
<1>12. At(body, IPLen, 1)[1] = RSLT
  BY <1>7
<1> HIDE DEF result, RSLT
<1>13. IsResult(body, result)
  BY <1>7, <1>9, <1>10, <1>11, <1>12 DEF IsResult, word, field
<1> QED
  BY <1>7, <1>8, <1>13 DEF result

\* The fields of a request lie one behind the other.
LEMMA PayloadBytes ==
    ASSUME NEW texts \in Seq(Seq(Char)), NEW junk \in Byte
    PROVE  /\ Payload(texts, junk) \in Seq(Byte) /\ Len(texts) \in Nat
           /\ Len(Payload(texts, junk)) = Len(texts) * StrLen
           /\ \A k \in 1 .. Len(texts), x \in 1 .. StrLen :
                 /\ (k - 1) * StrLen + x \in 1 .. Len(texts) * StrLen
                 /\ Payload(texts, junk)[(k - 1) * StrLen + x] = Field(texts[k], StrLen, junk)[x]
<1> DEFINE len == Len(texts)
           At1(i) == Field(texts[((i - 1) \div StrLen) + 1], StrLen, junk)[((i - 1) % StrLen) + 1]
           all == [i \in 1 .. len * StrLen |-> At1(i)]
<1>1. len \in Nat /\ StrLen \in Nat \ {0} /\ len * StrLen \in Nat
  BY LenProperties
<1>2. \A k \in 1 .. len, x \in 1 .. StrLen : Field(texts[k], StrLen, junk)[x] \in Byte
  <2> SUFFICES ASSUME NEW k \in 1 .. len, NEW x \in 1 .. StrLen
               PROVE  Field(texts[k], StrLen, junk)[x] \in Byte
    OBVIOUS
  <2>1. texts[k] \in Seq(Char)
    BY ElementOfSeq
  <2>2. Field(texts[k], StrLen, junk) \in Seq(Byte) /\ Len(Field(texts[k], StrLen, junk)) = StrLen
    BY <1>1, <2>1, FieldBytes
  <2> QED
    BY <2>2, ElementOfSeq
<1>3. \A i \in 1 .. len * StrLen :
          ((i - 1) \div StrLen) + 1 \in 1 .. len /\ ((i - 1) % StrLen) + 1 \in 1 .. StrLen
  BY <1>1, RowOfPlace
<1>4. \A i \in 1 .. len * StrLen : At1(i) \in Byte
  <2> HIDE DEF len
  <2> QED
    BY <1>2, <1>3
<1>5. all \in Seq(Byte) /\ Len(all) = len * StrLen /\ \A i \in 1 .. len * StrLen : all[i] = At1(i)
  <2> HIDE DEF len, At1
  <2> QED
    BY <1>1, <1>4
<1>6. Payload(texts, junk) = all
  BY DEF Payload
<1>7. ASSUME NEW k \in 1 .. len, NEW x \in 1 .. StrLen
      PROVE  /\ (k - 1) * StrLen + x \in 1 .. len * StrLen
             /\ all[(k - 1) * StrLen + x] = Field(texts[k], StrLen, junk)[x]
  <2> DEFINE i == (k - 1) * StrLen + x
  <2>0. len \in Nat /\ StrLen \in Nat \ {0} /\ k \in 1 .. len /\ x \in 1 .. StrLen
    BY <1>1
  <2> HIDE DEF len
  <2>1. i \in 1 .. len * StrLen /\ (i - 1) \div StrLen = k - 1 /\ (i - 1) % StrLen = x - 1
    BY ONLY <2>0, PlaceInRow
  <2> HIDE DEF all, i
  <2>2. ((i - 1) \div StrLen) + 1 = k /\ ((i - 1) % StrLen) + 1 = x
    BY <1>1, <2>1
  <2>3. all[i] = Field(texts[k], StrLen, junk)[x]
    BY <1>5, <2>1, <2>2
  <2> QED
    BY <2>1, <2>3 DEF i
<1> QED
  BY <1>1, <1>5, <1>6, <1>7

\* A request is unpacked as it was packed, and verifies.
LEMMA RequestBytes ==
    ASSUME NEW c \in Clients, NEW form \in Forms, NEW sid \in ID, NEW junk \in Junk,
           NEW packet, packet = Request(c, form, sid, junk)
    PROVE  /\ packet \in AnyPacket /\ Sound(packet)
           /\ Header(packet.body).sid = sid /\ Header(packet.body).type = form.type
           /\ Len(packet.body) = HeaderLen + Fields(form.type) * StrLen
           /\ \A k \in 1 .. Fields(form.type), x \in 1 .. StrLen :
                 packet.body[HeaderLen + ((k - 1) * StrLen + x)] = Field(form.texts[k], StrLen, junk)[x]
<1> DEFINE texts == form.texts
           ip == Field(Address[c], IPLen, junk)
           payload == Payload(texts, junk)
           size == HeaderLen + Len(payload)
<1>1. /\ form.type \in {SNIN, SNUP} /\ texts \in Seq(Seq(Char)) /\ Len(texts) = Fields(form.type)
      /\ Address[c] \in Seq(Char) /\ junk \in Byte
  BY TextsAssumption
<1>2. ip \in Seq(Byte) /\ Len(ip) = IPLen
  <2>1. IPLen \in Nat
    OBVIOUS
  <2> QED
    BY <1>1, <2>1, FieldBytes
<1>3. form.type \in Byte
  BY <1>1
<1> HIDE DEF texts, ip
<1>4. /\ payload \in Seq(Byte) /\ Len(texts) \in Nat /\ Len(payload) = Len(texts) * StrLen
      /\ \A k \in 1 .. Len(texts), x \in 1 .. StrLen :
            /\ (k - 1) * StrLen + x \in 1 .. Len(texts) * StrLen
            /\ payload[(k - 1) * StrLen + x] = Field(texts[k], StrLen, junk)[x]
  BY <1>1, PayloadBytes
<1>5. packet = Pack(ip, form.type, sid, payload, size)
  BY DEF Request, ip, texts
<1> HIDE DEF payload
<1>6. Len(payload) \in Nat /\ size \in Nat /\ size <= size
  BY <1>4, HeaderLenType, LenProperties
<1>7. /\ packet \in [crc : Seq(Byte), body : Seq(Byte)] /\ Sound(packet)
      /\ Len(packet.body) = HeaderLen + Len(payload)
      /\ At(packet.body, 0, IPLen) = ip /\ At(packet.body, IPLen, 1) = <<form.type>>
      /\ At(packet.body, IPLen + 1, WordLen) = Word(sid)
      /\ \A i \in 1 .. Len(payload) : packet.body[HeaderLen + i] = payload[i]
  <2>1. /\ ip \in Seq(Byte) /\ Len(ip) = IPLen /\ form.type \in Byte /\ sid \in ID
        /\ payload \in Seq(Byte) /\ size \in Nat /\ HeaderLen + Len(payload) <= size
        /\ packet = Pack(ip, form.type, sid, payload, size)
    BY <1>2, <1>3, <1>4, <1>5, <1>6
  <2> HIDE DEF Byte, size
  <2> QED
    BY ONLY <2>1, PackBytes, SMTT(30)
<1>8. packet \in AnyPacket /\ packet.body \in Seq(Byte)
  BY <1>7, SoundInAny
<1>9. Header(packet.body).sid = sid /\ Header(packet.body).type = form.type
  <2>1. /\ Header(packet.body).sid = WordOf(At(packet.body, IPLen + 1, WordLen))
        /\ Header(packet.body).type = At(packet.body, IPLen, 1)[1]
    BY <1>8, HeaderType
  <2>2. WordOf(Word(sid)) = sid
    BY WordRoundTrip
  <2> QED
    BY <1>7, <2>1, <2>2
<1>10. ASSUME NEW k \in 1 .. Len(texts), NEW x \in 1 .. StrLen
       PROVE  packet.body[HeaderLen + ((k - 1) * StrLen + x)] = Field(texts[k], StrLen, junk)[x]
  <2> DEFINE i == (k - 1) * StrLen + x
  <2>1. i \in 1 .. Len(payload) /\ payload[i] = Field(texts[k], StrLen, junk)[x]
    BY <1>4
  <2> HIDE DEF i
  <2>2. packet.body[HeaderLen + i] = Field(texts[k], StrLen, junk)[x]
    BY <1>7, <2>1
  <2> QED
    BY <2>2 DEF i
<1> QED
  BY <1>1, <1>4, <1>7, <1>8, <1>9, <1>10 DEF texts

\* With the session ID 0 behind it, a type is read as it is.
LEMMA TypeIsRead ==
    ASSUME NEW header, header.sid = 0, header.type \in {SNIN, SNUP}
    PROVE  TypeText(header) = <<header.type>>
<1> DEFINE word == InMemory(0)
           one == <<header.type>>
           all == one \o word
<1>1. word \in Seq(Byte) /\ Len(word) = WordLen /\ word[1] = 0
  <2>1. ASSUME NEW i \in 1 .. WordLen PROVE (0 \div Base^(i - 1)) % Base = 0
    <3> DEFINE p == Base^(i - 1)
    <3>1. i - 1 \in 0 .. WordLen
      OBVIOUS
    <3>2. p \in Nat \ {0}
      BY <3>1, PowerType
    <3> HIDE DEF p
    <3>3. 0 \div p = 0
      BY <3>2
    <3>4. (0 \div p) % Base = 0
      BY <3>3
    <3> QED
      BY <3>4 DEF p
  <2>2. word = [i \in 1 .. WordLen |-> 0]
    BY <2>1 DEF InMemory
  <2> HIDE DEF word
  <2> QED
    BY <2>2
<1>2. one \in Seq(Byte) /\ Len(one) = 1 /\ one[1] = header.type /\ header.type # 0
  OBVIOUS
<1> HIDE DEF word, one
<1>3. /\ all \in Seq(Byte) /\ Len(all) = Len(one) + Len(word)
      /\ \A i \in 1 .. Len(one) : all[i] = one[i]
      /\ \A i \in 1 .. Len(word) : all[Len(one) + i] = word[i]
  <2>1. one \in Seq(Byte) /\ word \in Seq(Byte)
    BY <1>1, <1>2
  <2> QED
    BY ONLY <2>1, ConcatBytes
<1> HIDE DEF all
<1>4. all \in Seq(Byte) /\ Len(all) = 1 + WordLen /\ all[1] = one[1] /\ all[1 + 1] = 0
  BY <1>1, <1>2, <1>3
<1>5. /\ Len(one) < Len(all) /\ all[Len(one) + 1] = 0
      /\ \A i \in 1 .. Len(one) : all[i] = one[i] /\ one[i] # 0
  BY <1>2, <1>4
<1>6. Text(all) = one
  BY <1>2, <1>4, <1>5, TextEnds
<1> QED
  BY <1>6 DEF TypeText, all, one, word

\* Of a field that is followed by more, a text that fits is read as it was typed;
\* another one goes on.
LEMMA FieldAgrees ==
    ASSUME NEW typed \in Seq(Char), NEW junk \in Byte, NEW bytes \in Seq(Byte),
           StrLen <= Len(bytes),
           \A x \in 1 .. StrLen : bytes[x] = Field(typed, StrLen, junk)[x]
    PROVE  Text(bytes) =
              IF Len(typed) < StrLen THEN typed
              ELSE SubSeq(typed, 1, StrLen) \o Text(SubSeq(bytes, StrLen + 1, Len(bytes)))
<1> DEFINE len == Len(typed)
<1>1. len \in Nat /\ Len(bytes) \in Nat /\ StrLen \in Nat /\ typed \in Seq(Byte)
  BY LenProperties, CharsAreBytes
<1>2. \A x \in 1 .. StrLen :
        bytes[x] = IF x <= len THEN typed[x] ELSE IF x = len + 1 THEN 0 ELSE junk
  BY <1>1, FieldBytes
<1>3. \A x \in 1 .. len : typed[x] # 0
  BY ElementOfSeq
<1>4. CASE len < StrLen
  <2>1. bytes[len + 1] = 0
    <3>1. len + 1 \in 1 .. StrLen /\ ~(len + 1 <= len)
      BY <1>1, <1>4
    <3> QED
      BY <1>2, <3>1
  <2>2. \A x \in 1 .. len : bytes[x] = typed[x] /\ typed[x] # 0
    <3>1. \A x \in 1 .. len : x \in 1 .. StrLen /\ x <= len
      BY <1>1, <1>4
    <3> QED
      BY <1>2, <1>3, <3>1
  <2>3. len < Len(bytes)
    BY <1>1, <1>4
  <2>4. Text(bytes) = typed
    BY <1>1, <2>1, <2>2, <2>3, TextEnds
  <2> QED
    BY <1>4, <2>4
<1>5. CASE ~(len < StrLen)
  <2>1. \A x \in 1 .. StrLen : x \in 1 .. len /\ x <= len
    BY <1>1, <1>5
  <2>2. \A x \in 1 .. StrLen : bytes[x] = typed[x] /\ bytes[x] # 0
    BY <1>2, <1>3, <2>1
  <2>3. StrLen \in 0 .. Len(bytes)
    BY <1>1
  <2>4. Text(bytes) = SubSeq(bytes, 1, StrLen) \o Text(SubSeq(bytes, StrLen + 1, Len(bytes)))
    BY <2>2, <2>3, TextSplits
  <2>5. /\ SubSeq(bytes, 1, StrLen) \in Seq(Byte) /\ Len(SubSeq(bytes, 1, StrLen)) = StrLen
        /\ \A x \in 1 .. StrLen : SubSeq(bytes, 1, StrLen)[x] = bytes[x]
    <3>1. \A x \in 1 .. StrLen : bytes[x] \in Byte
      BY <1>1, ElementOfSeq
    <3> QED
      BY <1>1, <3>1, SubSeqProperties
  <2>6. /\ SubSeq(typed, 1, StrLen) \in Seq(Byte) /\ Len(SubSeq(typed, 1, StrLen)) = StrLen
        /\ \A x \in 1 .. StrLen : SubSeq(typed, 1, StrLen)[x] = typed[x]
    <3>1. \A x \in 1 .. StrLen : typed[x] \in Byte
      BY <1>1, <2>1, ElementOfSeq
    <3> QED
      BY <1>1, <3>1, SubSeqProperties
  <2>7. SubSeq(bytes, 1, StrLen) = SubSeq(typed, 1, StrLen)
    BY <2>2, <2>5, <2>6, SeqEqual
  <2> QED
    BY <1>5, <2>4, <2>7
<1> QED
  BY <1>4, <1>5

\* What the server reads of a text that has no end: more of the body, and memory.
More(body, from, size, junk) == At(body, from, size) \o <<junk, 0>>

MoreIs(more, body, from, size, junk) ==
    /\ more \in Seq(Byte) /\ Len(more) = size + 2
    /\ \A x \in 1 .. size : more[x] = IF from + x <= Len(body) THEN body[from + x] ELSE 0
    /\ more[size + 1] = junk /\ more[size + 2] = 0

LEMMA MoreBytes ==
    ASSUME NEW body \in Seq(Byte), NEW from \in Nat, NEW size \in Nat, NEW junk \in Byte
    PROVE  MoreIs(More(body, from, size, junk), body, from, size, junk)
<1> DEFINE end == <<junk, 0>>
           start == At(body, from, size)
           all == start \o end
<1>1. end \in Seq(Byte) /\ Len(end) = 2 /\ end[1] = junk /\ end[2] = 0
  OBVIOUS
<1>2. /\ start \in Seq(Byte) /\ Len(start) = size
      /\ \A x \in 1 .. size : start[x] = IF from + x <= Len(body) THEN body[from + x] ELSE 0
  BY AtBytes
<1> HIDE DEF end, start
<1>3. /\ all \in Seq(Byte) /\ Len(all) = Len(start) + Len(end)
      /\ \A x \in 1 .. Len(start) : all[x] = start[x]
      /\ \A x \in 1 .. Len(end) : all[Len(start) + x] = end[x]
  <2>1. start \in Seq(Byte) /\ end \in Seq(Byte)
    BY <1>1, <1>2
  <2> QED
    BY ONLY <2>1, ConcatBytes
<1> HIDE DEF all
<1>4. More(body, from, size, junk) = all
  BY DEF all, start, end, More
<1>5. all[size + 1] = junk /\ all[size + 2] = 0
  BY <1>1, <1>2, <1>3
<1> QED
  BY <1>1, <1>2, <1>3, <1>4, <1>5 DEF MoreIs

LEMMA MoreRest ==
    ASSUME NEW body \in Seq(Byte), NEW from \in Nat, NEW size \in Nat, NEW m \in 0 .. size,
           NEW junk \in Byte
    PROVE  SubSeq(More(body, from, size, junk), m + 1, size + 2) =
               More(body, from + m, size - m, junk)
<1> DEFINE all == More(body, from, size, junk)
           rest == More(body, from + m, size - m, junk)
           part == SubSeq(all, m + 1, size + 2)
<1>1. /\ all \in Seq(Byte) /\ Len(all) = size + 2
      /\ \A x \in 1 .. size : all[x] = IF from + x <= Len(body) THEN body[from + x] ELSE 0
      /\ all[size + 1] = junk /\ all[size + 2] = 0
  <2>1. /\ body \in Seq(Byte) /\ from \in Nat /\ size \in Nat /\ junk \in Byte
    OBVIOUS
  <2>2. MoreIs(all, body, from, size, junk)
    <3> HIDE DEF Byte
    <3> QED
      BY ONLY <2>1, MoreBytes
  <2> QED
    BY <2>2 DEF MoreIs
<1>2. from + m \in Nat /\ size - m \in Nat
  OBVIOUS
<1>3. /\ rest \in Seq(Byte) /\ Len(rest) = (size - m) + 2
      /\ \A x \in 1 .. size - m :
            rest[x] = IF (from + m) + x <= Len(body) THEN body[(from + m) + x] ELSE 0
      /\ rest[(size - m) + 1] = junk /\ rest[(size - m) + 2] = 0
  <2>1. /\ body \in Seq(Byte) /\ from + m \in Nat /\ size - m \in Nat /\ junk \in Byte
    BY <1>2
  <2>2. MoreIs(rest, body, from + m, size - m, junk)
    <3> HIDE DEF Byte
    <3> QED
      BY ONLY <2>1, MoreBytes
  <2> QED
    BY <2>2 DEF MoreIs
<1> HIDE DEF all, rest
<1>4. /\ part \in Seq(Byte) /\ Len(part) = (size + 2) - m
      /\ \A x \in 1 .. (size + 2) - m : part[x] = all[m + x]
  <2>1. m \in 0 .. Len(all) /\ size + 2 \in m .. Len(all)
    BY <1>1
  <2> QED
    BY <1>1, <2>1, PartBytes
<1> HIDE DEF part
<1>5. Len(part) = Len(rest) /\ Len(body) \in Nat
  BY <1>3, <1>4, LenProperties
<1>6. ASSUME NEW x \in 1 .. Len(part) PROVE part[x] = rest[x]
  <2>1. part[x] = all[m + x] /\ x \in 1 .. (size - m) + 2
    BY <1>3, <1>4, <1>5
  <2>2. CASE x \in 1 .. size - m
    <3>1. m + x \in 1 .. size /\ from + (m + x) = (from + m) + x
      BY <2>2
    <3> QED
      BY <1>1, <1>3, <2>1, <2>2, <3>1
  <2>3. CASE x = (size - m) + 1
    <3>1. m + x = size + 1
      BY <2>3
    <3> QED
      BY <1>1, <1>3, <2>1, <2>3, <3>1
  <2>4. CASE x = (size - m) + 2
    <3>1. m + x = size + 2
      BY <2>4
    <3> QED
      BY <1>1, <1>3, <2>1, <2>4, <3>1
  <2>5. x \in 1 .. size - m \/ x = (size - m) + 1 \/ x = (size - m) + 2
    <3>1. size - m \in Nat /\ x \in 1 .. (size - m) + 2
      BY <1>2, <2>1
    <3> QED
      BY ONLY <3>1
  <2> QED
    BY ONLY <2>2, <2>3, <2>4, <2>5
<1> QED
  BY <1>3, <1>4, <1>5, <1>6, SeqEqual DEF all, rest, part

\* Behind the last text lies a byte of memory, or its end.
LEMMA EndOfMore ==
    ASSUME NEW body \in Seq(Byte), NEW from \in Nat, NEW junk \in Byte
    PROVE  Text(More(body, from, 0, junk)) = IF junk = 0 THEN <<>> ELSE <<junk>>
<1> DEFINE more == More(body, from, 0, junk)
<1>1. more \in Seq(Byte) /\ Len(more) = 2 /\ more[1] = junk /\ more[2] = 0
  <2>1. /\ body \in Seq(Byte) /\ from \in Nat /\ 0 \in Nat /\ junk \in Byte
    OBVIOUS
  <2>2. MoreIs(more, body, from, 0, junk)
    <3> HIDE DEF Byte
    <3> QED
      BY ONLY <2>1, MoreBytes
  <2> QED
    BY <2>2 DEF MoreIs
<1> HIDE DEF more
<1>2. CASE junk = 0
  <2> DEFINE none == <<>>
  <2>1. none \in Seq(Byte) /\ Len(none) = 0
    OBVIOUS
  <2> HIDE DEF none
  <2>2. /\ Len(none) < Len(more) /\ more[Len(none) + 1] = 0
        /\ \A i \in 1 .. Len(none) : more[i] = none[i] /\ none[i] # 0
    BY <1>1, <1>2, <2>1
  <2>3. Text(more) = none
    BY <1>1, <2>1, <2>2, TextEnds
  <2> QED
    BY <1>2, <2>3 DEF more, none
<1>3. CASE junk # 0
  <2> DEFINE one == <<junk>>
  <2>1. one \in Seq(Byte) /\ Len(one) = 1 /\ one[1] = junk
    OBVIOUS
  <2> HIDE DEF one
  <2>2. /\ Len(one) < Len(more) /\ more[Len(one) + 1] = 0
        /\ \A i \in 1 .. Len(one) : more[i] = one[i] /\ one[i] # 0
    BY <1>1, <1>3, <2>1
  <2>3. Text(more) = one
    BY <1>1, <2>1, <2>2, TextEnds
  <2> QED
    BY <1>3, <2>3 DEF more, one
<1> QED
  BY <1>2, <1>3

LEMMA TextsOfType ==
    ASSUME NEW body \in Seq(Byte), NEW n \in {2, 4}, NEW junk \in Byte
    PROVE  /\ TextsOf(body, n, junk) \in Seq(Seq(Byte))
           /\ \A k \in 1 .. n :
                 /\ HeaderLen + (k - 1) * StrLen \in Nat /\ (n - k + 1) * StrLen \in Nat
                 /\ TextsOf(body, n, junk)[k] =
                       Text(More(body, HeaderLen + (k - 1) * StrLen, (n - k + 1) * StrLen, junk))
<1> DEFINE T(k) == Text(More(body, HeaderLen + (k - 1) * StrLen, (n - k + 1) * StrLen, junk))
<1>1. ASSUME NEW k \in 1 .. n
      PROVE  /\ HeaderLen + (k - 1) * StrLen \in Nat /\ (n - k + 1) * StrLen \in Nat
             /\ T(k) \in Seq(Byte)
  <2> DEFINE from == HeaderLen + (k - 1) * StrLen
             size == (n - k + 1) * StrLen
  <2>1. from \in Nat /\ size \in Nat
    <3>1. k - 1 \in Nat /\ n - k + 1 \in Nat
      OBVIOUS
    <3>2. (k - 1) * StrLen \in Nat /\ (n - k + 1) * StrLen \in Nat
      BY <3>1
    <3> QED
      BY <3>2, HeaderLenType
  <2> HIDE DEF from, size
  <2>2. More(body, from, size, junk) \in Seq(Byte)
    BY <2>1, MoreBytes DEF MoreIs
  <2>3. Text(More(body, from, size, junk)) \in Seq(Byte)
    BY <2>2, TextType
  <2> QED
    BY <2>1, <2>3 DEF from, size
<1>2. TextsOf(body, n, junk) = [k \in 1 .. n |-> T(k)]
  BY DEF TextsOf, More
<1>3. \A k \in 1 .. n : T(k) \in Seq(Byte)
  BY <1>1
<1>4. TextsOf(body, n, junk) \in Seq(Seq(Byte)) /\ \A k \in 1 .. n : TextsOf(body, n, junk)[k] = T(k)
  <2> HIDE DEF T
  <2> QED
    BY <1>2, <1>3
<1> QED
  BY <1>1, <1>4

\* What the server reads from a request agrees with what was typed.
LEMMA RequestAgrees ==
    ASSUME NEW c \in Clients, NEW form \in Forms, NEW sid \in ID, NEW junk \in Junk,
           NEW packet, packet = Request(c, form, sid, junk), NEW other \in Junk,
           NEW k \in 1 .. Fields(form.type)
    PROVE  Agree([type |-> form.type, texts |-> TextsOf(packet.body, Fields(form.type), other)],
                 k, form.texts[k])
<1> DEFINE n == Fields(form.type)
           body == packet.body
           texts == TextsOf(body, n, other)
           typed == form.texts[k]
           from == HeaderLen + (k - 1) * StrLen
           size == (n - k + 1) * StrLen
           all == More(body, from, size, other)
           rest == More(body, from + StrLen, size - StrLen, other)
<1>1. /\ form.type \in {SNIN, SNUP} /\ form.texts \in Seq(Seq(Char)) /\ Len(form.texts) = n
      /\ junk \in Byte /\ other \in Byte
  BY TextsAssumption
<1>2. n \in {2, 4} /\ typed \in Seq(Char)
  <2>1. n \in {2, 4}
    BY <1>1 DEF Fields
  <2>2. k \in 1 .. Len(form.texts)
    BY <1>1
  <2> QED
    BY <1>1, <2>1, <2>2, ElementOfSeq
<1>3. /\ packet \in AnyPacket /\ Len(body) = HeaderLen + n * StrLen
      /\ \A x \in 1 .. StrLen :
            body[HeaderLen + ((k - 1) * StrLen + x)] = Field(typed, StrLen, junk)[x]
  BY RequestBytes
<1>4. body \in Seq(Byte) /\ k \in 1 .. n
  BY <1>3 DEF AnyPacket
<1> HIDE DEF n, body, typed
<1>5. \A l \in 1 .. n :
        /\ HeaderLen + (l - 1) * StrLen \in Nat /\ (n - l + 1) * StrLen \in Nat
        /\ texts[l] = Text(More(body, HeaderLen + (l - 1) * StrLen, (n - l + 1) * StrLen, other))
  <2>1. body \in Seq(Byte) /\ n \in {2, 4} /\ other \in Byte
    BY <1>1, <1>2, <1>4
  <2> HIDE DEF Byte
  <2> QED
    BY ONLY <2>1, TextsOfType
<1> HIDE DEF texts
<1>6. texts[k] = Text(all) /\ from \in Nat /\ size \in Nat
  BY <1>4, <1>5
<1>7. /\ StrLen <= size /\ from + size = HeaderLen + n * StrLen
      /\ k < n => texts[k + 1] = Text(rest)
      /\ k = n => size - StrLen = 0
  <2>1. k \in 1 .. n /\ n \in Nat /\ StrLen \in Nat /\ HeaderLen \in Nat
    BY <1>2, <1>4, HeaderLenType
  <2>2. StrLen <= size
    <3>1. n - k \in Nat
      BY <2>1
    <3>2. (n - k) * StrLen \in Nat /\ size = (n - k) * StrLen + StrLen
      BY <2>1, <3>1
    <3> QED
      BY <2>1, <3>2
  <2>3. (k - 1) * StrLen + (n - k + 1) * StrLen = n * StrLen
    BY <2>1
  <2>4. ASSUME k < n PROVE texts[k + 1] = Text(rest)
    <3>1. k + 1 \in 1 .. n
      BY <2>1, <2>4
    <3>2. /\ HeaderLen + ((k + 1) - 1) * StrLen = from + StrLen
          /\ (n - (k + 1) + 1) * StrLen = size - StrLen
      BY <2>1
    <3> QED
      BY <1>5, <3>1, <3>2
  <2>5. k = n => size - StrLen = 0
    BY <2>1
  <2> HIDE DEF rest
  <2> QED
    BY <2>1, <2>2, <2>3, <2>4, <2>5
<1>8. HeaderLen + ((k - 1) * StrLen + 0) = from
  BY <1>4, HeaderLenType
<1> HIDE DEF from, size
<1>9. /\ all \in Seq(Byte) /\ Len(all) = size + 2
      /\ \A x \in 1 .. size : all[x] = IF from + x <= Len(body) THEN body[from + x] ELSE 0
  <2>1. /\ body \in Seq(Byte) /\ from \in Nat /\ size \in Nat /\ other \in Byte
    BY <1>1, <1>4, <1>6
  <2>2. MoreIs(all, body, from, size, other)
    <3> HIDE DEF Byte
    <3> QED
      BY ONLY <2>1, MoreBytes
  <2> QED
    BY <2>2 DEF MoreIs
<1>10. SubSeq(all, StrLen + 1, Len(all)) = rest
  <2>1. StrLen \in 0 .. size
    BY <1>6, <1>7
  <2>2. SubSeq(all, StrLen + 1, size + 2) = rest
    <3>1. body \in Seq(Byte) /\ from \in Nat /\ size \in Nat /\ other \in Byte
      BY <1>1, <1>4, <1>6
    <3> HIDE DEF Byte
    <3> QED
      BY ONLY <2>1, <3>1, MoreRest
  <2> QED
    BY <1>9, <2>2
<1>11. k = n => Text(rest) = IF other = 0 THEN <<>> ELSE <<other>>
  <2>1. from + StrLen \in Nat
    BY <1>6
  <2> QED
    BY <1>1, <1>4, <1>7, <2>1, EndOfMore
<1> HIDE DEF all, rest
<1>12. ASSUME NEW x \in 1 .. StrLen PROVE all[x] = Field(typed, StrLen, junk)[x]
  <2>1. x \in 1 .. size /\ from + x <= Len(body)
    BY <1>3, <1>6, <1>7
  <2>2. HeaderLen + ((k - 1) * StrLen + x) = from + x
    <3>1. (k - 1) * StrLen \in Nat
      BY <1>4
    <3> QED
      BY <3>1, HeaderLenType DEF from
  <2>3. all[x] = body[from + x]
    BY <1>9, <2>1
  <2> QED
    BY <1>3, <2>2, <2>3
<1>13. Text(all) = IF Len(typed) < StrLen THEN typed
                   ELSE SubSeq(typed, 1, StrLen) \o Text(rest)
  <2>1. StrLen <= Len(all)
    BY <1>6, <1>7, <1>9
  <2> QED
    BY <1>1, <1>2, <1>9, <1>10, <1>12, <2>1, FieldAgrees
<1> DEFINE e == [type |-> form.type, texts |-> texts]
<1>14. e.texts = texts /\ Fields(e.type) = n
  BY DEF n
<1> HIDE DEF e
<1>15. Text(rest) \in Behind(e, k)
  <2>1. CASE k < n
    BY <1>7, <1>14, <2>1 DEF Behind
  <2>2. CASE ~(k < n)
    <3>1. k = n
      BY <1>2, <1>4, <2>2
    <3> QED
      BY <1>11, <1>14, <2>2, <3>1 DEF Behind
  <2> QED
    BY <2>1, <2>2
<1>16. Agree(e, k, typed)
  BY <1>6, <1>13, <1>14, <1>15, Zenon DEF Agree
<1> QED
  BY <1>16 DEF e, texts, typed, n, body

-----------------------------------------------------------------------------
(* Steps *)

PackedResult == [ip : Seq(Byte), sid : ID, success : BOOLEAN, message : Results \cup {BadPacket}]
SentRequest == [client : Clients, form : Forms, packet : AnyPacket]
Lengths == \A i \in 1 .. Len(sent) :
    Len(sent[i].packet.body) = HeaderLen + Fields(sent[i].form.type) * StrLen

LEMMA Types ==
    TypeOK <=> /\ session \in [Clients -> ID] /\ sent \in Seq(SentRequest)
               /\ relayed \in 0 .. MaxRelayed /\ cuts \in 0 .. MaxCuts
               /\ toServer \in Seq(AnyPacket) /\ toBalancer \in Seq(AnyPacket)
               /\ \A e \in executed : e.type \in {SNIN, SNUP} /\ e.texts \in Seq(Seq(Byte))
               /\ packed \subseteq PackedResult
               /\ answers \subseteq [client : Clients, packet : AnyPacket]
               /\ shown \in [Clients -> [success : BOOLEAN, message : Seq(Byte)]]
               /\ Lengths
  BY DEF TypeOK, ID, AnyPacket, PackedResult, SentRequest, Lengths

LEMMA TypesNext ==
    TypeOK' <=> /\ session' \in [Clients -> ID] /\ sent' \in Seq(SentRequest)
                /\ relayed' \in 0 .. MaxRelayed /\ cuts' \in 0 .. MaxCuts
                /\ toServer' \in Seq(AnyPacket) /\ toBalancer' \in Seq(AnyPacket)
                /\ \A e \in executed' : e.type \in {SNIN, SNUP} /\ e.texts \in Seq(Seq(Byte))
                /\ packed' \subseteq PackedResult
                /\ answers' \subseteq [client : Clients, packet : AnyPacket]
                /\ shown' \in [Clients -> [success : BOOLEAN, message : Seq(Byte)]]
                /\ Lengths'
  BY DEF TypeOK, ID, AnyPacket, PackedResult, SentRequest, Lengths

LEMMA LengthsKept == Lengths /\ sent' = sent => Lengths'
  BY DEF Lengths

LEMMA InitInv == Init => PacketsInv
<1> SUFFICES ASSUME Init PROVE PacketsInv
  OBVIOUS
<1> USE DEF Init
<1>1. TypeOK
  <2>1. /\ sent \in Seq(SentRequest) /\ toServer \in Seq(AnyPacket) /\ toBalancer \in Seq(AnyPacket)
    OBVIOUS
  <2>2. session \in [Clients -> ID]
    BY WordSize
  <2>3. shown \in [Clients -> [success : BOOLEAN, message : Seq(Byte)]]
    <3>1. <<>> \in Seq(Byte)
      OBVIOUS
    <3> QED
      BY <3>1
  <2>4. Lengths
    <3>1. Len(sent) = 0
      OBVIOUS
    <3> QED
      BY <3>1 DEF Lengths
  <2> QED
    BY <2>1, <2>2, <2>3, <2>4, Types
<1>2. Len(sent) = 0 /\ Len(toServer) = 0 /\ Len(toBalancer) = 0
  OBVIOUS
<1>3. SentInv /\ ToServerInv /\ ToBalancerInv
  BY <1>2 DEF SentInv, ToServerInv, ToBalancerInv
<1>4. AnswersInv /\ ExecutedAsTyped
  BY DEF AnswersInv, ExecutedAsTyped
<1>5. ShownWasPacked
  BY DEF ShownWasPacked
<1> QED
  BY <1>1, <1>3, <1>4, <1>5 DEF PacketsInv

LEMMA SentSound ==
    ASSUME PacketsInv, NEW j \in 1 .. Len(sent)
    PROVE  \E sid \in ID, junk \in Junk :
              /\ sent[j].packet = Request(sent[j].client, sent[j].form, sid, junk)
              /\ sent[j].client \in Clients /\ sent[j].form \in Forms
              /\ sent[j].packet \in AnyPacket /\ Sound(sent[j].packet)
<1>1. PICK sid \in ID, junk \in Junk :
        sent[j].packet = Request(sent[j].client, sent[j].form, sid, junk)
  BY DEF PacketsInv, SentInv
<1>2. sent[j] \in SentRequest
  BY ElementOfSeq, Types DEF PacketsInv
<1>3. sent[j].client \in Clients /\ sent[j].form \in Forms
  BY <1>2 DEF SentRequest
<1>4. sent[j].packet \in AnyPacket /\ Sound(sent[j].packet)
  BY <1>1, <1>3, RequestBytes
<1> QED
  BY <1>1, <1>3, <1>4

LEMMA SendFormKeeps ==
    ASSUME PacketsInv, NEW c \in Clients, SendForm(c)
    PROVE  PacketsInv' /\ toServer' = toServer
<1>0. /\ session \in [Clients -> ID] /\ sent \in Seq(SentRequest) /\ TypeOK
      /\ \A e \in executed : e.type \in {SNIN, SNUP}
  BY Types DEF PacketsInv
<1>1. PICK form \in Forms, junk \in Junk :
        sent' = Append(sent, [client |-> c, form |-> form,
                              packet |-> Request(c, form, session[c], junk)])
  BY DEF SendForm
<1> DEFINE packet == Request(c, form, session[c], junk)
           request == [client |-> c, form |-> form, packet |-> packet]
<1>2. session[c] \in ID
  BY <1>0
<1>3. packet \in AnyPacket /\ Len(packet.body) = HeaderLen + Fields(form.type) * StrLen
  BY <1>2, RequestBytes
<1> HIDE DEF packet
<1>4. request \in SentRequest /\ request.client = c /\ request.form = form /\ request.packet = packet
  BY <1>3 DEF SentRequest
<1>5. sent' = Append(sent, request)
  BY <1>1 DEF packet
<1> HIDE DEF request
<1>6. /\ sent' \in Seq(SentRequest) /\ Len(sent') = Len(sent) + 1 /\ Len(sent) \in Nat
      /\ \A j \in 1 .. Len(sent) : sent'[j] = sent[j]
      /\ sent'[Len(sent) + 1] = request
  BY <1>0, <1>4, <1>5, AppendProperties, LenProperties
<1>7. \A j \in 1 .. Len(sent) : j \in 1 .. Len(sent') /\ sent'[j] = sent[j]
  BY <1>6
<1>8. /\ UNCHANGED <<session, relayed, cuts, toServer, toBalancer, executed, packed, answers>>
      /\ UNCHANGED shown
  BY DEF SendForm
<1>9. TypeOK'
  <2>0. Lengths'
    <3>1. ASSUME NEW j \in 1 .. Len(sent')
          PROVE  Len(sent'[j].packet.body) = HeaderLen + Fields(sent'[j].form.type) * StrLen
      <4>1. CASE j \in 1 .. Len(sent)
        BY <1>0, <1>7, <4>1, Types DEF Lengths
      <4>2. CASE ~(j \in 1 .. Len(sent))
        <5>1. j = Len(sent) + 1
          BY <1>6, <4>2
        <5> QED
          BY <1>3, <1>4, <1>6, <5>1
      <4> QED
        BY <4>1, <4>2
    <3> QED
      BY <3>1 DEF Lengths
  <2>1. /\ session' \in [Clients -> ID] /\ sent' \in Seq(SentRequest)
        /\ relayed' \in 0 .. MaxRelayed /\ cuts' \in 0 .. MaxCuts
        /\ toServer' \in Seq(AnyPacket) /\ toBalancer' \in Seq(AnyPacket)
        /\ \A e \in executed' : e.type \in {SNIN, SNUP} /\ e.texts \in Seq(Seq(Byte))
        /\ packed' \subseteq PackedResult
        /\ answers' \subseteq [client : Clients, packet : AnyPacket]
        /\ shown' \in [Clients -> [success : BOOLEAN, message : Seq(Byte)]]
        /\ Lengths'
    BY <1>0, <1>6, <1>8, Types, <2>0
  <2> QED
    BY <2>1, TypesNext
<1>10. SentInv'
  <2> SUFFICES ASSUME NEW j \in 1 .. Len(sent')
               PROVE  \E sid \in ID, k \in Junk :
                         sent'[j].packet = Request(sent'[j].client, sent'[j].form, sid, k)
    BY DEF SentInv
  <2>1. CASE j \in 1 .. Len(sent)
    BY <1>7, <2>1 DEF PacketsInv, SentInv
  <2>2. CASE ~(j \in 1 .. Len(sent))
    <3>1. j = Len(sent) + 1
      BY <1>6, <2>2
    <3>2. sent'[j].packet = Request(sent'[j].client, sent'[j].form, session[c], junk)
      BY <1>4, <1>6, <3>1 DEF packet
    <3> QED
      BY <1>2, <3>2
  <2> QED
    BY <2>1, <2>2
<1>11. ToServerInv'
  <2>1. \A j \in 1 .. Len(sent) : j \in 1 .. Len(sent') /\ sent'[j].packet = sent[j].packet
    BY <1>7
  <2> QED
    BY <1>8, <2>1 DEF PacketsInv, ToServerInv, Sound, Padded, Verifies
<1>12. ToBalancerInv' /\ AnswersInv'
  BY <1>8 DEF PacketsInv, ToBalancerInv, AnswersInv, Sound, Padded, Verifies, IsResult
<1>13. ExecutedAsTyped'
  <2>1. \A j \in 1 .. Len(sent) : j \in 1 .. Len(sent') /\ sent'[j].form = sent[j].form
    BY <1>7
  <2> QED
    BY <1>8, <2>1 DEF PacketsInv, ExecutedAsTyped
<1>14. ShownWasPacked'
  BY <1>8 DEF PacketsInv, ShownWasPacked
<1> QED
  BY <1>8, <1>9, <1>10, <1>11, <1>12, <1>13, <1>14 DEF PacketsInv

LEMMA RelayRequestKeeps ==
    ASSUME PacketsInv, RelayRequest
    PROVE  PacketsInv' /\ Len(toServer') > Len(toServer) /\ toBalancer' = toBalancer
<1>0. TypeOK /\ toServer \in Seq(AnyPacket) /\ relayed \in 0 .. MaxRelayed
  BY Types DEF PacketsInv
<1>1. PICK j \in 1 .. Len(sent) : toServer' = Append(toServer, sent[j].packet)
  BY DEF RelayRequest
<1> DEFINE packet == sent[j].packet
<1>2. packet \in AnyPacket /\ Sound(packet)
  BY SentSound
<1>3. toServer' = Append(toServer, packet)
  BY <1>1
<1> HIDE DEF packet
<1>4. /\ toServer' \in Seq(AnyPacket) /\ Len(toServer') = Len(toServer) + 1 /\ Len(toServer) \in Nat
      /\ \A i \in 1 .. Len(toServer) : toServer'[i] = toServer[i]
      /\ toServer'[Len(toServer) + 1] = packet
  BY <1>0, <1>2, <1>3, AppendProperties, LenProperties
<1>5. /\ UNCHANGED <<session, sent, cuts, toBalancer, executed, packed, answers, shown>>
      /\ relayed' \in 0 .. MaxRelayed
  BY <1>0 DEF RelayRequest
<1>6. TypeOK'
  <2>1. /\ session' \in [Clients -> ID] /\ sent' \in Seq(SentRequest)
        /\ relayed' \in 0 .. MaxRelayed /\ cuts' \in 0 .. MaxCuts
        /\ toServer' \in Seq(AnyPacket) /\ toBalancer' \in Seq(AnyPacket)
        /\ \A e \in executed' : e.type \in {SNIN, SNUP} /\ e.texts \in Seq(Seq(Byte))
        /\ packed' \subseteq PackedResult
        /\ answers' \subseteq [client : Clients, packet : AnyPacket]
        /\ shown' \in [Clients -> [success : BOOLEAN, message : Seq(Byte)]]
        /\ Lengths'
    BY <1>0, <1>4, <1>5, Types, LengthsKept
  <2> QED
    BY <2>1, TypesNext
<1>7. ToServerInv'
  <2>1. ASSUME NEW i \in 1 .. Len(toServer')
        PROVE  /\ Sound(toServer'[i])
               /\ Verifies(toServer'[i]) => \E k \in 1 .. Len(sent) : toServer'[i] = sent[k].packet
    <3>1. CASE i \in 1 .. Len(toServer)
      <4>1. toServer'[i] = toServer[i]
        BY <1>4, <3>1
      <4> QED
        BY <3>1, <4>1 DEF PacketsInv, ToServerInv
    <3>2. CASE ~(i \in 1 .. Len(toServer))
      <4>1. i = Len(toServer) + 1
        BY <1>4, <3>2
      <4>2. toServer'[i] = packet
        BY <1>4, <4>1
      <4> QED
        BY <1>2, <4>2 DEF packet
    <3> QED
      BY <3>1, <3>2
  <2> QED
    BY <1>5, <2>1 DEF ToServerInv, Sound, Padded, Verifies
<1>8. SentInv' /\ ToBalancerInv' /\ AnswersInv'
  BY <1>5 DEF PacketsInv, SentInv, ToBalancerInv, AnswersInv, Sound, Padded, Verifies, IsResult
<1>9. ExecutedAsTyped' /\ ShownWasPacked'
  BY <1>5 DEF PacketsInv, ExecutedAsTyped, ShownWasPacked
<1> QED
  BY <1>4, <1>5, <1>6, <1>7, <1>8, <1>9 DEF PacketsInv

\* What Reply packs is what it records.
LEMMA ReplyKeeps ==
    ASSUME PacketsInv, NEW body \in Seq(Byte), NEW header, header = Header(body),
           NEW sid \in ID, NEW success \in {0, 1}, NEW message \in Results \cup {BadPacket},
           NEW size \in {ResultLen, SignUpLen}, Reply(header, sid, success, message, size)
    PROVE  /\ packed' \subseteq PackedResult /\ packed \subseteq packed'
           /\ toBalancer' \in Seq(AnyPacket) /\ ToBalancerInv'
           /\ Len(toBalancer') > Len(toBalancer)
<1> DEFINE result == [ip |-> Text(header.ip), sid |-> sid, success |-> success = 1,
                      message |-> message]
           packet == Pack(header.ip, RSLT, sid, Word(success) \o Field(message, StrLen, 0), size)
<1>0. packed \subseteq PackedResult /\ toBalancer \in Seq(AnyPacket)
  BY Types DEF PacketsInv
<1>1. header.ip \in Seq(Byte) /\ Len(header.ip) = IPLen
  BY HeaderType
<1>2. Text(header.ip) \in Seq(Byte)
  BY <1>1, TextType
<1>3. packed' = packed \cup {result} /\ toBalancer' = Append(toBalancer, packet)
  BY DEF Reply
<1>4. packet \in AnyPacket /\ Sound(packet) /\ IsResult(packet.body, result)
  <2> DEFINE ip == header.ip
  <2>1. ip \in Seq(Byte) /\ Len(ip) = IPLen
    BY <1>1
  <2> HIDE DEF ip, RSLT, Byte
  <2>2. \A p : p = Pack(ip, RSLT, sid, Word(success) \o Field(message, StrLen, 0), size) =>
          /\ p \in AnyPacket /\ Sound(p)
          /\ IsResult(p.body, [ip |-> Text(ip), sid |-> sid, success |-> success = 1,
                               message |-> message])
    BY <2>1, ResultBytes
  <2> QED
    BY <2>2 DEF ip
<1>5. result \in PackedResult
  <2> DEFINE ip == Text(header.ip)
             told == (success = 1)
  <2>1. ip \in Seq(Byte) /\ told \in BOOLEAN
    BY <1>2
  <2> HIDE DEF ip, told
  <2>2. [ip |-> ip, sid |-> sid, success |-> told, message |-> message] \in PackedResult
    BY <2>1 DEF PackedResult
  <2> QED
    BY <2>2 DEF ip, told
<1> HIDE DEF result, packet
<1>6. /\ toBalancer' \in Seq(AnyPacket) /\ Len(toBalancer') = Len(toBalancer) + 1
      /\ Len(toBalancer) \in Nat
      /\ \A i \in 1 .. Len(toBalancer) : toBalancer'[i] = toBalancer[i]
      /\ toBalancer'[Len(toBalancer) + 1] = packet
  BY <1>0, <1>3, <1>4, AppendProperties, LenProperties
<1>7. ASSUME NEW i \in 1 .. Len(toBalancer')
      PROVE  /\ Sound(toBalancer'[i])
             /\ Verifies(toBalancer'[i]) => \E r \in packed' : IsResult(toBalancer'[i].body, r)
  <2>1. CASE i \in 1 .. Len(toBalancer)
    <3>1. toBalancer'[i] = toBalancer[i] /\ packed \subseteq packed'
      BY <1>3, <1>6, <2>1
    <3> QED
      BY <2>1, <3>1 DEF PacketsInv, ToBalancerInv
  <2>2. CASE ~(i \in 1 .. Len(toBalancer))
    <3>1. i = Len(toBalancer) + 1
      BY <1>6, <2>2
    <3>2. toBalancer'[i] = packet /\ result \in packed'
      BY <1>3, <1>6, <3>1
    <3> QED
      BY <1>4, <3>2
  <2> QED
    BY <2>1, <2>2
<1>8. ToBalancerInv'
  BY <1>7 DEF ToBalancerInv, Sound, Padded, Verifies, IsResult
<1> QED
  BY <1>0, <1>3, <1>5, <1>6, <1>8

\* What the server executes was typed.
LEMMA ExecutesTyped ==
    ASSUME PacketsInv, NEW packet, NEW j \in 1 .. Len(sent), packet = sent[j].packet,
           NEW header, header = Header(packet.body), header.sid = 0,
           NEW type \in {SNIN, SNUP}, TypeText(header) = <<type>>, NEW other \in Junk
    PROVE  /\ sent[j].form.type = type
           /\ \A k \in 1 .. Fields(type) :
                 Agree([type |-> type, texts |-> TextsOf(packet.body, Fields(type), other)], k,
                       sent[j].form.texts[k])
<1>1. PICK sid \in ID, junk \in Junk :
         /\ sent[j].packet = Request(sent[j].client, sent[j].form, sid, junk)
         /\ sent[j].client \in Clients /\ sent[j].form \in Forms
  BY SentSound
<1> DEFINE form == sent[j].form
           c == sent[j].client
<1>2. form \in Forms /\ c \in Clients /\ packet = Request(c, form, sid, junk)
  BY <1>1
<1> HIDE DEF form, c
<1>3. header.type = form.type
  BY <1>2, RequestBytes
<1>4. form.type \in {SNIN, SNUP}
  BY <1>2, TextsAssumption
<1>5. TypeText(header) = <<header.type>>
  BY <1>3, <1>4, TypeIsRead
<1>6. form.type = type
  BY <1>3, <1>5
<1>7. \A k \in 1 .. Fields(type) :
        Agree([type |-> type, texts |-> TextsOf(packet.body, Fields(type), other)], k,
              form.texts[k])
  BY <1>2, <1>6, RequestAgrees
<1> QED
  BY <1>6, <1>7 DEF form

\* A server that goes on to read: what it took may be answered, or executed and
\* answered, but never passed over.
LEMMA ServerReceiveKeeps ==
    ASSUME PacketsInv, ServerReceive
    PROVE  PacketsInv' /\ Len(toBalancer') > Len(toBalancer)
<1>0. /\ TypeOK /\ toServer \in Seq(AnyPacket) /\ cuts \in 0 .. MaxCuts
      /\ \A e \in executed : e.type \in {SNIN, SNUP} /\ e.texts \in Seq(Seq(Byte))
  BY Types DEF PacketsInv
<1>1. PICK take \in Takes(toServer) :
        LET body == take.packet.body
            header == Header(body)
            valid == Verifies(take.packet) /\ (header.sid > 0 => SessionExists(header.sid))
        IN  /\ toServer' = take.left /\ Cut(take)
            /\ \/ ~valid /\ Reply(header, header.sid, 0, BadPacket, ResultLen) /\ UNCHANGED executed
               \/ \E type \in {SNIN, SNUP} :
                      valid /\ TypeText(header) = <<type>> /\ Execute(type, body, header)
               \/ /\ valid /\ TypeText(header) \notin {<<SNIN>>, <<SNUP>>}
                  /\ UNCHANGED <<executed, packed, toBalancer>>
  BY Zenon DEF ServerReceive
<1>2. UNCHANGED <<session, sent, relayed, answers, shown>> /\ toServer # <<>>
  BY DEF ServerReceive
<1> DEFINE packet == take.packet
           body == packet.body
           header == Header(body)
           valid == Verifies(packet) /\ (header.sid > 0 => SessionExists(header.sid))
<1>3. /\ packet \in AnyPacket /\ take.cut \in {0, 1} /\ take.left \in Seq(AnyPacket)
      /\ Verifies(packet) => packet = toServer[1]
      /\ \A i \in 1 .. Len(take.left) :
            /\ Sound(take.left[i])
            /\ take.left[i].crc = NoCrc \/ \E j \in 1 .. Len(toServer) : take.left[i] = toServer[j]
      /\ Len(toServer) \in Nat \ {0}
  <2>1. \A i \in 1 .. Len(toServer) : Sound(toServer[i])
    BY DEF PacketsInv, ToServerInv
  <2> QED
    BY <1>0, <1>2, <2>1, TakeSound
<1>4. body \in Seq(Byte)
  BY <1>3 DEF AnyPacket
<1>5. /\ toServer' = take.left /\ Cut(take)
      /\ \/ ~valid /\ Reply(header, header.sid, 0, BadPacket, ResultLen) /\ executed' = executed
         \/ \E type \in {SNIN, SNUP} :
                valid /\ TypeText(header) = <<type>> /\ Execute(type, body, header)
         \/ valid /\ TypeText(header) \notin {<<SNIN>>, <<SNUP>>}
  BY <1>1, Zenon
<1> HIDE DEF packet, body
<1>6. header.sid \in ID
  BY <1>4, HeaderType
<1>7. toServer' \in Seq(AnyPacket) /\ ToServerInv'
  <2>1. ASSUME NEW i \in 1 .. Len(toServer')
        PROVE  /\ Sound(toServer'[i])
               /\ Verifies(toServer'[i]) => \E k \in 1 .. Len(sent) : toServer'[i] = sent[k].packet
    <3>1. toServer'[i] = take.left[i] /\ i \in 1 .. Len(take.left)
      BY <1>5
    <3>2. Sound(take.left[i])
      BY <1>3, <3>1
    <3>3. CASE take.left[i].crc = NoCrc
      <4>1. ~Verifies(take.left[i])
        BY <3>2, <3>3, NoCrcFails DEF Sound
      <4> QED
        BY <3>1, <3>2, <4>1
    <3>4. CASE \E j \in 1 .. Len(toServer) : take.left[i] = toServer[j]
      BY <3>1, <3>2, <3>4 DEF PacketsInv, ToServerInv
    <3> QED
      BY <1>3, <3>1, <3>3, <3>4
  <2> QED
    BY <1>2, <1>3, <1>5, <2>1 DEF ToServerInv, Sound, Padded, Verifies
<1>8. cuts' \in 0 .. MaxCuts
  <2>1. cuts' = cuts + take.cut /\ cuts' <= MaxCuts
    BY <1>5 DEF Cut
  <2> QED
    BY <1>0, <1>3, <2>1
<1>9. ASSUME valid
      PROVE  header.sid = 0 /\ \E j \in 1 .. Len(sent) : packet = sent[j].packet
  <2>1. ~(header.sid > 0)
    BY <1>9 DEF SessionExists
  <2>2. header.sid \in Nat
    BY <1>6, WordSize
  <2>3. packet = toServer[1] /\ Verifies(toServer[1]) /\ 1 \in 1 .. Len(toServer)
    BY <1>3, <1>9
  <2>4. \E j \in 1 .. Len(sent) : packet = sent[j].packet
    BY <2>3 DEF PacketsInv, ToServerInv
  <2> QED
    BY <2>1, <2>2, <2>4
<1> DEFINE Answered == /\ packed' \subseteq PackedResult /\ packed \subseteq packed'
                       /\ toBalancer' \in Seq(AnyPacket) /\ ToBalancerInv'
                       /\ Len(toBalancer') > Len(toBalancer)
           Typed == ExecutedAsTyped' /\ \A e \in executed' :
                        e.type \in {SNIN, SNUP} /\ e.texts \in Seq(Seq(Byte))
<1>10. Answered /\ Typed
  <2>1. CASE ~valid /\ Reply(header, header.sid, 0, BadPacket, ResultLen) /\ executed' = executed
    <3>1. Answered
      <4>1. 0 \in {0, 1} /\ BadPacket \in Results \cup {BadPacket} /\ ResultLen \in {ResultLen, SignUpLen}
        OBVIOUS
      <4> QED
        BY <1>4, <1>6, <2>1, <4>1, ReplyKeeps
    <3>2. Typed
      BY <1>0, <1>2, <2>1 DEF PacketsInv, ExecutedAsTyped
    <3> QED
      BY <3>1, <3>2
  <2>2. ASSUME NEW type \in {SNIN, SNUP}, valid, TypeText(header) = <<type>>,
               Execute(type, body, header)
        PROVE  Answered /\ Typed
    <3>1. PICK success \in {0, 1}, sid \in Sids, message \in Results :
             Reply(header, IF success = 1 /\ header.sid = 0 THEN sid ELSE header.sid, success,
                   message, IF type = SNUP THEN SignUpLen ELSE ResultLen)
      BY <2>2, Zenon DEF Execute
    <3>2. PICK junk \in Junk : executed' = executed \cup
             {[type |-> type, texts |-> TextsOf(body, Fields(type), junk)]}
      BY <2>2, Zenon DEF Execute
    <3>3. Answered
      <4> DEFINE given == IF success = 1 /\ header.sid = 0 THEN sid ELSE header.sid
                 size == IF type = SNUP THEN SignUpLen ELSE ResultLen
      <4>1. given \in ID /\ size \in {ResultLen, SignUpLen} /\ message \in Results \cup {BadPacket}
        BY <1>6, WordSize
      <4>2. Reply(header, given, success, message, size)
        BY <3>1
      <4> HIDE DEF given, size
      <4> QED
        BY <1>4, <4>1, <4>2, ReplyKeeps
    <3> DEFINE n == Fields(type)
               texts == TextsOf(body, n, junk)
    <3>4. texts \in Seq(Seq(Byte))
      <4>1. n \in {2, 4} /\ junk \in Byte
        BY TextsAssumption DEF Fields
      <4> HIDE DEF n
      <4> QED
        BY <1>4, <4>1, TextsOfType
    <3>5. PICK j \in 1 .. Len(sent) : packet = sent[j].packet
      BY <1>9, <2>2
    <3>6. /\ sent[j].form.type = type
          /\ \A k \in 1 .. n : Agree([type |-> type, texts |-> texts], k, sent[j].form.texts[k])
      <4>1. header = Header(packet.body) /\ header.sid = 0 /\ TypeText(header) = <<type>>
        BY <1>9, <2>2 DEF body
      <4> HIDE DEF header
      <4> QED
        BY <3>5, <4>1, ExecutesTyped DEF body
    <3> HIDE DEF texts, n
    <3>7. executed' = executed \cup {[type |-> type, texts |-> texts]}
      BY <3>2 DEF texts, n
    <3>8. ASSUME NEW e \in executed'
          PROVE  /\ e.type \in {SNIN, SNUP} /\ e.texts \in Seq(Seq(Byte))
                 /\ \E i \in 1 .. Len(sent) :
                       /\ sent[i].form.type = e.type
                       /\ \A k \in 1 .. Fields(e.type) : Agree(e, k, sent[i].form.texts[k])
      <4>1. CASE e \in executed
        BY <1>0, <4>1 DEF PacketsInv, ExecutedAsTyped
      <4>2. CASE e = [type |-> type, texts |-> texts]
        <5>1. e.type = type /\ e.texts = texts
          BY <4>2
        <5>2. \A k \in 1 .. Fields(e.type) : Agree(e, k, sent[j].form.texts[k])
          BY <3>6, <4>2, <5>1 DEF n
        <5> QED
          BY <3>4, <3>6, <5>1, <5>2
      <4> QED
        BY <3>7, <4>1, <4>2
    <3>9. Typed
      BY <1>2, <3>8 DEF ExecutedAsTyped
    <3> QED
      BY <3>3, <3>9
  <2>3. ASSUME valid PROVE TypeText(header) \in {<<SNIN>>, <<SNUP>>}
    <3>1. PICK j \in 1 .. Len(sent) : packet = sent[j].packet
      BY <1>9, <2>3
    <3>2. PICK sid \in ID, junk \in Junk :
            /\ sent[j].packet = Request(sent[j].client, sent[j].form, sid, junk)
            /\ sent[j].client \in Clients /\ sent[j].form \in Forms
      BY SentSound
    <3> DEFINE form == sent[j].form
               c == sent[j].client
    <3>3. form \in Forms /\ c \in Clients /\ packet = Request(c, form, sid, junk)
      BY <3>1, <3>2
    <3> HIDE DEF form, c
    <3>4. header.type = form.type
      BY <3>3, RequestBytes DEF body
    <3>5. form.type \in {SNIN, SNUP}
      BY <3>3, TextsAssumption
    <3>6. header.sid = 0
      BY <1>9, <2>3
    <3>7. TypeText(header) = <<header.type>>
      BY <3>4, <3>5, <3>6, TypeIsRead
    <3> QED
      BY <3>4, <3>5, <3>7
  <2> HIDE DEF Answered, Typed, valid, header
  <2> QED
    BY <1>5, <2>1, <2>2, <2>3
<1>11. TypeOK'
  <2>1. /\ session' \in [Clients -> ID] /\ sent' \in Seq(SentRequest)
        /\ relayed' \in 0 .. MaxRelayed /\ cuts' \in 0 .. MaxCuts
        /\ toServer' \in Seq(AnyPacket) /\ toBalancer' \in Seq(AnyPacket)
        /\ \A e \in executed' : e.type \in {SNIN, SNUP} /\ e.texts \in Seq(Seq(Byte))
        /\ packed' \subseteq PackedResult
        /\ answers' \subseteq [client : Clients, packet : AnyPacket]
        /\ shown' \in [Clients -> [success : BOOLEAN, message : Seq(Byte)]]
        /\ Lengths'
    BY <1>0, <1>2, <1>7, <1>8, <1>10, Types, LengthsKept
  <2> QED
    BY <2>1, TypesNext
<1>12. SentInv'
  BY <1>2 DEF PacketsInv, SentInv
<1>13. AnswersInv'
  BY <1>2, <1>10 DEF PacketsInv, AnswersInv, Verifies, IsResult
<1>14. ShownWasPacked'
  BY <1>2, <1>10 DEF PacketsInv, ShownWasPacked
<1> QED
  BY <1>7, <1>10, <1>11, <1>12, <1>13, <1>14 DEF PacketsInv

LEMMA RelayResultKeeps ==
    ASSUME PacketsInv, RelayResult
    PROVE  PacketsInv' /\ toServer' = toServer
<1>0. /\ TypeOK /\ toBalancer \in Seq(AnyPacket) /\ cuts \in 0 .. MaxCuts
      /\ answers \subseteq [client : Clients, packet : AnyPacket]
  BY Types DEF PacketsInv
<1>1. PICK take \in Takes(toBalancer) :
        /\ toBalancer' = take.left /\ Cut(take)
        /\ answers' = answers \cup
               {[client |-> c, packet |-> take.packet] :
                   c \in {d \in Clients : Address[d] = Text(Header(take.packet.body).ip)}}
  BY Zenon DEF RelayResult
<1>2. UNCHANGED <<session, sent, relayed, toServer, executed, packed, shown>> /\ toBalancer # <<>>
  BY DEF RelayResult
<1> DEFINE packet == take.packet
<1>3. /\ packet \in AnyPacket /\ take.cut \in {0, 1} /\ take.left \in Seq(AnyPacket)
      /\ Verifies(packet) => packet = toBalancer[1]
      /\ \A i \in 1 .. Len(take.left) :
            /\ Sound(take.left[i])
            /\ take.left[i].crc = NoCrc
               \/ \E j \in 1 .. Len(toBalancer) : take.left[i] = toBalancer[j]
      /\ Len(toBalancer) \in Nat \ {0}
  <2>1. \A i \in 1 .. Len(toBalancer) : Sound(toBalancer[i])
    BY DEF PacketsInv, ToBalancerInv
  <2> QED
    BY <1>0, <1>2, <2>1, TakeSound
<1>4. packet.body \in Seq(Byte)
  BY <1>3 DEF AnyPacket
<1>5. toBalancer' \in Seq(AnyPacket) /\ ToBalancerInv'
  <2>1. ASSUME NEW i \in 1 .. Len(toBalancer')
        PROVE  /\ Sound(toBalancer'[i])
               /\ Verifies(toBalancer'[i]) => \E r \in packed : IsResult(toBalancer'[i].body, r)
    <3>1. toBalancer'[i] = take.left[i] /\ i \in 1 .. Len(take.left)
      BY <1>1
    <3>2. Sound(take.left[i])
      BY <1>3, <3>1
    <3>3. CASE take.left[i].crc = NoCrc
      <4>1. ~Verifies(take.left[i])
        BY <3>2, <3>3, NoCrcFails DEF Sound
      <4> QED
        BY <3>1, <3>2, <4>1
    <3>4. CASE \E j \in 1 .. Len(toBalancer) : take.left[i] = toBalancer[j]
      BY <3>1, <3>2, <3>4 DEF PacketsInv, ToBalancerInv
    <3> QED
      BY <1>3, <3>1, <3>3, <3>4
  <2> QED
    BY <1>1, <1>2, <1>3, <2>1 DEF ToBalancerInv, Sound, Padded, Verifies, IsResult
<1>6. cuts' \in 0 .. MaxCuts
  <2>1. cuts' = cuts + take.cut /\ cuts' <= MaxCuts
    BY <1>1 DEF Cut
  <2> QED
    BY <1>0, <1>3, <2>1
<1> HIDE DEF packet
<1>7. ASSUME NEW answer \in answers'
      PROVE  /\ answer \in [client : Clients, packet : AnyPacket]
             /\ Verifies(answer.packet) =>
                   \E result \in packed : /\ result.ip = Address[answer.client]
                                          /\ IsResult(answer.packet.body, result)
  <2>1. CASE answer \in answers
    BY <1>0, <2>1 DEF PacketsInv, AnswersInv
  <2>2. CASE ~(answer \in answers)
    <3>1. PICK c \in Clients : /\ answer = [client |-> c, packet |-> packet]
                               /\ Address[c] = Text(Header(packet.body).ip)
      BY <1>1, <2>2 DEF packet
    <3>2. answer.client = c /\ answer.packet = packet
      BY <3>1
    <3>3. ASSUME Verifies(packet)
          PROVE  \E result \in packed : result.ip = Address[c] /\ IsResult(packet.body, result)
      <4>1. packet = toBalancer[1] /\ 1 \in 1 .. Len(toBalancer)
        BY <1>3, <3>3 DEF packet
      <4>2. PICK result \in packed : IsResult(packet.body, result)
        BY <3>3, <4>1 DEF PacketsInv, ToBalancerInv
      <4>3. result.ip = Text(At(packet.body, 0, IPLen))
        BY <4>2 DEF IsResult
      <4>4. Header(packet.body).ip = At(packet.body, 0, IPLen)
        BY <1>4, HeaderType DEF packet
      <4> QED
        BY <3>1, <4>2, <4>3, <4>4
    <3>4. answer \in [client : Clients, packet : AnyPacket]
      BY <1>3, <3>1 DEF packet
    <3> QED
      BY <3>2, <3>3, <3>4
  <2> QED
    BY <2>1, <2>2
<1>8. TypeOK'
  <2>0. answers' \subseteq [client : Clients, packet : AnyPacket]
    BY <1>7
  <2>1. /\ session' \in [Clients -> ID] /\ sent' \in Seq(SentRequest)
        /\ relayed' \in 0 .. MaxRelayed /\ cuts' \in 0 .. MaxCuts
        /\ toServer' \in Seq(AnyPacket) /\ toBalancer' \in Seq(AnyPacket)
        /\ \A e \in executed' : e.type \in {SNIN, SNUP} /\ e.texts \in Seq(Seq(Byte))
        /\ packed' \subseteq PackedResult
        /\ answers' \subseteq [client : Clients, packet : AnyPacket]
        /\ shown' \in [Clients -> [success : BOOLEAN, message : Seq(Byte)]]
        /\ Lengths'
    BY <1>0, <1>2, <1>5, <1>6, <2>0, Types, LengthsKept
  <2> QED
    BY <2>1, TypesNext
<1>9. SentInv' /\ ToServerInv'
  BY <1>2 DEF PacketsInv, SentInv, ToServerInv, Sound, Padded, Verifies
<1>10. AnswersInv'
  BY <1>2, <1>7 DEF AnswersInv, Verifies, IsResult
<1>11. ExecutedAsTyped' /\ ShownWasPacked'
  BY <1>2 DEF PacketsInv, ExecutedAsTyped, ShownWasPacked
<1> QED
  BY <1>2, <1>5, <1>8, <1>9, <1>10, <1>11 DEF PacketsInv

\* What a client reads from an answer that verifies is what was packed.
LEMMA ResultIsRead ==
    ASSUME NEW body \in Seq(Byte), NEW result \in PackedResult, IsResult(body, result)
    PROVE  /\ Text(Header(body).ip) = result.ip /\ Header(body).type = RSLT
           /\ Header(body).sid = result.sid
           /\ (WordOf(At(body, HeaderLen, WordLen)) # 0) = result.success
           /\ Text(At(body, HeaderLen + WordLen, StrLen)) = result.message
<1>1. /\ result.sid \in ID /\ result.success \in BOOLEAN
      /\ result.message \in Seq(Char) /\ Len(result.message) < StrLen
  BY TextsAssumption DEF PackedResult
<1>2. /\ Text(At(body, 0, IPLen)) = result.ip
      /\ At(body, IPLen, 1)[1] = RSLT
      /\ At(body, IPLen + 1, WordLen) = Word(result.sid)
      /\ At(body, HeaderLen, WordLen) = Word(IF result.success THEN 1 ELSE 0)
      /\ At(body, HeaderLen + WordLen, StrLen) = Field(result.message, StrLen, 0)
  BY DEF IsResult
<1>3. /\ Header(body).ip = At(body, 0, IPLen) /\ Header(body).type = At(body, IPLen, 1)[1]
      /\ Header(body).sid = WordOf(At(body, IPLen + 1, WordLen))
  BY HeaderType
<1>4. WordOf(Word(result.sid)) = result.sid
  BY <1>1, WordRoundTrip
<1>5. (WordOf(At(body, HeaderLen, WordLen)) # 0) = result.success
  <2>1. 0 \in ID /\ 1 \in ID
    BY WordSize
  <2>2. WordOf(Word(0)) = 0 /\ WordOf(Word(1)) = 1
    BY <2>1, WordRoundTrip
  <2>3. CASE result.success = TRUE
    <3>1. At(body, HeaderLen, WordLen) = Word(1)
      BY <1>2, <2>3
    <3>2. (WordOf(At(body, HeaderLen, WordLen)) # 0) = TRUE
      BY ONLY <2>2, <3>1
    <3> QED
      BY ONLY <2>3, <3>2
  <2>4. CASE result.success = FALSE
    BY <1>2, <2>2, <2>4
  <2>5. result.success = TRUE \/ result.success = FALSE
    BY ONLY <1>1
  <2> QED
    BY ONLY <2>3, <2>4, <2>5, Zenon
<1>6. Text(Field(result.message, StrLen, 0)) = result.message
  <2>1. StrLen \in Nat /\ 0 \in Byte
    OBVIOUS
  <2> QED
    BY <1>1, <2>1, FieldRoundTrip
<1> QED
  BY <1>2, <1>3, <1>4, <1>5, <1>6

LEMMA ReceiveKeeps ==
    ASSUME PacketsInv, NEW c \in Clients, Receive(c)
    PROVE  PacketsInv' /\ toServer' = toServer
<1>0. /\ TypeOK /\ session \in [Clients -> ID] /\ packed \subseteq PackedResult
      /\ answers \subseteq [client : Clients, packet : AnyPacket]
      /\ shown \in [Clients -> [success : BOOLEAN, message : Seq(Byte)]]
  BY Types DEF PacketsInv
<1>1. PICK answer \in answers :
        LET body == answer.packet.body
            header == Header(body)
            valid == Verifies(answer.packet) /\ Expected(c, header)
        IN  /\ answer.client = c
            /\ \/ ~valid /\ Emit(c, FALSE, BadPacket) /\ UNCHANGED session
               \/ /\ valid /\ session' = [session EXCEPT ![c] = IF @ = 0 THEN header.sid ELSE @]
                  /\ IF header.type # RSLT THEN UNCHANGED shown
                     ELSE Emit(c, WordOf(At(body, HeaderLen, WordLen)) # 0,
                               Text(At(body, HeaderLen + WordLen, StrLen)))
  BY Zenon DEF Receive
<1>2. UNCHANGED <<sent, relayed, cuts, toServer, toBalancer, executed, packed, answers>>
  BY DEF Receive
<1> DEFINE body == answer.packet.body
           header == Header(body)
           valid == Verifies(answer.packet) /\ Expected(c, header)
           Told == \/ shown'[c].message = BadPacket
                   \/ \E p \in packed : /\ p.ip = Address[c] /\ p.success = shown'[c].success
                                        /\ p.message = shown'[c].message /\ p.sid = session'[c]
<1>3. answer.client = c /\ body \in Seq(Byte)
  <2>1. answer \in [client : Clients, packet : AnyPacket]
    BY <1>0
  <2> QED
    BY <1>1, <2>1 DEF AnyPacket
<1>4. BadPacket \in Seq(Byte) /\ \A result \in PackedResult : result.message \in Seq(Byte)
  BY TextsAssumption, CharsAreBytes DEF PackedResult
<1>5. /\ Told /\ session' \in [Clients -> ID]
      /\ shown' \in [Clients -> [success : BOOLEAN, message : Seq(Byte)]]
      /\ \A d \in Clients : d # c => session'[d] = session[d] /\ shown'[d] = shown[d]
  <2>1. CASE ~valid /\ Emit(c, FALSE, BadPacket) /\ session' = session
    <3>1. shown' = [shown EXCEPT ![c] = [success |-> FALSE, message |-> BadPacket]]
      BY <2>1 DEF Emit
    <3>2. [success |-> FALSE, message |-> BadPacket] \in [success : BOOLEAN, message : Seq(Byte)]
      BY <1>4
    <3> QED
      BY <1>0, <2>1, <3>1, <3>2
  <2>2. CASE /\ valid /\ session' = [session EXCEPT ![c] = IF @ = 0 THEN header.sid ELSE @]
             /\ header.type = RSLT =>
                   Emit(c, WordOf(At(body, HeaderLen, WordLen)) # 0,
                        Text(At(body, HeaderLen + WordLen, StrLen)))
    <3>1. PICK result \in packed : result.ip = Address[c] /\ IsResult(body, result)
      BY <1>3, <2>2 DEF PacketsInv, AnswersInv
    <3>2. result \in PackedResult
      BY <1>0
    <3>3. /\ header.type = RSLT /\ header.sid = result.sid
          /\ (WordOf(At(body, HeaderLen, WordLen)) # 0) = result.success
          /\ Text(At(body, HeaderLen + WordLen, StrLen)) = result.message
      BY <1>3, <3>1, <3>2, ResultIsRead
    <3>4. session' = [session EXCEPT ![c] = IF session[c] = 0 THEN header.sid ELSE session[c]]
      BY <2>2
    <3>5. session[c] \in {0, header.sid}
      BY <2>2 DEF Expected
    <3> DEFINE emitted == [success |-> result.success, message |-> result.message]
    <3>6. shown' = [shown EXCEPT ![c] = emitted]
      <4>1. Emit(c, result.success, result.message)
        BY <2>2, <3>3
      <4> QED
        BY <4>1 DEF Emit
    <3> HIDE DEF header, body
    <3>7. session' = [session EXCEPT ![c] = result.sid] /\ result.sid \in ID
      BY <3>2, <3>3, <3>4, <3>5 DEF PackedResult
    <3>8. /\ emitted \in [success : BOOLEAN, message : Seq(Byte)]
          /\ emitted.success = result.success /\ emitted.message = result.message
      BY <1>4, <3>2 DEF PackedResult
    <3> HIDE DEF emitted
    <3>9. session'[c] = result.sid /\ shown'[c] = emitted
      BY <1>0, <3>6, <3>7
    <3>10. Told
      BY <3>1, <3>8, <3>9
    <3> QED
      BY <1>0, <3>6, <3>7, <3>8, <3>10
  <2> QED
    BY <1>1, <2>1, <2>2
<1> HIDE DEF Told
<1>6. ShownWasPacked'
  <2> SUFFICES ASSUME NEW d \in Clients
               PROVE  \/ shown'[d].message \in {<<>>, BadPacket}
                      \/ \E p \in packed : /\ p.ip = Address[d] /\ p.success = shown'[d].success
                                           /\ p.message = shown'[d].message /\ p.sid = session'[d]
    BY <1>2 DEF ShownWasPacked
  <2>1. CASE d = c
    BY <1>5, <2>1 DEF Told
  <2>2. CASE d # c
    BY <1>5, <2>2 DEF PacketsInv, ShownWasPacked
  <2> QED
    BY <2>1, <2>2
<1>7. TypeOK'
  <2>1. /\ session' \in [Clients -> ID] /\ sent' \in Seq(SentRequest)
        /\ relayed' \in 0 .. MaxRelayed /\ cuts' \in 0 .. MaxCuts
        /\ toServer' \in Seq(AnyPacket) /\ toBalancer' \in Seq(AnyPacket)
        /\ \A e \in executed' : e.type \in {SNIN, SNUP} /\ e.texts \in Seq(Seq(Byte))
        /\ packed' \subseteq PackedResult
        /\ answers' \subseteq [client : Clients, packet : AnyPacket]
        /\ shown' \in [Clients -> [success : BOOLEAN, message : Seq(Byte)]]
        /\ Lengths'
    BY <1>0, <1>2, <1>5, Types, LengthsKept
  <2> QED
    BY <2>1, TypesNext
<1>8. SentInv' /\ ToServerInv' /\ ToBalancerInv' /\ AnswersInv' /\ ExecutedAsTyped'
  BY <1>2 DEF PacketsInv, SentInv, ToServerInv, ToBalancerInv, AnswersInv, ExecutedAsTyped,
              Sound, Padded, Verifies, IsResult
<1> QED
  BY <1>2, <1>6, <1>7, <1>8 DEF PacketsInv

LEMMA StutterKeeps == PacketsInv /\ UNCHANGED vars => PacketsInv' /\ toServer' = toServer
<1> SUFFICES ASSUME PacketsInv, UNCHANGED vars PROVE PacketsInv' /\ toServer' = toServer
  OBVIOUS
<1>1. /\ UNCHANGED <<session, sent, relayed, cuts, toServer, toBalancer, executed, packed>>
      /\ UNCHANGED <<answers, shown>>
  BY DEF vars
<1>2. TypeOK'
  BY <1>1 DEF PacketsInv, TypeOK
<1>3. SentInv' /\ ToServerInv' /\ ToBalancerInv' /\ AnswersInv'
  BY <1>1 DEF PacketsInv, SentInv, ToServerInv, ToBalancerInv, AnswersInv, Sound, Padded,
              Verifies, IsResult
<1>4. ExecutedAsTyped' /\ ShownWasPacked'
  BY <1>1 DEF PacketsInv, ExecutedAsTyped, ShownWasPacked
<1> QED
  BY <1>1, <1>2, <1>3, <1>4 DEF PacketsInv

Answering == toServer' # toServer =>
    \/ Len(toServer') > Len(toServer) /\ UNCHANGED toBalancer
    \/ Len(toBalancer') > Len(toBalancer)

LEMMA StepKeeps == PacketsInv /\ [Next]_vars => PacketsInv' /\ Answering
<1> SUFFICES ASSUME PacketsInv, [Next]_vars PROVE PacketsInv' /\ Answering
  OBVIOUS
<1>1. ASSUME NEW c \in Clients, SendForm(c) PROVE PacketsInv' /\ Answering
  BY <1>1, SendFormKeeps DEF Answering
<1>2. ASSUME NEW c \in Clients, Receive(c) PROVE PacketsInv' /\ Answering
  BY <1>2, ReceiveKeeps DEF Answering
<1>3. CASE RelayRequest
  BY <1>3, RelayRequestKeeps DEF Answering
<1>4. CASE ServerReceive
  BY <1>4, ServerReceiveKeeps DEF Answering
<1>5. CASE RelayResult
  BY <1>5, RelayResultKeeps DEF Answering
<1>6. CASE Done \/ UNCHANGED vars
  BY <1>6, StutterKeeps DEF Answering, Done
<1> QED
  BY <1>1, <1>2, <1>3, <1>4, <1>5, <1>6 DEF Next

-----------------------------------------------------------------------------
(* What holds of any sizes, texts and streams *)

\* Whatever verifies in a stream was packed by someone, whatever the streams cut and
\* join, and is read as it was packed (PacketFormat, crc32).
THEOREM BytesStaySound == Spec => []PacketsInv
  BY InitInv, StepKeeps, PTL DEF Spec

\* Every element of every packet that is packed, cut or joined is a byte, every session
\* ID read from one fits its word, and every request is as long as its type says
\* (PacketFormat, PacketManager).
THEOREM TypeCorrect == Spec => []TypeOK
<1>1. PacketsInv => TypeOK
  BY DEF PacketsInv
<1> QED
  BY <1>1, BytesStaySound, PTL

\* The server acts upon forms that someone filled in, and upon no part of a packet and no
\* two that ran together.  It takes a text that fits its field as it was typed; a text
\* that fills its field goes on with what the server takes for the next one, and the
\* last text with the memory behind it (RequestHandler::verifyHeader and the memcpy of
\* the handlers, from fields that need not have an end).
THEOREM ExecutedTrue == Spec => []ExecutedAsTyped
<1>1. PacketsInv => ExecutedAsTyped
  BY DEF PacketsInv
<1> QED
  BY <1>1, BytesStaySound, PTL

\* What a client shows was packed for its address, in the same words and under its
\* session (PacketManager::run, verifyHeader).
THEOREM ShownTrue == Spec => []ShownWasPacked
<1>1. PacketsInv => ShownWasPacked
  BY DEF PacketsInv
<1> QED
  BY <1>1, BytesStaySound, PTL

\* The server answers whatever it reads: the type of no packet that verifies is passed
\* over (RequestHandler::handleRequest).
THEOREM ReadsStayAnswered == Spec => ReadsAnswered
<1>1. PacketsInv /\ [Next]_vars => [Answering]_vars
  BY StepKeeps
<1>2. [Answering]_vars <=> [toServer' # toServer =>
          \/ Len(toServer') > Len(toServer) /\ UNCHANGED toBalancer
          \/ Len(toBalancer') > Len(toBalancer)]_vars
  BY DEF Answering
<1> QED
  BY <1>1, <1>2, BytesStaySound, PTL DEF Spec, ReadsAnswered
=============================================================================
