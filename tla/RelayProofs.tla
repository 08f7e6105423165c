----------------------------- MODULE RelayProofs -----------------------------
(***************************************************************************)
(* Proof that the load balancer implements the abstract relay, for any     *)
(* number of connections, requests and descriptors, where no packet is     *)
(* split.                                                                  *)
(***************************************************************************)
EXTENDS LoadBalancerProofs

(* The inductive invariant, on top of BalancerInv *)

\* What waits between the balancer and a server belongs to a client.
ClientsKnown(c) ==
    /\ \A i \in 1 .. Len(fromServer[c]) : fromServer[c][i].packet.req # None
    /\ reply[c] # None => reply[c].req # None

\* A request is in one place until it is sent, and nothing is left of a server's own
\* once it is gone.
RelayInv ==
    /\ unsent \cap requests = {} /\ buff \notin unsent \cup requests
    /\ pc # "send" => buff = None
    /\ \A c \in Conns : ClientsKnown(c)
    /\ \A c \in Conns : peer[c] = "gone" => toServer[c] = <<>> /\ reply[c] = None

-----------------------------------------------------------------------------
(* What a connection has, oldest first *)

Join(from, msg, to) ==
    [i \in 1 .. Len(from) |-> from[i].packet.req]
    \o (IF msg = None THEN <<>> ELSE <<msg.req>>)
    \o [i \in 1 .. Len(to) |-> to[i].packet]

Held(msg) == IF msg = None THEN 0 ELSE 1

Users == Requests \cup {None}

\* The entries that Join puts one after the other.
Entry(from, msg, to, i) ==
    IF i <= Len(from) THEN from[i].packet.req
    ELSE IF i <= Len(from) + Held(msg) THEN msg.req
    ELSE to[i - (Len(from) + Held(msg))].packet

LEMMA JoinType ==
    ASSUME NEW from \in Seq(ReplyCells), NEW msg \in Replies \cup {None}, NEW to \in Seq(RequestCells)
    PROVE  /\ Join(from, msg, to) \in Seq(Users)
           /\ Len(Join(from, msg, to)) = Len(from) + Held(msg) + Len(to)
           /\ \A i \in 1 .. Len(from) + Held(msg) + Len(to) :
                 Join(from, msg, to)[i] = Entry(from, msg, to, i)
           /\ Len(from) \in Nat /\ Len(to) \in Nat /\ Held(msg) \in 0 .. 1
<1> DEFINE a == [i \in 1 .. Len(from) |-> from[i].packet.req]
           b == IF msg = None THEN <<>> ELSE <<msg.req>>
           d == [i \in 1 .. Len(to) |-> to[i].packet]
<1>0. Len(from) \in Nat /\ Len(to) \in Nat /\ Held(msg) \in 0 .. 1
  BY LenProperties DEF Held
<1>1. a \in Seq(Users) /\ Len(a) = Len(from) /\ \A i \in 1 .. Len(from) : a[i] = from[i].packet.req
  <2>1. \A i \in 1 .. Len(from) : from[i].packet.req \in Users
    <3> SUFFICES ASSUME NEW i \in 1 .. Len(from) PROVE from[i].packet.req \in Users
      OBVIOUS
    <3>1. from[i] \in ReplyCells
      BY ElementOfSeq
    <3> QED
      BY <3>1 DEF ReplyCells, Replies, Users
  <2> QED
    BY <1>0, <2>1
<1>2. b \in Seq(Users) /\ Len(b) = Held(msg) /\ \A i \in 1 .. Held(msg) : b[i] = msg.req
  <2>1. CASE msg = None
    BY <2>1 DEF Held
  <2>2. CASE msg # None
    <3>1. msg.req \in Users
      BY <2>2 DEF Replies, Users
    <3> QED
      BY <2>2, <3>1 DEF Held
  <2> QED
    BY <2>1, <2>2
<1>3. d \in Seq(Users) /\ Len(d) = Len(to) /\ \A i \in 1 .. Len(to) : d[i] = to[i].packet
  <2>1. \A i \in 1 .. Len(to) : to[i].packet \in Users
    <3> SUFFICES ASSUME NEW i \in 1 .. Len(to) PROVE to[i].packet \in Users
      OBVIOUS
    <3>1. to[i] \in RequestCells
      BY ElementOfSeq
    <3> QED
      BY <3>1 DEF RequestCells, Users
  <2> QED
    BY <1>0, <2>1
<1>4. Join(from, msg, to) = (a \o b) \o d
  BY DEF Join
<1> HIDE DEF a, b, d
<1>5. /\ a \o b \in Seq(Users) /\ Len(a \o b) = Len(from) + Held(msg)
      /\ \A i \in 1 .. Len(from) + Held(msg) :
            (a \o b)[i] = IF i <= Len(from) THEN a[i] ELSE b[i - Len(from)]
  <2>1. /\ a \o b \in Seq(Users) /\ Len(a \o b) = Len(a) + Len(b)
        /\ \A i \in 1 .. Len(a) + Len(b) : (a \o b)[i] = IF i <= Len(a) THEN a[i] ELSE b[i - Len(a)]
    BY <1>1, <1>2, ConcatProperties
  <2> QED
    BY <1>1, <1>2, <2>1
<1>6. /\ (a \o b) \o d \in Seq(Users) /\ Len((a \o b) \o d) = Len(from) + Held(msg) + Len(to)
      /\ \A i \in 1 .. Len(from) + Held(msg) + Len(to) :
            ((a \o b) \o d)[i] = IF i <= Len(from) + Held(msg) THEN (a \o b)[i]
                                 ELSE d[i - (Len(from) + Held(msg))]
  <2> DEFINE ab == a \o b
  <2> HIDE DEF ab
  <2>1. /\ ab \o d \in Seq(Users) /\ Len(ab \o d) = Len(ab) + Len(d)
        /\ \A i \in 1 .. Len(ab) + Len(d) : (ab \o d)[i] = IF i <= Len(ab) THEN ab[i] ELSE d[i - Len(ab)]
    BY <1>3, <1>5, ConcatProperties DEF ab
  <2> QED
    BY <1>3, <1>5, <2>1 DEF ab
<1>7. ASSUME NEW i \in 1 .. Len(from) + Held(msg) + Len(to)
      PROVE  ((a \o b) \o d)[i] = Entry(from, msg, to, i)
  <2>1. CASE i <= Len(from)
    BY <1>0, <1>1, <1>5, <1>6, <2>1 DEF Entry
  <2>2. CASE ~(i <= Len(from)) /\ i <= Len(from) + Held(msg)
    <3>1. i - Len(from) \in 1 .. Held(msg) /\ i \in 1 .. Len(from) + Held(msg)
      BY <1>0, <2>2
    <3> QED
      BY <1>2, <1>5, <1>6, <2>2, <3>1 DEF Entry
  <2>3. CASE ~(i <= Len(from)) /\ ~(i <= Len(from) + Held(msg))
    <3>1. i - (Len(from) + Held(msg)) \in 1 .. Len(to)
      BY <1>0, <2>3
    <3> QED
      BY <1>3, <1>6, <2>3, <3>1 DEF Entry
  <2> QED
    BY <2>1, <2>2, <2>3
<1> QED
  BY <1>0, <1>4, <1>6, <1>7

\* What is left when the entries from the i-th to before the j-th are lost.
Cut(q, i, j) == SubSeq(q, 1, i - 1) \o SubSeq(q, j, Len(q))

LEMMA CutType ==
    ASSUME NEW S, NEW q \in Seq(S), NEW i \in 1 .. Len(q), NEW j \in i .. Len(q) + 1
    PROVE  /\ Cut(q, i, j) \in Seq(S) /\ Len(Cut(q, i, j)) = Len(q) - (j - i)
           /\ \A k \in 1 .. Len(q) - (j - i) : Cut(q, i, j)[k] = IF k < i THEN q[k] ELSE q[k + (j - i)]
<1> DEFINE len == Len(q)
           front == SubSeq(q, 1, i - 1)
           back == SubSeq(q, j, len)
<1>1. len \in Nat /\ i \in Nat /\ j \in Nat /\ 1 <= i /\ i <= len /\ i <= j /\ j <= len + 1
  BY LenProperties
<1>2. \A k \in 1 .. len : q[k] \in S
  BY ElementOfSeq
<1>3. front \in Seq(S) /\ Len(front) = i - 1 /\ \A k \in 1 .. i - 1 : front[k] = q[k]
  BY <1>1, <1>2, SubSeqProperties
<1>4. back \in Seq(S) /\ Len(back) = len - j + 1 /\ \A k \in 1 .. len - j + 1 : back[k] = q[j + k - 1]
  <2>1. \A k \in j .. len : q[k] \in S
    BY <1>1, <1>2
  <2>2. j \in Int /\ len \in Int
    BY <1>1
  <2> HIDE DEF len
  <2> QED
    BY <1>1, <2>1, <2>2, SubSeqProperties
<1>5. Cut(q, i, j) = front \o back
  BY DEF Cut
<1> HIDE DEF front, back, len
<1>6. /\ front \o back \in Seq(S) /\ Len(front \o back) = Len(front) + Len(back)
      /\ \A k \in 1 .. Len(front) + Len(back) :
            (front \o back)[k] = IF k <= Len(front) THEN front[k] ELSE back[k - Len(front)]
  BY <1>3, <1>4, ConcatProperties
<1>7. Len(front) + Len(back) = len - (j - i)
  BY <1>1, <1>3, <1>4
<1>8. ASSUME NEW k \in 1 .. len - (j - i)
      PROVE  (front \o back)[k] = IF k < i THEN q[k] ELSE q[k + (j - i)]
  <2>1. CASE k < i
    BY <1>1, <1>3, <1>6, <1>7, <2>1
  <2>2. CASE ~(k < i)
    <3>1. /\ k - (i - 1) \in 1 .. len - j + 1 /\ j + (k - (i - 1)) - 1 = k + (j - i)
          /\ ~(k <= i - 1)
      BY <1>1, <2>2
    <3>2. (front \o back)[k] = back[k - (i - 1)]
      BY <1>3, <1>6, <1>7, <3>1
    <3> QED
      BY <1>4, <2>2, <3>1, <3>2
  <2> QED
    BY <2>1, <2>2
<1> QED
  BY <1>5, <1>6, <1>7, <1>8 DEF len

\* A packet that is never split is one cell.
LEMMA OneCell ==
    ASSUME Parts = 1, NEW packet
    PROVE  /\ Len(Cells(packet)) = 1 /\ Cells(packet)[1].packet = packet
           /\ packet \in Requests => Cells(packet) \in Seq(RequestCells)
           /\ packet \in Replies => Cells(packet) \in Seq(ReplyCells)
<1>1. Cells(packet) = [i \in 1 .. 1 |-> [packet |-> packet, part |-> i]]
  BY DEF Cells
<1>2. Len(Cells(packet)) = 1 /\ Cells(packet)[1] = [packet |-> packet, part |-> 1]
  BY <1>1
<1>3. packet \in Requests => Cells(packet) \in Seq(RequestCells)
  BY CellsType DEF RequestCells
<1>4. packet \in Replies => Cells(packet) \in Seq(ReplyCells)
  BY CellsType DEF ReplyCells
<1> QED
  BY <1>2, <1>3, <1>4

\* A request that is sent is the youngest.
LEMMA JoinSend ==
    ASSUME Parts = 1, NEW from \in Seq(ReplyCells), NEW msg \in Replies \cup {None},
           NEW to \in Seq(RequestCells), NEW r \in Requests
    PROVE  Join(from, msg, to \o Cells(r)) = Append(Join(from, msg, to), r)
<1> DEFINE old == Join(from, msg, to)
           more == to \o Cells(r)
           new == Join(from, msg, more)
           len == Len(from) + Held(msg) + Len(to)
<1>1. /\ more \in Seq(RequestCells) /\ Len(more) = Len(to) + 1
      /\ \A i \in 1 .. Len(to) + 1 : more[i].packet = IF i <= Len(to) THEN to[i].packet ELSE r
  <2>1. Cells(r) \in Seq(RequestCells) /\ Len(Cells(r)) = 1 /\ Cells(r)[1].packet = r
    BY OneCell
  <2>2. /\ more \in Seq(RequestCells) /\ Len(more) = Len(to) + Len(Cells(r))
        /\ \A i \in 1 .. Len(to) + Len(Cells(r)) :
              more[i] = IF i <= Len(to) THEN to[i] ELSE Cells(r)[i - Len(to)]
    BY <2>1, ConcatProperties
  <2>3. Len(to) \in Nat
    BY LenProperties
  <2> HIDE DEF more
  <2> QED
    BY <2>1, <2>2, <2>3
<1>2. /\ old \in Seq(Users) /\ Len(old) = len /\ \A i \in 1 .. len : old[i] = Entry(from, msg, to, i)
      /\ Len(from) \in Nat /\ Len(to) \in Nat /\ Held(msg) \in 0 .. 1
  BY JoinType
<1> HIDE DEF more
<1>3. /\ new \in Seq(Users) /\ Len(new) = Len(from) + Held(msg) + Len(more)
      /\ \A i \in 1 .. Len(from) + Held(msg) + Len(more) : new[i] = Entry(from, msg, more, i)
  BY <1>1, JoinType
<1>4. r \in Users
  BY DEF Users
<1> HIDE DEF old, new
<1>5. /\ Append(old, r) \in Seq(Users) /\ Len(Append(old, r)) = len + 1
      /\ \A i \in 1 .. len + 1 : Append(old, r)[i] = IF i <= len THEN old[i] ELSE r
  BY <1>2, <1>4
<1>6. Len(from) + Held(msg) + Len(more) = len + 1 /\ len \in Nat
  <2>1. Len(from) \in Nat /\ Len(to) \in Nat /\ Held(msg) \in 0 .. 1 /\ Len(more) = Len(to) + 1
    BY <1>1, <1>2
  <2> QED
    BY ONLY <2>1
<1>7. ASSUME NEW i \in 1 .. len + 1 PROVE new[i] = Append(old, r)[i]
  <2>0. Len(from) \in Nat /\ Len(to) \in Nat /\ Held(msg) \in 0 .. 1
    BY <1>2
  <2>1. new[i] = Entry(from, msg, more, i) /\ Append(old, r)[i] = IF i <= len THEN old[i] ELSE r
    BY <1>3, <1>5, <1>6
  <2>2. CASE i <= Len(from) + Held(msg)
    <3>1. i \in 1 .. len
      BY ONLY <2>0, <2>2, i \in 1 .. len + 1
    <3>2. old[i] = Entry(from, msg, to, i) /\ i <= len
      BY <1>2, <3>1
    <3> QED
      BY <2>1, <2>2, <3>2 DEF Entry
  <2>3. CASE ~(i <= Len(from) + Held(msg))
    <3> DEFINE k == i - (Len(from) + Held(msg))
    <3>1. k \in 1 .. Len(to) + 1 /\ ~(i <= Len(from)) /\ (k <= Len(to) <=> i <= len)
      BY ONLY <2>0, <2>3, i \in 1 .. len + 1
    <3>2. new[i] = IF k <= Len(to) THEN to[k].packet ELSE r
      BY <1>1, <2>1, <2>3, <3>1 DEF Entry
    <3>3. i <= len => old[i] = to[k].packet
      BY <1>2, <2>3, <3>1 DEF Entry
    <3> QED
      BY <2>1, <3>1, <3>2, <3>3
  <2> QED
    BY <2>2, <2>3
<1>8. new = Append(old, r)
  <2>1. Len(new) = len + 1
    BY <1>3, <1>6
  <2> QED
    BY <1>3, <1>5, <1>7, <2>1, SeqEqual
<1> QED
  BY <1>8 DEF new, old, more

\* A datagram takes the oldest along.
LEMMA JoinTake ==
    ASSUME NEW from \in Seq(ReplyCells), NEW msg \in Replies \cup {None},
           NEW to \in Seq(RequestCells), NEW n \in 1 .. Len(from)
    PROVE  LET q == Join(from, msg, to) IN
           /\ n \in 1 .. Len(q) /\ Head(q) = from[1].packet.req
           /\ Join(Rest(from, n), msg, to) = SubSeq(q, n + 1, Len(q))
<1> DEFINE q == Join(from, msg, to)
           rest == Rest(from, n)
           new == Join(rest, msg, to)
           len == Len(from) + Held(msg) + Len(to)
<1>1. /\ rest \in Seq(ReplyCells) /\ Len(rest) = Len(from) - n
      /\ \A i \in 1 .. Len(from) - n : rest[i] = from[n + i]
  BY RestType
<1>2. /\ q \in Seq(Users) /\ Len(q) = len /\ \A i \in 1 .. len : q[i] = Entry(from, msg, to, i)
      /\ Len(from) \in Nat /\ Len(to) \in Nat /\ Held(msg) \in 0 .. 1
  BY JoinType
<1> HIDE DEF rest
<1>3. /\ new \in Seq(Users) /\ Len(new) = Len(rest) + Held(msg) + Len(to)
      /\ \A i \in 1 .. Len(rest) + Held(msg) + Len(to) : new[i] = Entry(rest, msg, to, i)
  BY <1>1, JoinType
<1> HIDE DEF q, new
<1>4. n \in 0 .. Len(q) /\ n \in 1 .. Len(q) /\ n \in Nat
  BY <1>2
<1>5. /\ Rest(q, n) \in Seq(Users) /\ Len(Rest(q, n)) = len - n
      /\ \A i \in 1 .. len - n : Rest(q, n)[i] = q[n + i]
  <2>1. q \in Seq(Users) /\ n \in 0 .. Len(q) /\ Len(q) = len
    BY <1>2, <1>4
  <2> HIDE DEF len
  <2> QED
    BY ONLY <2>1, RestType
<1>6. Len(rest) + Held(msg) + Len(to) = len - n
  <2>1. Len(from) \in Nat /\ Len(to) \in Nat /\ Held(msg) \in 0 .. 1 /\ Len(rest) = Len(from) - n
    BY <1>1, <1>2
  <2> QED
    BY ONLY <1>4, <2>1
<1>7. ASSUME NEW i \in 1 .. len - n PROVE new[i] = Rest(q, n)[i]
  <2>1. new[i] = Entry(rest, msg, to, i) /\ Rest(q, n)[i] = Entry(from, msg, to, n + i)
    <3>1. n + i \in 1 .. len /\ i \in 1 .. Len(rest) + Held(msg) + Len(to)
      BY <1>2, <1>4, <1>6
    <3> QED
      BY <1>2, <1>3, <1>5, <3>1
  <2>2. (n + i) - (Len(from) + Held(msg)) = i - (Len(rest) + Held(msg))
    BY <1>1, <1>2, <1>4
  <2>3. /\ i <= Len(rest) <=> n + i <= Len(from)
        /\ i <= Len(rest) + Held(msg) <=> n + i <= Len(from) + Held(msg)
        /\ i <= Len(rest) => i \in 1 .. Len(from) - n
    BY <1>1, <1>2, <1>4
  <2> QED
    BY <1>1, <2>1, <2>2, <2>3 DEF Entry
<1>8. new = Rest(q, n)
  <2>1. Len(new) = len - n
    BY <1>3, <1>6
  <2> QED
    BY <1>3, <1>5, <1>7, <2>1, SeqEqual
<1>9. Head(q) = from[1].packet.req
  <2>1. Head(q) = q[1] /\ 1 \in 1 .. len /\ 1 <= Len(from)
    BY <1>2, <1>4
  <2> QED
    BY <1>2, <2>1 DEF Entry
<1> QED
  BY <1>4, <1>8, <1>9 DEF Rest, q, new, rest

\* What remains when the end of what a server sent is lost, with all behind it.
LEMMA JoinTail ==
    ASSUME NEW from \in Seq(ReplyCells), NEW msg \in Replies \cup {None},
           NEW to \in Seq(RequestCells), NEW n \in 0 .. Len(from)
    PROVE  LET q == Join(from, msg, to)
               new == Join(Taken(from, n), None, <<>>)
           IN  \/ new = q
               \/ \E i \in 1 .. Len(q) : \E j \in i .. Len(q) + 1 : new = Cut(q, i, j)
<1> DEFINE q == Join(from, msg, to)
           kept == Taken(from, n)
           new == Join(kept, None, <<>>)
           len == Len(from) + Held(msg) + Len(to)
<1>1. kept \in Seq(ReplyCells) /\ Len(kept) = n /\ \A i \in 1 .. n : kept[i] = from[i]
  BY TakenType
<1>2. /\ q \in Seq(Users) /\ Len(q) = len /\ \A i \in 1 .. len : q[i] = Entry(from, msg, to, i)
      /\ Len(from) \in Nat /\ Len(to) \in Nat /\ Held(msg) \in 0 .. 1
  BY JoinType
<1> HIDE DEF kept
<1>3. /\ new \in Seq(Users) /\ Len(new) = n /\ \A i \in 1 .. n : new[i] = from[i].packet.req
  <2> DEFINE none == <<>>
  <2>1. none \in Seq(RequestCells) /\ Len(none) = 0 /\ Held(None) = 0 /\ None \in Replies \cup {None}
    BY DEF Held
  <2> HIDE DEF none
  <2>2. /\ Join(kept, None, none) \in Seq(Users)
        /\ Len(Join(kept, None, none)) = Len(kept) + Held(None) + Len(none)
        /\ \A i \in 1 .. Len(kept) + Held(None) + Len(none) :
              Join(kept, None, none)[i] = Entry(kept, None, none, i)
    BY <1>1, <2>1, JoinType
  <2>3. n \in Nat /\ Len(kept) + Held(None) + Len(none) = n
    BY <1>1, <1>2, <2>1
  <2>4. \A i \in 1 .. n : Entry(kept, None, none, i) = from[i].packet.req
    BY <1>1, <2>3 DEF Entry
  <2> QED
    BY <2>2, <2>3, <2>4 DEF none
<1> HIDE DEF q, new
<1>4. n \in Nat /\ n <= Len(from) /\ Len(from) <= len /\ len \in Nat
  BY <1>2
<1>5. ASSUME NEW i \in 1 .. n PROVE new[i] = q[i]
  <2>1. i \in 1 .. len /\ i <= Len(from)
    BY <1>2, <1>4
  <2> QED
    BY <1>2, <1>3, <2>1 DEF Entry
<1>6. CASE n = len
  <2>1. new = q
    BY <1>2, <1>3, <1>5, <1>6, SeqEqual
  <2> QED
    BY <2>1 DEF q, new, kept
<1>7. CASE n # len
  <2>1. n + 1 \in 1 .. Len(q) /\ len + 1 \in n + 1 .. Len(q) + 1
    BY <1>2, <1>4, <1>7
  <2>2. /\ Cut(q, n + 1, len + 1) \in Seq(Users)
        /\ Len(Cut(q, n + 1, len + 1)) = len - ((len + 1) - (n + 1))
        /\ \A k \in 1 .. len - ((len + 1) - (n + 1)) :
              Cut(q, n + 1, len + 1)[k] = IF k < n + 1 THEN q[k] ELSE q[k + ((len + 1) - (n + 1))]
    <3> DEFINE i == n + 1
               j == len + 1
    <3>1. i \in 1 .. Len(q) /\ j \in i .. Len(q) + 1
      BY <2>1
    <3> HIDE DEF i, j, len
    <3>2. /\ Cut(q, i, j) \in Seq(Users) /\ Len(Cut(q, i, j)) = Len(q) - (j - i)
          /\ \A k \in 1 .. Len(q) - (j - i) : Cut(q, i, j)[k] = IF k < i THEN q[k] ELSE q[k + (j - i)]
      BY <1>2, <3>1, CutType
    <3> QED
      BY <1>2, <3>2 DEF i, j
  <2>3. len - ((len + 1) - (n + 1)) = n
    BY <1>4
  <2>4. \A k \in 1 .. n : Cut(q, n + 1, len + 1)[k] = new[k]
    BY <1>4, <1>5, <2>2, <2>3
  <2>5. new = Cut(q, n + 1, len + 1)
    BY <1>3, <2>2, <2>3, <2>4, SeqEqual
  <2> QED
    BY <2>1, <2>5 DEF q, new, kept
<1> QED
  BY <1>6, <1>7

\* A server that takes several requests at once answers the first, if any.
LEMMA JoinReceive ==
    ASSUME NEW from \in Seq(ReplyCells), NEW to \in Seq(RequestCells), NEW n \in 1 .. Len(to),
           NEW msg \in Replies \cup {None}, msg = None => n = 1, msg # None => msg.req = to[1].packet
    PROVE  LET q == Join(from, None, to)
               new == Join(from, msg, Rest(to, n))
           IN  \/ new = q
               \/ \E i \in 1 .. Len(q) : \E j \in i .. Len(q) + 1 : new = Cut(q, i, j)
<1> DEFINE q == Join(from, None, to)
           rest == Rest(to, n)
           new == Join(from, msg, rest)
           len == Len(from) + Len(to)
           first == Len(from) + Held(msg) + 1
           gone == n - Held(msg)
<1>1. /\ rest \in Seq(RequestCells) /\ Len(rest) = Len(to) - n
      /\ \A i \in 1 .. Len(to) - n : rest[i] = to[n + i]
  BY RestType
<1>2. /\ q \in Seq(Users) /\ Len(q) = len /\ \A i \in 1 .. len : q[i] = Entry(from, None, to, i)
      /\ Len(from) \in Nat /\ Len(to) \in Nat /\ Held(None) = 0
  <2>1. /\ q \in Seq(Users) /\ Len(q) = Len(from) + Held(None) + Len(to)
        /\ \A i \in 1 .. Len(from) + Held(None) + Len(to) : q[i] = Entry(from, None, to, i)
        /\ Len(from) \in Nat /\ Len(to) \in Nat
    BY JoinType
  <2>2. Held(None) = 0
    BY DEF Held
  <2> HIDE DEF q
  <2>3. Len(from) + Held(None) + Len(to) = len
    BY <2>1, <2>2
  <2> QED
    BY <2>1, <2>2, <2>3
<1> HIDE DEF rest
<1>3. /\ new \in Seq(Users) /\ Len(new) = Len(from) + Held(msg) + Len(rest)
      /\ \A i \in 1 .. Len(from) + Held(msg) + Len(rest) : new[i] = Entry(from, msg, rest, i)
      /\ Held(msg) \in 0 .. 1
  BY <1>1, JoinType
<1> HIDE DEF q, new
<1>l. /\ Len(from) \in Nat /\ Len(to) \in Nat /\ Held(msg) \in 0 .. 1 /\ Len(rest) = Len(to) - n
      /\ n \in 1 .. Len(to) /\ n \in Nat
  BY <1>1, <1>2, <1>3
<1>4. /\ gone \in 0 .. Len(to) /\ Len(from) + Held(msg) + Len(rest) = len - gone
      /\ first - 1 = Len(from) + Held(msg)
  BY ONLY <1>l, SMTT(30)
<1>5. ASSUME NEW k \in 1 .. len - gone PROVE new[k] = IF k < first THEN q[k] ELSE q[k + gone]
  <2>0. /\ k \in 1 .. len /\ k \in 1 .. Len(from) + Held(msg) + Len(rest) /\ k \in Int
        /\ k + gone \in 1 .. len
    BY ONLY <1>l, <1>4, k \in 1 .. len - gone
  <2>1. CASE k <= Len(from)
    <3>1. new[k] = from[k].packet.req /\ q[k] = from[k].packet.req
      BY <1>2, <1>3, <2>0, <2>1 DEF Entry
    <3>2. k < first
      BY ONLY <1>l, <2>0, <2>1
    <3> QED
      BY <3>1, <3>2
  <2>2. CASE ~(k <= Len(from)) /\ k < first
    <3>1. msg # None /\ k = Len(from) + 1 /\ Held(msg) = 1
      <4>1. k = Len(from) + 1 /\ Held(msg) = 1
        BY ONLY <1>l, <2>0, <2>2
      <4> QED
        BY <4>1 DEF Held
    <3>2. new[k] = msg.req
      BY <1>2, <1>3, <2>0, <3>1 DEF Entry
    <3>3. q[k] = to[k - (Len(from) + 0)].packet /\ k - (Len(from) + 0) = 1
      <4>1. ~(k <= Len(from)) /\ ~(k <= Len(from) + 0) /\ k - (Len(from) + 0) = 1
        BY ONLY <1>l, <3>1
      <4> QED
        BY <1>2, <2>0, <4>1 DEF Entry
    <3> QED
      BY <2>2, <3>1, <3>2, <3>3
  <2>3. CASE ~(k < first)
    <3>0. ~(k <= Len(from) + Held(msg)) /\ k \in Nat /\ k <= len - gone
      BY ONLY <1>l, <1>4, <2>0, <2>3, k \in 1 .. len - gone
    <3>1. /\ k - (Len(from) + Held(msg)) \in 1 .. Len(to) - n
          /\ n + (k - (Len(from) + Held(msg))) = (k + gone) - (Len(from) + 0)
          /\ ~(k <= Len(from)) /\ ~(k <= Len(from) + Held(msg))
          /\ ~(k + gone <= Len(from)) /\ ~(k + gone <= Len(from) + 0)
      <4>1. k - (Len(from) + Held(msg)) \in 1 .. Len(to) - n
        BY ONLY <1>l, <3>0
      <4>2. n + (k - (Len(from) + Held(msg))) = (k + gone) - (Len(from) + 0)
        BY ONLY <1>l, <3>0
      <4>3. ~(k <= Len(from))
        BY ONLY <1>l, <3>0
      <4>4. ~(k + gone <= Len(from)) /\ ~(k + gone <= Len(from) + 0)
        BY ONLY <1>l, <1>4, <3>0, <4>3
      <4> QED
        BY <3>0, <4>1, <4>2, <4>3, <4>4
    <3>2. new[k] = rest[k - (Len(from) + Held(msg))].packet
      BY <1>3, <2>0, <3>1 DEF Entry
    <3>3. q[k + gone] = to[(k + gone) - (Len(from) + 0)].packet
      BY <1>2, <2>0, <3>1 DEF Entry
    <3> QED
      BY <1>1, <2>3, <3>1, <3>2, <3>3
  <2> QED
    BY <2>1, <2>2, <2>3
<1>6. CASE gone = 0
  <2>1. Len(new) = len
    BY <1>l, <1>3, <1>4, <1>6
  <2>2. ASSUME NEW k \in 1 .. len PROVE new[k] = q[k]
    <3>1. k \in 1 .. len - gone /\ k + gone = k
      BY <1>l, <1>6
    <3>2. new[k] = IF k < first THEN q[k] ELSE q[k + gone]
      BY <1>5, <3>1
    <3> QED
      BY <3>1, <3>2
  <2>3. new = q
    BY <1>2, <1>3, <2>1, <2>2, SeqEqual
  <2> QED
    BY <2>3 DEF q, new, rest
<1>7. CASE gone # 0
  <2>1. first \in 1 .. Len(q) /\ first + gone \in first .. Len(q) + 1 /\ (first + gone) - first = gone
    <3>1. \/ Held(msg) = 0 /\ n = 1
          \/ Held(msg) = 1 /\ n # 1
      <4>1. CASE msg = None
        BY <4>1 DEF Held
      <4>2. CASE msg # None
        <5>1. Held(msg) = 1
          BY <4>2 DEF Held
        <5> QED
          BY <1>7, <5>1
      <4> QED
        BY <4>1, <4>2
    <3>2. Len(q) = len
      BY <1>2
    <3>3. first \in 1 .. len /\ first + gone \in first .. len + 1 /\ (first + gone) - first = gone
      BY ONLY <1>l, <1>7, <3>1
    <3> QED
      BY <3>2, <3>3
  <2> HIDE DEF first, gone
  <2>2. /\ Cut(q, first, first + gone) \in Seq(Users)
        /\ Len(Cut(q, first, first + gone)) = len - gone
        /\ \A k \in 1 .. len - gone :
              Cut(q, first, first + gone)[k] = IF k < first THEN q[k] ELSE q[k + gone]
    <3> DEFINE jj == first + gone
    <3>0. Len(q) = len
      BY <1>2
    <3> HIDE DEF jj, len
    <3>1. jj \in first .. Len(q) + 1 /\ jj - first = gone
      BY <2>1 DEF jj
    <3>2. /\ Cut(q, first, jj) \in Seq(Users) /\ Len(Cut(q, first, jj)) = Len(q) - (jj - first)
          /\ \A k \in 1 .. Len(q) - (jj - first) :
                Cut(q, first, jj)[k] = IF k < first THEN q[k] ELSE q[k + (jj - first)]
      <4>1. q \in Seq(Users) /\ first \in 1 .. Len(q)
        BY <1>2, <2>1
      <4> QED
        BY ONLY <3>1, <4>1, CutType
    <3> QED
      BY <3>0, <3>1, <3>2 DEF jj
  <2>3. new = Cut(q, first, first + gone)
    <3>1. Len(new) = len - gone
      BY <1>3, <1>4
    <3> QED
      BY <1>3, <1>5, <2>2, <3>1, SeqEqual
  <2> QED
    BY <2>1, <2>3 DEF q, new, rest
<1> QED
  BY <1>6, <1>7

\* An answer that is sent stays where it is among them.
LEMMA JoinMove ==
    ASSUME Parts = 1, NEW from \in Seq(ReplyCells), NEW msg \in Replies, msg # None,
           NEW to \in Seq(RequestCells)
    PROVE  Join(from \o Cells(msg), None, to) = Join(from, msg, to)
<1> DEFINE q == Join(from, msg, to)
           more == from \o Cells(msg)
           new == Join(more, None, to)
           len == Len(from) + 1 + Len(to)
<1>1. /\ more \in Seq(ReplyCells) /\ Len(more) = Len(from) + 1
      /\ \A i \in 1 .. Len(from) + 1 :
            more[i].packet.req = IF i <= Len(from) THEN from[i].packet.req ELSE msg.req
  <2>1. Cells(msg) \in Seq(ReplyCells) /\ Len(Cells(msg)) = 1 /\ Cells(msg)[1].packet = msg
    BY OneCell
  <2>2. /\ more \in Seq(ReplyCells) /\ Len(more) = Len(from) + Len(Cells(msg))
        /\ \A i \in 1 .. Len(from) + Len(Cells(msg)) :
              more[i] = IF i <= Len(from) THEN from[i] ELSE Cells(msg)[i - Len(from)]
    BY <2>1, ConcatProperties
  <2>3. Len(from) \in Nat
    BY LenProperties
  <2> HIDE DEF more
  <2> QED
    BY <2>1, <2>2, <2>3
<1>2. Held(msg) = 1 /\ Held(None) = 0
  BY DEF Held
<1>3. /\ q \in Seq(Users) /\ Len(q) = Len(from) + Held(msg) + Len(to)
      /\ \A i \in 1 .. Len(from) + Held(msg) + Len(to) : q[i] = Entry(from, msg, to, i)
      /\ Len(from) \in Nat /\ Len(to) \in Nat
  BY JoinType
<1> HIDE DEF more
<1>4. /\ new \in Seq(Users) /\ Len(new) = Len(more) + Held(None) + Len(to)
      /\ \A i \in 1 .. Len(more) + Held(None) + Len(to) : new[i] = Entry(more, None, to, i)
  BY <1>1, JoinType
<1> HIDE DEF q, new
<1>5. Len(q) = len /\ Len(new) = len
  BY <1>1, <1>2, <1>3, <1>4
<1>6. ASSUME NEW i \in 1 .. len PROVE new[i] = q[i]
  <2>1. new[i] = Entry(more, None, to, i) /\ q[i] = Entry(from, msg, to, i)
    <3>1. /\ Len(from) \in Nat /\ Len(to) \in Nat /\ Len(more) = Len(from) + 1
      BY <1>1, <1>3
    <3>2. /\ Len(more) + Held(None) + Len(to) = len /\ Len(from) + Held(msg) + Len(to) = len
      BY ONLY <1>2, <3>1
    <3> QED
      BY <1>3, <1>4, <3>2
  <2>2. i \in 1 .. len /\ i - (Len(more) + 0) = i - (Len(from) + 1)
    BY <1>1, <1>3
  <2> QED
    BY <1>1, <1>2, <1>3, <2>1, <2>2 DEF Entry
<1>7. new = q
  BY <1>3, <1>4, <1>5, <1>6, SeqEqual
<1> QED
  BY <1>7 DEF q, new, more

-----------------------------------------------------------------------------
(* Steps of the relay *)

Waiting == unsent \cup requests \cup ({buff} \ {None})
Delivered == {datagram.to : datagram \in forwarded}

\* The queue of connection c becomes q and the others stay.
QueueBecomes(c, q) == Queue(c)' = q /\ \A d \in Conns \ {c} : Queue(d)' = Queue(d)

LEMMA QueueJoins == \A c : Queue(c) = Join(fromServer[c], reply[c], toServer[c])
  BY DEF Queue, Join

LEMMA QueueStays ==
    ASSUME NEW c, fromServer'[c] = fromServer[c], reply'[c] = reply[c], toServer'[c] = toServer[c]
    PROVE  Queue(c)' = Queue(c)
  BY DEF Queue

LEMMA QueueType ==
    ASSUME TypeOK, NEW c \in Conns
    PROVE  /\ Queue(c) \in Seq(Users) /\ fromServer[c] \in Seq(ReplyCells)
           /\ toServer[c] \in Seq(RequestCells) /\ reply[c] \in Replies \cup {None}
<1>1. /\ fromServer[c] \in Seq(ReplyCells) /\ toServer[c] \in Seq(RequestCells)
      /\ reply[c] \in Replies \cup {None}
  BY DEF TypeOK
<1> QED
  BY <1>1, JoinType, QueueJoins

LEMMA Handing ==
    ASSUME NEW r \in Waiting, r \in Requests, NEW c \in Conns, Waiting' = Waiting \ {r},
           QueueBecomes(c, Append(Queue(c), r)), Delivered' = Delivered
    PROVE  Abstract!Next
<1>1. Abstract!Hand(r, c)
  BY DEF Abstract!Hand, QueueBecomes, Waiting, Delivered
<1> QED
  BY <1>1 DEF Abstract!Next

LEMMA Delivering ==
    ASSUME NEW c \in Conns, NEW n \in 1 .. Len(Queue(c)), Waiting' = Waiting,
           QueueBecomes(c, SubSeq(Queue(c), n + 1, Len(Queue(c)))),
           Delivered' = Delivered \cup {Head(Queue(c))}
    PROVE  Abstract!Next
<1>1. Abstract!Deliver(c, n)
  BY DEF Abstract!Deliver, QueueBecomes, Waiting, Delivered
<1> QED
  BY <1>1 DEF Abstract!Next

LEMMA Losing ==
    ASSUME NEW lost \in SUBSET Requests, NEW c \in Conns, Waiting' = Waiting \ lost,
           \/ QueueBecomes(c, Queue(c))
           \/ \E i \in 1 .. Len(Queue(c)) : \E j \in i .. Len(Queue(c)) + 1 :
                 QueueBecomes(c, Cut(Queue(c), i, j)),
           Delivered' = Delivered
    PROVE  Abstract!Next
<1>1. CASE QueueBecomes(c, Queue(c))
  <2>1. Abstract!Lose(lost)
    BY <1>1 DEF Abstract!Lose, QueueBecomes, Waiting, Delivered
  <2> QED
    BY <2>1 DEF Abstract!Next
<1>2. ASSUME NEW i \in 1 .. Len(Queue(c)), NEW j \in i .. Len(Queue(c)) + 1,
             QueueBecomes(c, Cut(Queue(c), i, j))
      PROVE  Abstract!Next
  <2> DEFINE queues == [d \in Conns |-> Queue(d)]
  <2>1. queues[c] = Queue(c) /\ queues' = [queues EXCEPT ![c] = Cut(queues[c], i, j)]
    BY <1>2 DEF QueueBecomes
  <2>2. i \in 1 .. Len(queues[c]) /\ j \in i .. Len(queues[c]) + 1
    BY <2>1
  <2> HIDE DEF queues
  <2>3. \E k \in Conns : \E a \in 1 .. Len(queues[k]) : \E b \in a .. Len(queues[k]) + 1 :
          queues' = [queues EXCEPT ![k] = SubSeq(@, 1, a - 1) \o SubSeq(@, b, Len(@))]
    BY <2>1, <2>2 DEF Cut
  <2>4. Abstract!Lose(lost)
    BY <2>3 DEF queues, Abstract!Lose, Waiting, Delivered
  <2> QED
    BY <2>4 DEF Abstract!Next
<1> QED
  BY <1>1, <1>2

LEMMA Dropping ==
    ASSUME NEW lost \in SUBSET Requests, Waiting' = Waiting \ lost, Delivered' = Delivered,
           \A d \in Conns : Queue(d)' = Queue(d)
    PROVE  Abstract!Next
<1>1. Abstract!Lose(lost)
  BY DEF Abstract!Lose, Waiting, Delivered
<1> QED
  BY <1>1 DEF Abstract!Next

LEMMA Stuttering ==
    ASSUME Waiting' = Waiting, Delivered' = Delivered, \A d \in Conns : Queue(d)' = Queue(d)
    PROVE  UNCHANGED Abstract!vars
  BY DEF Abstract!vars, Waiting, Delivered

-----------------------------------------------------------------------------
(* The invariant *)

LEMMA RelayInitially == Init => RelayInv
  BY NoneAssumption DEF Init, RelayInv, ClientsKnown

\* Where a request is.
LEMMA PlacesStep ==
    ASSUME RelayInv, TypeOK, [Next]_vars
    PROVE  /\ unsent' \cap requests' = {} /\ buff' \notin unsent' \cup requests'
           /\ pc' # "send" => buff' = None
<1>0. /\ unsent \cap requests = {} /\ buff \notin unsent \cup requests
      /\ pc # "send" => buff = None
      /\ None \notin unsent \cup requests
  BY NoneAssumption DEF RelayInv, TypeOK
<1>1. CASE ReceiveRequest
  BY <1>0, <1>1 DEF ReceiveRequest
<1>2. CASE SendPacket
  BY <1>0, <1>2 DEF SendPacket, Sent, SendFails, clients
<1>3. CASE ClientSend
  BY <1>0, <1>3 DEF ClientSend, loop
<1>4. CASE UNCHANGED <<unsent, requests, buff>> /\ pc # "send" /\ pc' # "send"
  BY <1>0, <1>4
<1>5. CASE UNCHANGED <<unsent, requests, buff, pc>>
  BY <1>0, <1>5
<1>6. CASE Select \/ Accept \/ SkipServer \/ ReceiveReply \/ LoseServer \/ EraseClosed
  BY <1>4, <1>6 DEF Select, Accept, SkipServer, ReceiveReply, LoseServer, EraseClosed, AtServer,
     clients, Branch
<1>7. ASSUME NEW c \in Conns, Connect(c) \/ ServerReceive(c) \/ ServerSend(c) \/ ServerDie(c)
      PROVE  UNCHANGED <<unsent, requests, buff, pc>>
  BY <1>7 DEF Connect, ServerReceive, ServerSend, ServerDie, clients, loop
<1>8. UNCHANGED vars => UNCHANGED <<unsent, requests, buff, pc>>
  BY DEF vars
<1> QED
  BY <1>1, <1>2, <1>3, <1>5, <1>6, <1>7, <1>8 DEF Next, Balancer, SelectTimeout

\* What a connection has, after its server or the thread did something with it.
StreamInv(c) == ClientsKnown(c) /\ (peer[c] = "gone" => toServer[c] = <<>> /\ reply[c] = None)

LEMMA StreamKept ==
    ASSUME NEW c, StreamInv(c), peer'[c] = peer[c],
           toServer'[c] = toServer[c], fromServer'[c] = fromServer[c], reply'[c] = reply[c]
    PROVE  StreamInv(c)'
  BY DEF StreamInv, ClientsKnown

LEMMA TailKnown ==
    ASSUME TypeOK, NEW c \in Conns, ClientsKnown(c), NEW n \in 0 .. Len(fromServer[c])
    PROVE  \A i \in 1 .. Len(Taken(fromServer[c], n)) :
              Taken(fromServer[c], n)[i].packet.req # None
<1> DEFINE from == fromServer[c]
<1>1. from \in Seq(ReplyCells) /\ n \in 0 .. Len(from)
  BY DEF TypeOK
<1>2. \A i \in 1 .. Len(from) : from[i].packet.req # None
  BY DEF ClientsKnown
<1> HIDE DEF from
<1>3. Len(Taken(from, n)) = n /\ \A i \in 1 .. n : Taken(from, n)[i] = from[i]
  BY <1>1, TakenType
<1>4. Len(from) \in Nat
  BY <1>1, LenProperties
<1> QED
  BY <1>1, <1>2, <1>3, <1>4 DEF from

LEMMA TailStays ==
    ASSUME TypeOK, NEW c \in Conns, ClientsKnown(c), fromServer' = fromServer \/ LoseTail(c)
    PROVE  \A i \in 1 .. Len(fromServer'[c]) : fromServer'[c][i].packet.req # None
<1>1. CASE fromServer' = fromServer
  BY <1>1 DEF ClientsKnown
<1>2. CASE LoseTail(c)
  <2>1. PICK n \in 0 .. Len(fromServer[c]) :
          fromServer' = [fromServer EXCEPT ![c] = Taken(fromServer[c], n)]
    BY <1>2 DEF LoseTail
  <2>2. fromServer'[c] = Taken(fromServer[c], n)
    BY <2>1 DEF TypeOK
  <2> QED
    BY <2>2, TailKnown
<1> QED
  BY <1>1, <1>2

\* A server's step changes what its own connection has, and the thread's what the
\* connection has that it is at.
Touches(c) ==
    \/ ServerReceive(c) \/ ServerSend(c) \/ ServerDie(c)
    \/ SendPacket /\ c = selectedServer
    \/ ReceiveReply /\ c = Server

LEMMA Untouched ==
    ASSUME TypeOK, BranchInv, [Next]_vars, NEW c \in Conns, ~Touches(c)
    PROVE  /\ toServer'[c] = toServer[c] /\ fromServer'[c] = fromServer[c] /\ reply'[c] = reply[c]
           /\ peer[c] = "gone" <=> peer'[c] = "gone"
<1>1. CASE UNCHANGED <<streams, reply, peer>>
  BY <1>1 DEF streams
<1>2. CASE Select \/ Accept \/ ReceiveRequest \/ SkipServer \/ LoseServer \/ EraseClosed \/ ClientSend
  BY <1>1, <1>2 DEF Select, Accept, ReceiveRequest, SkipServer, LoseServer, EraseClosed, ClientSend,
     servers
<1>3. CASE SendPacket
  BY <1>3 DEF SendPacket, Sent, SendFails, LoseTail, Touches, TypeOK, streams
<1>4. CASE ReceiveReply
  BY <1>4 DEF ReceiveReply, Touches, TypeOK, servers
<1>5. ASSUME NEW d \in Conns, Connect(d)
      PROVE  /\ UNCHANGED <<streams, reply>>
             /\ peer[c] = "gone" <=> peer'[c] = "gone"
  BY <1>5 DEF Connect, TypeOK
<1>6. ASSUME NEW d \in Conns, ServerReceive(d) \/ ServerSend(d) \/ ServerDie(d)
      PROVE  /\ toServer'[c] = toServer[c] /\ fromServer'[c] = fromServer[c] /\ reply'[c] = reply[c]
             /\ peer'[c] = peer[c]
  <2>1. c # d
    BY <1>6 DEF Touches
  <2> QED
    BY <1>6, <2>1 DEF ServerReceive, ServerSend, ServerDie, LoseTail, TypeOK
<1>7. UNCHANGED vars => UNCHANGED <<streams, reply, peer>>
  BY DEF vars, streams
<1> QED
  BY <1>1, <1>2, <1>3, <1>4, <1>5, <1>6, <1>7 DEF Next, Balancer, SelectTimeout, streams

LEMMA StreamStep ==
    ASSUME TypeOK, BranchInv, Parts = 1, [Next]_vars, NEW c \in Conns, StreamInv(c)
    PROVE  StreamInv(c)'
<1> DEFINE from == fromServer[c]
           to == toServer[c]
<1>0. /\ from \in Seq(ReplyCells) /\ to \in Seq(RequestCells) /\ reply[c] \in Replies \cup {None}
      /\ Len(from) \in Nat /\ Len(to) \in Nat
  BY QueueType, LenProperties
<1>1. CASE ~Touches(c)
  BY <1>1, Untouched DEF StreamInv, ClientsKnown
<1>2. CASE ServerReceive(c)
  <2>1. PICK n \in 1 .. Len(to) :
          LET cells == Taken(to, n)
              client == IF cells[1].part = 1 THEN cells[1].packet ELSE None
          IN  \/ reply' = [reply EXCEPT ![c] = [req |-> client, ok |-> IsPacket(cells)]]
              \/ UNCHANGED reply
    BY <1>2 DEF ServerReceive
  <2>2. peer[c] = "up" /\ UNCHANGED <<fromServer, peer>> /\ reply[c] = None
    BY <1>2 DEF ServerReceive
  <2>3. to[1].part = 1 /\ to[1].packet # None /\ Taken(to, n)[1] = to[1]
    <3>1. Taken(to, n)[1] = to[1] /\ to[1] \in RequestCells
      <4>1. n \in 0 .. Len(to) /\ 1 \in 1 .. n /\ 1 \in 1 .. Len(to)
        BY <1>0
      <4> HIDE DEF to
      <4> QED
        BY <1>0, <4>1, TakenType, ElementOfSeq
    <3> QED
      BY <3>1, NoneAssumption DEF RequestCells
  <2>4. reply'[c] # None => reply'[c].req # None
    BY <2>1, <2>2, <2>3 DEF TypeOK
  <2> QED
    BY <2>2, <2>4 DEF StreamInv, ClientsKnown
<1>3. CASE ServerSend(c)
  <2>1. /\ peer[c] = "up" /\ UNCHANGED <<toServer, peer>> /\ reply[c] # None /\ reply'[c] = None
        /\ fromServer'[c] = from \o Cells(reply[c])
    BY <1>3 DEF ServerSend, TypeOK
  <2>2. reply[c].req # None /\ \A i \in 1 .. Len(from) : from[i].packet.req # None
    BY <2>1 DEF StreamInv, ClientsKnown
  <2> DEFINE sent == Cells(reply[c])
             new == from \o sent
  <2>3. sent \in Seq(ReplyCells) /\ Len(sent) = 1 /\ sent[1].packet = reply[c]
    BY <1>0, <2>1, OneCell
  <2> HIDE DEF from, sent
  <2>4. /\ Len(new) = Len(from) + Len(sent)
        /\ \A i \in 1 .. Len(from) + Len(sent) :
              new[i] = IF i <= Len(from) THEN from[i] ELSE sent[i - Len(from)]
    BY <1>0, <2>3, ConcatProperties
  <2> HIDE DEF new
  <2>5. \A i \in 1 .. Len(new) : new[i].packet.req # None
    BY <1>0, <2>2, <2>3, <2>4
  <2>6. fromServer'[c] = new
    BY <2>1 DEF new, sent
  <2> QED
    BY <2>1, <2>5, <2>6 DEF StreamInv, ClientsKnown
<1>4. CASE ServerDie(c)
  <2>1. toServer'[c] = <<>> /\ reply'[c] = None
    BY <1>4 DEF ServerDie, TypeOK
  <2>2. fromServer' = fromServer \/ LoseTail(c)
    BY <1>4 DEF ServerDie
  <2>3. \A i \in 1 .. Len(fromServer'[c]) : fromServer'[c][i].packet.req # None
    BY <2>2, TailStays DEF StreamInv
  <2> QED
    BY <2>1, <2>3 DEF StreamInv, ClientsKnown
<1>5. CASE SendPacket /\ c = selectedServer
  <2>1. /\ UNCHANGED <<peer, reply>>
        /\ toServer'[c] = to \/ peer[c] # "gone"
        /\ fromServer' = fromServer \/ LoseTail(c)
    BY <1>5 DEF SendPacket, Sent, SendFails, streams
  <2>2. \A i \in 1 .. Len(fromServer'[c]) : fromServer'[c][i].packet.req # None
    BY <2>1, TailStays DEF StreamInv
  <2> QED
    BY <2>1, <2>2 DEF StreamInv, ClientsKnown
<1>6. CASE ReceiveReply /\ c = Server
  <2>1. PICK n \in 1 .. Len(from) : fromServer'[c] = Rest(from, n)
    BY <1>6 DEF ReceiveReply, TypeOK
  <2>2. UNCHANGED <<toServer, peer, reply>>
    BY <1>6 DEF ReceiveReply, servers
  <2>3. \A i \in 1 .. Len(from) : from[i].packet.req # None
    BY DEF StreamInv, ClientsKnown
  <2> HIDE DEF from
  <2>4. Len(Rest(from, n)) = Len(from) - n /\ \A i \in 1 .. Len(from) - n : Rest(from, n)[i] = from[n + i]
    BY <1>0, RestType
  <2>5. ASSUME NEW i \in 1 .. Len(fromServer'[c]) PROVE fromServer'[c][i].packet.req # None
    BY <1>0, <2>1, <2>3, <2>4
  <2> QED
    BY <2>2, <2>5 DEF StreamInv, ClientsKnown
<1> QED
  BY <1>1, <1>2, <1>3, <1>4, <1>5, <1>6 DEF Touches

RelayIInv == BalancerInv /\ RelayInv

LEMMA RelayInvStep ==
    ASSUME RelayIInv, Parts = 1, [Next]_vars
    PROVE  RelayIInv'
<1>1. TypeOK /\ BranchInv /\ \A c \in Conns : StreamInv(c)
  BY DEF RelayIInv, BalancerInv, RelayInv, StreamInv
<1>2. \A c \in Conns : StreamInv(c)'
  BY <1>1, StreamStep
<1>3. RelayInv'
  BY <1>1, <1>2, PlacesStep DEF RelayIInv, RelayInv, StreamInv
<1> QED
  BY <1>3, BalancerStep DEF RelayIInv

-----------------------------------------------------------------------------
(* The refinement *)

LEMMA InitRefines == Init => Abstract!Init
<1> SUFFICES ASSUME Init PROVE Abstract!Init
  OBVIOUS
<1>1. Waiting = Requests /\ Delivered = {}
  BY DEF Init, Waiting, Delivered
<1>2. ASSUME NEW c \in Conns PROVE Queue(c) = <<>>
  <2>1. fromServer[c] = <<>> /\ toServer[c] = <<>> /\ reply[c] = None
    BY DEF Init
  <2> QED
    BY <2>1 DEF Queue
<1> QED
  BY <1>1, <1>2 DEF Abstract!Init, Waiting, Delivered

\* The queues of connections that a step does not touch.
LEMMA OthersStay ==
    ASSUME TypeOK, BranchInv, [Next]_vars, NEW c \in Conns, \A d \in Conns \ {c} : ~Touches(d)
    PROVE  \A d \in Conns \ {c} : Queue(d)' = Queue(d)
  BY Untouched, QueueStays

LEMMA SendRefines ==
    ASSUME RelayIInv, Parts = 1, SendPacket
    PROVE  Abstract!Next
<1>0. TypeOK /\ BranchInv /\ [Next]_vars
  BY DEF RelayIInv, BalancerInv, Next, Balancer
<1>c. PICK c \in Conns : c = selectedServer
  BY <1>0, ListedType DEF SendPacket, BranchInv
<1>1. buff \in Requests /\ StreamInv(c)
  BY <1>0 DEF SendPacket, BranchInv, RelayIInv, RelayInv, StreamInv
<1>2. Waiting' = Waiting \ {buff} /\ buff \in Waiting /\ Delivered' = Delivered
  <2>1. /\ UNCHANGED <<unsent, requests, forwarded>> /\ buff' = None
        /\ buff \notin unsent \cup requests /\ None \notin unsent \cup requests
    BY <1>0, NoneAssumption DEF SendPacket, clients, RelayIInv, RelayInv, TypeOK
  <2> QED
    BY <1>1, <2>1, NoneAssumption DEF Waiting, Delivered
<1>3. \A d \in Conns \ {c} : Queue(d)' = Queue(d)
  <2>1. \A d \in Conns \ {c} : toServer'[d] = toServer[d] /\ fromServer'[d] = fromServer[d]
    BY <1>0, <1>c DEF SendPacket, Sent, SendFails, LoseTail, TypeOK, streams
  <2>2. reply' = reply
    BY DEF SendPacket
  <2> QED
    BY <2>1, <2>2, QueueStays
<1>4. /\ fromServer[c] \in Seq(ReplyCells) /\ toServer[c] \in Seq(RequestCells)
      /\ reply[c] \in Replies \cup {None}
  BY <1>0, <1>1, QueueType
<1>5. CASE toServer' = [toServer EXCEPT ![c] = @ \o Cells(buff)] /\ UNCHANGED fromServer
  <2>1. toServer'[c] = toServer[c] \o Cells(buff) /\ fromServer'[c] = fromServer[c] /\ reply'[c] = reply[c]
    BY <1>0, <1>1, <1>5 DEF SendPacket, TypeOK
  <2>2. Queue(c)' = Join(fromServer[c], reply[c], toServer[c] \o Cells(buff))
    BY <2>1 DEF Queue, Join
  <2>3. Queue(c)' = Append(Queue(c), buff)
    BY <1>1, <1>4, <2>2, JoinSend, QueueJoins
  <2> QED
    BY <1>1, <1>2, <1>3, <2>3, Handing DEF QueueBecomes
<1>6. CASE UNCHANGED streams
  <2>1. Queue(c)' = Queue(c)
    BY <1>6, QueueStays DEF SendPacket, streams
  <2> QED
    BY <1>1, <1>2, <1>3, <2>1, Dropping
<1>7. CASE peer[c] = "gone" /\ LoseTail(c) /\ UNCHANGED toServer
  <2>1. PICK n \in 0 .. Len(fromServer[c]) : fromServer'[c] = Taken(fromServer[c], n)
    BY <1>0, <1>1, <1>7 DEF LoseTail, TypeOK
  <2>2. toServer'[c] = <<>> /\ reply'[c] = None
    BY <1>1, <1>7 DEF StreamInv, SendPacket
  <2>3. Queue(c)' = Join(Taken(fromServer[c], n), None, <<>>)
    BY <2>1, <2>2 DEF Queue, Join
  <2>4. \/ Queue(c)' = Queue(c)
        \/ \E i \in 1 .. Len(Queue(c)) : \E j \in i .. Len(Queue(c)) + 1 : Queue(c)' = Cut(Queue(c), i, j)
    <3> DEFINE new == Join(Taken(fromServer[c], n), None, <<>>)
               q == Join(fromServer[c], reply[c], toServer[c])
    <3>1. \/ new = q
          \/ \E i \in 1 .. Len(q) : \E j \in i .. Len(q) + 1 : new = Cut(q, i, j)
      BY <1>4, <2>1, JoinTail
    <3>2. Queue(c) = q /\ Queue(c)' = new
      BY <2>3, QueueJoins
    <3> HIDE DEF new, q
    <3> QED
      BY <3>1, <3>2
  <2> QED
    BY <1>1, <1>2, <1>3, <2>4, Losing DEF QueueBecomes
<1> QED
  BY <1>c, <1>5, <1>6, <1>7 DEF SendPacket, Sent, SendFails

LEMMA ReplyRefines ==
    ASSUME RelayIInv, Parts = 1, ReceiveReply
    PROVE  Abstract!Next
<1>0. TypeOK
  BY DEF RelayIInv, BalancerInv
<1>c. PICK c \in Conns : c = Server
  BY <1>0, ServerType DEF ReceiveReply
<1>1. StreamInv(c)
  BY DEF RelayIInv, RelayInv, StreamInv
<1> DEFINE from == fromServer[c]
<1>2. /\ from \in Seq(ReplyCells) /\ toServer[c] \in Seq(RequestCells)
      /\ reply[c] \in Replies \cup {None}
  BY <1>0, <1>1, QueueType
<1>3. PICK n \in 1 .. Len(from) :
        LET cells == Taken(from, n) IN
        /\ fromServer' = [fromServer EXCEPT ![c] = Rest(from, n)]
        /\ IF cells[1].part = 1 /\ cells[1].packet.req # None
           THEN forwarded' = forwarded \cup {[to |-> cells[1].packet.req, cells |-> cells]}
           ELSE UNCHANGED forwarded
  BY <1>c DEF ReceiveReply
<1>4. UNCHANGED <<unsent, requests, buff, toServer, reply>>
  BY DEF ReceiveReply, servers
<1>5. Taken(from, n)[1] = from[1] /\ from[1].part = 1 /\ from[1].packet.req # None
  <2>1. n \in 0 .. Len(from) /\ 1 \in 1 .. n /\ 1 \in 1 .. Len(from)
    BY <1>2, LenProperties
  <2>2. from[1].packet.req # None
    BY <1>1, <2>1 DEF StreamInv, ClientsKnown
  <2> HIDE DEF from
  <2>3. Taken(from, n)[1] = from[1] /\ from[1] \in ReplyCells
    BY <1>2, <2>1, TakenType, ElementOfSeq
  <2> QED
    BY <2>2, <2>3 DEF ReplyCells
<1>6. Delivered' = Delivered \cup {from[1].packet.req}
  <2> DEFINE sent == [to |-> from[1].packet.req, cells |-> Taken(from, n)]
  <2>1. forwarded' = forwarded \cup {sent}
    BY <1>3, <1>5
  <2>2. sent.to = from[1].packet.req
    OBVIOUS
  <2> HIDE DEF sent, from
  <2> QED
    BY <2>1, <2>2 DEF Delivered
<1>7. \A d \in Conns \ {c} : Queue(d)' = Queue(d)
  BY <1>0, <1>3, <1>4, QueueStays DEF TypeOK
<1>8. Queue(c)' = Join(Rest(from, n), reply[c], toServer[c])
  <2>1. fromServer'[c] = Rest(from, n)
    BY <1>0, <1>1, <1>3 DEF TypeOK
  <2> QED
    BY <1>4, <2>1 DEF Queue, Join
<1> HIDE DEF from
<1>9. /\ n \in 1 .. Len(Queue(c)) /\ Head(Queue(c)) = from[1].packet.req
      /\ Queue(c)' = SubSeq(Queue(c), n + 1, Len(Queue(c)))
  <2>1. Queue(c) = Join(from, reply[c], toServer[c])
    BY QueueJoins DEF from
  <2> QED
    BY <1>2, <1>8, <2>1, JoinTake
<1>10. Waiting' = Waiting
  BY <1>4 DEF Waiting
<1> QED
  BY <1>1, <1>6, <1>7, <1>9, <1>10, Delivering DEF QueueBecomes

LEMMA ServerRefines ==
    ASSUME RelayIInv, Parts = 1, NEW c \in Conns, ServerReceive(c) \/ ServerSend(c) \/ ServerDie(c)
    PROVE  Abstract!Next \/ UNCHANGED Abstract!vars
<1> DEFINE from == fromServer[c]
           to == toServer[c]
<1>0. TypeOK /\ StreamInv(c)
  BY DEF RelayIInv, BalancerInv, RelayInv, StreamInv
<1>1. /\ from \in Seq(ReplyCells) /\ to \in Seq(RequestCells) /\ reply[c] \in Replies \cup {None}
      /\ Queue(c) = Join(from, reply[c], to)
  BY <1>0, QueueType, QueueJoins
<1>2. Waiting' = Waiting /\ Delivered' = Delivered
  BY DEF ServerReceive, ServerSend, ServerDie, loop, clients, Waiting, Delivered
<1>3. \A d \in Conns \ {c} : Queue(d)' = Queue(d)
  <2>1. \A d \in Conns \ {c} :
          toServer'[d] = toServer[d] /\ fromServer'[d] = fromServer[d] /\ reply'[d] = reply[d]
    BY <1>0 DEF ServerReceive, ServerSend, ServerDie, LoseTail, TypeOK
  <2> QED
    BY <2>1, QueueStays
\* It is enough to know what is left of the server's own queue.
<1>4. ASSUME \/ Queue(c)' = Queue(c)
             \/ \E i \in 1 .. Len(Queue(c)) : \E j \in i .. Len(Queue(c)) + 1 :
                   Queue(c)' = Cut(Queue(c), i, j)
      PROVE  Abstract!Next
  <2>1. {} \in SUBSET Requests /\ Waiting' = Waiting \ {}
    BY <1>2
  <2> QED
    BY <1>2, <1>3, <1>4, <2>1, Losing DEF QueueBecomes
<1>5. CASE ServerReceive(c)
  <2>1. PICK n \in 1 .. Len(to) :
          LET cells == Taken(to, n)
              client == IF cells[1].part = 1 THEN cells[1].packet ELSE None
          IN  /\ toServer' = [toServer EXCEPT ![c] = Rest(to, n)]
              /\ \/ reply' = [reply EXCEPT ![c] = [req |-> client, ok |-> IsPacket(cells)]]
                 \/ IsPacket(cells) /\ UNCHANGED reply
    BY <1>5 DEF ServerReceive
  <2>2. reply[c] = None /\ fromServer' = fromServer
    BY <1>5 DEF ServerReceive
  <2>3. toServer'[c] = Rest(to, n)
    BY <1>0, <2>1 DEF TypeOK
  <2>4. /\ Taken(to, n)[1] = to[1] /\ to[1].part = 1 /\ to[1].packet \in Requests
        /\ IsPacket(Taken(to, n)) => n = 1
    <3>1. n \in 0 .. Len(to) /\ 1 \in 1 .. n /\ 1 \in 1 .. Len(to)
      BY <1>1, LenProperties
    <3> HIDE DEF to
    <3>2. Taken(to, n)[1] = to[1] /\ to[1] \in RequestCells /\ Len(Taken(to, n)) = n
      BY <1>1, <3>1, TakenType, ElementOfSeq
    <3> QED
      BY <3>2 DEF RequestCells, IsPacket
  <2>5. /\ reply'[c] \in Replies \cup {None}
        /\ reply'[c] = None => n = 1
        /\ reply'[c] # None => reply'[c].req = to[1].packet
    <3>1. CASE UNCHANGED reply /\ IsPacket(Taken(to, n))
      BY <2>2, <2>4, <3>1
    <3>2. CASE reply' = [reply EXCEPT ![c] = [req |-> to[1].packet, ok |-> IsPacket(Taken(to, n))]]
      <4> DEFINE msg == [req |-> to[1].packet, ok |-> IsPacket(Taken(to, n))]
      <4>1. IsPacket(Taken(to, n)) \in BOOLEAN
        BY DEF IsPacket
      <4>2. msg \in Replies /\ msg.req = to[1].packet
        BY <2>4, <4>1 DEF Replies
      <4>3. reply'[c] = msg
        BY <1>0, <3>2 DEF TypeOK
      <4>4. msg # None
        BY <4>2, NoneAssumption
      <4> QED
        BY <4>2, <4>3, <4>4
    <3> QED
      BY <2>1, <2>4, <3>1, <3>2
  <2> DEFINE msg == reply'[c]
  <2>6. Queue(c)' = Join(from, msg, Rest(to, n)) /\ Queue(c) = Join(from, None, to)
    BY <1>1, <2>2, <2>3 DEF Queue, Join
  <2> HIDE DEF from, to, msg
  <2>7. /\ msg \in Replies \cup {None} /\ (msg = None => n = 1)
        /\ msg # None => msg.req = to[1].packet
    BY <2>5 DEF msg
  <2>8. \/ Queue(c)' = Queue(c)
        \/ \E i \in 1 .. Len(Queue(c)) : \E j \in i .. Len(Queue(c)) + 1 :
              Queue(c)' = Cut(Queue(c), i, j)
    BY <1>1, <2>6, <2>7, JoinReceive
  <2> QED
    BY <1>4, <2>8
<1>6. CASE ServerSend(c)
  <2>1. /\ toServer'[c] = to /\ reply[c] # None /\ reply'[c] = None
        /\ fromServer'[c] = from \o Cells(reply[c])
    BY <1>0, <1>6 DEF ServerSend, TypeOK
  <2>2. Queue(c)' = Join(from \o Cells(reply[c]), None, to)
    BY <2>1 DEF Queue, Join
  <2>3. Queue(c)' = Queue(c)
    BY <1>1, <2>1, <2>2, JoinMove
  <2> QED
    BY <1>4, <2>3
<1>7. CASE ServerDie(c)
  <2>1. toServer'[c] = <<>> /\ reply'[c] = None
    BY <1>0, <1>7 DEF ServerDie, TypeOK
  <2>2. PICK n \in 0 .. Len(from) : fromServer'[c] = Taken(from, n)
    <3>1. CASE fromServer' = fromServer
      <4>1. Len(from) \in 0 .. Len(from) /\ from = Taken(from, Len(from))
        BY <1>1, LenProperties, SubSeqFull DEF Taken
      <4> QED
        BY <3>1, <4>1
    <3>2. CASE LoseTail(c)
      BY <1>0, <3>2 DEF LoseTail, TypeOK
    <3> QED
      BY <1>7, <3>1, <3>2 DEF ServerDie
  <2>3. Queue(c)' = Join(Taken(from, n), None, <<>>)
    BY <2>1, <2>2 DEF Queue, Join
  <2> HIDE DEF from, to
  <2>4. \/ Queue(c)' = Queue(c)
        \/ \E i \in 1 .. Len(Queue(c)) : \E j \in i .. Len(Queue(c)) + 1 :
              Queue(c)' = Cut(Queue(c), i, j)
    BY <1>1, <2>3, JoinTail
  <2> QED
    BY <1>4, <2>4
<1> QED
  BY <1>5, <1>6, <1>7

LEMMA StepRefines ==
    ASSUME RelayIInv, Parts = 1, [Next]_vars
    PROVE  Abstract!Next \/ UNCHANGED Abstract!vars
<1>0. TypeOK /\ RelayInv
  BY DEF RelayIInv, BalancerInv
<1>1. CASE SendPacket
  BY <1>1, SendRefines
<1>2. CASE ReceiveReply
  BY <1>2, ReplyRefines
<1>3. ASSUME NEW c \in Conns, ServerReceive(c) \/ ServerSend(c) \/ ServerDie(c)
      PROVE  Abstract!Next \/ UNCHANGED Abstract!vars
  BY <1>3, ServerRefines
\* The balancer takes a datagram, which it drops when there is no server.
<1>4. CASE ReceiveRequest
  <2>1. UNCHANGED <<unsent, forwarded, fromServer, toServer, reply>> /\ buff = None
    BY <1>0, <1>4 DEF ReceiveRequest, streams, servers, RelayInv
  <2>2. Delivered' = Delivered /\ \A d \in Conns : Queue(d)' = Queue(d)
    BY <2>1, QueueStays DEF Delivered
  <2>3. PICK r \in requests : requests' = requests \ {r} /\ (buff' = buff \/ buff' = r)
    BY <1>4 DEF ReceiveRequest
  <2>4. r \in Requests /\ r \notin unsent /\ r # None
    BY <1>0, NoneAssumption DEF TypeOK, RelayInv
  <2>5. CASE buff' = r
    <3>1. Waiting' = Waiting
      BY <2>1, <2>3, <2>4, <2>5 DEF Waiting
    <3> QED
      BY <2>2, <3>1, Stuttering
  <2>6. CASE buff' = buff
    <3>1. Waiting' = Waiting \ {r} /\ {r} \in SUBSET Requests
      BY <2>1, <2>3, <2>4, <2>6 DEF Waiting
    <3> QED
      BY <2>2, <3>1, Dropping
  <2> QED
    BY <2>3, <2>5, <2>6
\* Nothing else reaches a request or an answer.
<1>5. ASSUME Waiting' = Waiting, UNCHANGED <<forwarded, fromServer, toServer, reply>>
      PROVE  UNCHANGED Abstract!vars
  BY <1>5, QueueStays, Stuttering DEF Delivered
<1>6. ASSUME UNCHANGED <<unsent, requests, buff, forwarded, fromServer, toServer, reply>>
      PROVE  UNCHANGED Abstract!vars
  BY <1>5, <1>6 DEF Waiting
<1>7. CASE Select \/ Accept \/ SkipServer \/ LoseServer \/ EraseClosed
  BY <1>6, <1>7 DEF Select, Accept, SkipServer, LoseServer, EraseClosed, clients, streams, servers
<1>8. CASE ClientSend
  <2>1. UNCHANGED <<buff, forwarded, fromServer, toServer, reply>>
    BY <1>8 DEF ClientSend, loop, streams, servers
  <2>2. unsent' \cup requests' = unsent \cup requests
    BY <1>8 DEF ClientSend
  <2> QED
    BY <1>5, <2>1, <2>2 DEF Waiting
<1>9. ASSUME NEW c \in Conns, Connect(c) PROVE UNCHANGED Abstract!vars
  BY <1>6, <1>9 DEF Connect, loop, clients, streams
<1>10. UNCHANGED vars => UNCHANGED Abstract!vars
  BY <1>6 DEF vars
<1> QED
  BY <1>1, <1>2, <1>3, <1>4, <1>7, <1>8, <1>9, <1>10 DEF Next, Balancer, SelectTimeout

\* Where no packet is split, whatever the balancer, its servers and its clients do
\* is a step of the abstract relay: no request goes to two servers, no answer to
\* another client or twice, and answers keep the order of their requests.
THEOREM BalancerImplementsRelay == Parts = 1 => (Spec => ImplementsRelay)
<1> SUFFICES ASSUME Parts = 1 PROVE Spec => ImplementsRelay
  OBVIOUS
<1>1. Init => RelayIInv
  BY BalancerInitially, RelayInitially DEF RelayIInv
<1>2. RelayIInv /\ [Next]_vars => RelayIInv'
  BY RelayInvStep
<1>3. Spec => []RelayIInv
  BY <1>1, <1>2, PTL DEF Spec
<1>4. Init => Abstract!Init
  BY InitRefines
<1>5. RelayIInv /\ [Next]_vars => [Abstract!Next]_(Abstract!vars)
  BY StepRefines
<1> QED
  BY <1>3, <1>4, <1>5, PTL DEF Spec, ImplementsRelay, Abstract!Spec
=============================================================================
