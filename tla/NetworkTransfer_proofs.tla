------------------------ MODULE NetworkTransfer_proofs ------------------------
(***************************************************************************)
(* Proofs about NetworkTransfer, for any number of clients, sources and    *)
(* chunks and every set of faults.                                         *)
(*                                                                         *)
(* A connection has units on the wire (w), units that are pending (q), a   *)
(* number of packets its client has packed (k), and a file of blocks that  *)
(* the server has written for it (f).  The parts of the invariant that     *)
(* relate these four are operators of them, so that a lemma for each thing *)
(* that happens to a connection speaks of sequences and numbers only.      *)
(***************************************************************************)
EXTENDS NetworkTransfer, SequenceLemmas, FiniteSetTheorems

FileOf(c) == IF id[c] = 0 THEN <<>> ELSE files[id[c]]

(* As long as no packet has been read, the stream starts with the name.    *)
NameFirst(w, q) ==
  IF w # <<>> THEN w[1] = Packet(0)[1] ELSE q # <<>> => q[1] = Packet(0)[1]

(* No unit is ahead of what is packed, the wire never goes back, and the   *)
(* file is behind the wire.                                                *)
InOrder(w, f, k) ==
  /\ \A i \in 1 .. Len(w) : w[i].packet < k
  /\ \A i, j \in 1 .. Len(w) : i < j => w[i].packet <= w[j].packet
  /\ \A i \in 1 .. Len(f) : f[i] < k
  /\ \A i \in 1 .. Len(f), j \in 1 .. Len(w) : f[i] # 0 => f[i] <= w[j].packet
  /\ \A i, j \in 1 .. Len(f) : i < j /\ f[i] # 0 /\ f[j] # 0 => f[i] <= f[j]

(* Nothing goes before a name that is pending.                             *)
NamesWait(w, q, f) ==
  \A i \in 1 .. Len(q) : q[i].packet = 0 =>
    /\ \A j \in 1 .. Len(w) : w[j].packet = 0
    /\ \A j \in 1 .. Len(f) : f[j] = 0
    /\ \A j \in 1 .. i - 1 : q[j].packet = 0

(* The header of a packet is sent once, and its block written once.        *)
Once(w, f) ==
  /\ \A i, j \in 1 .. Len(w) : i < j /\ w[i].part = "head" /\ w[j].part = "head" =>
       w[i].packet < w[j].packet
  /\ \A i \in 1 .. Len(f), j \in 1 .. Len(w) : f[i] # 0 /\ w[j].part = "head" =>
       f[i] < w[j].packet
  /\ \A i, j \in 1 .. Len(f) : i < j /\ f[i] # 0 /\ f[j] # 0 => f[i] < f[j]

(* The first r of k packets are in the file, the rest is on the wire.      *)
Exact(w, f, k, r) ==
  /\ r <= k /\ Len(w) = 2 * (k - r)
  /\ \A i \in 1 .. k - r : w[2 * i - 1] = Packet(r + i - 1)[1] /\ w[2 * i] = Packet(r + i - 1)[2]
  /\ IF r = 0 THEN f = <<>> ELSE Len(f) = r - 1

(* Headers and contents alternate, and whole packets are sent.             *)
Alternates(w, q, whole) ==
  LET s == w \o q IN
  /\ s # <<>> => s[1].part = "head" /\ (whole => s[Len(s)].part = "body")
  /\ \A i \in 1 .. Len(s) - 1 : s[i].part # s[i + 1].part

Gone(c) == clientPc[c[1]] = "ended"

StreamInv(c) ==
  /\ packed[c] = 0 =>
       /\ wire[c] = <<>> /\ pending[c] = <<>>
       /\ packetwise[c] /\ writer[c] = "none"
  /\ Gone(c) \/ inTime[c] => pending[c] = <<>>
  /\ link[c] = "closed" => Gone(c) /\ wire[c] = <<>>

NameInv(c) ==
  Alive(c) /\ writer[c] = "none" /\ c \notin nameless =>
    /\ NameFirst(wire[c], pending[c])
    /\ wire[c] = <<>> /\ pending[c] = <<>> => packed[c] = 0 \/ Gone(c)

(* The units are those of chunks.                                          *)
NoName(w) == \A i \in 1 .. Len(w) : w[i].packet # 0

(* A connection without a name has units of chunks only, and the first     *)
(* read of them ends the server.                                           *)
NamelessInv(c) ==
  c \in nameless =>
    /\ packed[c] # 0 /\ writer[c] = "none"
    /\ Alive(c) => packetwise[c]
    /\ NoName(wire[c]) /\ NoName(pending[c])
    /\ packed[c] = 1 => wire[c] = <<>> /\ pending[c] = <<>>

OrderInv(c) ==
  /\ InOrder(wire[c], FileOf(c), packed[c]) /\ NamesWait(wire[c], pending[c], FileOf(c))
  /\ inTime[c] => Once(wire[c], FileOf(c))

PartInv(c) == packetwise[c] => Alternates(wire[c], pending[c], ~Gone(c))

(* The first r packets have been read, or the first has been left out.     *)
Begun(c, r) == writer[c] = "own" \/ (c \in nameless /\ r = 1)

ExactInv(c) ==
  inTime[c] /\ packetwise[c] =>
    /\ \A i \in 1 .. Len(FileOf(c)) : FileOf(c)[i] = i
    /\ Alive(c) \/ link[c] = "closed" =>
         \E r \in 0 .. packed[c] :
           /\ Exact(wire[c], FileOf(c), packed[c], r)
           /\ r > 0 => Begun(c, r)

ConnectionInv(c) ==
  StreamInv(c) /\ NameInv(c) /\ NamelessInv(c) /\ OrderInv(c) /\ PartInv(c) /\ ExactInv(c)

ClientInv(p) ==
  clientPc[p] = "connect" =>
    /\ turn[p] <= Files
    /\ \A i \in 1 .. Files : /\ packed[<<p, i>>] = 0
                             /\ i >= turn[p] => link[<<p, i>>] = "none"

(* A connection waits once, and gets an id of its own.                     *)
BacklogInv ==
  /\ \A i \in 1 .. Len(backlog) : link[backlog[i]] = "backlog"
  /\ \A i, j \in 1 .. Len(backlog) : i # j => backlog[i] # backlog[j]

Accepted == {c \in Connections : id[c] # 0}

IdInv ==
  /\ currentId = Cardinality(Accepted) + 1
  /\ \A c \in Connections : /\ link[c] \in {"none", "backlog"} => id[c] = 0
                            /\ link[c] \in {"open", "closed"} => id[c] # 0
                            /\ id[c] < currentId
  /\ \A c, d \in Connections : c # d /\ id[c] # 0 => id[c] # id[d]
  /\ \A i \in Ids : i >= currentId => files[i] = <<>>

IInv ==
  /\ TypeOK /\ NoNullWriter /\ ServerEndsForAReason
  /\ BacklogInv /\ IdInv
  /\ \A p \in Clients : ClientInv(p)
  /\ \A c \in Connections : ConnectionInv(c)
-----------------------------------------------------------------------------
(* What happens to the stream of a connection.                             *)

(* The units of a packet, and the values of a sequence of units.           *)
LEMMA PacketUnits ==
  ASSUME NEW k \in 0 .. Chunks
  PROVE  /\ Packet(k) \in Seq(Units) /\ Len(Packet(k)) = 2
         /\ Packet(k)[1] = [packet |-> k, part |-> "head"]
         /\ Packet(k)[2] = [packet |-> k, part |-> "body"]
         /\ \A i \in 1 .. 2 : Packet(k)[i] \in Units /\ Packet(k)[i].packet = k
         /\ Packet(k)[1].part = "head" /\ Packet(k)[1].packet = k
         /\ Packet(k)[2].part = "body" /\ Packet(k)[2].packet = k
  BY DEF Packet, Units

LEMMA Values ==
  ASSUME NEW w \in Seq(Units), NEW f \in Seq(0 .. Chunks)
  PROVE  /\ Len(w) \in Nat /\ Len(f) \in Nat
         /\ \A i \in 1 .. Len(w) : w[i].packet \in 0 .. Chunks /\ w[i].part \in {"head", "body"}
         /\ \A i \in 1 .. Len(w) : w[i].packet \in Nat
         /\ \A i \in 1 .. Len(f) : f[i] \in Nat
<1>1. \A i \in 1 .. Len(w) : w[i] \in Units
  BY ElementOfSeq
<1>2. \A i \in 1 .. Len(f) : f[i] \in 0 .. Chunks
  BY ElementOfSeq
<1>3. Len(w) \in Nat /\ Len(f) \in Nat
  OBVIOUS
<1>4. QED BY <1>1, <1>2, <1>3, NetworkAssumption DEF Units

(* w2 and q2 are w and q after n units of packet k were sent.              *)
Sent(w, q, k, n, w2, q2) ==
  /\ q # <<>> => n = 0
  /\ w2 \in Seq(Units) /\ Len(w2) = Len(w) + n
  /\ q2 \in Seq(Units) /\ Len(q2) = Len(q) + 2 - n
  /\ \A i \in 1 .. Len(w) : w2[i] = w[i]
  /\ \A i \in Len(w) + 1 .. Len(w2) : w2[i] = Packet(k)[i - Len(w)]
  /\ \A i \in 1 .. Len(q) : q2[i] = q[i]
  /\ \A i \in Len(q) + 1 .. Len(q2) : q2[i] = Packet(k)[i - Len(q) + n]

LEMMA SendIsSent ==
  ASSUME NEW w \in Seq(Units), NEW q \in Seq(Units), NEW k \in 0 .. Chunks, NEW n \in 0 .. 2,
         q # <<>> => n = 0
  PROVE  Sent(w, q, k, n, w \o SubSeq(Packet(k), 1, n), q \o SubSeq(Packet(k), n + 1, 2))
<1> DEFINE u == Packet(k)
           a == SubSeq(u, 1, n)
           b == SubSeq(u, n + 1, 2)
<1>1. \A i \in 1 .. 2 : u[i] \in Units
  BY PacketUnits
<1> HIDE DEF u
<1>2. a \in Seq(Units) /\ Len(a) = n /\ \A i \in 1 .. n : a[i] = u[i]
  <2>1. \A i \in 1 .. n : u[i] \in Units
    BY <1>1
  <2>2. QED BY <2>1, SubSeqProperties
<1>3. b \in Seq(Units) /\ Len(b) = 2 - n /\ \A i \in 1 .. 2 - n : b[i] = u[i + n]
  <2>1. \A i \in n + 1 .. 2 : u[i] \in Units
    BY <1>1
  <2>2. n + 1 \in Int /\ 2 \in Int
    OBVIOUS
  <2>3. /\ b \in Seq(Units) /\ Len(b) = IF n + 1 <= 2 THEN 2 - (n + 1) + 1 ELSE 0
        /\ \A i \in 1 .. 2 - (n + 1) + 1 : b[i] = u[n + 1 + i - 1]
    BY <2>1, <2>2, SubSeqProperties
  <2>4. QED BY <2>3
<1> HIDE DEF a, b
<1>4. /\ w \o a \in Seq(Units) /\ Len(w \o a) = Len(w) + n
      /\ \A i \in 1 .. Len(w) + n : (w \o a)[i] = IF i <= Len(w) THEN w[i] ELSE a[i - Len(w)]
  BY <1>2, ConcatProperties
<1>5. /\ q \o b \in Seq(Units) /\ Len(q \o b) = Len(q) + (2 - n)
      /\ \A i \in 1 .. Len(q) + (2 - n) : (q \o b)[i] = IF i <= Len(q) THEN q[i] ELSE b[i - Len(q)]
  BY <1>3, ConcatProperties
<1>6. Len(w) \in Nat /\ Len(q) \in Nat
  OBVIOUS
<1>7. /\ \A i \in 1 .. Len(w) : (w \o a)[i] = w[i]
      /\ \A i \in Len(w) + 1 .. Len(w) + n : (w \o a)[i] = u[i - Len(w)]
  BY <1>2, <1>4, <1>6
<1>8. /\ \A i \in 1 .. Len(q) : (q \o b)[i] = q[i]
      /\ \A i \in Len(q) + 1 .. Len(q) + (2 - n) : (q \o b)[i] = u[i - Len(q) + n]
  BY <1>3, <1>5, <1>6
<1>9. Len(q \o b) = Len(q) + 2 - n
  BY <1>5, <1>6
<1>10. Sent(w, q, k, n, w \o a, q \o b)
  BY <1>4, <1>5, <1>7, <1>8, <1>9 DEF Sent, u
<1>11. QED BY <1>10 DEF a, b, u

(* A packet is sent: the next one, behind all units there are.             *)
LEMMA SentInOrder ==
  ASSUME NEW w \in Seq(Units), NEW q \in Seq(Units), NEW f \in Seq(0 .. Chunks),
         NEW k \in 0 .. Chunks, NEW n \in 0 .. 2, NEW w2, NEW q2,
         Sent(w, q, k, n, w2, q2), InOrder(w, f, k), NamesWait(w, q, f),
         k = 0 => w = <<>> /\ q = <<>>
  PROVE  InOrder(w2, f, k + 1) /\ NamesWait(w2, q2, f)
<1>1. /\ Len(w) \in Nat /\ Len(q) \in Nat /\ Len(f) \in Nat /\ k \in Nat
      /\ \A i \in 1 .. Len(w) : w[i].packet \in Nat
      /\ \A i \in 1 .. Len(f) : f[i] \in Nat
  <2>1. Len(q) \in Nat /\ k \in Nat
    OBVIOUS
  <2>2. QED BY <2>1, Values, Zenon
<1>2. \A i \in 1 .. 2 : Packet(k)[i].packet = k
  BY PacketUnits
<1>3. \A i \in 1 .. Len(w2) :
        \/ i \in 1 .. Len(w) /\ w2[i] = w[i]
        \/ i > Len(w) /\ n > 0 /\ q = <<>> /\ w2[i].packet = k
  <2> SUFFICES ASSUME NEW i \in 1 .. Len(w2)
               PROVE  \/ i \in 1 .. Len(w) /\ w2[i] = w[i]
                      \/ i > Len(w) /\ n > 0 /\ q = <<>> /\ w2[i].packet = k
    OBVIOUS
  <2>1. Len(w2) = Len(w) + n /\ (q # <<>> => n = 0)
    BY DEF Sent
  <2>2. CASE i <= Len(w)
    <3>1. i \in 1 .. Len(w)
      BY <1>1, <2>1, <2>2
    <3>2. QED BY <3>1 DEF Sent
  <2>3. CASE i > Len(w)
    <3>1. i \in Len(w) + 1 .. Len(w2) /\ i - Len(w) \in 1 .. 2 /\ n > 0
      BY <1>1, <2>1, <2>3
    <3>2. w2[i] = Packet(k)[i - Len(w)]
      BY <3>1 DEF Sent
    <3>3. QED BY <1>2, <2>1, <2>3, <3>1, <3>2
  <2>4. QED BY <1>1, <2>1, <2>2, <2>3
<1>4. \A i \in 1 .. Len(q2) :
        \/ i \in 1 .. Len(q) /\ q2[i] = q[i]
        \/ i > Len(q) /\ q2[i].packet = k
  <2> SUFFICES ASSUME NEW i \in 1 .. Len(q2)
               PROVE  \/ i \in 1 .. Len(q) /\ q2[i] = q[i]
                      \/ i > Len(q) /\ q2[i].packet = k
    OBVIOUS
  <2>1. Len(q2) = Len(q) + 2 - n
    BY DEF Sent
  <2>2. CASE i <= Len(q)
    <3>1. i \in 1 .. Len(q)
      BY <1>1, <2>1, <2>2
    <3>2. QED BY <3>1 DEF Sent
  <2>3. CASE i > Len(q)
    <3>1. i \in Len(q) + 1 .. Len(q2) /\ i - Len(q) + n \in 1 .. 2
      BY <1>1, <2>1, <2>3
    <3>2. q2[i] = Packet(k)[i - Len(q) + n]
      BY <3>1 DEF Sent
    <3>3. QED BY <1>2, <2>3, <3>1, <3>2
  <2>4. QED BY <1>1, <2>1, <2>2, <2>3
<1>5. /\ \A i \in 1 .. Len(w2) : w2[i].packet < k + 1
      /\ \A i \in 1 .. Len(f) : f[i] < k + 1
  <2>1. \A i \in 1 .. Len(w) : w[i].packet < k
    BY DEF InOrder
  <2>2. ASSUME NEW i \in 1 .. Len(w2) PROVE w2[i].packet < k + 1
    <3>1. \/ i \in 1 .. Len(w) /\ w2[i] = w[i]
          \/ w2[i].packet = k
      BY <1>3
    <3>2. CASE w2[i].packet = k
      BY <1>1, <3>2
    <3>3. CASE i \in 1 .. Len(w) /\ w2[i] = w[i]
      <4>1. w[i].packet < k /\ w[i].packet \in Nat
        BY <1>1, <2>1, <3>3
      <4>2. w[i].packet < k + 1
        BY ONLY <4>1, <1>1
      <4>3. QED BY <3>3, <4>2
    <3>4. QED BY <3>1, <3>2, <3>3
  <2>3. \A i \in 1 .. Len(f) : f[i] < k + 1
    BY <1>1 DEF InOrder
  <2>4. QED BY <2>2, <2>3
<1>6. ASSUME NEW i \in 1 .. Len(w2), NEW j \in 1 .. Len(w2), i < j
      PROVE  w2[i].packet <= w2[j].packet
  <2>1. CASE j \in 1 .. Len(w)
    <3>1. i \in 1 .. Len(w) /\ w2[i] = w[i] /\ w2[j] = w[j]
      BY <1>1, <1>6, <2>1 DEF Sent
    <3>2. w[i].packet <= w[j].packet
      BY <1>6, <2>1, <3>1 DEF InOrder
    <3>3. QED BY <3>1, <3>2
  <2>2. CASE j \notin 1 .. Len(w)
    <3>1. w2[j].packet = k
      BY <1>3, <2>2
    <3>2. CASE i \in 1 .. Len(w)
      <4>1. w2[i].packet \in Nat /\ w2[i].packet < k
        BY <1>1, <3>2 DEF InOrder, Sent
      <4>2. QED BY <1>1, <3>1, <4>1
    <3>3. CASE i \notin 1 .. Len(w)
      BY <1>1, <1>3, <3>1, <3>3
    <3>4. QED BY <3>2, <3>3
  <2>3. QED BY <2>1, <2>2
<1>7. ASSUME NEW i \in 1 .. Len(f), NEW j \in 1 .. Len(w2), f[i] # 0
      PROVE  f[i] <= w2[j].packet
  <2>1. CASE j \in 1 .. Len(w) /\ w2[j] = w[j]
    BY <1>7, <2>1 DEF InOrder
  <2>2. CASE w2[j].packet = k
    <3>1. f[i] < k /\ f[i] \in Nat
      BY <1>1 DEF InOrder
    <3>2. QED BY <1>1, <2>2, <3>1
  <2>3. QED BY <1>3, <2>1, <2>2
<1>8. InOrder(w2, f, k + 1)
  BY <1>1, <1>5, <1>6, <1>7 DEF InOrder
<1>9. ASSUME NEW i \in 1 .. Len(q2), q2[i].packet = 0
      PROVE  /\ \A j \in 1 .. Len(w2) : w2[j].packet = 0
             /\ \A j \in 1 .. Len(f) : f[j] = 0
             /\ \A j \in 1 .. i - 1 : q2[j].packet = 0
  <2>1. CASE k = 0
    <3>1. Len(w) = 0 /\ Len(q) = 0
      BY <2>1
    <3>2. /\ \A j \in 1 .. Len(w2) : w2[j].packet = 0
          /\ \A j \in 1 .. Len(q2) : q2[j].packet = 0
      BY <1>3, <1>4, <2>1, <3>1
    <3>3. \A j \in 1 .. Len(f) : f[j] = 0
      BY <1>1, <2>1 DEF InOrder
    <3>4. 1 .. i - 1 \subseteq 1 .. Len(q2)
      BY DEF Sent
    <3>5. QED BY <3>2, <3>3, <3>4
  <2>2. CASE k # 0
    <3>1. i \in 1 .. Len(q) /\ q2[i] = q[i] /\ q[i].packet = 0
      BY <1>4, <1>9, <2>2
    <3>2. /\ \A j \in 1 .. Len(w) : w[j].packet = 0
          /\ \A j \in 1 .. Len(f) : f[j] = 0
          /\ \A j \in 1 .. i - 1 : q[j].packet = 0
      BY <3>1 DEF NamesWait
    <3>3. q # <<>>
      BY <3>1
    <3>4. \A j \in 1 .. Len(w2) : w2[j].packet = 0
      BY <1>3, <3>2, <3>3
    <3>5. ASSUME NEW j \in 1 .. i - 1 PROVE q2[j].packet = 0
      <4>1. j \in 1 .. Len(q) /\ q2[j] = q[j]
        BY <1>1, <3>1 DEF Sent
      <4>2. QED BY <3>2, <4>1
    <3>6. QED BY <3>2, <3>4, <3>5
  <2>3. QED BY <2>1, <2>2
<1>10. NamesWait(w2, q2, f)
  BY <1>9 DEF NamesWait
<1>11. QED BY <1>8, <1>10

LEMMA SentNoName ==
  ASSUME NEW w \in Seq(Units), NEW q \in Seq(Units), NEW k \in 0 .. Chunks, k # 0,
         NEW n \in 0 .. 2, NEW w2, NEW q2, Sent(w, q, k, n, w2, q2), NoName(w), NoName(q)
  PROVE  NoName(w2) /\ NoName(q2)
<1>1. Len(w) \in Nat /\ Len(q) \in Nat
  OBVIOUS
<1>2. Len(w2) = Len(w) + n /\ Len(q2) = Len(q) + 2 - n
  BY DEF Sent
<1>3. \A i \in 1 .. 2 : Packet(k)[i].packet # 0
  BY PacketUnits
<1>4. ASSUME NEW i \in 1 .. Len(w2) PROVE w2[i].packet # 0
  <2>1. CASE i <= Len(w)
    <3>1. i \in 1 .. Len(w) /\ w2[i] = w[i]
      BY <1>1, <2>1 DEF Sent
    <3>2. QED BY <3>1 DEF NoName
  <2>2. CASE i > Len(w)
    <3>1. i \in Len(w) + 1 .. Len(w2) /\ i - Len(w) \in 1 .. 2
      BY <1>1, <1>2, <2>2
    <3>2. w2[i] = Packet(k)[i - Len(w)]
      BY <3>1 DEF Sent
    <3>3. QED BY <1>3, <3>1, <3>2
  <2>3. QED BY <1>1, <2>1, <2>2
<1>5. ASSUME NEW i \in 1 .. Len(q2) PROVE q2[i].packet # 0
  <2>1. CASE i <= Len(q)
    <3>1. i \in 1 .. Len(q) /\ q2[i] = q[i]
      BY <1>1, <2>1 DEF Sent
    <3>2. QED BY <3>1 DEF NoName
  <2>2. CASE i > Len(q)
    <3>1. i \in Len(q) + 1 .. Len(q2) /\ i - Len(q) + n \in 1 .. 2
      BY <1>1, <1>2, <2>2
    <3>2. q2[i] = Packet(k)[i - Len(q) + n]
      BY <3>1 DEF Sent
    <3>3. QED BY <1>3, <3>1, <3>2
  <2>3. QED BY <1>1, <2>1, <2>2
<1>6. QED BY <1>4, <1>5 DEF NoName

(* A packet that is sent at once.                                          *)
LEMMA SentWhole ==
  ASSUME NEW w \in Seq(Units), NEW k \in 0 .. Chunks, NEW w2, NEW q2,
         Sent(w, <<>>, k, 2, w2, q2)
  PROVE  /\ q2 = <<>> /\ w2 \in Seq(Units) /\ Len(w2) = Len(w) + 2
         /\ \A i \in 1 .. Len(w) : w2[i] = w[i]
         /\ w2[Len(w) + 1] = Packet(k)[1] /\ w2[Len(w) + 2] = Packet(k)[2]
         /\ w2[Len(w) + 1].packet = k /\ w2[Len(w) + 2].part = "body"
<1>1. Len(w) \in Nat
  OBVIOUS
<1>2. w2 \in Seq(Units) /\ Len(w2) = Len(w) + 2 /\ q2 \in Seq(Units) /\ Len(q2) = 0
  BY <1>1 DEF Sent
<1>3. q2 = <<>>
  BY <1>2, EmptySeq
<1>4. \A i \in 1 .. Len(w) : w2[i] = w[i]
  BY DEF Sent
<1>5. /\ \A i \in Len(w) + 1 .. Len(w2) : w2[i] = Packet(k)[i - Len(w)]
      /\ Len(w) + 1 \in Len(w) + 1 .. Len(w2) /\ Len(w) + 1 - Len(w) = 1
      /\ Len(w) + 2 \in Len(w) + 1 .. Len(w2) /\ Len(w) + 2 - Len(w) = 2
  BY <1>1, <1>2 DEF Sent
<1>6. w2[Len(w) + 1] = Packet(k)[1] /\ w2[Len(w) + 2] = Packet(k)[2]
  BY <1>5
<1>7. Packet(k)[1].packet = k /\ Packet(k)[2].part = "body"
  BY PacketUnits, Zenon
<1>8. QED BY <1>2, <1>3, <1>4, <1>6, <1>7

LEMMA SentOnce ==
  ASSUME NEW w \in Seq(Units), NEW f \in Seq(0 .. Chunks),
         NEW k \in 0 .. Chunks, NEW w2, NEW q2,
         Sent(w, <<>>, k, 2, w2, q2), InOrder(w, f, k), Once(w, f)
  PROVE  Once(w2, f)
<1>1. /\ Len(w) \in Nat /\ Len(f) \in Nat /\ k \in Nat
      /\ \A i \in 1 .. Len(w) : w[i].packet \in Nat
      /\ \A i \in 1 .. Len(f) : f[i] \in Nat
  BY Values
<1>2. \A i \in 1 .. Len(w2) :
        \/ i \in 1 .. Len(w) /\ w2[i] = w[i]
        \/ i = Len(w) + 1 /\ w2[i].packet = k
        \/ i = Len(w) + 2 /\ w2[i].part = "body"
  BY <1>1, SentWhole
<1>3. ASSUME NEW i \in 1 .. Len(w2), NEW j \in 1 .. Len(w2),
             i < j, w2[i].part = "head", w2[j].part = "head"
      PROVE  w2[i].packet < w2[j].packet
  <2>1. i \in 1 .. Len(w) /\ w2[i] = w[i]
    BY <1>1, <1>2, <1>3
  <2>2. CASE j \in 1 .. Len(w) /\ w2[j] = w[j]
    <3>1. w[i].packet < w[j].packet
      BY <1>3, <2>1, <2>2 DEF Once
    <3>2. QED BY <2>1, <2>2, <3>1
  <2>3. CASE w2[j].packet = k
    <3>1. w[i].packet < k
      BY <2>1 DEF InOrder
    <3>2. QED BY <2>1, <2>3, <3>1
  <2>4. QED BY <1>2, <1>3, <2>2, <2>3
<1>4. ASSUME NEW i \in 1 .. Len(f), NEW j \in 1 .. Len(w2), f[i] # 0, w2[j].part = "head"
      PROVE  f[i] < w2[j].packet
  <2>1. CASE j \in 1 .. Len(w) /\ w2[j] = w[j]
    BY <1>4, <2>1 DEF Once
  <2>2. CASE w2[j].packet = k
    BY <2>2 DEF InOrder
  <2>3. QED BY <1>2, <1>4, <2>1, <2>2
<1>5. QED BY <1>3, <1>4 DEF Once

LEMMA SentExact ==
  ASSUME NEW w \in Seq(Units), NEW f \in Seq(0 .. Chunks),
         NEW k \in 0 .. Chunks, NEW r \in 0 .. k, NEW w2, NEW q2,
         Sent(w, <<>>, k, 2, w2, q2), Exact(w, f, k, r)
  PROVE  Exact(w2, f, k + 1, r)
<1>1. Len(w) \in Nat /\ k \in Nat /\ r \in Nat /\ Len(w) = 2 * (k - r)
  BY DEF Exact
<1>2. /\ \A i \in 1 .. Len(w) : w2[i] = w[i]
      /\ w2[Len(w) + 1] = Packet(k)[1] /\ w2[Len(w) + 2] = Packet(k)[2]
      /\ Len(w2) = Len(w) + 2
  BY SentWhole
<1>3. ASSUME NEW i \in 1 .. k + 1 - r
      PROVE  /\ w2[2 * i - 1] = Packet(r + i - 1)[1]
             /\ w2[2 * i] = Packet(r + i - 1)[2]
  <2>1. CASE i <= k - r
    <3>1. i \in 1 .. k - r /\ 2 * i - 1 \in 1 .. Len(w) /\ 2 * i \in 1 .. Len(w)
      BY <1>1, <2>1
    <3>2. QED BY <1>2, <3>1 DEF Exact
  <2>2. CASE i = k - r + 1
    <3>1. 2 * i - 1 = Len(w) + 1 /\ 2 * i = Len(w) + 2 /\ r + i - 1 = k
      BY <1>1, <2>2
    <3>2. QED BY <1>2, <3>1
  <2>3. QED BY <1>1, <2>1, <2>2
<1>4. Len(w2) = 2 * (k + 1 - r) /\ r <= k + 1
  BY <1>1, <1>2
<1>5. IF r = 0 THEN f = <<>> ELSE Len(f) = r - 1
  BY DEF Exact
<1>6. QED BY ONLY <1>3, <1>4, <1>5 DEF Exact

LEMMA SentNameFirst ==
  ASSUME NEW w \in Seq(Units), NEW q \in Seq(Units), NEW k \in 0 .. Chunks,
         NEW n \in 0 .. 2, NEW w2, NEW q2, Sent(w, q, k, n, w2, q2),
         NameFirst(w, q), w = <<>> /\ q = <<>> => k = 0
  PROVE  NameFirst(w2, q2) /\ ~(w2 = <<>> /\ q2 = <<>>)
<1>1. Len(w) \in Nat /\ Len(q) \in Nat
  OBVIOUS
<1>2. CASE w # <<>>
  <2>1. 1 \in 1 .. Len(w) /\ 1 \in 1 .. Len(w2)
    BY <1>1, <1>2, EmptySeq DEF Sent
  <2>2. w2[1] = w[1] /\ w2 # <<>>
    BY <2>1 DEF Sent
  <2>3. QED BY <1>2, <2>2 DEF NameFirst
<1>3. CASE w = <<>> /\ q # <<>>
  <2>1. n = 0 /\ Len(w2) = 0 /\ w2 \in Seq(Units)
    BY <1>3 DEF Sent
  <2>2. w2 = <<>>
    BY <2>1, EmptySeq
  <2>3. 1 \in 1 .. Len(q) /\ 1 \in 1 .. Len(q2)
    BY <1>1, <1>3, EmptySeq DEF Sent
  <2>4. q2[1] = q[1] /\ q2 # <<>>
    BY <2>3 DEF Sent
  <2>5. QED BY <1>3, <2>2, <2>4 DEF NameFirst
<1>4. CASE w = <<>> /\ q = <<>>
  <2>1. k = 0 /\ Len(w) = 0 /\ Len(q) = 0
    BY <1>4
  <2>2. CASE n = 0
    <3>1. Len(w2) = 0 /\ w2 \in Seq(Units)
      BY <2>1, <2>2 DEF Sent
    <3>2. w2 = <<>>
      BY <3>1, EmptySeq
    <3>3. 1 \in 1 .. Len(q2) /\ 1 \in Len(q) + 1 .. Len(q2) /\ 1 - Len(q) + n = 1
      BY <2>1, <2>2 DEF Sent
    <3>4. q2[1] = Packet(k)[1] /\ q2 # <<>>
      BY <3>3 DEF Sent
    <3>5. QED BY <2>1, <3>2, <3>4 DEF NameFirst
  <2>3. CASE n # 0
    <3>1. 1 \in 1 .. Len(w2) /\ 1 \in Len(w) + 1 .. Len(w2) /\ 1 - Len(w) = 1
      BY <2>1, <2>3 DEF Sent
    <3>2. w2[1] = Packet(k)[1] /\ w2 # <<>>
      BY <3>1 DEF Sent
    <3>3. QED BY <2>1, <3>2 DEF NameFirst
  <2>4. QED BY <2>2, <2>3
<1>5. QED BY <1>2, <1>3, <1>4

(* The parts of a stream that alternates, for a stream that is seen as one *)
(* sequence.                                                               *)
AlternatesAsOne(s, whole) ==
  /\ s # <<>> => s[1].part = "head" /\ (whole => s[Len(s)].part = "body")
  /\ \A i \in 1 .. Len(s) - 1 : s[i].part # s[i + 1].part

LEMMA SentAlternates ==
  ASSUME NEW w \in Seq(Units), NEW q \in Seq(Units), NEW k \in 0 .. Chunks,
         NEW n \in 0 .. 2, NEW w2, NEW q2, Sent(w, q, k, n, w2, q2),
         Alternates(w, q, TRUE)
  PROVE  Alternates(w2, q2, TRUE)
<1> DEFINE s == w \o q
           s2 == w2 \o q2
<1>1. /\ s \in Seq(Units) /\ Len(s) = Len(w) + Len(q)
      /\ \A i \in 1 .. Len(w) + Len(q) : s[i] = IF i <= Len(w) THEN w[i] ELSE q[i - Len(w)]
  BY ConcatProperties
<1>2. /\ s2 \in Seq(Units) /\ Len(s2) = Len(w2) + Len(q2)
      /\ \A i \in 1 .. Len(w2) + Len(q2) : s2[i] = IF i <= Len(w2) THEN w2[i] ELSE q2[i - Len(w2)]
  BY ConcatProperties DEF Sent
<1>3. AlternatesAsOne(s, TRUE)
  BY DEF Alternates, AlternatesAsOne
<1> HIDE DEF s, s2
<1>4. /\ Len(w) \in Nat /\ Len(q) \in Nat /\ Len(w2) = Len(w) + n /\ Len(q2) = Len(q) + 2 - n
      /\ n = 0 \/ Len(q) = 0
      /\ Len(s2) = Len(s) + 2
  BY <1>1, <1>2 DEF Sent
<1>5. ASSUME NEW i \in 1 .. Len(s) PROVE s2[i] = s[i]
  <2>1. CASE i <= Len(w)
    <3>1. i \in 1 .. Len(w) /\ i <= Len(w2)
      BY <1>4, <2>1
    <3>2. i \in 1 .. Len(w) + Len(q) /\ i \in 1 .. Len(w2) + Len(q2)
      BY <1>1, <1>4, <3>1
    <3>3. s2[i] = w2[i] /\ s[i] = w[i]
      BY <1>1, <1>2, <2>1, <3>1, <3>2
    <3>4. w2[i] = w[i]
      BY <3>1 DEF Sent
    <3>5. QED BY <3>3, <3>4
  <2>2. CASE i > Len(w)
    <3>1. n = 0 /\ i - Len(w) \in 1 .. Len(q)
      BY <1>1, <1>4, <2>2
    <3>2. s2[i] = q2[i - Len(w)] /\ s[i] = q[i - Len(w)]
      BY <1>1, <1>2, <1>4, <2>2, <3>1
    <3>3. q2[i - Len(w)] = q[i - Len(w)]
      BY <3>1 DEF Sent
    <3>4. QED BY <3>2, <3>3
  <2>3. QED BY <1>1, <1>4, <2>1, <2>2
<1>6. ASSUME NEW j \in 1 .. 2 PROVE s2[Len(s) + j] = Packet(k)[j]
  <2>1. CASE j <= n
    <3>1. /\ Len(q) = 0 /\ Len(s) + j \in Len(w) + 1 .. Len(w2)
          /\ Len(s) + j - Len(w) = j /\ Len(s) + j \in 1 .. Len(w2) + Len(q2)
      BY <1>1, <1>4, <2>1
    <3>2. s2[Len(s) + j] = w2[Len(s) + j]
      BY <1>2, <3>1
    <3>3. QED BY <3>1, <3>2 DEF Sent
  <2>2. CASE j > n
    <3>1. /\ Len(s) + j \in 1 .. Len(w2) + Len(q2) /\ ~(Len(s) + j <= Len(w2))
          /\ Len(s) + j - Len(w2) \in Len(q) + 1 .. Len(q2)
          /\ (Len(s) + j - Len(w2)) - Len(q) + n = j
      <4>1. Len(s) = Len(w) + Len(q)
        BY <1>1
      <4>2. Len(w2) = Len(w) + n /\ Len(w) \in Nat /\ Len(q) \in Nat
            /\ Len(q2) = Len(q) + 2 - n /\ (n = 0 \/ Len(q) = 0)
        BY <1>4
      <4>3. Len(s) + j - Len(w2) = Len(q) + j - n
        BY ONLY <4>1, <4>2, j \in 1 .. 2, n \in 0 .. 2
      <4>4. QED BY ONLY <2>2, <4>1, <4>2, <4>3, j \in 1 .. 2, n \in 0 .. 2
    <3>2. \A i \in 1 .. Len(w2) + Len(q2) : ~(i <= Len(w2)) => s2[i] = q2[i - Len(w2)]
      BY <1>2
    <3>3. s2[Len(s) + j] = q2[Len(s) + j - Len(w2)]
      <4>1. PICK i \in 1 .. Len(w2) + Len(q2) : i = Len(s) + j
        BY <3>1
      <4>2. s2[i] = q2[i - Len(w2)]
        BY <3>1, <3>2, <4>1
      <4>3. QED BY <4>1, <4>2
    <3>4. q2[Len(s) + j - Len(w2)] = Packet(k)[j]
      BY <3>1 DEF Sent
    <3>5. QED BY <3>3, <3>4
  <2>3. QED BY <2>1, <2>2
<1>7. s2[Len(s) + 1].part = "head" /\ s2[Len(s) + 2].part = "body"
  <2>1. s2[Len(s) + 1] = Packet(k)[1] /\ s2[Len(s) + 2] = Packet(k)[2]
    BY <1>6
  <2>2. Packet(k)[1].part = "head" /\ Packet(k)[2].part = "body"
    BY PacketUnits
  <2>3. QED BY <2>1, <2>2
<1>8. Len(s) \in Nat /\ (s = <<>> <=> Len(s) = 0)
  BY <1>1, EmptySeq
<1>9. AlternatesAsOne(s2, TRUE)
  <2>1. s2[1].part = "head"
    <3>1. CASE Len(s) = 0
      BY <1>7, <3>1
    <3>2. CASE Len(s) # 0
      BY <1>3, <1>5, <1>8, <3>2 DEF AlternatesAsOne
    <3>3. QED BY <3>1, <3>2
  <2>2. s2[Len(s2)].part = "body"
    BY <1>4, <1>7
  <2>3. ASSUME NEW i \in 1 .. Len(s2) - 1 PROVE s2[i].part # s2[i + 1].part
    <3>1. CASE i < Len(s)
      <4>1. i \in 1 .. Len(s) - 1 /\ i \in 1 .. Len(s) /\ i + 1 \in 1 .. Len(s)
        BY <1>8, <3>1
      <4>2. QED BY <1>3, <1>5, <4>1 DEF AlternatesAsOne
    <3>2. CASE i = Len(s)
      <4>1. s[i].part = "body" /\ s2[i] = s[i]
        BY <1>3, <1>5, <1>8, <3>2 DEF AlternatesAsOne
      <4>2. QED BY <1>7, <3>2, <4>1
    <3>3. CASE i = Len(s) + 1
      <4>1. i + 1 = Len(s) + 2
        BY <1>8, <3>3
      <4>2. QED BY <1>7, <3>3, <4>1
    <3>4. i < Len(s) \/ i = Len(s) \/ i = Len(s) + 1
      BY <1>4, <1>8
    <3>5. QED BY <3>1, <3>2, <3>3, <3>4
  <2>4. QED BY <2>1, <2>2, <2>3 DEF AlternatesAsOne
<1>10. QED BY <1>9 DEF AlternatesAsOne, Alternates, s2

(* w2 and q2 are w and q after the first pending unit was sent as one of   *)
(* packet current.                                                         *)
Moved(w, q, current, w2, q2) ==
  /\ w2 \in Seq(Units) /\ Len(w2) = Len(w) + 1
  /\ \A i \in 1 .. Len(w) : w2[i] = w[i]
  /\ w2[Len(w) + 1].packet = current /\ w2[Len(w) + 1].part = q[1].part
  /\ q[1].packet = 0 => current = 0 /\ w2[Len(w) + 1] = q[1]
  /\ q2 \in Seq(Units) /\ Len(q2) = Len(q) - 1
  /\ \A i \in 1 .. Len(q2) : q2[i] = q[i + 1]

LEMMA TransmitMoves ==
  ASSUME NEW w \in Seq(Units), NEW q \in Seq(Units), q # <<>>, NEW k \in 1 .. Chunks + 1,
         NEW current, current = IF Head(q).packet = 0 THEN 0 ELSE k - 1
  PROVE  Moved(w, q, current, Append(w, [Head(q) EXCEPT !.packet = current]), Tail(q))
<1> DEFINE u == [Head(q) EXCEPT !.packet = current]
<1>1. /\ Tail(q) \in Seq(Units) /\ Len(Tail(q)) = Len(q) - 1
      /\ \A i \in 1 .. Len(Tail(q)) : Tail(q)[i] = q[i + 1]
      /\ Head(q) = q[1] /\ q[1] \in Units
  BY HeadTailProperties
<1>2. current \in 0 .. Chunks
  BY NetworkAssumption
<1>3. /\ u \in Units /\ u.packet = current /\ u.part = q[1].part
      /\ q[1].packet = 0 => current = 0 /\ u = q[1]
  BY <1>1, <1>2 DEF Units
<1> HIDE DEF u
<1>4. /\ Append(w, u) \in Seq(Units) /\ Len(Append(w, u)) = Len(w) + 1
      /\ \A i \in 1 .. Len(w) : Append(w, u)[i] = w[i]
      /\ Append(w, u)[Len(w) + 1] = u
  BY <1>3
<1>5. Moved(w, q, current, Append(w, u), Tail(q))
  BY <1>1, <1>3, <1>4 DEF Moved
<1>6. QED BY <1>5 DEF u

LEMMA NothingBeforeName ==
  ASSUME NEW w, NEW q, NEW f, NamesWait(w, q, f), NEW i \in 1 .. Len(q), q[i].packet = 0
  PROVE  /\ \A j \in 1 .. Len(w) : w[j].packet = 0
         /\ \A j \in 1 .. Len(f) : f[j] = 0
         /\ \A j \in 1 .. i - 1 : q[j].packet = 0
  BY Zenon DEF NamesWait

LEMMA MovedInOrder ==
  ASSUME NEW w \in Seq(Units), NEW q \in Seq(Units), q # <<>>, NEW f \in Seq(0 .. Chunks),
         NEW k \in 1 .. Chunks + 1, NEW current, current = IF q[1].packet = 0 THEN 0 ELSE k - 1,
         NEW w2, NEW q2, Moved(w, q, current, w2, q2),
         InOrder(w, f, k), NamesWait(w, q, f)
  PROVE  InOrder(w2, f, k) /\ NamesWait(w2, q2, f)
<1>1. /\ Len(w) \in Nat /\ Len(q) \in Nat \ {0} /\ Len(f) \in Nat /\ k \in Nat
      /\ \A i \in 1 .. Len(w) : w[i].packet \in Nat
      /\ \A i \in 1 .. Len(f) : f[i] \in Nat
  BY Values, EmptySeq
<1>2. \A i \in 1 .. Len(w2) :
        \/ i \in 1 .. Len(w) /\ w2[i] = w[i]
        \/ i = Len(w) + 1 /\ w2[i].packet = current
  BY <1>1 DEF Moved
<1>3. CASE q[1].packet = 0
  <2>1. /\ \A i \in 1 .. Len(w) : w[i].packet = 0
        /\ \A i \in 1 .. Len(f) : f[i] = 0
        /\ current = 0
    <3>1. current = 0 /\ 1 \in 1 .. Len(q)
      BY <1>1, <1>3
    <3>2. QED BY <1>3, <3>1, NothingBeforeName
  <2>2. \A i \in 1 .. Len(w2) : w2[i].packet = 0
    BY <1>2, <2>1
  <2>3. InOrder(w2, f, k)
    BY <1>1, <2>1, <2>2 DEF InOrder
  <2>4. ASSUME NEW i \in 1 .. Len(q2), q2[i].packet = 0, NEW j \in 1 .. i - 1
        PROVE  q2[j].packet = 0
    <3>1. /\ i + 1 \in 1 .. Len(q) /\ q2[i] = q[i + 1]
          /\ j + 1 \in 1 .. (i + 1) - 1 /\ j \in 1 .. Len(q2) /\ q2[j] = q[j + 1]
      BY <1>1 DEF Moved
    <3>2. q[i + 1].packet = 0
      BY <2>4, <3>1
    <3>3. \A l \in 1 .. (i + 1) - 1 : q[l].packet = 0
      BY <3>1, <3>2, NothingBeforeName
    <3>4. QED BY <3>1, <3>3
  <2>5. QED BY <2>1, <2>2, <2>3, <2>4 DEF NamesWait
<1>4. CASE q[1].packet # 0
  <2>1. current = k - 1 /\ k - 1 \in Nat
    BY <1>1, <1>4
  <2>2. \A i \in 1 .. Len(w2) : w2[i].packet < k
    BY <1>1, <1>2, <2>1 DEF InOrder
  <2>3. ASSUME NEW i \in 1 .. Len(w2), NEW j \in 1 .. Len(w2), i < j
        PROVE  w2[i].packet <= w2[j].packet
    <3>1. i \in 1 .. Len(w) /\ w2[i] = w[i]
      BY <1>1, <2>3 DEF Moved
    <3>2. CASE j \in 1 .. Len(w) /\ w2[j] = w[j]
      BY <2>3, <3>1, <3>2 DEF InOrder
    <3>3. CASE w2[j].packet = current
      <4>1. w[i].packet < k /\ w[i].packet \in Nat
        BY <1>1, <3>1 DEF InOrder
      <4>2. QED BY <1>1, <2>1, <3>1, <3>3, <4>1
    <3>4. QED BY <1>2, <3>2, <3>3
  <2>4. ASSUME NEW i \in 1 .. Len(f), NEW j \in 1 .. Len(w2), f[i] # 0
        PROVE  f[i] <= w2[j].packet
    <3>1. CASE j \in 1 .. Len(w) /\ w2[j] = w[j]
      BY <2>4, <3>1 DEF InOrder
    <3>2. CASE w2[j].packet = current
      <4>1. f[i] < k /\ f[i] \in Nat
        BY <1>1 DEF InOrder
      <4>2. QED BY <1>1, <2>1, <3>2, <4>1
    <3>3. QED BY <1>2, <3>1, <3>2
  <2>5. InOrder(w2, f, k)
    BY <2>2, <2>3, <2>4 DEF InOrder
  <2>6. ASSUME NEW i \in 1 .. Len(q2) PROVE q2[i].packet # 0
    <3>1. i + 1 \in 1 .. Len(q) /\ q2[i] = q[i + 1] /\ 1 \in 1 .. (i + 1) - 1
      BY <1>1 DEF Moved
    <3>2. QED BY <1>4, <3>1 DEF NamesWait
  <2>7. QED BY <2>5, <2>6 DEF NamesWait
<1>5. QED BY <1>3, <1>4

LEMMA MovedNameFirst ==
  ASSUME NEW w \in Seq(Units), NEW q \in Seq(Units), q # <<>>, NEW current,
         NEW w2, NEW q2, Moved(w, q, current, w2, q2), NameFirst(w, q)
  PROVE  NameFirst(w2, q2) /\ w2 # <<>>
<1>1. Len(w) \in Nat /\ w2 # <<>>
  BY DEF Moved
<1>2. CASE w # <<>>
  <2>1. 1 \in 1 .. Len(w)
    BY <1>1, <1>2, EmptySeq
  <2>2. w2[1] = w[1]
    BY <2>1 DEF Moved
  <2>3. QED BY <1>1, <1>2, <2>2 DEF NameFirst
<1>3. CASE w = <<>>
  <2>1. q[1] = Packet(0)[1] /\ Packet(0)[1].packet = 0
    <3>1. 0 \in 0 .. Chunks
      BY NetworkAssumption
    <3>2. Packet(0)[1].packet = 0
      BY <3>1, PacketUnits
    <3>3. QED BY <1>3, <3>2 DEF NameFirst
  <2>2. Len(w) + 1 = 1
    BY <1>3
  <2>3. w2[1] = q[1]
    BY <2>1, <2>2 DEF Moved
  <2>4. QED BY <1>1, <2>1, <2>3 DEF NameFirst
<1>4. QED BY <1>2, <1>3

LEMMA MovedNoName ==
  ASSUME NEW w \in Seq(Units), NEW q \in Seq(Units), NEW current, current # 0,
         NEW w2, NEW q2, Moved(w, q, current, w2, q2), NoName(w), NoName(q)
  PROVE  NoName(w2) /\ NoName(q2)
<1>1. Len(w) \in Nat /\ Len(q) \in Nat
  OBVIOUS
<1>2. ASSUME NEW i \in 1 .. Len(w2) PROVE w2[i].packet # 0
  <2>1. i \in 1 .. Len(w) \/ i = Len(w) + 1
    BY <1>1 DEF Moved
  <2>2. CASE i \in 1 .. Len(w)
    BY <2>2 DEF Moved, NoName
  <2>3. CASE i = Len(w) + 1
    BY <2>3 DEF Moved
  <2>4. QED BY <2>1, <2>2, <2>3
<1>3. ASSUME NEW i \in 1 .. Len(q2) PROVE q2[i].packet # 0
  <2>1. i + 1 \in 1 .. Len(q) /\ q2[i] = q[i + 1]
    BY <1>1 DEF Moved
  <2>2. QED BY <2>1 DEF NoName
<1>4. QED BY <1>2, <1>3 DEF NoName

LEMMA MovedAlternates ==
  ASSUME NEW w \in Seq(Units), NEW q \in Seq(Units), q # <<>>, NEW current,
         NEW w2, NEW q2, Moved(w, q, current, w2, q2),
         NEW whole \in BOOLEAN, Alternates(w, q, whole)
  PROVE  Alternates(w2, q2, whole)
<1> DEFINE s == w \o q
           s2 == w2 \o q2
<1>1. /\ s \in Seq(Units) /\ Len(s) = Len(w) + Len(q)
      /\ \A i \in 1 .. Len(w) + Len(q) : s[i] = IF i <= Len(w) THEN w[i] ELSE q[i - Len(w)]
  BY ConcatProperties
<1>2. /\ s2 \in Seq(Units) /\ Len(s2) = Len(w2) + Len(q2)
      /\ \A i \in 1 .. Len(w2) + Len(q2) : s2[i] = IF i <= Len(w2) THEN w2[i] ELSE q2[i - Len(w2)]
  BY ConcatProperties DEF Moved
<1>3. AlternatesAsOne(s, whole)
  BY DEF Alternates, AlternatesAsOne
<1> HIDE DEF s, s2
<1>4. /\ Len(w) \in Nat /\ Len(q) \in Nat /\ Len(w2) = Len(w) + 1 /\ Len(q2) = Len(q) - 1
      /\ Len(q) # 0 /\ Len(s2) = Len(s)
  BY <1>1, <1>2, EmptySeq DEF Moved
<1>5. ASSUME NEW i \in 1 .. Len(s) PROVE s2[i].part = s[i].part
  <2>1. CASE i <= Len(w)
    <3>1. i \in 1 .. Len(w) /\ i <= Len(w2)
      BY <1>4, <2>1
    <3>2. s2[i] = w2[i] /\ s[i] = w[i] /\ w2[i] = w[i]
      BY <1>1, <1>2, <1>4, <2>1, <3>1 DEF Moved
    <3>3. QED BY <3>2
  <2>2. CASE i = Len(w) + 1
    <3>1. i <= Len(w2) /\ ~(i <= Len(w)) /\ i - Len(w) = 1
      BY <1>4, <2>2
    <3>2. s2[i] = w2[Len(w) + 1] /\ s[i] = q[1]
      BY <1>1, <1>2, <1>4, <2>2, <3>1
    <3>3. QED BY <3>2 DEF Moved
  <2>3. CASE i > Len(w) + 1
    <3>1. /\ i \in 1 .. Len(w2) + Len(q2) /\ ~(i <= Len(w2)) /\ ~(i <= Len(w))
          /\ i - Len(w2) \in 1 .. Len(q2) /\ (i - Len(w2)) + 1 = i - Len(w)
      BY <1>1, <1>4, <2>3
    <3>2. s2[i] = q2[i - Len(w2)] /\ s[i] = q[i - Len(w)]
      BY <1>1, <1>2, <1>4, <3>1
    <3>3. q2[i - Len(w2)] = q[i - Len(w)]
      BY <3>1 DEF Moved
    <3>4. QED BY <3>2, <3>3
  <2>4. QED BY <1>1, <1>4, <2>1, <2>2, <2>3
<1>6. s # <<>> /\ Len(s) \in Nat /\ Len(s) # 0
  BY <1>1, <1>4
<1>7. s2[1].part = "head" /\ (whole => s2[Len(s2)].part = "body")
  <2>1. 1 \in 1 .. Len(s) /\ Len(s) \in 1 .. Len(s) /\ Len(s2) = Len(s)
    BY <1>4, <1>6
  <2>2. QED BY <1>3, <1>5, <1>6, <2>1 DEF AlternatesAsOne
<1>8. ASSUME NEW i \in 1 .. Len(s2) - 1 PROVE s2[i].part # s2[i + 1].part
  <2>1. i \in 1 .. Len(s) - 1 /\ i \in 1 .. Len(s) /\ i + 1 \in 1 .. Len(s)
    BY <1>4, <1>6
  <2>2. QED BY <1>3, <1>5, <2>1 DEF AlternatesAsOne
<1>9. AlternatesAsOne(s2, whole)
  BY <1>7, <1>8 DEF AlternatesAsOne
<1>10. QED BY <1>9 DEF AlternatesAsOne, Alternates, s2

(* w2 is w after n units were read.                                        *)
Dropped(w, n, w2) ==
  /\ w2 \in Seq(Units) /\ Len(w2) = Len(w) - n
  /\ \A i \in 1 .. Len(w2) : w2[i] = w[i + n]

LEMMA ReadDrops ==
  ASSUME NEW w \in Seq(Units), NEW n \in 1 .. Len(w)
  PROVE  Dropped(w, n, SubSeq(w, n + 1, Len(w)))
<1>1. Len(w) \in Nat
  OBVIOUS
<1>2. n + 1 \in Int /\ Len(w) \in Int /\ \A i \in n + 1 .. Len(w) : w[i] \in Units
  BY <1>1, ElementOfSeq
<1>3. /\ SubSeq(w, n + 1, Len(w)) \in Seq(Units)
      /\ Len(SubSeq(w, n + 1, Len(w))) =
           IF n + 1 <= Len(w) THEN Len(w) - (n + 1) + 1 ELSE 0
      /\ \A i \in 1 .. Len(w) - (n + 1) + 1 :
           SubSeq(w, n + 1, Len(w))[i] = w[n + 1 + i - 1]
  BY <1>2, SubSeqProperties
<1> DEFINE w2 == SubSeq(w, n + 1, Len(w))
<1> HIDE DEF w2
<1>4. w2 \in Seq(Units) /\ Len(w2) = Len(w) - n
  BY <1>1, <1>3 DEF w2
<1>5. ASSUME NEW i \in 1 .. Len(w2) PROVE w2[i] = w[i + n]
  <2>1. i \in 1 .. Len(w) - (n + 1) + 1 /\ n + 1 + i - 1 = i + n
    BY <1>1, <1>4
  <2>2. QED BY <1>3, <2>1 DEF w2
<1>6. Dropped(w, n, w2)
  BY <1>4, <1>5 DEF Dropped
<1>7. QED BY <1>6 DEF w2

(* What reading leaves to be read, behind the first unit.                  *)
LEMMA DroppedUnits ==
  ASSUME NEW w \in Seq(Units), NEW n \in 1 .. Len(w), NEW w2, Dropped(w, n, w2)
  PROVE  /\ Len(w2) \in Nat /\ 1 \in 1 .. Len(w)
         /\ \A i \in 1 .. Len(w2) : i + n \in 1 .. Len(w) /\ 1 < i + n /\ w2[i] = w[i + n]
  BY DEF Dropped

LEMMA DroppedInOrder ==
  ASSUME NEW w \in Seq(Units), NEW n \in 1 .. Len(w), NEW f \in Seq(0 .. Chunks),
         NEW k \in Nat, NEW w2, Dropped(w, n, w2), InOrder(w, f, k)
  PROVE  InOrder(w2, f, k) /\ InOrder(w2, <<>>, k)
<1>1. \A i \in 1 .. Len(w2) : i + n \in 1 .. Len(w) /\ w2[i] = w[i + n]
  BY DroppedUnits
<1>2. \A i \in 1 .. Len(w2) : w2[i].packet < k
  BY <1>1 DEF InOrder
<1>3. ASSUME NEW i \in 1 .. Len(w2), NEW j \in 1 .. Len(w2), i < j
      PROVE  w2[i].packet <= w2[j].packet
  <2>1. i + n < j + n
    BY <1>3
  <2>2. w[i + n].packet <= w[j + n].packet
    BY <1>1, <2>1 DEF InOrder
  <2>3. QED BY <1>1, <2>2
<1>4. ASSUME NEW i \in 1 .. Len(f), NEW j \in 1 .. Len(w2), f[i] # 0
      PROVE  f[i] <= w2[j].packet
  <2>1. f[i] <= w[j + n].packet
    BY <1>1, <1>4 DEF InOrder
  <2>2. QED BY <1>1, <2>1
<1>5. InOrder(w2, f, k)
  BY <1>2, <1>3, <1>4 DEF InOrder
<1>6. 1 .. Len(<<>>) = {}
  OBVIOUS
<1>7. InOrder(w2, <<>>, k)
  BY <1>2, <1>3, <1>6 DEF InOrder
<1>8. QED BY <1>5, <1>7

(* A block that is written: that of the first unit, or one of no chunk.    *)
LEMMA WrittenInOrder ==
  ASSUME NEW w \in Seq(Units), NEW n \in 1 .. Len(w), NEW f \in Seq(0 .. Chunks),
         NEW k \in Nat, NEW w2, Dropped(w, n, w2), InOrder(w, f, k),
         NEW b \in 0 .. Chunks, b # 0 => b = w[1].packet, k > 0
  PROVE  InOrder(w2, Append(f, b), k)
<1> DEFINE g == Append(f, b)
<1>1. /\ Len(g) = Len(f) + 1 /\ Len(f) \in Nat
      /\ \A i \in 1 .. Len(f) : g[i] = f[i]
      /\ g[Len(f) + 1] = b
  OBVIOUS
<1> HIDE DEF g
<1>2. \A i \in 1 .. Len(g) :
        (i \in 1 .. Len(f) /\ g[i] = f[i]) \/ (i = Len(f) + 1 /\ g[i] = b)
  BY <1>1
<1>3. InOrder(w2, f, k)
  BY DroppedInOrder
<1>4. 1 \in 1 .. Len(w) /\ \A i \in 1 .. Len(w2) : i + n \in 1 .. Len(w) /\ 1 < i + n /\ w2[i] = w[i + n]
  BY DroppedUnits
<1>5. b # 0 => b < k
  BY <1>4 DEF InOrder
<1>6. \A i \in 1 .. Len(g) : g[i] < k
  BY <1>2, <1>3, <1>5 DEF InOrder
<1>7. ASSUME NEW i \in 1 .. Len(g), NEW j \in 1 .. Len(w2), g[i] # 0
      PROVE  g[i] <= w2[j].packet
  <2>1. CASE i \in 1 .. Len(f) /\ g[i] = f[i]
    BY <1>3, <1>7, <2>1 DEF InOrder
  <2>2. CASE g[i] = b
    <3>1. w[1].packet <= w[j + n].packet
      BY <1>4 DEF InOrder
    <3>2. QED BY <1>4, <1>7, <2>2, <3>1
  <2>3. QED BY <1>2, <2>1, <2>2
<1>8. ASSUME NEW i \in 1 .. Len(g), NEW j \in 1 .. Len(g), i < j, g[i] # 0, g[j] # 0
      PROVE  g[i] <= g[j]
  <2>1. i \in 1 .. Len(f) /\ g[i] = f[i]
    BY <1>1, <1>8
  <2>2. CASE j \in 1 .. Len(f) /\ g[j] = f[j]
    BY <1>8, <2>1, <2>2 DEF InOrder
  <2>3. CASE g[j] = b
    <3>1. f[i] <= w[1].packet
      BY <1>4, <1>8, <2>1 DEF InOrder
    <3>2. QED BY <1>8, <2>1, <2>3, <3>1
  <2>4. QED BY <1>2, <2>2, <2>3
<1>9. InOrder(w2, g, k)
  BY <1>3, <1>6, <1>7, <1>8 DEF InOrder
<1>10. QED BY <1>9 DEF g

LEMMA DroppedNamesWait ==
  ASSUME NEW w \in Seq(Units), NEW q, NEW n \in 1 .. Len(w), NEW f \in Seq(0 .. Chunks),
         NEW w2, Dropped(w, n, w2), NamesWait(w, q, f),
         NEW b, b # 0 => b = w[1].packet
  PROVE  NamesWait(w2, q, f) /\ NamesWait(w2, q, <<>>) /\ NamesWait(w2, q, Append(f, b))
<1>1. 1 \in 1 .. Len(w) /\ \A i \in 1 .. Len(w2) : i + n \in 1 .. Len(w) /\ w2[i] = w[i + n]
  BY DroppedUnits
<1>2. ASSUME NEW i \in 1 .. Len(q), q[i].packet = 0
      PROVE  /\ \A j \in 1 .. Len(w2) : w2[j].packet = 0
             /\ \A j \in 1 .. Len(f) : f[j] = 0
             /\ \A j \in 1 .. Len(<<>>) : <<>>[j] = 0
             /\ \A j \in 1 .. Len(Append(f, b)) : Append(f, b)[j] = 0
             /\ \A j \in 1 .. i - 1 : q[j].packet = 0
  <2>1. /\ \A j \in 1 .. Len(w) : w[j].packet = 0
        /\ \A j \in 1 .. Len(f) : f[j] = 0
        /\ \A j \in 1 .. i - 1 : q[j].packet = 0
    BY <1>2, NothingBeforeName
  <2>2. \A j \in 1 .. Len(w2) : w2[j].packet = 0
    BY <1>1, <2>1
  <2>3. b = 0
    BY <1>1, <2>1
  <2>4. \A j \in 1 .. Len(Append(f, b)) : Append(f, b)[j] = 0
    BY <2>1, <2>3
  <2>5. 1 .. Len(<<>>) = {}
    OBVIOUS
  <2>6. QED BY <2>1, <2>2, <2>4, <2>5
<1>3. QED BY <1>2 DEF NamesWait

LEMMA DroppedOnce ==
  ASSUME NEW w \in Seq(Units), NEW n \in 1 .. Len(w), NEW f \in Seq(0 .. Chunks),
         NEW w2, Dropped(w, n, w2), Once(w, f)
  PROVE  Once(w2, f) /\ Once(w2, <<>>)
<1>1. \A i \in 1 .. Len(w2) : i + n \in 1 .. Len(w) /\ w2[i] = w[i + n]
  BY DroppedUnits
<1>2. ASSUME NEW i \in 1 .. Len(w2), NEW j \in 1 .. Len(w2),
             i < j, w2[i].part = "head", w2[j].part = "head"
      PROVE  w2[i].packet < w2[j].packet
  <2>1. i + n < j + n
    BY <1>2
  <2>2. w[i + n].packet < w[j + n].packet
    BY <1>1, <1>2, <2>1 DEF Once
  <2>3. QED BY <1>1, <2>2
<1>3. ASSUME NEW i \in 1 .. Len(f), NEW j \in 1 .. Len(w2), f[i] # 0, w2[j].part = "head"
      PROVE  f[i] < w2[j].packet
  <2>1. f[i] < w[j + n].packet
    BY <1>1, <1>3 DEF Once
  <2>2. QED BY <1>1, <2>1
<1>4. Once(w2, f)
  BY <1>2, <1>3 DEF Once
<1>5. 1 .. Len(<<>>) = {}
  OBVIOUS
<1>6. Once(w2, <<>>)
  BY <1>2, <1>5 DEF Once
<1>7. QED BY <1>4, <1>6

LEMMA WrittenOnce ==
  ASSUME NEW w \in Seq(Units), NEW n \in 1 .. Len(w), NEW f \in Seq(0 .. Chunks),
         NEW w2, Dropped(w, n, w2), Once(w, f),
         NEW b \in 0 .. Chunks, b # 0 => b = w[1].packet /\ w[1].part = "head"
  PROVE  Once(w2, Append(f, b))
<1> DEFINE g == Append(f, b)
<1>1. /\ Len(g) = Len(f) + 1 /\ Len(f) \in Nat
      /\ \A i \in 1 .. Len(f) : g[i] = f[i]
      /\ g[Len(f) + 1] = b
  OBVIOUS
<1> HIDE DEF g
<1>2. \A i \in 1 .. Len(g) :
        (i \in 1 .. Len(f) /\ g[i] = f[i]) \/ (i = Len(f) + 1 /\ g[i] = b)
  BY <1>1
<1>3. Once(w2, f)
  BY DroppedOnce
<1>4. 1 \in 1 .. Len(w) /\ \A i \in 1 .. Len(w2) : i + n \in 1 .. Len(w) /\ 1 < i + n /\ w2[i] = w[i + n]
  BY DroppedUnits
<1>5. ASSUME NEW i \in 1 .. Len(g), NEW j \in 1 .. Len(w2), g[i] # 0, w2[j].part = "head"
      PROVE  g[i] < w2[j].packet
  <2>1. CASE i \in 1 .. Len(f) /\ g[i] = f[i]
    BY <1>3, <1>5, <2>1 DEF Once
  <2>2. CASE g[i] = b
    <3>1. w[j + n].part = "head" /\ w[1].part = "head" /\ b = w[1].packet
      BY <1>4, <1>5, <2>2
    <3>2. w[1].packet < w[j + n].packet
      BY <1>4, <3>1 DEF Once
    <3>3. QED BY <1>4, <2>2, <3>1, <3>2
  <2>3. QED BY <1>2, <2>1, <2>2
<1>6. ASSUME NEW i \in 1 .. Len(g), NEW j \in 1 .. Len(g), i < j, g[i] # 0, g[j] # 0
      PROVE  g[i] < g[j]
  <2>1. i \in 1 .. Len(f) /\ g[i] = f[i]
    BY <1>1, <1>6
  <2>2. CASE j \in 1 .. Len(f) /\ g[j] = f[j]
    BY <1>6, <2>1, <2>2 DEF Once
  <2>3. CASE g[j] = b
    <3>1. f[i] < w[1].packet
      BY <1>4, <1>6, <2>1, <2>3 DEF Once
    <3>2. QED BY <1>6, <2>1, <2>3, <3>1
  <2>4. QED BY <1>2, <2>2, <2>3
<1>7. Once(w2, g)
  BY <1>3, <1>5, <1>6 DEF Once
<1>8. QED BY <1>7 DEF g

(* A packet that one read returns.                                         *)
LEMMA DroppedExact ==
  ASSUME NEW w \in Seq(Units), 2 <= Len(w), NEW f \in Seq(0 .. Chunks),
         NEW k \in Nat, NEW r \in 0 .. k, NEW w2, Dropped(w, 2, w2), Exact(w, f, k, r)
  PROVE  /\ r + 1 \in 0 .. k /\ w[1] = Packet(r)[1] /\ w[2] = Packet(r)[2]
         /\ \A g : Len(g) = r => Exact(w2, g, k, r + 1)
<1>1. Len(w) \in Nat /\ r \in Nat /\ Len(w) = 2 * (k - r)
  BY DEF Exact
<1>2. r + 1 \in 0 .. k /\ r + 1 <= k
  BY <1>1
<1>3. w[1] = Packet(r)[1] /\ w[2] = Packet(r)[2]
  <2>1. 1 \in 1 .. k - r /\ 2 * 1 - 1 = 1 /\ 2 * 1 = 2 /\ r + 1 - 1 = r
    BY <1>1
  <2>2. w[2 * 1 - 1] = Packet(r + 1 - 1)[1] /\ w[2 * 1] = Packet(r + 1 - 1)[2]
    BY <2>1, Zenon DEF Exact
  <2>3. QED BY <2>1, <2>2
<1>4. Len(w2) = 2 * (k - (r + 1))
  BY <1>1 DEF Dropped
<1>5. ASSUME NEW i \in 1 .. k - (r + 1)
      PROVE  w2[2 * i - 1] = Packet(r + 1 + i - 1)[1] /\ w2[2 * i] = Packet(r + 1 + i - 1)[2]
  <2>1. /\ i + 1 \in 1 .. k - r
        /\ 2 * (i + 1) - 1 = 2 * i - 1 + 2 /\ 2 * (i + 1) = 2 * i + 2
        /\ r + (i + 1) - 1 = r + 1 + i - 1
        /\ 2 * i - 1 \in 1 .. Len(w2) /\ 2 * i \in 1 .. Len(w2)
    BY <1>1, <1>4
  <2>2. w[2 * (i + 1) - 1] = Packet(r + (i + 1) - 1)[1] /\ w[2 * (i + 1)] = Packet(r + (i + 1) - 1)[2]
    BY <2>1, Zenon DEF Exact
  <2>3. w2[2 * i - 1] = w[2 * i - 1 + 2] /\ w2[2 * i] = w[2 * i + 2]
    BY <2>1, Zenon DEF Dropped
  <2>4. QED BY <2>1, <2>2, <2>3
<1>6. ASSUME NEW g, Len(g) = r PROVE Exact(w2, g, k, r + 1)
  <2>1. r + 1 # 0 /\ Len(g) = (r + 1) - 1
    BY <1>1, <1>6
  <2>2. QED BY ONLY <1>2, <1>4, <1>5, <2>1 DEF Exact
<1>7. QED BY <1>2, <1>3, <1>6

LEMMA DroppedAlternates ==
  ASSUME NEW w \in Seq(Units), 2 <= Len(w), NEW q \in Seq(Units),
         NEW w2, Dropped(w, 2, w2), NEW whole \in BOOLEAN, Alternates(w, q, whole)
  PROVE  Alternates(w2, q, whole)
<1> DEFINE s == w \o q
           s2 == w2 \o q
<1>1. /\ s \in Seq(Units) /\ Len(s) = Len(w) + Len(q)
      /\ \A i \in 1 .. Len(w) + Len(q) : s[i] = IF i <= Len(w) THEN w[i] ELSE q[i - Len(w)]
  BY ConcatProperties
<1>2. /\ s2 \in Seq(Units) /\ Len(s2) = Len(w2) + Len(q)
      /\ \A i \in 1 .. Len(w2) + Len(q) : s2[i] = IF i <= Len(w2) THEN w2[i] ELSE q[i - Len(w2)]
  BY ConcatProperties DEF Dropped
<1>3. AlternatesAsOne(s, whole)
  BY DEF Alternates, AlternatesAsOne
<1> HIDE DEF s, s2
<1>4. /\ Len(w) \in Nat /\ Len(q) \in Nat /\ Len(w2) = Len(w) - 2 /\ Len(s2) = Len(s) - 2
      /\ Len(s) \in Nat /\ Len(s2) \in Nat
  BY <1>1, <1>2 DEF Dropped
<1>5. ASSUME NEW i \in 1 .. Len(s2) PROVE i + 2 \in 1 .. Len(s) /\ s2[i] = s[i + 2]
  <2>1. CASE i <= Len(w2)
    <3>1. i \in 1 .. Len(w2) /\ i + 2 <= Len(w) /\ i + 2 \in 1 .. Len(s)
      BY <1>1, <1>4, <2>1
    <3>2. s2[i] = w2[i] /\ s[i + 2] = w[i + 2]
      BY <1>1, <1>2, <1>4, <2>1, <3>1
    <3>3. QED BY <3>1, <3>2 DEF Dropped
  <2>2. CASE i > Len(w2)
    <3>1. /\ ~(i <= Len(w2)) /\ ~(i + 2 <= Len(w)) /\ i + 2 \in 1 .. Len(s)
          /\ (i + 2) - Len(w) = i - Len(w2)
      BY <1>1, <1>4, <2>2
    <3>2. \A j \in 1 .. Len(s) : ~(j <= Len(w)) => s[j] = q[j - Len(w)]
      BY <1>1
    <3>3. s2[i] = q[i - Len(w2)] /\ s[i + 2] = q[(i + 2) - Len(w)]
      BY <1>2, <3>1, <3>2
    <3>4. QED BY <3>1, <3>3
  <2>3. QED BY <1>2, <1>4, <2>1, <2>2
<1>6. s2 # <<>> => s2[1].part = "head" /\ (whole => s2[Len(s2)].part = "body")
  <2> SUFFICES ASSUME s2 # <<>>
               PROVE  s2[1].part = "head" /\ (whole => s2[Len(s2)].part = "body")
    OBVIOUS
  <2>1. Len(s2) # 0 /\ s # <<>>
    BY <1>1, <1>2, <1>4, EmptySeq
  <2>2. /\ 1 \in 1 .. Len(s2) /\ Len(s2) \in 1 .. Len(s2) /\ Len(s2) + 2 = Len(s)
        /\ 1 \in 1 .. Len(s) - 1 /\ 2 \in 1 .. Len(s) - 1 /\ 3 \in 1 .. Len(s) /\ 2 \in 1 .. Len(s)
    BY <1>4, <2>1
  <2>3. s2[1] = s[3] /\ s2[Len(s2)] = s[Len(s)]
    <3>1. s2[1] = s[1 + 2] /\ s2[Len(s2)] = s[Len(s2) + 2] /\ 1 + 2 = 3
      BY <1>5, <2>2
    <3>2. QED BY <2>2, <3>1
  <2>4. s[1].part # s[1 + 1].part /\ s[2].part # s[2 + 1].part /\ s[1].part = "head"
    BY <1>3, <2>1, <2>2, Zenon DEF AlternatesAsOne
  <2>5. s[2].part \in {"head", "body"} /\ s[3].part \in {"head", "body"}
    <3>1. s[2] \in Units /\ s[3] \in Units
      BY <1>1, <2>2, ElementOfSeq
    <3>2. QED BY <3>1 DEF Units
  <2>6. s2[1].part = "head"
    BY <2>3, <2>4, <2>5
  <2>7. whole => s2[Len(s2)].part = "body"
    BY <1>3, <2>1, <2>3 DEF AlternatesAsOne
  <2>8. QED BY <2>6, <2>7
<1>7. ASSUME NEW i \in 1 .. Len(s2) - 1 PROVE s2[i].part # s2[i + 1].part
  <2>1. /\ i \in 1 .. Len(s2) /\ i + 1 \in 1 .. Len(s2) /\ i + 2 \in 1 .. Len(s) - 1
        /\ (i + 1) + 2 = (i + 2) + 1
    BY <1>4
  <2>2. s2[i] = s[i + 2] /\ s2[i + 1] = s[(i + 1) + 2]
    BY <1>5, <2>1, Zenon
  <2>3. s[i + 2].part # s[(i + 2) + 1].part
    BY <1>3, <2>1, Zenon DEF AlternatesAsOne
  <2>4. QED BY <2>1, <2>2, <2>3
<1>8. AlternatesAsOne(s2, whole)
  BY <1>6, <1>7 DEF AlternatesAsOne
<1>9. QED BY <1>8 DEF AlternatesAsOne, Alternates, s2

(* The process of the client, or the server, is gone.                      *)
LEMMA CutStream ==
  ASSUME NEW w \in Seq(Units), NEW q \in Seq(Units), NEW f \in Seq(0 .. Chunks),
         NEW k \in Nat
  PROVE  /\ NamesWait(w, <<>>, f)
         /\ InOrder(w, f, k) => InOrder(<<>>, f, k)
         /\ Once(w, f) => Once(<<>>, f)
         /\ \A whole : Alternates(<<>>, <<>>, whole)
<1>1. 1 .. Len(<<>>) = {}
  OBVIOUS
<1>2. NamesWait(w, <<>>, f)
  BY <1>1 DEF NamesWait
<1>3. InOrder(w, f, k) => InOrder(<<>>, f, k)
  BY <1>1 DEF InOrder
<1>4. Once(w, f) => Once(<<>>, f)
  BY <1>1 DEF Once
<1>5. <<>> \o <<>> = <<>>
  BY EmptySeq, ConcatEmptySeq
<1>6. 1 .. Len(<<>>) - 1 = {}
  OBVIOUS
<1>7. \A whole : Alternates(<<>>, <<>>, whole)
  BY <1>5, <1>6 DEF Alternates
<1>8. QED BY <1>2, <1>3, <1>4, <1>7

LEMMA HeadFirst ==
  ASSUME NEW w \in Seq(Units), NEW q \in Seq(Units), w # <<>>, NEW whole \in BOOLEAN,
         Alternates(w, q, whole)
  PROVE  w[1].part = "head"
<1> DEFINE s == w \o q
<1>1. /\ s \in Seq(Units) /\ Len(s) = Len(w) + Len(q)
      /\ \A i \in 1 .. Len(w) + Len(q) : s[i] = IF i <= Len(w) THEN w[i] ELSE q[i - Len(w)]
  BY ConcatProperties
<1>2. s # <<>> => s[1].part = "head"
  BY DEF Alternates
<1> HIDE DEF s
<1>3. Len(w) \in Nat /\ Len(q) \in Nat /\ 1 <= Len(w)
  BY EmptySeq
<1>4. 1 \in 1 .. Len(w) + Len(q) /\ Len(s) # 0
  BY <1>1, <1>3
<1>5. s[1] = w[1] /\ s # <<>>
  BY <1>1, <1>3, <1>4
<1>6. QED BY <1>2, <1>5

LEMMA CutAlternates ==
  ASSUME NEW w \in Seq(Units), NEW q \in Seq(Units), NEW whole \in BOOLEAN,
         Alternates(w, q, whole)
  PROVE  Alternates(w, <<>>, FALSE)
<1> DEFINE s == w \o q
<1>1. /\ s \in Seq(Units) /\ Len(s) = Len(w) + Len(q)
      /\ \A i \in 1 .. Len(w) + Len(q) : s[i] = IF i <= Len(w) THEN w[i] ELSE q[i - Len(w)]
  BY ConcatProperties
<1>2. AlternatesAsOne(s, whole)
  BY DEF Alternates, AlternatesAsOne
<1> HIDE DEF s
<1>3. Len(w) \in Nat /\ Len(q) \in Nat
  OBVIOUS
<1>4. \A i \in 1 .. Len(w) : i \in 1 .. Len(s) /\ s[i] = w[i]
  BY <1>1, <1>3
<1>5. ASSUME w # <<>> PROVE w[1].part = "head"
  <2>1. 1 \in 1 .. Len(w)
    BY <1>3, <1>5, EmptySeq
  <2>2. s # <<>> /\ s[1] = w[1]
    BY <1>1, <1>3, <1>4, <2>1
  <2>3. QED BY <1>2, <2>2 DEF AlternatesAsOne
<1>6. ASSUME NEW i \in 1 .. Len(w) - 1 PROVE w[i].part # w[i + 1].part
  <2>1. i \in 1 .. Len(w) /\ i + 1 \in 1 .. Len(w) /\ i \in 1 .. Len(s) - 1
    BY <1>1, <1>3
  <2>2. s[i] = w[i] /\ s[i + 1] = w[i + 1]
    BY <1>4, <2>1
  <2>3. s[i].part # s[i + 1].part
    BY <1>2, <2>1, Zenon DEF AlternatesAsOne
  <2>4. QED BY <2>2, <2>3
<1>7. w \o <<>> = w
  BY ConcatEmptySeq
<1>8. QED BY <1>5, <1>6, <1>7 DEF Alternates

-----------------------------------------------------------------------------
(* The steps of the clients and the server.                                *)

LEMMA ConnectionTypes ==
  ASSUME TypeOK, NEW c \in Connections
  PROVE  /\ wire[c] \in Seq(Units) /\ pending[c] \in Seq(Units)
         /\ packed[c] \in 0 .. Chunks + 1 /\ packed[c] \in Nat
         /\ FileOf(c) \in Seq(0 .. Chunks)
         /\ inTime[c] \in BOOLEAN /\ packetwise[c] \in BOOLEAN
         /\ c[1] \in Clients
<1>1. FileOf(c) \in Seq(0 .. Chunks)
  <2>1. id[c] # 0 => id[c] \in Ids
    BY DEF TypeOK, Ids
  <2>2. QED BY <2>1, EmptySeq DEF TypeOK, FileOf
<1>2. QED BY <1>1, NetworkAssumption DEF TypeOK, Connections

LEMMA ConnectionFrame ==
  ASSUME NEW c, ConnectionInv(c),
         wire'[c] = wire[c], pending'[c] = pending[c], packed'[c] = packed[c],
         FileOf(c)' = FileOf(c), Gone(c)' = Gone(c),
         inTime'[c] = inTime[c], packetwise'[c] = packetwise[c],
         link'[c] = link[c], writer'[c] = writer[c], c \in nameless' <=> c \in nameless
  PROVE  ConnectionInv(c)'
<1>1. StreamInv(c)'
  BY DEF ConnectionInv, StreamInv
<1>2. NameInv(c)' /\ NamelessInv(c)'
  BY DEF ConnectionInv, NameInv, NamelessInv, Alive
<1>3. OrderInv(c)' /\ PartInv(c)'
  BY DEF ConnectionInv, OrderInv, PartInv
<1>4. ExactInv(c)'
  BY DEF ConnectionInv, ExactInv, Begun, Alive
<1>5. QED BY <1>1, <1>2, <1>3, <1>4 DEF ConnectionInv

LEMMA ClientFrame ==
  ASSUME NEW p, ClientInv(p), clientPc'[p] = clientPc[p], turn'[p] = turn[p],
         \A i \in 1 .. Files : /\ packed'[<<p, i>>] = packed[<<p, i>>]
                               /\ link[<<p, i>>] = "none" => link'[<<p, i>>] = "none"
  PROVE  ClientInv(p)'
  BY DEF ClientInv

(* A crash, when no connection gets an id, a writer or its name.           *)
LEMMA CrashFrame ==
  ASSUME NoNullWriter, server' = "crashed" => server = "crashed", UNCHANGED <<id, writer>>,
         \A c \in nameless : c \in nameless' /\ (packed[c] > 1 => packed'[c] > 1)
  PROVE  NoNullWriter'
  BY DEF NoNullWriter

(* The ids, when a step accepts no connection.                             *)
LEMMA IdFrame ==
  ASSUME IdInv, UNCHANGED <<currentId, id>>,
         \A c \in Connections : /\ link'[c] \in {"none", "backlog"} => link[c] \in {"none", "backlog"}
                                /\ link'[c] \in {"open", "closed"} => link[c] \in {"open", "closed"},
         \A i \in Ids : i >= currentId => files'[i] = files[i]
  PROVE  IdInv'
<1>1. Accepted' = Accepted
  BY DEF Accepted
<1>2. QED BY <1>1 DEF IdInv

LEMMA FiniteConnections == IsFiniteSet(Connections) /\ Cardinality(Connections) \in Nat
<1>1. IsFiniteSet(1 .. Files)
  BY NetworkAssumption, FS_Interval
<1>2. IsFiniteSet(Connections)
  BY <1>1, NetworkAssumption, FS_Product DEF Connections
<1>3. QED BY <1>2, FS_CardinalityType

LEMMA InitInv == Init => IInv
<1> SUFFICES ASSUME Init PROVE IInv
  OBVIOUS
<1>1. TypeOK
  <2>1. <<>> \in Seq(Connections) /\ <<>> \in Seq(Units) /\ <<>> \in Seq(0 .. Chunks)
    BY EmptySeq
  <2>2. /\ Cardinality(Connections) \in Nat
        /\ 1 \in 1 .. Cardinality(Connections) + 1 /\ 0 \in 0 .. Cardinality(Connections)
        /\ 1 \in 1 .. Files + 1 /\ 0 \in 0 .. Chunks + 1
    BY NetworkAssumption, FiniteConnections
  <2>3. QED BY <2>1, <2>2 DEF Init, TypeOK
<1>2. NoNullWriter /\ ServerEndsForAReason
  BY DEF Init, NoNullWriter, ServerEndsForAReason
<1>3. BacklogInv
  <2>1. 1 .. Len(backlog) = {}
    BY DEF Init
  <2>2. QED BY <2>1 DEF BacklogInv
<1>4. IdInv
  <2>1. Accepted = {}
    BY DEF Init, Accepted
  <2>2. QED BY <2>1, FS_EmptySet DEF Init, IdInv, Ids
<1>5. ASSUME NEW p \in Clients PROVE ClientInv(p)
  BY NetworkAssumption DEF Init, ClientInv, Connections
<1>6. ASSUME NEW c \in Connections PROVE ConnectionInv(c)
  <2>1. /\ wire[c] = <<>> /\ pending[c] = <<>> /\ packed[c] = 0 /\ FileOf(c) = <<>>
        /\ link[c] = "none" /\ packetwise[c] /\ writer[c] = "none" /\ c \notin nameless
    BY <1>6 DEF Init, FileOf
  <2>2. 1 .. Len(<<>>) = {}
    OBVIOUS
  <2>3. StreamInv(c) /\ NameInv(c) /\ NamelessInv(c) /\ ExactInv(c)
    BY <2>1, <2>2 DEF StreamInv, NameInv, NamelessInv, ExactInv, Alive
  <2>4. OrderInv(c)
    BY <2>1, <2>2 DEF OrderInv, InOrder, NamesWait, Once
  <2>5. PartInv(c)
    <3>1. <<>> \in Seq(Units) /\ <<>> \in Seq(0 .. Chunks) /\ 0 \in Nat
      BY EmptySeq
    <3>2. QED BY <2>1, <3>1, CutStream DEF PartInv
  <2>6. QED BY <2>3, <2>4, <2>5 DEF ConnectionInv
<1>7. QED BY <1>1, <1>2, <1>3, <1>4, <1>5, <1>6 DEF IInv

LEMMA EndInv ==
  ASSUME IInv, NEW p \in Clients, End(p)
  PROVE  IInv'
<1>1. /\ clientPc' = [clientPc EXCEPT ![p] = "ended"]
      /\ pending' = [c \in Connections |-> IF c[1] = p THEN <<>> ELSE pending[c]]
      /\ UNCHANGED <<turn, packed, nameless, server, accepting, currentId, backlog, wire, link,
                     id, writer, files, inTime, packetwise>>
  BY DEF End, serverVars, handlerVars
<1>2. TypeOK'
  BY <1>1, EmptySeq DEF IInv, TypeOK
<1>3. NoNullWriter' /\ ServerEndsForAReason' /\ BacklogInv' /\ IdInv'
  BY <1>1, IdFrame, CrashFrame DEF IInv, ServerEndsForAReason, BacklogInv
<1>4. ASSUME NEW r \in Clients PROVE ClientInv(r)'
  <2>1. CASE r # p
    BY <1>1, <2>1, ClientFrame DEF IInv, TypeOK
  <2>2. CASE r = p
    BY <1>1, <2>2 DEF IInv, TypeOK, ClientInv
  <2>3. QED BY <2>1, <2>2
<1>5. ASSUME NEW c \in Connections PROVE ConnectionInv(c)'
  <2>1. c[1] \in Clients /\ FileOf(c)' = FileOf(c) /\ ConnectionInv(c)
    BY <1>1 DEF IInv, Connections, FileOf
  <2>2. CASE c[1] # p
    <3>1. Gone(c)' = Gone(c) /\ pending'[c] = pending[c]
      BY <1>1, <2>1, <2>2 DEF IInv, TypeOK, Gone
    <3>2. QED BY <1>1, <2>1, <3>1, ConnectionFrame
  <2>3. CASE c[1] = p
    <3>1. Gone(c)' /\ pending'[c] = <<>>
      BY <1>1, <2>1, <2>3 DEF IInv, TypeOK, Gone
    <3>2. StreamInv(c)'
      BY <1>1, <2>1, <3>1 DEF ConnectionInv, StreamInv
    <3>3. NameInv(c)' /\ NamelessInv(c)'
      BY <1>1, <2>1, <3>1 DEF ConnectionInv, NameInv, NamelessInv, NoName, NameFirst, Alive
    <3>4. OrderInv(c)'
      BY <1>1, <2>1, <3>1, ConnectionTypes, CutStream DEF IInv, ConnectionInv, OrderInv
    <3>5. PartInv(c)'
      <4>1. packetwise[c] => Alternates(wire[c], <<>>, FALSE)
        <5>1. (~Gone(c)) \in BOOLEAN
          BY DEF Gone
        <5>2. QED BY <2>1, <5>1, ConnectionTypes, CutAlternates DEF IInv, ConnectionInv, PartInv
      <4>2. QED BY <1>1, <3>1, <4>1 DEF PartInv
    <3>6. ExactInv(c)'
      BY <1>1, <2>1 DEF ConnectionInv, ExactInv, Begun, Alive
    <3>7. QED BY <3>2, <3>3, <3>4, <3>5, <3>6 DEF ConnectionInv
  <2>4. QED BY <2>2, <2>3
<1>6. QED BY <1>2, <1>3, <1>4, <1>5 DEF IInv

LEMMA ConnectInv ==
  ASSUME IInv, NEW p \in Clients, Connect(p)
  PROVE  IInv'
<1> DEFINE d == <<p, turn[p]>>
<1>1. /\ d \in Connections /\ turn[p] \in 1 .. Files /\ Files \in Nat
      /\ packed[d] = 0 /\ link[d] = "none" /\ id[d] = 0
  <2>1. clientPc[p] = "connect" /\ turn[p] <= Files
    BY DEF IInv, ClientInv, Connect
  <2>2. turn[p] \in 1 .. Files /\ Files \in Nat
    BY <2>1, NetworkAssumption DEF IInv, TypeOK
  <2>3. d \in Connections
    BY <2>2 DEF Connections
  <2>4. packed[d] = 0 /\ link[d] = "none"
    BY <2>1, <2>2 DEF IInv, ClientInv
  <2>5. QED BY <2>2, <2>3, <2>4 DEF IInv, IdInv
<1>2. /\ clientPc[p] = "connect"
      /\ UNCHANGED <<packed, nameless, server, accepting, currentId, pending, wire, id, writer,
                     files, inTime, packetwise>>
      /\ \/ link' = [link EXCEPT ![d] = "backlog"] /\ backlog' = Append(backlog, d)
         \/ UNCHANGED <<link, backlog>>
      /\ \/ turn' = [turn EXCEPT ![p] = @ + 1] /\ UNCHANGED clientPc
         \/ turn' = [turn EXCEPT ![p] = 1] /\ clientPc' = [clientPc EXCEPT ![p] = "run"]
      /\ turn'[p] \in 1 .. Files
      /\ clientPc'[p] = "connect" => turn'[p] = turn[p] + 1
  <2>1. turn \in [Clients -> 1 .. Files + 1] /\ clientPc \in [Clients -> {"connect", "run", "ended"}]
    BY DEF IInv, TypeOK
  <2>2. QED BY <1>1, <2>1 DEF Connect, streamVars, handlerVars
<1> HIDE DEF d
<1>3. TypeOK'
  <2>1. /\ link' \in [Connections -> {"none", "backlog", "open", "closed", "reset"}]
        /\ backlog' \in Seq(Connections)
    <3>1. backlog \in Seq(Connections) /\ Append(backlog, d) \in Seq(Connections)
      BY <1>1 DEF IInv, TypeOK
    <3>2. link' \in [Connections -> {"none", "backlog", "open", "closed", "reset"}]
      BY <1>2 DEF IInv, TypeOK
    <3>3. QED BY <1>2, <3>1, <3>2
  <2>2. turn[p] + 1 \in 1 .. Files + 1 /\ 1 \in 1 .. Files + 1
    BY <1>1
  <2>3. /\ turn' \in [Clients -> 1 .. Files + 1]
        /\ clientPc' \in [Clients -> {"connect", "run", "ended"}]
    BY <1>2, <2>2 DEF IInv, TypeOK
  <2>4. QED BY <1>2, <2>1, <2>3 DEF IInv, TypeOK
<1>4. \A c \in Connections : link'[c] = link[c] \/ (c = d /\ link'[c] = "backlog")
  BY <1>2 DEF IInv, TypeOK
<1>5. NoNullWriter' /\ ServerEndsForAReason'
  BY <1>2, CrashFrame DEF IInv, ServerEndsForAReason
<1>6. IdInv'
  BY <1>1, <1>2, <1>4, IdFrame DEF IInv
<1>7. BacklogInv'
  <2>1. CASE UNCHANGED <<link, backlog>>
    BY <2>1 DEF IInv, BacklogInv
  <2>2. CASE link' = [link EXCEPT ![d] = "backlog"] /\ backlog' = Append(backlog, d)
    <3>1. /\ Len(backlog') = Len(backlog) + 1 /\ Len(backlog) \in Nat
          /\ \A i \in 1 .. Len(backlog) : backlog'[i] = backlog[i] /\ backlog[i] \in Connections
          /\ backlog'[Len(backlog) + 1] = d
      BY <1>1, <2>2, ElementOfSeq DEF IInv, TypeOK
    <3>2. \A i \in 1 .. Len(backlog) : link[backlog[i]] = "backlog" /\ backlog[i] # d
      BY <1>1 DEF IInv, BacklogInv
    <3>3. link'[d] = "backlog"
      BY <1>1, <2>2 DEF IInv, TypeOK
    <3>4. \A i \in 1 .. Len(backlog') : i \in 1 .. Len(backlog) \/ i = Len(backlog) + 1
      BY <3>1
    <3>5. \A i \in 1 .. Len(backlog') : link'[backlog'[i]] = "backlog"
      BY <1>4, <3>1, <3>2, <3>3, <3>4
    <3>6. \A i, j \in 1 .. Len(backlog') : i # j => backlog'[i] # backlog'[j]
      BY <3>1, <3>2, <3>4 DEF IInv, BacklogInv
    <3>7. QED BY <3>5, <3>6 DEF BacklogInv
  <2>3. QED BY <1>2, <2>1, <2>2
<1>8. ASSUME NEW r \in Clients PROVE ClientInv(r)'
  <2>1. \A i \in 1 .. Files : <<r, i>> \in Connections /\ (<<r, i>> = d <=> r = p /\ i = turn[p])
    BY DEF d, Connections
  <2>2. CASE r # p
    <3>1. clientPc'[r] = clientPc[r] /\ turn'[r] = turn[r]
      BY <1>2, <2>2 DEF IInv, TypeOK
    <3>2. \A i \in 1 .. Files : link'[<<r, i>>] = link[<<r, i>>]
      BY <1>4, <2>1, <2>2
    <3>3. QED BY <1>2, <3>1, <3>2, ClientFrame DEF IInv
  <2>3. CASE r = p
    <3>1. SUFFICES ASSUME clientPc'[p] = "connect" PROVE ClientInv(p)'
      BY <2>3 DEF ClientInv
    <3>2. turn'[p] <= Files /\ \A i \in 1 .. Files : i >= turn'[p] => i >= turn[p] /\ i # turn[p]
      BY <1>1, <1>2, <3>1
    <3>3. \A i \in 1 .. Files : packed'[<<p, i>>] = 0
      BY <1>2 DEF IInv, ClientInv
    <3>4. \A i \in 1 .. Files : i >= turn'[p] => link'[<<p, i>>] = "none"
      BY <1>2, <1>4, <2>1, <2>3, <3>2 DEF IInv, ClientInv
    <3>5. QED BY <3>2, <3>3, <3>4 DEF ClientInv
  <2>4. QED BY <2>2, <2>3
<1>9. ASSUME NEW c \in Connections PROVE ConnectionInv(c)'
  <2>1. c[1] \in Clients /\ FileOf(c)' = FileOf(c) /\ ConnectionInv(c)
    BY <1>2 DEF IInv, Connections, FileOf
  <2>2. Gone(c)' = Gone(c)
    BY <1>2, <2>1 DEF IInv, TypeOK, Gone
  <2>3. CASE link'[c] = link[c]
    BY <1>2, <2>1, <2>2, <2>3, ConnectionFrame
  <2>4. CASE c = d /\ link'[c] = "backlog"
    <3>1. wire[c] = <<>> /\ pending[c] = <<>> /\ packed[c] = 0 /\ FileOf(c) = <<>>
      BY <1>1, <2>1, <2>4 DEF ConnectionInv, StreamInv, FileOf
    <3>2. StreamInv(c)'
      BY <1>2, <2>1, <2>2, <2>4 DEF ConnectionInv, StreamInv
    <3>3. NameInv(c)' /\ NamelessInv(c)'
      BY <1>2, <2>1, <3>1 DEF ConnectionInv, NameInv, NamelessInv, NameFirst
    <3>4. OrderInv(c)' /\ PartInv(c)'
      BY <1>2, <2>1, <2>2 DEF ConnectionInv, OrderInv, PartInv
    <3>5. ExactInv(c)'
      <4>1. Exact(<<>>, <<>>, 0, 0) /\ 0 \in 0 .. 0 /\ ~(0 > 0)
        BY DEF Exact
      <4>2. QED BY <1>2, <2>1, <3>1, <4>1 DEF ConnectionInv, ExactInv
    <3>6. QED BY <3>2, <3>3, <3>4, <3>5 DEF ConnectionInv
  <2>5. QED BY <1>4, <2>3, <2>4
<1>10. QED BY <1>3, <1>5, <1>6, <1>7, <1>8, <1>9 DEF IInv

(* A step that changes no more than streams and histories of a connection  *)
(* d, and the turn of a client that runs.                                  *)
LEMMA StreamStepInv ==
  ASSUME IInv, TypeOK', NEW d \in Connections,
         UNCHANGED <<server, currentId, backlog, clientPc, link, id, writer, files>>,
         \A p \in Clients : clientPc[p] = "connect" =>
            turn'[p] = turn[p] /\ \A i \in 1 .. Files : packed'[<<p, i>>] = packed[<<p, i>>],
         \A c \in Connections \ {d} :
            /\ wire'[c] = wire[c] /\ pending'[c] = pending[c] /\ packed'[c] = packed[c]
            /\ inTime'[c] = inTime[c] /\ (c \in nameless' <=> c \in nameless),
         UNCHANGED packetwise,
         d \in nameless => d \in nameless' /\ (packed[d] > 1 => packed'[d] > 1),
         ConnectionInv(d)'
  PROVE  IInv'
<1>0. NoNullWriter'
  BY CrashFrame DEF IInv, TypeOK
<1>1. NoNullWriter' /\ ServerEndsForAReason' /\ BacklogInv' /\ IdInv'
  BY <1>0, IdFrame DEF IInv, ServerEndsForAReason, BacklogInv
<1>2. ASSUME NEW p \in Clients PROVE ClientInv(p)'
  BY DEF IInv, ClientInv
<1>3. ASSUME NEW c \in Connections, c # d PROVE ConnectionInv(c)'
  <2>1. FileOf(c)' = FileOf(c) /\ Gone(c)' = Gone(c) /\ ConnectionInv(c)
    BY DEF FileOf, Gone, IInv
  <2>2. QED BY <1>3, <2>1, ConnectionFrame
<1>4. QED BY <1>1, <1>2, <1>3 DEF IInv

LEMMA WriteInv ==
  ASSUME IInv, NEW p \in Clients, Write(p)
  PROVE  IInv'
<1>0. PICK d \in Connections : d = <<p, turn[p]>>
  BY NetworkAssumption DEF Write, IInv, TypeOK, Connections
<1> DEFINE k == packed[d]
           w == wire[d]
           q == pending[d]
           f == FileOf(d)
<1>1. /\ d[1] = p /\ clientPc[p] = "run" /\ k \in 0 .. Chunks
      /\ packed' = [packed EXCEPT ![d] = k + 1]
      /\ UNCHANGED <<clientPc, turn, nameless, server, accepting, currentId, backlog, link,
                     id, writer, files, packetwise>>
  BY <1>0, NetworkAssumption DEF Write, IInv, TypeOK, Connections, serverVars, handlerVars
<1>2. /\ w \in Seq(Units) /\ q \in Seq(Units) /\ f \in Seq(0 .. Chunks) /\ k \in Nat
      /\ inTime[d] \in BOOLEAN /\ packetwise[d] \in BOOLEAN
  BY <1>1, ConnectionTypes DEF IInv
<1>3. ~Gone(d) /\ ~Gone(d)' /\ FileOf(d)' = f /\ ConnectionInv(d)
  BY <1>1 DEF Gone, FileOf, IInv
<1>4. /\ packed' \in [Connections -> 0 .. Chunks + 1] /\ packed'[d] = k + 1
      /\ k + 1 \in Nat /\ k + 1 # 0 /\ (k # 0 => k + 1 # 1) /\ (k > 1 => k + 1 > 1)
      /\ \A c \in Connections \ {d} : packed'[c] = packed[c]
  BY <1>1, <1>2, NetworkAssumption DEF IInv, TypeOK
<1>5. \A r \in Clients : clientPc[r] = "connect" =>
        turn'[r] = turn[r] /\ \A i \in 1 .. Files : packed'[<<r, i>>] = packed[<<r, i>>]
  <2>1. ASSUME NEW r \in Clients, clientPc[r] = "connect", NEW i \in 1 .. Files
        PROVE  packed'[<<r, i>>] = packed[<<r, i>>]
    <3>1. <<r, i>> \in Connections /\ <<r, i>> # d
      BY <1>1, <2>1 DEF Connections
    <3>2. QED BY <1>4, <3>1
  <2>2. QED BY <1>1, <2>1
<1>6. ~(link[d] = "closed")
  BY <1>3 DEF ConnectionInv, StreamInv
<1>7. CASE ~Alive(d)
  <2>1. UNCHANGED <<wire, pending, inTime>>
    BY <1>0, <1>7 DEF Write, streamVars
  <2>2. TypeOK'
    BY <1>1, <1>4, <2>1 DEF IInv, TypeOK
  <2> HIDE DEF k, w, q, f
  <2>3. StreamInv(d)'
    BY <1>1, <1>3, <1>4, <1>6, <2>1 DEF ConnectionInv, StreamInv
  <2>4. NameInv(d)' /\ NamelessInv(d)' /\ PartInv(d)'
    BY <1>1, <1>3, <1>4, <1>7, <2>1
       DEF ConnectionInv, NameInv, NamelessInv, PartInv, Alive, k
  <2>5. OrderInv(d)'
    <3>1. InOrder(w, f, k + 1)
      <4>1. /\ \A i \in 1 .. Len(w) : w[i].packet \in Nat
            /\ \A i \in 1 .. Len(f) : f[i] \in Nat
        BY <1>2, Values
      <4>2. InOrder(w, f, k)
        BY <1>3 DEF ConnectionInv, OrderInv, w, f, k
      <4>3. /\ \A i \in 1 .. Len(w) : w[i].packet < k + 1
            /\ \A i \in 1 .. Len(f) : f[i] < k + 1
        BY <1>2, <4>1, <4>2 DEF InOrder
      <4>4. QED BY <4>2, <4>3, Zenon DEF InOrder
    <3>2. QED BY <1>1, <1>3, <1>4, <2>1, <3>1 DEF ConnectionInv, OrderInv, w, f
  <2>6. ExactInv(d)'
    BY <1>1, <1>3, <1>6, <1>7, <2>1 DEF ConnectionInv, ExactInv, Alive, f
  <2>7. ConnectionInv(d)'
    BY <2>3, <2>4, <2>5, <2>6 DEF ConnectionInv
  <2>8. QED BY <1>1, <1>4, <1>5, <2>1, <2>2, <2>7, StreamStepInv DEF k
<1>8. CASE Alive(d)
  <2>1. PICK n \in 0 .. 2 :
          /\ q # <<>> => n = 0
          /\ wire' = [wire EXCEPT ![d] = w \o SubSeq(Packet(k), 1, n)]
          /\ pending' = [pending EXCEPT ![d] = q \o SubSeq(Packet(k), n + 1, 2)]
          /\ inTime' = [inTime EXCEPT ![d] = inTime[d] /\ n = 2]
    <3>1. Len(Packet(k)) = 2
      BY <1>1, PacketUnits
    <3>2. QED BY <1>0, <1>8, <3>1 DEF Write, Send
  <2> DEFINE w2 == w \o SubSeq(Packet(k), 1, n)
             q2 == q \o SubSeq(Packet(k), n + 1, 2)
  <2>2. Sent(w, q, k, n, w2, q2)
    BY <1>1, <1>2, <2>1, SendIsSent
  <2>3. /\ wire' = [wire EXCEPT ![d] = w2] /\ pending' = [pending EXCEPT ![d] = q2]
        /\ inTime' = [inTime EXCEPT ![d] = inTime[d] /\ n = 2]
    BY <2>1
  <2> HIDE DEF k, w, q, f, w2, q2
  <2>4. w2 \in Seq(Units) /\ q2 \in Seq(Units)
    BY <2>2 DEF Sent
  <2>5. /\ wire'[d] = w2 /\ pending'[d] = q2 /\ (inTime'[d] => inTime[d] /\ n = 2)
        /\ \A c \in Connections \ {d} : /\ wire'[c] = wire[c] /\ pending'[c] = pending[c]
                                        /\ inTime'[c] = inTime[c]
    BY <1>1, <2>3 DEF IInv, TypeOK
  <2>6. TypeOK'
    <3>1. (inTime[d] /\ n = 2) \in BOOLEAN
      OBVIOUS
    <3>2. /\ wire' \in [Connections -> Seq(Units)] /\ pending' \in [Connections -> Seq(Units)]
          /\ inTime' \in [Connections -> BOOLEAN]
      BY <2>3, <2>4, <3>1 DEF IInv, TypeOK
    <3>3. QED BY <1>1, <1>4, <3>2 DEF IInv, TypeOK
  <2>7. /\ k = 0 => w = <<>> /\ q = <<>>
        /\ inTime[d] => q = <<>>
        /\ InOrder(w, f, k) /\ NamesWait(w, q, f)
        /\ inTime[d] => Once(w, f)
    BY <1>3 DEF ConnectionInv, StreamInv, OrderInv, w, q, f, k
  <2>8. InOrder(w2, f, k + 1) /\ NamesWait(w2, q2, f)
    BY <1>1, <1>2, <2>2, <2>7, SentInOrder
  <2>9. ASSUME inTime'[d]
        PROVE  Sent(w, <<>>, k, 2, w2, q2) /\ Once(w2, f) /\ q2 = <<>>
    <3>1. inTime[d] /\ n = 2 /\ q = <<>>
      BY <2>5, <2>7, <2>9
    <3>2. Sent(w, <<>>, k, 2, w2, q2)
      BY <2>2, <3>1
    <3>3. QED BY <1>1, <1>2, <2>7, <3>1, <3>2, SentOnce, SentWhole
  <2>10. StreamInv(d)'
    BY <1>1, <1>3, <1>4, <1>6, <2>5, <2>9 DEF StreamInv
  <2>11. NameInv(d)'
    <3>1. SUFFICES ASSUME writer[d] = "none", d \notin nameless
                   PROVE  NameFirst(w2, q2) /\ ~(w2 = <<>> /\ q2 = <<>>)
      BY <1>1, <2>5 DEF NameInv
    <3>2. NameFirst(w, q) /\ (w = <<>> /\ q = <<>> => k = 0)
      BY <1>3, <1>8, <3>1 DEF ConnectionInv, NameInv, w, q, k
    <3>3. QED BY <1>1, <1>2, <2>2, <3>2, SentNameFirst
  <2>12. OrderInv(d)'
    BY <1>3, <1>4, <2>5, <2>8, <2>9 DEF OrderInv
  <2>13. PartInv(d)'
    <3>1. SUFFICES ASSUME packetwise[d] PROVE Alternates(w2, q2, TRUE)
      BY <1>1, <1>3, <2>5 DEF PartInv
    <3>2. Alternates(w, q, TRUE)
      BY <1>3, <3>1 DEF ConnectionInv, PartInv, w, q
    <3>3. QED BY <1>1, <1>2, <2>2, <3>2, SentAlternates
  <2>14. ExactInv(d)'
    <3>1. SUFFICES ASSUME inTime'[d], packetwise[d]
                   PROVE  /\ \A i \in 1 .. Len(f) : f[i] = i
                          /\ \E r \in 0 .. k + 1 :
                               Exact(w2, f, k + 1, r) /\ (r > 0 => Begun(d, r))
      BY <1>1, <1>3, <1>4, <2>5 DEF ExactInv, Begun
    <3>2. /\ \A i \in 1 .. Len(f) : f[i] = i
          /\ \E r \in 0 .. k : Exact(w, f, k, r) /\ (r > 0 => Begun(d, r))
      BY <1>3, <1>8, <2>5, <3>1 DEF ConnectionInv, ExactInv, w, f, k
    <3>3. PICK r \in 0 .. k : Exact(w, f, k, r) /\ (r > 0 => Begun(d, r))
      BY <3>2
    <3>4. Exact(w2, f, k + 1, r)
      BY <1>1, <1>2, <2>9, <3>1, <3>3, SentExact
    <3>5. r \in 0 .. k + 1
      BY <1>2
    <3>6. QED BY <3>2, <3>3, <3>4, <3>5
  <2>15. d \in nameless => k + 1 # 0 /\ k + 1 # 1
    BY <1>3, <1>4 DEF ConnectionInv, NamelessInv, k
  <2>16. NamelessInv(d)'
    <3>1. SUFFICES ASSUME d \in nameless
                   PROVE  writer[d] = "none" /\ packetwise[d] /\ NoName(w2) /\ NoName(q2)
      BY <1>1, <1>4, <2>5, <2>15 DEF NamelessInv
    <3>2. /\ k # 0 /\ writer[d] = "none" /\ packetwise[d]
          /\ NoName(w) /\ NoName(q)
      BY <1>3, <1>8, <3>1 DEF ConnectionInv, NamelessInv, k, w, q
    <3>3. NoName(w2) /\ NoName(q2)
      BY <1>1, <1>2, <2>2, <3>2, SentNoName
    <3>4. QED BY <3>2, <3>3
  <2>17. ConnectionInv(d)'
    BY <2>10, <2>11, <2>12, <2>13, <2>14, <2>16 DEF ConnectionInv
  <2>18. QED BY <1>1, <1>4, <1>5, <2>5, <2>6, <2>17, StreamStepInv DEF k
<1>9. QED BY <1>7, <1>8

LEMMA NextTaskInv ==
  ASSUME IInv, NEW p \in Clients, NextTask(p)
  PROVE  IInv'
<1>1. /\ clientPc[p] = "run" /\ turn[p] \in 1 .. Files /\ turn' = [turn EXCEPT ![p] = @ + 1]
      /\ UNCHANGED <<clientPc, packed, nameless, server, accepting, currentId, backlog, wire,
                     pending, link, id, writer, files, inTime, packetwise>>
  BY NetworkAssumption DEF NextTask, IInv, TypeOK, serverVars, streamVars, handlerVars
<1>2. TypeOK'
  <2>1. turn[p] + 1 \in 1 .. Files + 1
    BY <1>1, NetworkAssumption
  <2>2. QED BY <1>1, <2>1 DEF IInv, TypeOK
<1>3. NoNullWriter' /\ ServerEndsForAReason' /\ BacklogInv' /\ IdInv'
  BY <1>1, IdFrame, CrashFrame DEF IInv, ServerEndsForAReason, BacklogInv
<1>4. ASSUME NEW r \in Clients PROVE ClientInv(r)'
  BY <1>1 DEF IInv, TypeOK, ClientInv
<1>5. ASSUME NEW c \in Connections PROVE ConnectionInv(c)'
  <2>1. FileOf(c)' = FileOf(c) /\ Gone(c)' = Gone(c) /\ ConnectionInv(c)
    BY <1>1 DEF FileOf, Gone, IInv
  <2>2. QED BY <1>1, <2>1, ConnectionFrame
<1>6. QED BY <1>2, <1>3, <1>4, <1>5 DEF IInv

LEMMA NameFailsInv ==
  ASSUME IInv, NEW p \in Clients, NameFails(p)
  PROVE  IInv'
<1>0. PICK d \in Connections : d = <<p, turn[p]>>
  BY NetworkAssumption DEF NameFails, IInv, TypeOK, Connections
<1>1. /\ d[1] = p /\ clientPc[p] = "run" /\ packed[d] = 0
      /\ packed' = [packed EXCEPT ![d] = 1] /\ nameless' = nameless \cup {d}
      /\ UNCHANGED <<clientPc, turn, server, accepting, currentId, backlog, wire, pending,
                     link, id, writer, files, inTime, packetwise>>
  BY <1>0 DEF NameFails, serverVars, streamVars, handlerVars
<1>2. /\ ConnectionInv(d) /\ wire[d] = <<>> /\ pending[d] = <<>>
      /\ packetwise[d] /\ writer[d] = "none" /\ link[d] # "closed"
      /\ ~Gone(d) /\ ~Gone(d)' /\ FileOf(d)' = FileOf(d)
  BY <1>1 DEF IInv, ConnectionInv, StreamInv, Gone, FileOf
<1>3. /\ packed' \in [Connections -> 0 .. Chunks + 1] /\ packed'[d] = 1
      /\ \A c \in Connections \ {d} : packed'[c] = packed[c]
  BY <1>1, NetworkAssumption DEF IInv, TypeOK
<1>4. TypeOK'
  BY <1>1, <1>3 DEF IInv, TypeOK
<1>5. \A r \in Clients : clientPc[r] = "connect" =>
        turn'[r] = turn[r] /\ \A i \in 1 .. Files : packed'[<<r, i>>] = packed[<<r, i>>]
  <2>1. ASSUME NEW r \in Clients, clientPc[r] = "connect", NEW i \in 1 .. Files
        PROVE  packed'[<<r, i>>] = packed[<<r, i>>]
    <3>1. <<r, i>> \in Connections /\ <<r, i>> # d
      BY <1>1, <2>1 DEF Connections
    <3>2. QED BY <1>3, <3>1
  <2>2. QED BY <1>1, <2>1
<1>6. 1 .. Len(<<>>) = {}
  OBVIOUS
<1>7. FileOf(d) \in Seq(0 .. Chunks)
  BY ConnectionTypes DEF IInv
<1>8. StreamInv(d)' /\ NameInv(d)' /\ NamelessInv(d)' /\ PartInv(d)'
  BY <1>1, <1>2, <1>3, <1>6
     DEF ConnectionInv, StreamInv, NameInv, NamelessInv, NoName, PartInv
<1>9. OrderInv(d)'
  <2>1. InOrder(<<>>, FileOf(d), 0)
    BY <1>1, <1>2 DEF ConnectionInv, OrderInv
  <2>2. \A i \in 1 .. Len(FileOf(d)) : FileOf(d)[i] \in Nat
    BY <1>7, NetworkAssumption, ElementOfSeq
  <2>3. InOrder(<<>>, FileOf(d), 1)
    BY <1>6, <2>1, <2>2 DEF InOrder
  <2>4. QED BY <1>1, <1>2, <1>3, <2>3 DEF ConnectionInv, OrderInv
<1>10. ExactInv(d)'
  <2>1. SUFFICES ASSUME inTime[d]
                 PROVE  /\ \A i \in 1 .. Len(FileOf(d)) : FileOf(d)[i] = i
                        /\ Alive(d) => Exact(<<>>, FileOf(d), 1, 1)
    <3>1. 1 \in 0 .. 1
      OBVIOUS
    <3>2. QED BY <1>1, <1>2, <1>3, <2>1, <3>1 DEF ExactInv, Begun, Alive
  <2>2. ASSUME Alive(d) PROVE Exact(<<>>, FileOf(d), 1, 1)
    <3>1. PICK r \in 0 .. 0 : Exact(<<>>, FileOf(d), 0, r)
      BY <1>1, <1>2, <2>1, <2>2 DEF ConnectionInv, ExactInv
    <3>2. FileOf(d) = <<>>
      BY <3>1 DEF Exact
    <3>3. QED BY <3>2 DEF Exact
  <2>3. QED BY <1>1, <1>2, <2>1, <2>2 DEF ConnectionInv, ExactInv
<1>11. ConnectionInv(d)'
  BY <1>8, <1>9, <1>10 DEF ConnectionInv
<1>12. \A c \in Connections \ {d} : c \in nameless' <=> c \in nameless
  BY <1>1
<1>13. d \notin nameless
  BY <1>1, <1>2 DEF ConnectionInv, NamelessInv
<1>14. QED BY <1>1, <1>3, <1>4, <1>5, <1>11, <1>12, <1>13, StreamStepInv

LEMMA TransmitInv ==
  ASSUME IInv, NEW d \in Connections, Transmit(d)
  PROVE  IInv'
<1> DEFINE k == packed[d]
           w == wire[d]
           q == pending[d]
           f == FileOf(d)
           current == IF Head(q).packet = 0 THEN 0 ELSE k - 1
           w2 == Append(w, [Head(q) EXCEPT !.packet = current])
           q2 == Tail(q)
<1>1. /\ q # <<>> /\ Alive(d)
      /\ wire' = [wire EXCEPT ![d] = w2] /\ pending' = [pending EXCEPT ![d] = q2]
      /\ UNCHANGED <<clientPc, turn, packed, nameless, server, accepting, currentId, backlog,
                     link, id, writer, files, inTime, packetwise>>
  BY DEF Transmit, clientVars, serverVars, handlerVars
<1>2. /\ w \in Seq(Units) /\ q \in Seq(Units) /\ f \in Seq(0 .. Chunks)
      /\ k \in 0 .. Chunks + 1 /\ k \in Nat /\ d[1] \in Clients
  BY ConnectionTypes DEF IInv
<1>3. ConnectionInv(d) /\ ~Gone(d) /\ ~Gone(d)' /\ ~inTime[d] /\ FileOf(d)' = f /\ k # 0
  BY <1>1 DEF IInv, ConnectionInv, StreamInv, Gone, FileOf
<1>4. Head(q) = q[1]
  BY <1>1, <1>2, HeadTailProperties
<1>5. current = IF q[1].packet = 0 THEN 0 ELSE k - 1
  BY <1>4
<1>6. k \in 1 .. Chunks + 1
  BY <1>2, <1>3
<1> HIDE DEF k, q, w, f
<1>7. Moved(w, q, current, w2, q2)
  BY <1>1, <1>2, <1>6, TransmitMoves
<1> HIDE DEF current, w2, q2
<1>8. w2 \in Seq(Units) /\ q2 \in Seq(Units)
  BY <1>7 DEF Moved
<1>9. /\ wire'[d] = w2 /\ pending'[d] = q2
      /\ \A c \in Connections \ {d} : wire'[c] = wire[c] /\ pending'[c] = pending[c]
  BY <1>1 DEF IInv, TypeOK
<1>10. TypeOK'
  <2>1. wire' \in [Connections -> Seq(Units)] /\ pending' \in [Connections -> Seq(Units)]
    BY <1>1, <1>8 DEF IInv, TypeOK
  <2>2. QED BY <1>1, <2>1 DEF IInv, TypeOK
<1>11. StreamInv(d)'
  <2>1. link[d] # "closed" /\ packed'[d] # 0
    BY <1>1, <1>3 DEF Alive, k
  <2>2. QED BY <1>1, <1>3, <2>1 DEF StreamInv
<1>12. NameInv(d)'
  <2>1. SUFFICES ASSUME writer[d] = "none", d \notin nameless
                 PROVE  NameFirst(w2, q2) /\ w2 # <<>>
    BY <1>1, <1>9 DEF NameInv
  <2>2. NameFirst(w, q)
    BY <1>1, <1>3, <2>1 DEF ConnectionInv, NameInv, w, q
  <2>3. QED BY <1>1, <1>2, <1>7, <2>2, MovedNameFirst
<1>13. OrderInv(d)'
  <2>1. InOrder(w, f, k) /\ NamesWait(w, q, f)
    BY <1>3 DEF ConnectionInv, OrderInv, w, q, f, k
  <2>2. InOrder(w2, f, k) /\ NamesWait(w2, q2, f)
    <3>1. /\ w \in Seq(Units) /\ q \in Seq(Units) /\ q # <<>> /\ f \in Seq(0 .. Chunks)
          /\ k \in 1 .. Chunks + 1
      BY <1>1, <1>2, <1>6
    <3>2. QED BY ONLY <3>1, <1>5, <1>7, <2>1, MovedInOrder
  <2>3. packed'[d] = k
    BY <1>1 DEF k
  <2>4. QED BY <1>1, <1>3, <1>9, <2>2, <2>3 DEF OrderInv
<1>14. PartInv(d)'
  <2>1. SUFFICES ASSUME packetwise[d] PROVE Alternates(w2, q2, TRUE)
    BY <1>1, <1>3, <1>9 DEF PartInv
  <2>2. Alternates(w, q, TRUE)
    BY <1>3, <2>1 DEF ConnectionInv, PartInv, w, q
  <2>3. QED BY <1>1, <1>2, <1>7, <2>2, MovedAlternates
<1>15. ExactInv(d)'
  BY <1>1, <1>3 DEF ExactInv
<1>16. NamelessInv(d)'
  <2>1. SUFFICES ASSUME d \in nameless
                 PROVE  /\ k # 1 /\ writer[d] = "none" /\ packetwise[d]
                        /\ NoName(w2) /\ NoName(q2)
    BY <1>1, <1>3, <1>9 DEF NamelessInv, k
  <2>2. /\ k # 1 /\ writer[d] = "none" /\ packetwise[d]
        /\ NoName(w) /\ NoName(q)
    BY <1>1, <1>3, <2>1 DEF ConnectionInv, NamelessInv, k, w, q
  <2>3. current # 0
    <3>1. 1 \in 1 .. Len(q)
      BY <1>1, <1>2, EmptySeq DEF q
    <3>2. q[1].packet # 0
      BY <2>2, <3>1 DEF NoName
    <3>3. QED BY <1>2, <1>5, <2>2, <3>2
  <2>4. NoName(w2) /\ NoName(q2)
    BY <1>2, <1>7, <2>2, <2>3, MovedNoName
  <2>5. QED BY <2>2, <2>4
<1>17. ConnectionInv(d)'
  BY <1>11, <1>12, <1>13, <1>14, <1>15, <1>16 DEF ConnectionInv
<1>18. QED BY <1>1, <1>9, <1>10, <1>17, StreamStepInv

(* A step of the server that changes no connection.                        *)
LEMMA ServerFrame ==
  ASSUME IInv, TypeOK', server' = "up" \/ server' = server,
         UNCHANGED <<currentId, backlog, clientPc, turn, packed, nameless, pending, wire, link,
                     id, writer, files, inTime, packetwise>>
  PROVE  IInv'
<1>1. NoNullWriter' /\ ServerEndsForAReason' /\ BacklogInv' /\ IdInv'
  BY IdFrame, CrashFrame DEF IInv, ServerEndsForAReason, BacklogInv
<1>2. ASSUME NEW r \in Clients PROVE ClientInv(r)'
  BY DEF IInv, ClientInv
<1>3. ASSUME NEW c \in Connections PROVE ConnectionInv(c)'
  <2>1. FileOf(c)' = FileOf(c) /\ Gone(c)' = Gone(c) /\ ConnectionInv(c)
    BY DEF FileOf, Gone, IInv
  <2>2. QED BY <2>1, ConnectionFrame
<1>4. QED BY <1>1, <1>2, <1>3 DEF IInv

LEMMA StartInv ==
  ASSUME IInv, Start \/ AcceptFails
  PROVE  IInv'
<1>1. /\ server' = "up" \/ server' = server
      /\ accepting' \in BOOLEAN
      /\ UNCHANGED <<currentId, backlog, clientPc, turn, packed, nameless, pending, wire, link,
                     id, writer, files, inTime, packetwise>>
  BY DEF Start, AcceptFails, clientVars, streamVars, handlerVars
<1>2. TypeOK'
  BY <1>1 DEF IInv, TypeOK
<1>3. QED BY <1>1, <1>2, ServerFrame

LEMMA AcceptInv ==
  ASSUME IInv, Accept
  PROVE  IInv'
<1>1. PICK d \in Connections : d = Head(backlog)
  BY HeadTailProperties DEF IInv, TypeOK, Accept, Take
<1>2. /\ backlog # <<>> /\ link' = [link EXCEPT ![d] = "open"]
      /\ id' = [id EXCEPT ![d] = currentId] /\ backlog' = Tail(backlog)
      /\ currentId' = currentId + 1
      /\ UNCHANGED <<clientPc, turn, packed, nameless, server, accepting, pending, wire, writer,
                     files, inTime, packetwise>> /\ server = "up"
  BY <1>1 DEF Accept, Take, clientVars, streamVars
<1>3. /\ Tail(backlog) \in Seq(Connections) /\ Len(Tail(backlog)) = Len(backlog) - 1
      /\ \A i \in 1 .. Len(Tail(backlog)) : Tail(backlog)[i] = backlog[i + 1]
      /\ d = backlog[1] /\ Len(backlog) \in Nat \ {0}
  BY <1>1, <1>2, HeadTailProperties, EmptySeq DEF IInv, TypeOK
<1>4. link[d] = "backlog" /\ id[d] = 0 /\ d \notin Accepted
  BY <1>3 DEF IInv, BacklogInv, IdInv, Accepted
<1>5. currentId \in Nat \ {0} /\ link'[d] = "open" /\ id'[d] = currentId
  BY <1>2, FiniteConnections DEF IInv, TypeOK
<1>6. \A c \in Connections \ {d} : link'[c] = link[c] /\ id'[c] = id[c]
  BY <1>2 DEF IInv, TypeOK
<1>7. /\ Accepted' = Accepted \cup {d} /\ Cardinality(Accepted') = Cardinality(Accepted) + 1
      /\ Cardinality(Accepted') <= Cardinality(Connections)
  <2>1. Accepted' = Accepted \cup {d}
    BY <1>5, <1>6 DEF Accepted
  <2>2. IsFiniteSet(Accepted)
    BY FiniteConnections, FS_Subset DEF Accepted
  <2>3. Cardinality(Accepted') = Cardinality(Accepted) + 1
    BY <1>4, <2>1, <2>2, FS_AddElement
  <2>4. Accepted' \in SUBSET Connections
    BY DEF Accepted
  <2>5. Cardinality(Accepted') <= Cardinality(Connections)
    <3>1. \A S \in SUBSET Connections : Cardinality(S) <= Cardinality(Connections)
      BY FiniteConnections, FS_Subset
    <3>2. QED BY <2>4, <3>1
  <2>6. QED BY <2>1, <2>3, <2>5
<1>8. currentId = Cardinality(Accepted) + 1 /\ Cardinality(Accepted) \in Nat
  BY <1>5, FiniteConnections, FS_Subset, FS_CardinalityType DEF IInv, IdInv, Accepted
<1>9. currentId \in Ids /\ currentId + 1 \in 1 .. Cardinality(Connections) + 1
  BY <1>5, <1>7, <1>8, FiniteConnections DEF Ids
<1>10. TypeOK'
  <2>1. link' \in [Connections -> {"none", "backlog", "open", "closed", "reset"}]
    BY <1>2 DEF IInv, TypeOK
  <2>2. id' \in [Connections -> 0 .. Cardinality(Connections)]
    <3>1. /\ id \in [Connections -> 0 .. Cardinality(Connections)]
          /\ currentId \in 0 .. Cardinality(Connections)
      BY <1>9, FiniteConnections DEF IInv, TypeOK, Ids
    <3>2. QED BY <1>2, <3>1
  <2>3. QED BY <1>2, <1>3, <1>9, <2>1, <2>2 DEF IInv, TypeOK
<1>11. NoNullWriter' /\ ServerEndsForAReason'
  BY <1>2 DEF IInv, NoNullWriter, ServerEndsForAReason
<1>12. BacklogInv'
  <2>1. ASSUME NEW i \in 1 .. Len(backlog')
        PROVE  /\ i + 1 \in 1 .. Len(backlog) /\ backlog'[i] = backlog[i + 1]
               /\ backlog[i + 1] \in Connections \ {d}
    <3>1. i + 1 \in 1 .. Len(backlog) /\ 1 \in 1 .. Len(backlog) /\ i + 1 # 1
      BY <1>2, <1>3
    <3>2. backlog[i + 1] \in Connections
      BY <3>1, ElementOfSeq DEF IInv, TypeOK
    <3>3. QED BY <1>2, <1>3, <3>1, <3>2 DEF IInv, BacklogInv
  <2>2. \A i \in 1 .. Len(backlog') : link'[backlog'[i]] = "backlog"
    BY <1>6, <2>1 DEF IInv, BacklogInv
  <2>3. ASSUME NEW i \in 1 .. Len(backlog'), NEW j \in 1 .. Len(backlog'), i # j
        PROVE  backlog'[i] # backlog'[j]
    <3>1. i + 1 # j + 1
      BY <2>3
    <3>2. QED BY <2>1, <3>1 DEF IInv, BacklogInv
  <2>4. QED BY <2>2, <2>3 DEF BacklogInv
<1>13. IdInv'
  <2>1. currentId' = Cardinality(Accepted') + 1
    BY <1>2, <1>7, <1>8
  <2>2. \A c \in Connections : id'[c] < currentId' /\ (c # d => id'[c] # currentId) /\ id[c] \in Nat
    <3>1. \A c \in Connections : id[c] \in Nat /\ id[c] < currentId
      BY FiniteConnections DEF IInv, IdInv, TypeOK
    <3>2. ASSUME NEW c \in Connections
          PROVE  id'[c] < currentId' /\ (c # d => id'[c] # currentId)
      <4>1. CASE c = d
        BY <1>2, <1>5, <4>1
      <4>2. CASE c # d
        BY <1>2, <1>5, <1>6, <3>1, <4>2
      <4>3. QED BY <4>1, <4>2
    <3>3. QED BY <3>1, <3>2
  <2>3. \A c \in Connections : /\ link'[c] \in {"none", "backlog"} => id'[c] = 0
                               /\ link'[c] \in {"open", "closed"} => id'[c] # 0
    BY <1>5, <1>6 DEF IInv, IdInv
  <2>4. \A c, e \in Connections : c # e /\ id'[c] # 0 => id'[c] # id'[e]
    BY <1>5, <1>6, <2>2 DEF IInv, IdInv
  <2>5. \A i \in Ids : i >= currentId' => files'[i] = <<>>
    BY <1>2, <1>5 DEF IInv, IdInv, Ids
  <2>6. QED BY <2>1, <2>2, <2>3, <2>4, <2>5 DEF IdInv
<1>14. ASSUME NEW p \in Clients PROVE ClientInv(p)'
  <2>1. \A i \in 1 .. Files : link[<<p, i>>] = "none" => link'[<<p, i>>] = "none"
    <3>1. \A i \in 1 .. Files : <<p, i>> \in Connections
      BY DEF Connections
    <3>2. QED BY <1>4, <1>6, <3>1
  <2>2. QED BY <1>2, <2>1, ClientFrame DEF IInv
<1>15. ASSUME NEW c \in Connections PROVE ConnectionInv(c)'
  <2>1. Gone(c)' = Gone(c) /\ ConnectionInv(c)
    BY <1>2 DEF Gone, IInv
  <2>2. FileOf(c)' = FileOf(c)
    BY <1>2, <1>4, <1>5, <1>6, <1>9 DEF FileOf, IInv, IdInv
  <2>3. CASE c # d
    BY <1>2, <1>6, <2>1, <2>2, <2>3, ConnectionFrame
  <2>4. CASE c = d
    <3>1. Alive(d) /\ Alive(d)' /\ link'[d] # "closed"
      BY <1>4, <1>5 DEF Alive
    <3>2. StreamInv(d)' /\ OrderInv(d)' /\ PartInv(d)'
      BY <1>2, <2>1, <2>2, <2>4, <3>1 DEF ConnectionInv, StreamInv, OrderInv, PartInv
    <3>3. NameInv(d)' /\ NamelessInv(d)'
      BY <1>2, <2>1, <2>4, <3>1 DEF ConnectionInv, NameInv, NamelessInv
    <3>4. ExactInv(d)'
      BY <1>2, <2>1, <2>2, <2>4, <3>1 DEF ConnectionInv, ExactInv, Begun
    <3>5. QED BY <2>4, <3>2, <3>3, <3>4 DEF ConnectionInv
  <2>5. QED BY <2>3, <2>4
<1>16. QED BY <1>10, <1>11, <1>12, <1>13, <1>14, <1>15 DEF IInv

(* The server ends, or an exception ends it, and all connections with it.  *)
LEMMA FallInv ==
  ASSUME IInv, NEW how \in {"ended", "denied", "down", "crashed"}, Fall(how),
         UNCHANGED <<clientPc, turn, packed, nameless, accepting, currentId, id, writer, files,
                     inTime>>,
         packetwise' \in [Connections -> BOOLEAN],
         \A c \in Connections : /\ packetwise'[c] => packetwise[c]
                                /\ packed[c] = 0 => packetwise'[c] = packetwise[c],
         how = "down" => \E c \in Connections : ~packetwise'[c],
         how = "crashed" =>
           \E c \in nameless : id[c] # 0 /\ writer[c] = "none" /\ packed[c] > 1
  PROVE  IInv'
<1>1. /\ server' = how /\ backlog' = <<>>
      /\ link' = [c \in Connections |-> IF Alive(c) THEN "reset" ELSE link[c]]
      /\ pending' = [c \in Connections |-> <<>>] /\ wire' = [c \in Connections |-> <<>>]
  BY DEF Fall
<1>2. /\ <<>> \in Seq(Connections) /\ <<>> \in Seq(Units)
      /\ link' \in [Connections -> {"none", "backlog", "open", "closed", "reset"}]
  BY <1>1, EmptySeq DEF IInv, TypeOK
<1>3. TypeOK'
  BY <1>1, <1>2 DEF IInv, TypeOK
<1>4. NoNullWriter' /\ ServerEndsForAReason'
  BY <1>1 DEF NoNullWriter, ServerEndsForAReason
<1>5. BacklogInv'
  <2>1. 1 .. Len(backlog') = {}
    BY <1>1
  <2>2. QED BY <2>1 DEF BacklogInv
<1>6. \A c \in Connections : /\ link'[c] \notin {"backlog", "open"}
                             /\ link'[c] \in {"none", "closed"} => link[c] = link'[c]
                             /\ link[c] = "none" => link'[c] = "none"
  BY <1>1 DEF Alive, IInv, TypeOK
<1>7. IdInv'
  BY <1>6, IdFrame DEF IInv
<1>8. ASSUME NEW p \in Clients PROVE ClientInv(p)'
  <2>1. \A i \in 1 .. Files : <<p, i>> \in Connections
    BY DEF Connections
  <2>2. QED BY <1>6, <2>1, ClientFrame DEF IInv
<1>9. ASSUME NEW c \in Connections PROVE ConnectionInv(c)'
  <2>1. /\ ConnectionInv(c) /\ FileOf(c)' = FileOf(c) /\ Gone(c)' = Gone(c)
        /\ wire'[c] = <<>> /\ pending'[c] = <<>>
        /\ wire[c] \in Seq(Units) /\ pending[c] \in Seq(Units)
        /\ FileOf(c) \in Seq(0 .. Chunks) /\ packed[c] \in Nat
    BY <1>1, ConnectionTypes DEF IInv, FileOf, Gone
  <2>2. ~Alive(c)' /\ (link'[c] = "closed" => link[c] = "closed")
    <3>1. link'[c] \in {"none", "backlog", "open", "closed", "reset"}
      BY <1>2
    <3>2. link'[c] \in {"none", "closed", "reset"}
      BY <1>6, <3>1
    <3>3. QED BY <1>6, <3>2 DEF Alive
  <2>3. StreamInv(c)' /\ NameInv(c)' /\ NamelessInv(c)'
    <3>1. NoName(<<>>)
      BY DEF NoName
    <3>2. QED BY <2>1, <2>2, <3>1 DEF ConnectionInv, StreamInv, NameInv, NamelessInv
  <2>4. OrderInv(c)'
    <3>1. InOrder(<<>>, FileOf(c), packed[c]) /\ (inTime[c] => Once(<<>>, FileOf(c)))
      BY <2>1, CutStream DEF ConnectionInv, OrderInv
    <3>2. NamesWait(<<>>, <<>>, FileOf(c))
      BY <1>2, <2>1, CutStream
    <3>3. QED BY <2>1, <3>1, <3>2 DEF OrderInv
  <2>5. PartInv(c)'
    <3>1. \A whole : Alternates(<<>>, <<>>, whole)
      BY <2>1, CutStream
    <3>2. QED BY <2>1, <3>1 DEF PartInv
  <2>6. ExactInv(c)'
    <3>1. link[c] = "closed" => wire[c] = <<>>
      BY <2>1 DEF ConnectionInv, StreamInv
    <3>2. QED BY <2>1, <2>2, <3>1 DEF ConnectionInv, ExactInv, Begun
  <2>7. QED BY <2>3, <2>4, <2>5, <2>6 DEF ConnectionInv
<1>10. QED BY <1>3, <1>4, <1>5, <1>7, <1>8, <1>9 DEF IInv

LEMMA EndOfServerInv ==
  ASSUME IInv, Stop \/ Return
  PROVE  IInv'
<1>1. /\ Fall("ended")
      /\ UNCHANGED <<clientPc, turn, packed, nameless, accepting, currentId, id, writer, files,
                     inTime, packetwise>>
  BY DEF Stop, Return, clientVars, handlerVars
<1>2. packetwise' \in [Connections -> BOOLEAN]
  BY <1>1 DEF IInv, TypeOK
<1>3. QED BY <1>1, <1>2, FallInv

(* The server closes a connection, or one breaks.                          *)
LEMMA DisconnectInv ==
  ASSUME IInv, NEW d \in Connections, Disconnect(d) \/ Break(d)
  PROVE  IInv'
<1>1. /\ link[d] = "open"
      /\ \/ /\ link' = [link EXCEPT ![d] = "closed"] /\ UNCHANGED <<pending, wire>>
            /\ wire[d] = <<>> /\ Gone(d)
         \/ /\ link' = [link EXCEPT ![d] = "reset"]
            /\ pending' = [pending EXCEPT ![d] = <<>>] /\ wire' = [wire EXCEPT ![d] = <<>>]
      /\ UNCHANGED <<clientPc, turn, packed, nameless, server, accepting, currentId, backlog, id,
                     writer, files, inTime, packetwise>>
  BY DEF Disconnect, Break, AtEof, Gone, clientVars, serverVars, streamVars, handlerVars
<1>2. <<>> \in Seq(Units)
  BY EmptySeq
<1>3. TypeOK'
  <2>1. link' \in [Connections -> {"none", "backlog", "open", "closed", "reset"}]
    <3>1. link \in [Connections -> {"none", "backlog", "open", "closed", "reset"}]
      BY DEF IInv, TypeOK
    <3>2. CASE link' = [link EXCEPT ![d] = "closed"]
      BY <3>1, <3>2
    <3>3. CASE link' = [link EXCEPT ![d] = "reset"]
      BY <3>1, <3>3
    <3>4. QED BY <1>1, <3>2, <3>3
  <2>2. pending \in [Connections -> Seq(Units)] /\ wire \in [Connections -> Seq(Units)]
    BY DEF IInv, TypeOK
  <2>3. pending' \in [Connections -> Seq(Units)]
    BY <1>1, <1>2, <2>2
  <2>4. wire' \in [Connections -> Seq(Units)]
    BY <1>1, <1>2, <2>2
  <2>5. QED BY <1>1, <2>1, <2>3, <2>4 DEF IInv, TypeOK
<1>4. /\ link'[d] \in {"closed", "reset"}
      /\ \A c \in Connections \ {d} : link'[c] = link[c] /\ pending'[c] = pending[c] /\ wire'[c] = wire[c]
  BY <1>1 DEF IInv, TypeOK
<1>5. NoNullWriter' /\ ServerEndsForAReason'
  BY <1>1, CrashFrame DEF IInv, ServerEndsForAReason
<1>6. BacklogInv'
  <2>1. \A i \in 1 .. Len(backlog) : backlog[i] \in Connections \ {d}
    <3>1. \A i \in 1 .. Len(backlog) : backlog[i] \in Connections
      BY ElementOfSeq DEF IInv, TypeOK
    <3>2. QED BY <1>1, <3>1 DEF IInv, BacklogInv
  <2>2. QED BY <1>1, <1>4, <2>1 DEF IInv, BacklogInv
<1>7. IdInv'
  <2>1. \A c \in Connections :
          /\ link'[c] \in {"none", "backlog"} => link[c] \in {"none", "backlog"}
          /\ link'[c] \in {"open", "closed"} => link[c] \in {"open", "closed"}
    BY <1>1, <1>4
  <2>2. QED BY <1>1, <2>1, IdFrame DEF IInv
<1>8. ASSUME NEW p \in Clients PROVE ClientInv(p)'
  <2>1. \A i \in 1 .. Files : link[<<p, i>>] = "none" => link'[<<p, i>>] = "none"
    <3>1. \A i \in 1 .. Files : <<p, i>> \in Connections
      BY DEF Connections
    <3>2. QED BY <1>1, <1>4, <3>1
  <2>2. QED BY <1>1, <2>1, ClientFrame DEF IInv
<1>9. ASSUME NEW c \in Connections PROVE ConnectionInv(c)'
  <2>1. /\ ConnectionInv(c) /\ FileOf(c)' = FileOf(c) /\ Gone(c)' = Gone(c)
        /\ wire[c] \in Seq(Units) /\ pending[c] \in Seq(Units)
        /\ FileOf(c) \in Seq(0 .. Chunks) /\ packed[c] \in Nat
    BY <1>1, ConnectionTypes DEF IInv, FileOf, Gone
  <2>2. CASE c # d
    BY <1>1, <1>4, <2>1, <2>2, ConnectionFrame
  <2>3. CASE c = d
    <3>1. ~Alive(d)' /\ Alive(d)
      BY <1>1, <1>4 DEF Alive
    <3>2. NameInv(d)'
      BY <3>1 DEF NameInv
    <3>3. CASE link'[d] = "closed" /\ UNCHANGED <<pending, wire>> /\ wire[d] = <<>> /\ Gone(d)
      <4>1. StreamInv(d)' /\ NamelessInv(d)' /\ OrderInv(d)' /\ PartInv(d)'
        BY <1>1, <2>1, <2>3, <3>1, <3>3
           DEF ConnectionInv, StreamInv, NamelessInv, OrderInv, PartInv
      <4>2. ExactInv(d)'
        BY <1>1, <2>1, <2>3, <3>1, <3>3 DEF ConnectionInv, ExactInv, Begun
      <4>3. QED BY <2>3, <3>2, <4>1, <4>2 DEF ConnectionInv
    <3>4. CASE link'[d] = "reset" /\ wire'[d] = <<>> /\ pending'[d] = <<>>
      <4>1. StreamInv(d)' /\ NamelessInv(d)'
        BY <1>1, <2>1, <2>3, <3>1, <3>4
           DEF ConnectionInv, StreamInv, NamelessInv, NoName
      <4>2. OrderInv(d)'
        <5>1. InOrder(<<>>, FileOf(d), packed[d]) /\ (inTime[d] => Once(<<>>, FileOf(d)))
          BY <2>1, <2>3, CutStream DEF ConnectionInv, OrderInv
        <5>2. NamesWait(<<>>, <<>>, FileOf(d))
          BY <1>2, <2>1, <2>3, CutStream
        <5>3. QED BY <1>1, <2>1, <2>3, <3>4, <5>1, <5>2 DEF OrderInv
      <4>3. PartInv(d)'
        <5>1. \A whole : Alternates(<<>>, <<>>, whole)
          BY <2>1, CutStream
        <5>2. QED BY <3>4, <5>1 DEF PartInv
      <4>4. ExactInv(d)'
        BY <1>1, <2>1, <2>3, <3>1, <3>4 DEF ConnectionInv, ExactInv
      <4>5. QED BY <2>3, <3>2, <4>1, <4>2, <4>3, <4>4 DEF ConnectionInv
    <3>5. QED BY <1>1, <3>3, <3>4 DEF IInv, TypeOK
  <2>4. QED BY <2>2, <2>3
<1>10. QED BY <1>3, <1>5, <1>6, <1>7, <1>8, <1>9 DEF IInv

(* A read of n units whose handler returns: the writer of the connection   *)
(* is v, its file g, behind which block b may have come.                   *)
ReadAs(d, n, v, b, g) ==
  /\ server = "up" /\ link[d] = "open" /\ ReadOn(d, n)
  /\ UNCHANGED <<clientPc, turn, packed, nameless, accepting, currentId, id, inTime>>
  /\ d \notin nameless
  /\ packetwise' = [packetwise EXCEPT ![d] = @ /\ n = 2]
  /\ writer' = [writer EXCEPT ![d] = v]
  /\ b # 0 => b = wire[d][1].packet /\ wire[d][1].part = "head"
  /\ g \in {FileOf(d), <<>>, Append(FileOf(d), b)}
  /\ files' = [files EXCEPT ![id[d]] = g]
  /\ \A r \in 0 .. Chunks :
       n = 2 /\ wire[d][1] = Packet(r)[1] /\ wire[d][2] = Packet(r)[2] =>
         IF r = 0 THEN g = <<>> /\ v = "own"
         ELSE v = writer[d] /\ (v = "own" => g = Append(FileOf(d), r))

LEMMA ReadInv ==
  ASSUME IInv, NEW d \in Connections, NEW n \in 1 .. Len(wire[d]),
         NEW v \in {"own", "other"}, NEW b \in 0 .. Chunks, NEW g \in Seq(0 .. Chunks),
         ReadAs(d, n, v, b, g)
  PROVE  IInv'
<1> DEFINE k == packed[d]
           w == wire[d]
           q == pending[d]
           f == FileOf(d)
           w2 == SubSeq(w, n + 1, Len(w))
<1>1. /\ wire' = [wire EXCEPT ![d] = w2]
      /\ UNCHANGED <<clientPc, turn, packed, nameless, server, accepting, currentId, backlog,
                     pending, link, id, inTime>>
      /\ d \notin nameless
      /\ server = "up" /\ link[d] = "open"
      /\ writer' = [writer EXCEPT ![d] = v] /\ files' = [files EXCEPT ![id[d]] = g]
      /\ packetwise' = [packetwise EXCEPT ![d] = @ /\ n = 2]
      /\ g \in {FileOf(d), <<>>, Append(FileOf(d), b)}
  BY DEF ReadAs, ReadOn
<1>2. /\ w \in Seq(Units) /\ q \in Seq(Units) /\ f \in Seq(0 .. Chunks)
      /\ k \in 0 .. Chunks + 1 /\ k \in Nat /\ inTime[d] \in BOOLEAN /\ packetwise[d] \in BOOLEAN
  BY ConnectionTypes DEF IInv
<1>3. ConnectionInv(d) /\ Alive(d) /\ w # <<>>
  BY <1>1, <1>2, EmptySeq DEF IInv, Alive
<1>4. k # 0
  BY <1>3 DEF ConnectionInv, StreamInv
<1>5. id[d] \in Ids /\ id[d] # 0 /\ id[d] < currentId
  BY <1>1 DEF IInv, IdInv, TypeOK, Ids
<1>6. f = files[id[d]] /\ FileOf(d)' = g
  BY <1>1, <1>5 DEF FileOf, IInv, TypeOK
<1>7. b # 0 => b = w[1].packet /\ w[1].part = "head"
  BY DEF ReadAs
<1>8. \A r \in 0 .. Chunks :
         n = 2 /\ w[1] = Packet(r)[1] /\ w[2] = Packet(r)[2] =>
           IF r = 0 THEN g = <<>> /\ v = "own"
           ELSE v = writer[d] /\ (v = "own" => g = Append(f, r))
  BY DEF ReadAs
<1> HIDE DEF k, q, w, f
<1>9. Dropped(w, n, w2)
  BY <1>2, ReadDrops DEF w
<1> HIDE DEF w2
<1>10. w2 \in Seq(Units)
  BY <1>9 DEF Dropped
<1>11. /\ wire'[d] = w2 /\ writer'[d] = v /\ packetwise'[d] = (packetwise[d] /\ n = 2)
      /\ pending'[d] = q /\ packed'[d] = k /\ inTime'[d] = inTime[d]
  BY <1>1 DEF IInv, TypeOK, q, k
<1>12. \A c \in Connections \ {d} :
         wire'[c] = wire[c] /\ writer'[c] = writer[c] /\ packetwise'[c] = packetwise[c]
  BY <1>1 DEF IInv, TypeOK
<1>13. TypeOK'
  <2>1. wire' \in [Connections -> Seq(Units)]
    BY <1>1, <1>10 DEF IInv, TypeOK
  <2>2. writer' \in [Connections -> {"none", "own", "other"}]
    BY <1>1 DEF IInv, TypeOK
  <2>3. files' \in [Ids -> Seq(0 .. Chunks)]
    BY <1>1, <1>5 DEF IInv, TypeOK
  <2>4. packetwise' \in [Connections -> BOOLEAN]
    BY <1>1 DEF IInv, TypeOK
  <2>5. QED BY <1>1, <2>1, <2>2, <2>3, <2>4 DEF IInv, TypeOK
<1>14. NoNullWriter' /\ ServerEndsForAReason' /\ BacklogInv'
  BY <1>1 DEF IInv, NoNullWriter, ServerEndsForAReason, BacklogInv
<1>15. IdInv'
  <2>1. \A i \in Ids : i >= currentId => files'[i] = files[i]
    BY <1>1, <1>5, FiniteConnections DEF IInv, TypeOK, Ids
  <2>2. QED BY <1>1, <2>1, IdFrame DEF IInv
<1>16. ASSUME NEW p \in Clients PROVE ClientInv(p)'
  BY <1>1, ClientFrame DEF IInv
<1>17. ASSUME NEW c \in Connections, c # d PROVE ConnectionInv(c)'
  <2>1. Gone(c)' = Gone(c) /\ ConnectionInv(c)
    BY <1>1 DEF Gone, IInv
  <2>2. FileOf(c)' = FileOf(c)
    <3>1. CASE id[c] = 0
      BY <1>1, <3>1 DEF FileOf
    <3>2. CASE id[c] # 0
      <4>1. id[c] # id[d] /\ id[c] \in Ids
        BY <1>17, <3>2 DEF IInv, IdInv, TypeOK, Ids
      <4>2. files'[id[c]] = files[id[c]]
        BY <1>1, <4>1 DEF IInv, TypeOK
      <4>3. QED BY <1>1, <4>2 DEF FileOf
    <3>3. QED BY <3>1, <3>2
  <2>3. QED BY <1>1, <1>12, <1>17, <2>1, <2>2, ConnectionFrame
<1>18. Gone(d)' = Gone(d) /\ Alive(d)' /\ link'[d] # "closed"
  BY <1>1 DEF Gone, Alive
<1>19. StreamInv(d)' /\ NameInv(d)' /\ NamelessInv(d)'
  BY <1>1, <1>3, <1>4, <1>11, <1>18 DEF ConnectionInv, StreamInv, NameInv, NamelessInv, q, k
<1>20. OrderInv(d)'
  <2>1. InOrder(w, f, k) /\ NamesWait(w, q, f) /\ (inTime[d] => Once(w, f))
    BY <1>3 DEF ConnectionInv, OrderInv, w, q, f, k
  <2>2. InOrder(w2, g, k)
    <3>1. InOrder(w2, f, k) /\ InOrder(w2, <<>>, k)
      BY <1>2, <1>9, <2>1, DroppedInOrder DEF w
    <3>2. InOrder(w2, Append(f, b), k)
      BY <1>2, <1>4, <1>9, <1>7, <2>1, WrittenInOrder DEF w
    <3>3. QED BY <1>1, <3>1, <3>2 DEF f
  <2>3. NamesWait(w2, q, g)
    <3>1. NamesWait(w2, q, f) /\ NamesWait(w2, q, <<>>) /\ NamesWait(w2, q, Append(f, b))
      BY <1>2, <1>9, <1>7, <2>1, DroppedNamesWait DEF w
    <3>2. QED BY <1>1, <3>1 DEF f
  <2>4. inTime[d] => Once(w2, g)
    <3>1. inTime[d] => Once(w2, f) /\ Once(w2, <<>>)
      BY <1>2, <1>9, <2>1, DroppedOnce DEF w
    <3>2. inTime[d] => Once(w2, Append(f, b))
      BY <1>2, <1>9, <1>7, <2>1, WrittenOnce DEF w
    <3>3. QED BY <1>1, <3>1, <3>2 DEF f
  <2>5. QED BY <1>6, <1>11, <2>2, <2>3, <2>4 DEF OrderInv
<1>21. n = 2 => 2 <= Len(w) /\ Dropped(w, 2, w2)
  BY <1>2, <1>9 DEF w
<1>22. PartInv(d)'
  <2>1. SUFFICES ASSUME packetwise[d], n = 2 PROVE Alternates(w2, q, ~Gone(d))
    BY <1>11, <1>18 DEF PartInv
  <2>2. Alternates(w, q, ~Gone(d)) /\ (~Gone(d)) \in BOOLEAN
    BY <1>3, <2>1 DEF ConnectionInv, PartInv, w, q, Gone
  <2>3. QED BY <1>2, <1>21, <2>1, <2>2, DroppedAlternates
<1>23. ExactInv(d)'
  <2>1. SUFFICES ASSUME inTime[d], packetwise[d], n = 2
                 PROVE  /\ \A i \in 1 .. Len(g) : g[i] = i
                        /\ \E r \in 0 .. k : Exact(w2, g, k, r) /\ (r > 0 => v = "own")
    BY <1>6, <1>11, <1>18 DEF ExactInv, Begun
  <2>2. PICK r \in 0 .. k : Exact(w, f, k, r) /\ (r > 0 => writer[d] = "own")
    BY <1>1, <1>3, <2>1 DEF ConnectionInv, ExactInv, Begun, w, f, k
  <2>3. \A i \in 1 .. Len(f) : f[i] = i
    BY <1>3, <2>1 DEF ConnectionInv, ExactInv, f
  <2>4. /\ r + 1 \in 0 .. k /\ w[1] = Packet(r)[1] /\ w[2] = Packet(r)[2]
        /\ \A h : Len(h) = r => Exact(w2, h, k, r + 1)
    BY <1>2, <1>21, <2>1, <2>2, DroppedExact
  <2>5. r \in 0 .. Chunks /\ r \in Nat /\ r + 1 > 0
    BY <1>2, <2>2, <2>4, NetworkAssumption
  <2>6. IF r = 0 THEN g = <<>> /\ v = "own"
        ELSE v = writer[d] /\ (v = "own" => g = Append(f, r))
    BY <1>8, <2>1, <2>4, <2>5
  <2>7. v = "own"
    BY <2>2, <2>5, <2>6
  <2>8. Len(g) = r /\ \A i \in 1 .. Len(g) : g[i] = i
    <3>1. CASE r = 0
      BY <2>6, <3>1
    <3>2. CASE r # 0
      <4>1. g = Append(f, r) /\ Len(f) = r - 1
        BY <2>2, <2>6, <2>7, <3>2 DEF Exact
      <4>2. QED BY <1>2, <2>3, <2>5, <3>2, <4>1
    <3>3. QED BY <3>1, <3>2
  <2>9. QED BY <2>4, <2>7, <2>8
<1>24. ConnectionInv(d)'
  BY <1>19, <1>20, <1>22, <1>23 DEF ConnectionInv
<1>25. QED BY <1>13, <1>14, <1>15, <1>16, <1>17, <1>24 DEF IInv

LEMMA ReceiveInv ==
  ASSUME IInv, NEW d \in Connections, Receive(d)
  PROVE  IInv'
<1> DEFINE first == wire[d][1]
<1>1. PICK n \in 1 .. Len(wire[d]) :
        Handle(d, n) /\ packetwise' = [packetwise EXCEPT ![d] = @ /\ n = 2]
  BY DEF Receive
<1>2. /\ server = "up" /\ link[d] = "open"
      /\ UNCHANGED <<clientPc, turn, packed, nameless, accepting, currentId, id, inTime>>
  BY DEF Receive, clientVars
<1>3. /\ wire[d] \in Seq(Units) /\ Len(wire[d]) \in Nat /\ n \in Nat /\ 1 \in 1 .. Len(wire[d])
      /\ FileOf(d) \in Seq(0 .. Chunks) /\ wire[d] # <<>>
  BY <1>1, ConnectionTypes, EmptySeq DEF IInv
<1>4. \A i \in 1 .. Len(wire[d]) : wire[d][i] \in Units
  BY <1>3, ElementOfSeq
<1>5. /\ first \in Units /\ first.packet \in 0 .. Chunks /\ first.part \in {"head", "body"}
      /\ 0 \in 0 .. Chunks
  BY <1>3, <1>4, NetworkAssumption DEF Units
<1> HIDE DEF first
<1>6. ASSUME NEW r \in 0 .. Chunks, first = Packet(r)[1]
      PROVE  first.packet = r /\ first.part = "head"
  <2>1. Packet(r)[1].packet = r /\ Packet(r)[1].part = "head"
    BY PacketUnits
  <2>2. QED BY <1>6, <2>1
<1>7. ConnectionInv(d) /\ Alive(d)
  BY <1>2 DEF IInv, Alive
<1>8. writer[d] = "none" /\ d \notin nameless => first.packet = 0 /\ first.part = "head"
  BY <1>3, <1>5, <1>6, <1>7 DEF ConnectionInv, NameInv, NameFirst, first
<1>9. packetwise[d] => first.part = "head"
  <2>1. SUFFICES ASSUME packetwise[d] PROVE first.part = "head"
    OBVIOUS
  <2>2. Alternates(wire[d], pending[d], ~Gone(d)) /\ (~Gone(d)) \in BOOLEAN
    BY <1>7, <2>1 DEF ConnectionInv, PartInv, Gone
  <2>3. pending[d] \in Seq(Units)
    BY DEF IInv, TypeOK
  <2>4. QED BY <1>3, <2>2, <2>3, HeadFirst DEF first
<1>10. id[d] \in Ids /\ id[d] # 0 /\ FileOf(d) = files[id[d]] /\ files \in [Ids -> Seq(0 .. Chunks)]
       /\ writer \in [Connections -> {"none", "own", "other"}]
  BY <1>2 DEF IInv, IdInv, TypeOK, Ids, FileOf
<1>11. ASSUME NEW how \in {"denied", "down", "crashed"}, Fall(how), UNCHANGED <<writer, files>>,
              how = "down" => n # 2 \/ first.part = "body",
              how = "crashed" => d \in nameless
       PROVE  IInv'
  <2>1. /\ packetwise' \in [Connections -> BOOLEAN]
        /\ \A c \in Connections : packetwise'[c] => packetwise[c]
        /\ packetwise'[d] = (packetwise[d] /\ n = 2)
        /\ \A c \in Connections \ {d} : packetwise'[c] = packetwise[c]
    BY <1>1 DEF IInv, TypeOK
  <2>2. how = "down" => ~packetwise'[d]
    BY <1>9, <1>11, <2>1
  <2>3. packed[d] # 0
    BY <1>3, <1>7 DEF ConnectionInv, StreamInv
  <2>4. \A c \in Connections : /\ packetwise'[c] => packetwise[c]
                               /\ packed[c] = 0 => packetwise'[c] = packetwise[c]
    BY <2>1, <2>3
  <2>5. how = "crashed" => id[d] # 0 /\ writer[d] = "none" /\ packed[d] > 1
    <3>1. packed[d] \in Nat
      BY ConnectionTypes DEF IInv
    <3>2. QED BY <1>3, <1>7, <1>10, <1>11, <2>3, <3>1 DEF ConnectionInv, NamelessInv
  <2>6. how \in {"ended", "denied", "down", "crashed"}
    OBVIOUS
  <2>7. QED BY <1>2, <1>11, <2>1, <2>2, <2>4, <2>5, <2>6, FallInv
(* Without a name the first unit is the header of a chunk.                 *)
<1>20. d \in nameless => /\ writer[d] = "none"
                         /\ first.part = "head" /\ first.packet # 0
  <2>1. SUFFICES ASSUME d \in nameless
                 PROVE  writer[d] = "none" /\ packetwise[d] /\ wire[d][1].packet # 0
    BY <1>9 DEF first
  <2>2. writer[d] = "none" /\ packetwise[d] /\ NoName(wire[d])
    BY <1>7, <2>1 DEF ConnectionInv, NamelessInv
  <2>3. QED BY <1>3, <2>2 DEF NoName
<1>12. ASSUME first.part = "body", UNCHANGED files, ReadOn(d, n),
              NEW v \in {"own", "other"}, writer' = [writer EXCEPT ![d] = v]
       PROVE  IInv'
  <2>1. PICK g \in Seq(0 .. Chunks) : g = FileOf(d)
    BY <1>3
  <2>2. files' = [files EXCEPT ![id[d]] = g]
    BY <1>10, <1>12, <2>1
  <2>3. \A r \in 0 .. Chunks : ~(wire[d][1] = Packet(r)[1])
    BY <1>6, <1>12 DEF first
  <2>4. PICK b \in 0 .. Chunks : b = 0
    BY <1>5
  <2>5. ReadAs(d, n, v, b, g)
    BY <1>1, <1>2, <1>12, <1>20, <2>1, <2>2, <2>3, <2>4 DEF ReadAs
  <2>6. QED BY <2>5, ReadInv
<1>13. ASSUME NEW block \in 0 .. Chunks, HandleFileData(d, n, block),
              block # 0 => block = first.packet /\ first.part = "head",
              ~(first.packet = 0 /\ first.part = "head"),
              \A r \in 0 .. Chunks :
                n = 2 /\ first = Packet(r)[1] /\ wire[d][2] = Packet(r)[2] => block = r
       PROVE  IInv'
  <2>0. CASE d \in nameless
    <3>1. Fall("crashed") /\ UNCHANGED <<writer, files>>
      BY <1>13, <1>20, <2>0 DEF HandleFileData
    <3>2. QED BY <1>11, <2>0, <3>1
  <2> SUFFICES ASSUME d \notin nameless PROVE IInv'
    BY <2>0
  <2> DEFINE v == writer[d]
             g == IF v = "own" THEN Append(FileOf(d), block) ELSE FileOf(d)
  <2>1. v \in {"own", "other"} /\ UNCHANGED writer /\ ReadOn(d, n)
    BY <1>8, <1>10, <1>13 DEF HandleFileData
  <2>2. writer' = [writer EXCEPT ![d] = v]
    BY <1>10, <2>1
  <2>3. files' = [files EXCEPT ![id[d]] = g]
    BY <1>8, <1>10, <1>13 DEF HandleFileData
  <2>4. g \in Seq(0 .. Chunks) /\ g \in {FileOf(d), <<>>, Append(FileOf(d), block)}
    <3>1. Append(FileOf(d), block) \in Seq(0 .. Chunks)
      BY <1>3, AppendProperties
    <3>2. QED BY <1>3, <3>1
  <2>5. block # 0 => block = wire[d][1].packet /\ wire[d][1].part = "head"
    BY <1>13 DEF first
  <2>6. ASSUME NEW r \in 0 .. Chunks, n = 2, wire[d][1] = Packet(r)[1], wire[d][2] = Packet(r)[2]
        PROVE  r # 0 /\ (v = "own" => g = Append(FileOf(d), r))
    BY <1>6, <1>13, <2>6 DEF first
  <2> HIDE DEF g
  <2>7. \A r \in 0 .. Chunks :
          n = 2 /\ wire[d][1] = Packet(r)[1] /\ wire[d][2] = Packet(r)[2] =>
            IF r = 0 THEN g = <<>> /\ v = "own"
            ELSE v = writer[d] /\ (v = "own" => g = Append(FileOf(d), r))
    BY <2>6
  <2>8. PICK x \in {"own", "other"}, h \in Seq(0 .. Chunks) : x = v /\ h = g
    BY <2>1, <2>4
  <2>9. /\ writer' = [writer EXCEPT ![d] = x] /\ files' = [files EXCEPT ![id[d]] = h]
        /\ h \in {FileOf(d), <<>>, Append(FileOf(d), block)}
    BY <2>2, <2>3, <2>4, <2>8
  <2>10. \A r \in 0 .. Chunks :
           n = 2 /\ wire[d][1] = Packet(r)[1] /\ wire[d][2] = Packet(r)[2] =>
             IF r = 0 THEN h = <<>> /\ x = "own"
             ELSE x = writer[d] /\ (x = "own" => h = Append(FileOf(d), r))
    BY <2>7, <2>8
  <2>11. ReadAs(d, n, x, block, h)
    BY <1>1, <1>2, <2>1, <2>5, <2>9, <2>10 DEF ReadAs
  <2>12. QED BY <2>11, ReadInv
<1>14. CASE first.part = "head" /\ n = 1 /\ Throw
  BY <1>11, <1>14 DEF Throw
<1>15. CASE first.part = "head" /\ n > 1 /\ first.packet = 0 /\ HandleFileName(d, n)
  <2>1. CASE Fall("denied") /\ UNCHANGED <<writer, files>>
    BY <1>11, <2>1
  <2>2. CASE writer' = [writer EXCEPT ![d] = "own"] /\ files' = Created(d) /\ ReadOn(d, n)
    <3>1. files' = [files EXCEPT ![id[d]] = <<>>] /\ <<>> \in Seq(0 .. Chunks)
      BY <2>2, EmptySeq DEF Created
    <3>2. \A r \in 0 .. Chunks : wire[d][1] = Packet(r)[1] => r = 0
      BY <1>6, <1>15 DEF first
    <3>3. ReadAs(d, n, "own", 0, <<>>)
      BY <1>1, <1>2, <1>5, <1>15, <1>20, <2>2, <3>1, <3>2 DEF ReadAs
    <3>4. QED BY <1>5, <3>1, <3>3, ReadInv
  <2>3. QED BY <1>15, <2>1, <2>2 DEF HandleFileName
<1>16. CASE /\ first.part = "head" /\ n > 1 /\ first.packet > 0
            /\ HandleFileData(d, n, Decrypt(first, wire[d][2]))
  <2> DEFINE block == Decrypt(first, wire[d][2])
  <2>1. block \in 0 .. Chunks /\ (block # 0 => block = first.packet)
    BY <1>5 DEF Decrypt
  <2>2. ASSUME NEW r \in 0 .. Chunks, first = Packet(r)[1], wire[d][2] = Packet(r)[2]
        PROVE  block = r
    <3>1. first.packet = r
      BY <1>6, <2>2
    <3>2. wire[d][2].packet = r
      BY <2>2, PacketUnits
    <3>3. QED BY <3>1, <3>2 DEF Decrypt
  <2>3. HandleFileData(d, n, block) /\ first.packet # 0
    BY <1>5, <1>16
  <2> HIDE DEF block
  <2>4. QED BY <1>13, <1>16, <2>1, <2>2, <2>3
<1>17. CASE first.part = "body" /\ Throw
  BY <1>11, <1>17 DEF Throw
<1>18. CASE first.part = "body" /\ HandleNoHeader(d, n)
  <2>1. CASE UNCHANGED <<writer, files>> /\ ReadOn(d, n)
    <3>1. writer[d] \in {"own", "other"} /\ writer' = [writer EXCEPT ![d] = writer[d]]
      BY <1>8, <1>10, <1>18, <1>20, <2>1
    <3>2. QED BY <1>12, <1>18, <2>1, <3>1
  <2>2. CASE HandleFileData(d, n, 0)
    BY <1>5, <1>6, <1>13, <1>18, <2>2
  <2>3. CASE writer' = [writer EXCEPT ![d] = "other"] /\ UNCHANGED files /\ ReadOn(d, n)
    BY <1>12, <1>18, <2>3
  <2>4. QED BY <1>18, <2>1, <2>2, <2>3 DEF HandleNoHeader
<1>19. QED BY <1>1, <1>14, <1>15, <1>16, <1>17, <1>18 DEF Handle, first

LEMMA NextInv ==
  ASSUME IInv, [Next]_vars
  PROVE  IInv'
<1>1. ASSUME NEW p \in Clients, Client(p) PROVE IInv'
  <2>1. ASSUME End(p) PROVE IInv'
    BY <2>1, EndInv
  <2>2. QED BY <1>1, <2>1, ConnectInv, WriteInv, NameFailsInv, NextTaskInv
             DEF Client, SourceMissing, EncryptThrows, ClientEnds, Interrupt
<1>2. ASSUME Start \/ Accept \/ AcceptFails \/ Return \/ Stop PROVE IInv'
  BY <1>2, StartInv, AcceptInv, EndOfServerInv
<1>3. ASSUME NEW c \in Connections, Transmit(c) \/ Serve(c) \/ Break(c) PROVE IInv'
  BY <1>3, TransmitInv, ReceiveInv, DisconnectInv DEF Serve
<1>4. ASSUME UNCHANGED vars PROVE IInv'
  <2>1. UNCHANGED <<server, accepting, currentId, backlog, clientPc, turn, packed, nameless,
                    pending, wire, link, id, writer, files, inTime, packetwise>>
    BY <1>4 DEF vars, clientVars, serverVars, streamVars, handlerVars
  <2>2. TypeOK'
    BY <2>1 DEF IInv, TypeOK
  <2>3. QED BY <2>1, <2>2, ServerFrame
<1>5. QED BY <1>1, <1>2, <1>3, <1>4 DEF Next

(***************************************************************************)
(* The invariant holds in every state of clients and server, and with it   *)
(* the types of the variables.                                             *)
(***************************************************************************)
THEOREM Invariant == Spec => [](TypeOK /\ IInv)
<1>1. IInv => TypeOK
  BY DEF IInv
<1>2. QED BY <1>1, InitInv, NextInv, PTL DEF Spec

(***************************************************************************)
(* DataHandler::HandleFileData (DataHandler.h:79) finds its writer missing *)
(* on no connection but one whose client gave up the name and went on to   *)
(* the chunks: whatever sends and reads do to the other streams, and       *)
(* whichever client is interrupted, their first unit is the header of the  *)
(* name.                                                                   *)
(***************************************************************************)
THEOREM WriterIsThere == Spec => []NoNullWriter
<1>1. IInv => NoNullWriter
  BY DEF IInv
<1>2. QED BY <1>1, Invariant, PTL

(***************************************************************************)
(* The blocks of a file are those of its own source and never go back,     *)
(* and without pending sends none is there twice (TCPServer.h:39 gives     *)
(* every connection an id, and so a file, of its own).                     *)
(***************************************************************************)
THEOREM FilesKeepTheOrder == Spec => []ChunksInOrder
<1>1. IInv => ChunksInOrder
  <2>1. SUFFICES ASSUME IInv, NEW c \in Connections, id[c] # 0,
                        NEW j \in 1 .. Len(files[id[c]]), NEW k \in 1 .. Len(files[id[c]]),
                        j < k, files[id[c]][j] # 0, files[id[c]][k] # 0
                 PROVE  /\ files[id[c]][j] <= files[id[c]][k]
                        /\ inTime[c] => files[id[c]][j] # files[id[c]][k]
    BY DEF ChunksInOrder
  <2>2. FileOf(c) = files[id[c]] /\ FileOf(c) \in Seq(0 .. Chunks) /\ OrderInv(c)
    BY <2>1, ConnectionTypes DEF FileOf, IInv, ConnectionInv
  <2>3. files[id[c]][j] \in 0 .. Chunks /\ files[id[c]][k] \in 0 .. Chunks
    BY <2>2, ElementOfSeq
  <2>4. files[id[c]][j] <= files[id[c]][k]
    BY <2>1, <2>2 DEF OrderInv, InOrder
  <2>5. inTime[c] => files[id[c]][j] < files[id[c]][k]
    BY <2>1, <2>2 DEF OrderInv, Once
  <2>6. QED BY <2>3, <2>4, <2>5, NetworkAssumption
<1>2. QED BY <1>1, Invariant, PTL

(***************************************************************************)
(* When no send is ever pending and every read returns one packet, the     *)
(* file of a connection is a prefix of its source, and all that was packed *)
(* when TCPConnection.h:66 closes it, whatever other connections do.       *)
(***************************************************************************)
THEOREM FilesAreWhole == Spec => []WholeFiles
<1>1. IInv => WholeFiles
  <2>1. SUFFICES ASSUME IInv, NEW c \in Connections, inTime[c], packetwise[c], id[c] # 0
                 PROVE  /\ \A k \in 1 .. Len(files[id[c]]) : files[id[c]][k] = k
                        /\ link[c] = "closed" /\ packed[c] > 0 =>
                             Len(files[id[c]]) + 1 = packed[c]
    BY DEF WholeFiles
  <2>2. FileOf(c) = files[id[c]] /\ packed[c] \in Nat /\ StreamInv(c) /\ ExactInv(c)
    BY <2>1, ConnectionTypes DEF FileOf, IInv, ConnectionInv
  <2>3. \A k \in 1 .. Len(files[id[c]]) : files[id[c]][k] = k
    BY <2>1, <2>2 DEF ExactInv
  <2>4. ASSUME link[c] = "closed", packed[c] > 0 PROVE Len(files[id[c]]) + 1 = packed[c]
    <3>1. wire[c] = <<>>
      BY <2>2, <2>4 DEF StreamInv
    <3>2. PICK r \in 0 .. packed[c] : Exact(wire[c], FileOf(c), packed[c], r)
      BY <2>1, <2>2, <2>4 DEF ExactInv
    <3>3. r = packed[c]
      BY <2>2, <3>1, <3>2 DEF Exact
    <3>4. QED BY <2>2, <2>4, <3>2, <3>3 DEF Exact
  <2>5. QED BY <2>3, <2>4
<1>2. QED BY <1>1, Invariant, PTL

(***************************************************************************)
(* The exceptions that end the server for all of its clients come from     *)
(* reads that were not one packet, and from nothing a client does          *)
(* (NetworkTask.cpp:62).                                                   *)
(***************************************************************************)
THEOREM ServerEndsOnlyByAReadThatIsNoPacket == Spec => []ServerEndsForAReason
<1>1. IInv => ServerEndsForAReason
  BY DEF IInv
<1>2. QED BY <1>1, Invariant, PTL
=============================================================================
