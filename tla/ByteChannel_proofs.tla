------------------------- MODULE ByteChannel_proofs -------------------------
(***************************************************************************)
(* The channel keeps the order of the file, for every file size, capacity  *)
(* and set of faults.  MultiThreadTask_refinement takes this over to the   *)
(* two threads.                                                            *)
(***************************************************************************)
EXTENDS ByteChannel, SequenceLemmas

ChannelTypes ==
  /\ next \in Nat
  /\ queue \in Seq(Nat) /\ block \in Seq(Nat) /\ output \in Seq(Nat)

(* Some bytes were offered, and s holds them in order.                     *)
Ordered(s, bound) ==
  /\ \A i \in 1 .. Len(s) : s[i] \in 1 .. bound - 1
  /\ \A i, j \in 1 .. Len(s) : i < j => s[i] < s[j]

(* A later byte may follow.                                                *)
LEMMA OrderedAppend ==
  ASSUME NEW s \in Seq(Nat), NEW n \in Nat \ {0}, Ordered(s, n)
  PROVE  Ordered(Append(s, n), n + 1)
<1>1. /\ Len(Append(s, n)) = Len(s) + 1 /\ Len(s) \in Nat
      /\ \A i \in 1 .. Len(s) : Append(s, n)[i] = s[i]
      /\ Append(s, n)[Len(s) + 1] = n
  BY AppendProperties, LenProperties
<1> DEFINE t == Append(s, n)
<1> HIDE DEF t
<1>2. /\ \A i \in 1 .. Len(s) : t[i] = s[i] /\ s[i] \in 1 .. n - 1
      /\ Len(t) = Len(s) + 1 /\ t[Len(s) + 1] = n
  BY <1>1 DEF Ordered, t
<1>3. \A i \in 1 .. Len(t) : t[i] \in 1 .. n
  BY <1>1, <1>2
<1>4. ASSUME NEW i \in 1 .. Len(t), NEW j \in 1 .. Len(t), i < j
      PROVE  t[i] < t[j]
  <2>0. Len(s) \in Nat /\ Len(t) = Len(s) + 1
    BY <1>1, <1>2
  <2>1. CASE j = Len(s) + 1
    <3>1. i \in 1 .. Len(s)
      BY <1>4, <2>0, <2>1
    <3>2. QED BY <1>2, <2>1, <3>1
  <2>2. CASE j # Len(s) + 1
    <3>1. i \in 1 .. Len(s) /\ j \in 1 .. Len(s)
      BY <1>4, <2>0, <2>2
    <3>2. s[i] < s[j]
      BY <1>4, <3>1 DEF Ordered
    <3>3. QED BY <1>2, <3>1, <3>2
  <2>3. QED BY <2>1, <2>2
<1>5. QED BY <1>3, <1>4 DEF Ordered, t

(* More bytes may have been offered.                                       *)
LEMMA OrderedLater ==
  ASSUME NEW s \in Seq(Nat), NEW m \in Nat, NEW n \in Nat, m <= n, Ordered(s, m)
  PROVE  Ordered(s, n)
  BY LenProperties DEF Ordered

(* A part in the middle may be lost.                                       *)
LEMMA OrderedWithout ==
  ASSUME NEW a \in Seq(Nat), NEW b \in Seq(Nat), NEW c \in Seq(Nat),
         NEW n \in Nat, Ordered((a \o b) \o c, n)
  PROVE  Ordered(a \o c, n)
<1> DEFINE s == (a \o b) \o c
           t == a \o c
<1>1. /\ Len(a) \in Nat /\ Len(b) \in Nat /\ Len(c) \in Nat
      /\ a \o b \in Seq(Nat) /\ Len(a \o b) = Len(a) + Len(b)
  BY LenProperties, ConcatProperties
<1>2. /\ Len(s) = Len(a) + Len(b) + Len(c)
      /\ Len(t) = Len(a) + Len(c)
  BY <1>1, ConcatProperties
<1>3. ASSUME NEW i \in 1 .. Len(a)
      PROVE  t[i] = s[i]
  <2>1. t[i] = a[i]
    BY <1>1, ConcatProperties
  <2>2. (a \o b)[i] = a[i]
    BY <1>1, ConcatProperties
  <2>3. s[i] = (a \o b)[i]
    BY <1>1, ConcatProperties
  <2>4. QED BY <2>1, <2>2, <2>3
<1>4. ASSUME NEW i \in Len(a) + 1 .. Len(a) + Len(c)
      PROVE  t[i] = s[i + Len(b)]
  <2>1. t[i] = c[i - Len(a)]
    BY <1>1, ConcatProperties
  <2>2. /\ i + Len(b) \in 1 .. Len(a \o b) + Len(c)
        /\ ~(i + Len(b) <= Len(a \o b))
        /\ i + Len(b) - Len(a \o b) = i - Len(a)
    BY <1>1
  <2>3. s[i + Len(b)] = c[i + Len(b) - Len(a \o b)]
    BY <1>1, <2>2, ConcatProperties
  <2>4. QED BY <2>1, <2>2, <2>3
<1>5. PICK f \in [1 .. Len(t) -> 1 .. Len(s)] :
        /\ \A i \in 1 .. Len(t) : t[i] = s[f[i]]
        /\ \A i, j \in 1 .. Len(t) : i < j => f[i] < f[j]
  <2> DEFINE f == [i \in 1 .. Len(t) |-> IF i <= Len(a) THEN i ELSE i + Len(b)]
  <2>1. f \in [1 .. Len(t) -> 1 .. Len(s)]
    BY <1>1, <1>2
  <2>2. \A i, j \in 1 .. Len(t) : i < j => f[i] < f[j]
    BY <1>1, <1>2
  <2>3. \A i \in 1 .. Len(t) : t[i] = s[f[i]]
    <3> SUFFICES ASSUME NEW i \in 1 .. Len(t) PROVE t[i] = s[f[i]]
      OBVIOUS
    <3> HIDE DEF s, t
    <3>1. CASE i <= Len(a)
      <4>1. i \in 1 .. Len(a) /\ f[i] = i
        BY <1>1, <1>2, <3>1
      <4>2. QED BY <1>3, <4>1
    <3>2. CASE ~(i <= Len(a))
      <4>1. i \in Len(a) + 1 .. Len(a) + Len(c) /\ f[i] = i + Len(b)
        BY <1>1, <1>2, <3>2
      <4>2. QED BY <1>4, <4>1
    <3>3. QED BY <3>1, <3>2
  <2>4. QED BY <2>1, <2>2, <2>3
<1>6. Ordered(s, n)
  OBVIOUS
<1> HIDE DEF s, t
<1>7. Ordered(t, n)
  <2>1. ASSUME NEW i \in 1 .. Len(t) PROVE f[i] \in 1 .. Len(s)
    BY <1>5
  <2>2. \A i \in 1 .. Len(t) : t[i] \in 1 .. n - 1
    BY <1>5, <1>6, <2>1 DEF Ordered
  <2>3. ASSUME NEW i \in 1 .. Len(t), NEW j \in 1 .. Len(t), i < j
        PROVE  t[i] < t[j]
    <3>1. f[i] < f[j]
      BY <1>5, <2>3
    <3>2. s[f[i]] < s[f[j]]
      BY <1>6, <2>1, <3>1 DEF Ordered
    <3>3. QED BY <1>5, <3>2
  <2>4. QED BY <2>2, <2>3 DEF Ordered
<1>8. QED BY <1>7 DEF t

-----------------------------------------------------------------------------
ChannelInv == ChannelTypes /\ next >= 1 /\ Ordered(Stream, next)

LEMMA ChannelInit == Init => ChannelInv
<1> SUFFICES ASSUME Init PROVE ChannelInv
  OBVIOUS
<1>1. Stream = <<>>
  BY ConcatEmptySeq, EmptySeq DEF Init, Stream
<1>2. QED BY <1>1 DEF Init, ChannelInv, ChannelTypes, Ordered

(* A byte that is accepted comes behind all others.                        *)
LEMMA PutStream ==
  ASSUME ChannelTypes, Put
  PROVE  ChannelTypes' /\ Stream' = Append(Stream, next)
<1> USE DEF ChannelTypes
<1>1. queue' = Append(queue, next) /\ next' = next + 1 /\ UNCHANGED <<block, output>>
  BY DEF Put
<1>2. queue' \in Seq(Nat)
  BY <1>1, AppendProperties
<1>3. Stream \in Seq(Nat) /\ output \o block \in Seq(Nat)
  BY ConcatProperties DEF Stream
<1>4. (output \o block) \o Append(queue, next) = Append((output \o block) \o queue, next)
  BY <1>3, ConcatAppend
<1>5. Stream' = Append(Stream, next)
  BY <1>1, <1>4 DEF Stream
<1>6. QED BY <1>1, <1>2, <1>5

(* What leaves the queue or the hand stays in the stream.                  *)
LEMMA TakeStream ==
  ASSUME ChannelTypes, Take
  PROVE  ChannelTypes' /\ Stream' = Stream
<1> USE DEF ChannelTypes
<1>1. PICK n \in 1 .. Len(queue) :
        block' = SubSeq(queue, 1, n) /\ queue' = SubSeq(queue, n + 1, Len(queue))
  BY DEF Take
<1>2. block = <<>> /\ UNCHANGED <<next, output>>
  BY DEF Take
<1>3. Len(queue) \in Nat /\ \A i \in 1 .. Len(queue) : queue[i] \in Nat
  BY LenProperties, ElementOfSeq
<1>4. block' \in Seq(Nat) /\ queue' \in Seq(Nat)
  BY <1>1, <1>3, SubSeqProperties
<1>5. block' \o queue' = queue
  <2>1. block' \o queue' = SubSeq(queue, 1, Len(queue))
    BY <1>1, <1>3, ConcatAdjacentSubSeq
  <2>2. QED BY <2>1, SubSeqFull
<1>6. Stream = output \o queue
  BY <1>2, ConcatEmptySeq DEF Stream
<1>7. Stream' = (output \o block') \o queue'
  BY <1>2 DEF Stream
<1>8. (output \o block') \o queue' = output \o (block' \o queue')
  BY <1>4, ConcatNat
<1>9. Stream' = Stream
  BY <1>5, <1>6, <1>7, <1>8
<1>10. QED BY <1>2, <1>4, <1>9

LEMMA WriteStream ==
  ASSUME ChannelTypes, Write
  PROVE  ChannelTypes' /\ Stream' = Stream
<1> USE DEF ChannelTypes
<1>1. output' = output \o block /\ block' = <<>> /\ UNCHANGED <<next, queue>>
  BY DEF Write
<1>2. output' \in Seq(Nat) /\ block' \in Seq(Nat)
  BY <1>1, ConcatProperties
<1>3. Stream' = Stream
  BY <1>1, <1>2, ConcatEmptySeq DEF Stream
<1>4. QED BY <1>1, <1>2, <1>3

(* A block that is given up leaves the rest of the stream.                 *)
LEMMA AbandonStream ==
  ASSUME ChannelTypes, Abandon
  PROVE  ChannelTypes' /\ Stream' = output \o queue
<1> USE DEF ChannelTypes
<1>1. block' = <<>> /\ UNCHANGED <<next, queue, output>>
  BY DEF Abandon
<1>2. Stream' = output \o queue
  BY <1>1, ConcatEmptySeq DEF Stream
<1>3. QED BY <1>1, <1>2, EmptySeq

(* Nothing else changes the stream.                                        *)
LEMMA QuietStream ==
  ASSUME FileSize \in Nat, ChannelTypes, Drop \/ Skip \/ Close \/ UNCHANGED vars
  PROVE  ChannelTypes' /\ Stream' = Stream /\ next <= next'
<1>1. UNCHANGED <<queue, block, output>>
  BY DEF Drop, Skip, Close, vars
<1>2. next' \in Nat /\ next <= next'
  BY DEF Drop, Skip, Close, vars, ChannelTypes
<1>3. Stream' = Stream
  BY <1>1 DEF Stream
<1>4. QED BY <1>1, <1>2, <1>3 DEF ChannelTypes

LEMMA ChannelStep ==
  ASSUME FileSize \in Nat, ChannelInv, [Next]_vars
  PROVE  ChannelInv'
<1> USE DEF ChannelInv
<1>1. Stream \in Seq(Nat) /\ next \in Nat
  BY ConcatProperties DEF ChannelTypes, Stream
<1>2. CASE Put
  <2>1. Ordered(Append(Stream, next), next + 1)
    BY <1>1, OrderedAppend
  <2>2. next' = next + 1
    BY <1>2 DEF Put
  <2>3. ChannelTypes' /\ Stream' = Append(Stream, next)
    BY <1>2, PutStream
  <2>4. QED BY <1>1, <2>1, <2>2, <2>3
<1>3. CASE Take \/ Write
  <2>1. ChannelTypes' /\ Stream' = Stream
    BY <1>3, TakeStream, WriteStream
  <2>2. QED BY <1>3, <2>1 DEF Take, Write
<1>4. CASE Abandon
  <2>1. Ordered(output \o queue, next)
    BY <1>1, OrderedWithout DEF Stream, ChannelTypes
  <2>2. QED BY <1>4, <2>1, AbandonStream DEF Abandon
<1>5. CASE Drop \/ Skip \/ Close \/ UNCHANGED vars
  <2>1. ChannelTypes' /\ Stream' = Stream /\ next <= next'
    BY <1>5, QuietStream
  <2>2. next' \in Nat
    BY <2>1 DEF ChannelTypes
  <2>3. QED BY <1>1, <2>1, <2>2, OrderedLater
<1>6. QED BY <1>2, <1>3, <1>4, <1>5 DEF Next

(* The bytes that are missing from the stream never become fewer.          *)
LEMMA MissingStep ==
  ASSUME FileSize \in Nat, ChannelTypes, [Next]_vars
  PROVE  next - Len(Stream) <= next' - Len(Stream')
<1>1. Stream \in Seq(Nat) /\ next \in Nat /\ Len(Stream) \in Nat
  BY ConcatProperties, LenProperties DEF ChannelTypes, Stream
<1>2. CASE Put
  <2>1. next' = next + 1 /\ Len(Append(Stream, next)) = Len(Stream) + 1
    BY <1>1, <1>2 DEF Put
  <2>2. QED BY <1>1, <1>2, <2>1, PutStream
<1>3. CASE Take \/ Write
  <2>1. Stream' = Stream
    BY <1>3, TakeStream, WriteStream
  <2>2. next' = next
    BY <1>3 DEF Take, Write
  <2>3. QED BY <1>1, <2>1, <2>2
<1>4. CASE Abandon
  <2>1. /\ output \in Seq(Nat) /\ block \in Seq(Nat) /\ queue \in Seq(Nat)
        /\ output \o block \in Seq(Nat)
    BY ConcatProperties DEF ChannelTypes
  <2>2. /\ Len(Stream) = Len(output) + Len(block) + Len(queue)
        /\ Len(output \o queue) = Len(output) + Len(queue)
    BY <2>1, ConcatProperties DEF Stream
  <2>3. next' = next
    BY <1>4 DEF Abandon
  <2>4. QED BY <1>1, <1>4, <2>1, <2>2, <2>3, AbandonStream, LenProperties
<1>5. CASE Drop \/ Skip \/ Close \/ UNCHANGED vars
  <2>1. ChannelTypes' /\ Stream' = Stream /\ next <= next'
    BY <1>5, QuietStream
  <2>2. QED BY <1>1, <2>1 DEF ChannelTypes
<1>6. QED BY <1>2, <1>3, <1>4, <1>5 DEF Next

(* The output is where the stream begins, the queue is part of it.         *)
LEMMA StreamParts ==
  ChannelTypes =>
    /\ Stream \in Seq(Nat) /\ Len(Stream) \in Nat
    /\ Len(output) \in Nat /\ Len(queue) \in Nat
    /\ Len(output) + Len(queue) <= Len(Stream)
    /\ \A i \in 1 .. Len(output) : output[i] = Stream[i]
<1> SUFFICES ASSUME ChannelTypes
             PROVE  /\ Stream \in Seq(Nat) /\ Len(Stream) \in Nat
                    /\ Len(output) \in Nat /\ Len(queue) \in Nat
                    /\ Len(output) + Len(queue) <= Len(Stream)
                    /\ \A i \in 1 .. Len(output) : output[i] = Stream[i]
  OBVIOUS
<1>1. /\ output \in Seq(Nat) /\ block \in Seq(Nat) /\ queue \in Seq(Nat)
      /\ Len(output) \in Nat /\ Len(block) \in Nat /\ Len(queue) \in Nat
  BY LenProperties DEF ChannelTypes
<1>2. /\ output \o block \in Seq(Nat)
      /\ Len(output \o block) = Len(output) + Len(block)
      /\ \A i \in 1 .. Len(output) : (output \o block)[i] = output[i]
  BY <1>1, ConcatProperties
<1>3. /\ Stream \in Seq(Nat)
      /\ Len(Stream) = Len(output) + Len(block) + Len(queue)
      /\ \A i \in 1 .. Len(output) : Stream[i] = (output \o block)[i]
  BY <1>1, <1>2, ConcatProperties DEF Stream
<1>4. QED BY <1>1, <1>2, <1>3

(***************************************************************************)
(* Every behaviour of the channel keeps the bytes in the order of the      *)
(* file and repeats none, although it may lose some at each end.           *)
(***************************************************************************)
THEOREM ChannelKeepsOrder ==
  ASSUME FileSize \in Nat
  PROVE  Spec => []InOrder
<1>1. ChannelInv /\ [Next]_vars => ChannelInv'
  BY ChannelStep
<1>2. ChannelInv => InOrder
  BY DEF ChannelInv, InOrder, Ordered
<1>3. QED BY ChannelInit, <1>1, <1>2, PTL DEF Spec
=============================================================================
