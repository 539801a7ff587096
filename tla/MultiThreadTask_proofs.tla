----------------------- MODULE MultiThreadTask_proofs -----------------------
(***************************************************************************)
(* Proofs about MultiThreadTask, for every chunk size, buffer size, file   *)
(* size and set of faults.                                                 *)
(*                                                                         *)
(* The argument is the one of a ring buffer with one producer and one      *)
(* consumer.  The producer stores only into the slot at tail, which is     *)
(* outside the occupied slots; while it is between its check for a full    *)
(* buffer and its store of tail the consumer can only move head away from  *)
(* it.  The consumer copies only slots that were occupied when it took the *)
(* size; while it copies the producer can only add slots behind them.      *)
(* IInv says this, and neither flag nor running occurs in the argument.    *)
(***************************************************************************)
EXTENDS MultiThreadTask, SequenceTheorems, TLAPS

(* The number of occupied slots between two indices.                       *)
Size(h, t) == IF h <= t THEN t - h ELSE BufferSize - h + t

(* The buffer has at least one slot.                                       *)
LEMMA BufferSizeType == BufferSize \in Nat \ {0}
  BY BufferAssumption DEF BufferSize

(* Index wraps an index that is at most once too large.                    *)
LEMMA IndexWraps ==
  ASSUME NEW x \in 0 .. 2 * BufferSize - 1
  PROVE  /\ Index(x) \in Slots
         /\ x < BufferSize => Index(x) = x
         /\ x >= BufferSize => Index(x) = x - BufferSize
  BY BufferSizeType DEF Index, Slots

(* The occupied slots are fewer than the slots, and the buffer is full     *)
(* when one slot is free.                                                  *)
LEMMA SizeBounds ==
  ASSUME NEW h \in Slots, NEW t \in Slots
  PROVE  /\ Size(h, t) \in 0 .. BufferSize - 1
         /\ Index(t + 1) = h <=> Size(h, t) = BufferSize - 1
         /\ h = t => Size(h, t) = 0
  BY BufferSizeType, IndexWraps DEF Size, Slots

(* Moving tail over a free slot occupies it.                               *)
LEMMA SizeGrows ==
  ASSUME NEW h \in Slots, NEW t \in Slots, Index(t + 1) # h
  PROVE  Size(h, Index(t + 1)) = Size(h, t) + 1
  BY BufferSizeType, IndexWraps DEF Size, Slots

(* Moving head over occupied slots frees them, and leaves the others where *)
(* they are.                                                               *)
LEMMA SizeShrinks ==
  ASSUME NEW h \in Slots, NEW t \in Slots, NEW n \in 0 .. Size(h, t)
  PROVE  /\ Index(h + n) \in Slots
         /\ Size(Index(h + n), t) = Size(h, t) - n
         /\ \A k \in 0 .. Size(h, t) - n : Index(Index(h + n) + k) = Index(h + n + k)
<1>1. /\ h + n \in 0 .. 2 * BufferSize - 1
      /\ \A k \in 0 .. Size(h, t) - n : h + n + k \in 0 .. 2 * BufferSize - 1
  BY BufferSizeType, SizeBounds DEF Slots, Size
<1>2. \A k \in 0 .. Size(h, t) - n : Index(h + n) + k \in 0 .. 2 * BufferSize - 1
  BY <1>1, BufferSizeType, SizeBounds, IndexWraps DEF Slots, Size
<1>3. Index(h + n) \in Slots
  BY <1>1, IndexWraps
<1>4. Size(Index(h + n), t) = Size(h, t) - n
  BY <1>1, BufferSizeType, IndexWraps DEF Slots, Size
<1>5. ASSUME NEW k \in 0 .. Size(h, t) - n
      PROVE  Index(Index(h + n) + k) = Index(h + n + k)
  <2>1. Index(h + n) = IF h + n < BufferSize THEN h + n ELSE h + n - BufferSize
    BY <1>1, BufferSizeType, IndexWraps DEF Slots
  <2>2. CASE h + n < BufferSize
    BY <2>1, <2>2
  <2>3. CASE h + n >= BufferSize
    <3>1. h + n + k >= BufferSize /\ Index(h + n + k) = h + n + k - BufferSize
      BY <1>1, <2>3, BufferSizeType, IndexWraps, SizeBounds DEF Slots
    <3>2. Index(h + n) + k = h + n + k - BufferSize
      BY <2>1, <2>3, BufferSizeType, SizeBounds DEF Slots
    <3>3. Index(h + n) + k < BufferSize
      BY <1>1, <3>2, BufferSizeType, SizeBounds DEF Slots, Size
    <3>4. QED BY <1>2, <3>1, <3>2, <3>3, IndexWraps
  <2>4. QED BY <2>2, <2>3, BufferSizeType, SizeBounds DEF Slots
<1>6. QED BY <1>3, <1>4, <1>5

(* No occupied slot is the one at tail.                                    *)
LEMMA TailIsFree ==
  ASSUME NEW h \in Slots, NEW t \in Slots, NEW k \in 0 .. Size(h, t) - 1
  PROVE  /\ Index(h + k) \in Slots
         /\ Index(h + k) # t
<1>1. h + k \in 0 .. 2 * BufferSize - 1
  BY BufferSizeType, SizeBounds DEF Slots
<1>2. QED BY <1>1, BufferSizeType, IndexWraps DEF Slots, Size

(* The slot behind the occupied ones is the one at tail.                   *)
LEMMA TailIsNext ==
  ASSUME NEW h \in Slots, NEW t \in Slots
  PROVE  Index(h + Size(h, t)) = t
<1>1. h + Size(h, t) \in 0 .. 2 * BufferSize - 1
  BY BufferSizeType DEF Slots, Size
<1>2. QED BY <1>1, BufferSizeType, IndexWraps DEF Slots, Size

-----------------------------------------------------------------------------
(* Type correctness.                                                       *)

(* What a step of the spin loops and flags leaves to say about chunks: a   *)
(* chunk is in hand at these places, and all of it is.                     *)
ChunkInHand ==
  /\ readerPc \in {"awaitWriting", "checkRunning", "put", "storeItem", "storeTail"} =>
       next <= limit
  /\ readerPc = "read" /\ running => next = limit + 1

TypeInv == TypeOK /\ ChunkInHand

LEMMA TypeInit == Init => TypeInv
<1> SUFFICES ASSUME Init PROVE TypeInv
  OBVIOUS
<1>1. FlagTypes
  BY Zenon DEF Init, BufferInit, FlagTypes
<1>2. QED
  BY <1>1, BufferSizeType, TaskAssumption
  DEF Init, BufferInit, TypeInv, TypeOK, ChunkInHand, Slots, ReaderStates, WriterStates

(* Flags stay flags.                                                       *)
LEMMA FlagsStep == FlagTypes /\ Next => FlagTypes'
<1> SUFFICES ASSUME FlagTypes, Next PROVE FlagTypes'
  OBVIOUS
<1> USE DEF FlagTypes, bufferVars, StoreItem, StoreTail, StoreHead, SetReading, SetWriting
<1>1. CASE ReaderThread
  BY <1>1, Zenon DEF ReaderThread, ReaderReads, ReaderThrows, ReaderAwaitsWriting,
     ReaderChecksRunning, ReaderChecksFull, ReaderStoresItem, ReaderStoresTail,
     ReaderEnablesReading, ReaderDisablesWriting, ReaderAwaitsStop, ReaderStops
<1>2. CASE WriterThread
  BY <1>2, Zenon DEF WriterThread, WriterChecksLoop, WriterAwaitsReading,
     WriterChecksRunning, WriterLoadsSize, WriterCopiesItem, WriterStoresHead,
     WriterEnablesWriting, WriterChecksEmpty, WriterDisablesReading,
     WriterWritesFile, WriterThrows
<1>3. CASE UNCHANGED vars
  BY <1>3 DEF vars
<1>4. QED BY <1>1, <1>2, <1>3 DEF Next, Returned

(* A step of readerThread keeps the types.                                 *)
LEMMA TypeReader == TypeInv /\ ReaderThread => TypeInv'
<1> SUFFICES ASSUME TypeInv, ReaderThread PROVE TypeInv'
  OBVIOUS
<1>0. FlagTypes'
  BY FlagsStep DEF TypeInv, TypeOK, Next
<1> USE BufferSizeType, BufferAssumption, TaskAssumption
    DEF TypeInv, TypeOK, ChunkInHand, ReaderStates
<1>1. CASE ReaderReads
  <2>1. CASE limit < FileSize
    <3>1. limit' \in limit + 1 .. FileSize
      BY <1>0, <1>1, <2>1 DEF ReaderReads, Lesser
    <3>2. QED BY <1>0, <1>1, <2>1, <3>1 DEF ReaderReads, bufferVars, writerVars
  <2>2. CASE ~(limit < FileSize)
    BY <1>0, <1>1, <2>2 DEF ReaderReads, bufferVars, writerVars
  <2>3. QED BY <2>1, <2>2
<1>2. CASE ReaderThrows \/ ReaderAwaitsWriting \/ ReaderChecksRunning
  BY <1>0, <1>2 DEF ReaderThrows, ReaderAwaitsWriting, ReaderChecksRunning, bufferVars, writerVars
<1>3. CASE ReaderChecksFull
  BY <1>0, <1>3 DEF ReaderChecksFull, bufferVars, writerVars
<1>4. CASE ReaderStoresItem
  BY <1>0, <1>4 DEF ReaderStoresItem, StoreItem, writerVars
<1>5. CASE ReaderStoresTail
  <2>1. tail' \in Slots
    BY <1>0, <1>5, IndexWraps DEF ReaderStoresTail, StoreTail, Slots
  <2>2. QED BY <1>0, <1>5, <2>1 DEF ReaderStoresTail, StoreTail, writerVars
<1>6. CASE ReaderEnablesReading \/ ReaderDisablesWriting
  BY <1>0, <1>6 DEF ReaderEnablesReading, ReaderDisablesWriting, SetReading, SetWriting,
              AfterByte, writerVars
<1>7. CASE ReaderAwaitsStop \/ ReaderStops
  BY <1>0, <1>7 DEF ReaderAwaitsStop, ReaderStops, bufferVars, writerVars
<1>8. QED BY <1>1, <1>2, <1>3, <1>4, <1>5, <1>6, <1>7 DEF ReaderThread

(* A step of writerThread keeps the types.                                 *)
LEMMA TypeWriter == TypeInv /\ WriterThread => TypeInv'
<1> SUFFICES ASSUME TypeInv, WriterThread PROVE TypeInv'
  OBVIOUS
<1>0. FlagTypes'
  BY FlagsStep DEF TypeInv, TypeOK, Next
<1> USE BufferSizeType, BufferAssumption, TaskAssumption
    DEF TypeInv, TypeOK, ChunkInHand, WriterStates
<1>1. CASE WriterChecksLoop \/ WriterAwaitsReading \/ WriterChecksRunning
  BY <1>0, <1>1 DEF WriterChecksLoop, WriterAwaitsReading, WriterChecksRunning,
              bufferVars, readerVars
<1>2. CASE WriterLoadsSize
  <2>1. dataSize' \in 0 .. BufferSize
    BY <1>0, <1>2, SizeBounds DEF WriterLoadsSize, GetDataSize, Size
  <2>2. chunk' \in Seq(Nat) /\ Len(chunk') = 0
    BY <1>0, <1>2 DEF WriterLoadsSize
  <2>3. QED BY <1>0, <1>2, <2>1, <2>2 DEF WriterLoadsSize, bufferVars, readerVars
<1>3. CASE WriterCopiesItem
  <2>1. CopySlot \in Slots
    BY <1>0, <1>3, IndexWraps DEF WriterCopiesItem, CopySlot, Slots
  <2>2. data[CopySlot] \in Nat
    BY <2>1
  <2>3. chunk' \in Seq(Nat) /\ Len(chunk') = Len(chunk) + 1
    BY <1>0, <1>3, <2>2 DEF WriterCopiesItem
  <2>4. QED BY <1>0, <1>3, <2>3 DEF WriterCopiesItem, bufferVars, readerVars
<1>4. CASE WriterStoresHead
  <2>1. head' \in Slots
    BY <1>0, <1>4, IndexWraps DEF WriterStoresHead, StoreHead, Slots
  <2>2. QED BY <1>0, <1>4, <2>1 DEF WriterStoresHead, StoreHead, readerVars
<1>5. CASE WriterEnablesWriting \/ WriterDisablesReading
  BY <1>0, <1>5 DEF WriterEnablesWriting, WriterDisablesReading, SetReading, SetWriting, readerVars
<1>6. CASE WriterChecksEmpty
  BY <1>0, <1>6 DEF WriterChecksEmpty, bufferVars, readerVars
<1>7. CASE WriterWritesFile
  BY <1>0, <1>7, ConcatProperties DEF WriterWritesFile, bufferVars, readerVars
<1>8. CASE WriterThrows
  BY <1>0, <1>8 DEF WriterThrows, bufferVars, readerVars
<1>9. QED BY <1>1, <1>2, <1>3, <1>4, <1>5, <1>6, <1>7, <1>8 DEF WriterThread

LEMMA TypeStep == TypeInv /\ [Next]_vars => TypeInv'
<1> SUFFICES ASSUME TypeInv, [Next]_vars PROVE TypeInv'
  OBVIOUS
<1>1. CASE ReaderThread BY <1>1, TypeReader
<1>2. CASE WriterThread BY <1>2, TypeWriter
<1>3. CASE UNCHANGED vars
  BY <1>3 DEF vars, bufferVars, readerVars, writerVars, TypeInv, TypeOK, FlagTypes, ChunkInHand
<1>4. QED BY <1>1, <1>2, <1>3 DEF Next, Returned

(***************************************************************************)
(* Every variable keeps its type: the indices stay slots of the buffer,    *)
(* the byte to write is one of the chunk that was read, and the copy never *)
(* outgrows the size it was made for.                                      *)
(***************************************************************************)
THEOREM TypeCorrect == Spec => []TypeOK
<1>1. Spec => []TypeInv
  BY TypeInit, TypeStep, PTL DEF Spec
<1>2. TypeInv => TypeOK
  BY DEF TypeInv
<1>3. QED BY <1>1, <1>2, PTL

-----------------------------------------------------------------------------
(* The ring buffer invariant and what it forbids.                          *)

IInv == TypeInv /\ RingInv

LEMMA SizeIsGetDataSize == GetDataSize = Size(head, tail)
  BY DEF GetDataSize, Size

LEMMA RingInit == Init => RingInv
  BY DEF Init, RingInv, PutInv, CopyInv

(* A step of readerThread neither spends the room it has found nor touches *)
(* the slots writerThread copies.                                          *)
LEMMA RingReader == IInv /\ TypeInv' /\ ReaderThread => RingInv'
<1> SUFFICES ASSUME IInv, TypeInv', ReaderThread PROVE RingInv'
  OBVIOUS
<1> USE BufferSizeType DEF RingInv
<1>t. /\ head \in Slots /\ tail \in Slots
      /\ data \in [Slots -> 0 .. FileSize]
      /\ next \in Nat
      /\ dataSize \in Nat /\ chunk \in Seq(Nat)
      /\ Len(chunk) \in Nat /\ Len(chunk) <= dataSize
      /\ head' \in Slots /\ tail' \in Slots
  <2>1. TypeOK /\ TypeOK'
    BY DEF IInv, TypeInv
  <2>2. QED BY <2>1, TaskAssumption, LenProperties DEF TypeOK
<1>s. /\ GetDataSize = Size(head, tail)
      /\ GetDataSize' = Size(head', tail')
      /\ Size(head, tail) \in 0 .. BufferSize - 1
      /\ Size(head', tail') \in 0 .. BufferSize - 1
  <2>1. GetDataSize = Size(head, tail) /\ GetDataSize' = Size(head', tail')
    BY DEF GetDataSize, Size
  <2>2. QED BY <1>t, <2>1, SizeBounds
<1>i. PutInv /\ CopyInv
  BY DEF IInv
<1>1. CASE ReaderReads \/ ReaderThrows \/ ReaderAwaitsWriting \/ ReaderChecksRunning
             \/ ReaderAwaitsStop \/ ReaderStops
  BY <1>1, <1>i DEF ReaderReads, ReaderThrows, ReaderAwaitsWriting, ReaderChecksRunning,
     ReaderAwaitsStop, ReaderStops, bufferVars, writerVars,
     PutInv, CopyInv, GetDataSize, Full, Index
<1>2. CASE ReaderChecksFull
  BY <1>2, <1>i DEF ReaderChecksFull, bufferVars, writerVars,
     PutInv, CopyInv, GetDataSize, Full, Index
<1>3. CASE ReaderStoresItem
  <2>1. /\ data' = [data EXCEPT ![tail] = next]
        /\ UNCHANGED <<head, tail, writerPc, dataSize, chunk>>
        /\ readerPc = "storeItem" /\ readerPc' = "storeTail" /\ next' = next
    BY <1>3 DEF ReaderStoresItem, StoreItem, writerVars
  <2>2. PutInv'
    BY <1>t, <1>i, <2>1 DEF PutInv, Full, Index
  <2>3. ASSUME writerPc = "copy", NEW i \in 1 .. Len(chunk)
        PROVE  chunk[i] = data'[Index(head + i - 1)]
    <3>1. i - 1 \in 0 .. Size(head, tail) - 1
      BY <1>t, <1>s, <1>i, <2>3 DEF CopyInv
    <3>2. Index(head + (i - 1)) \in Slots /\ Index(head + (i - 1)) # tail
      BY <1>t, <3>1, TailIsFree
    <3>3. head + (i - 1) = head + i - 1
      BY <1>t DEF Slots
    <3>4. QED BY <1>t, <1>i, <2>1, <2>3, <3>2, <3>3 DEF CopyInv
  <2>4. CopyInv'
    BY <1>i, <2>1, <2>3 DEF CopyInv, GetDataSize, Index
  <2>5. QED BY <2>2, <2>4
<1>4. CASE ReaderStoresTail
  <2>1. /\ tail' = Index(tail + 1)
        /\ UNCHANGED <<data, head, writerPc, dataSize, chunk>>
        /\ readerPc = "storeTail" /\ readerPc' = "enableReading"
    BY <1>4 DEF ReaderStoresTail, StoreTail, writerVars
  <2>2. GetDataSize' = GetDataSize + 1
    BY <1>t, <1>s, <1>i, <2>1, SizeGrows DEF PutInv, Full
  <2>3. PutInv'
    BY <2>1 DEF PutInv
  <2>4. CopyInv'
    BY <1>t, <1>i, <1>s, <2>1, <2>2, SizeBounds DEF CopyInv, Index
  <2>5. QED BY <2>3, <2>4
<1>5. CASE ReaderEnablesReading \/ ReaderDisablesWriting
  BY <1>5, <1>i DEF ReaderEnablesReading, ReaderDisablesWriting, SetReading, SetWriting,
     AfterByte, writerVars, PutInv, CopyInv, GetDataSize, Full, Index
<1>6. QED BY <1>1, <1>2, <1>3, <1>4, <1>5 DEF ReaderThread

(* A step of writerThread makes room for the reader thread, never less.    *)
LEMMA RingWriter == IInv /\ TypeInv' /\ WriterThread => RingInv'
<1> SUFFICES ASSUME IInv, TypeInv', WriterThread PROVE RingInv'
  OBVIOUS
<1> USE BufferSizeType DEF RingInv
<1>t. /\ head \in Slots /\ tail \in Slots
      /\ data \in [Slots -> 0 .. FileSize]
      /\ dataSize \in Nat /\ chunk \in Seq(Nat)
      /\ Len(chunk) \in Nat /\ Len(chunk) <= dataSize
      /\ head' \in Slots /\ tail' \in Slots
  <2>1. TypeOK /\ TypeOK'
    BY DEF IInv, TypeInv
  <2>2. QED BY <2>1, LenProperties DEF TypeOK
<1>s. /\ GetDataSize = Size(head, tail)
      /\ GetDataSize' = Size(head', tail')
      /\ Size(head, tail) \in 0 .. BufferSize - 1
      /\ Size(head', tail') \in 0 .. BufferSize - 1
  <2>1. GetDataSize = Size(head, tail) /\ GetDataSize' = Size(head', tail')
    BY DEF GetDataSize, Size
  <2>2. QED BY <1>t, <2>1, SizeBounds
<1>i. PutInv /\ CopyInv
  BY DEF IInv
<1>1. CASE WriterChecksLoop \/ WriterAwaitsReading \/ WriterChecksRunning
             \/ WriterChecksEmpty \/ WriterWritesFile \/ WriterThrows
  BY <1>1, <1>i DEF WriterChecksLoop, WriterAwaitsReading, WriterChecksRunning,
     WriterChecksEmpty, WriterWritesFile, WriterThrows, bufferVars, readerVars,
     PutInv, CopyInv, Full, Index
<1>2. CASE WriterLoadsSize
  BY <1>2, <1>i, <1>s, <1>t, SizeBounds DEF WriterLoadsSize, bufferVars, readerVars,
     PutInv, CopyInv, Full, Index
<1>3. CASE WriterCopiesItem
  <2>1. /\ chunk' = Append(chunk, data[Index(head + Len(chunk))])
        /\ writerPc = "copy" /\ Len(chunk) < dataSize
        /\ UNCHANGED <<data, head, tail, readerPc, next, writerPc, dataSize>>
    BY <1>3 DEF WriterCopiesItem, CopySlot, bufferVars, readerVars
  <2>2. PutInv'
    BY <1>i, <2>1 DEF PutInv, Full, Index
  <2>3. Index(head + Len(chunk)) \in Slots
    BY <1>t, <1>i, <1>s, <2>1, SizeBounds, TailIsFree DEF CopyInv
  <2>4. data[Index(head + Len(chunk))] \in Nat
    BY <1>t, <2>3, TaskAssumption
  <2>5. /\ Len(chunk') = Len(chunk) + 1
        /\ \A i \in 1 .. Len(chunk) : chunk'[i] = chunk[i]
        /\ chunk'[Len(chunk) + 1] = data[Index(head + Len(chunk))]
    BY <1>t, <2>1, <2>4, AppendProperties
  <2>6. ASSUME NEW i \in 1 .. Len(chunk) + 1
        PROVE  chunk'[i] = data[Index(head + i - 1)]
    <3>1. CASE i \in 1 .. Len(chunk)
      BY <1>i, <2>1, <2>5, <3>1 DEF CopyInv
    <3>2. CASE i = Len(chunk) + 1
      <4>1. head + Len(chunk) = head + i - 1
        BY <1>t, <3>2 DEF Slots
      <4>2. QED BY <2>5, <3>2, <4>1
    <3>3. QED BY <1>t, <3>1, <3>2
  <2>7. CopyInv'
    BY <1>i, <2>1, <2>5, <2>6 DEF CopyInv, GetDataSize, Index
  <2>8. QED BY <2>2, <2>7
<1>4. CASE WriterStoresHead
  <2>1. /\ head' = Index(head + dataSize)
        /\ writerPc = "copy" /\ writerPc' = "enableWriting"
        /\ UNCHANGED <<data, tail, readerPc, next>>
    BY <1>4 DEF WriterStoresHead, StoreHead, readerVars
  <2>2. dataSize \in 0 .. Size(head, tail)
    BY <1>t, <1>i, <1>s, <2>1, SizeBounds DEF CopyInv
  <2>3. Size(head', tail) = Size(head, tail) - dataSize
    BY <1>t, <2>1, <2>2, SizeShrinks
  <2>4. ASSUME ~Full PROVE ~Full'
    <3>1. Size(head, tail) # BufferSize - 1
      BY <1>t, <2>4, SizeBounds DEF Full
    <3>2. Size(head', tail) # BufferSize - 1
      BY <1>s, <2>2, <2>3, <3>1
    <3>3. QED BY <1>t, <2>1, <3>2, SizeBounds DEF Full, Index
  <2>5. PutInv'
    BY <1>i, <2>1, <2>4 DEF PutInv
  <2>6. CopyInv'
    BY <2>1 DEF CopyInv
  <2>7. QED BY <2>5, <2>6
<1>5. CASE WriterEnablesWriting \/ WriterDisablesReading
  BY <1>5, <1>i DEF WriterEnablesWriting, WriterDisablesReading, SetReading, SetWriting,
     readerVars, PutInv, CopyInv, Full, Index
<1>6. QED BY <1>1, <1>2, <1>3, <1>4, <1>5 DEF WriterThread

(***************************************************************************)
(* The ring buffer invariant holds in every interleaving of the two        *)
(* threads, whatever the flags do.                                         *)
(***************************************************************************)
THEOREM InvCorrect == Spec => []IInv
<1>1. Init => IInv
  BY TypeInit, RingInit DEF IInv
<1>2. IInv /\ [Next]_vars => IInv'
  <2> SUFFICES ASSUME IInv, [Next]_vars PROVE IInv'
    OBVIOUS
  <2>1. TypeInv'
    BY TypeStep DEF IInv
  <2>2. CASE ReaderThread BY <2>1, <2>2, RingReader DEF IInv
  <2>3. CASE WriterThread BY <2>1, <2>3, RingWriter DEF IInv
  <2>4. CASE UNCHANGED vars
    BY <2>1, <2>4 DEF vars, bufferVars, readerVars, writerVars, IInv, RingInv, PutInv,
       CopyInv, Full, Index, GetDataSize
  <2>5. QED BY <2>2, <2>3, <2>4 DEF Next, Returned
<1>3. QED BY <1>1, <1>2, PTL DEF Spec

(***************************************************************************)
(* What a thread has learnt about the other one's index stays true until   *)
(* it has stored its own: the room a byte was found, and the bytes a copy  *)
(* was made for (CircularBuffer::Write against SetHead).                   *)
(***************************************************************************)
THEOREM RingIsKept == Spec => []RingInv
<1>1. IInv => RingInv
  BY DEF IInv
<1>2. QED BY InvCorrect, <1>1, PTL

(* The slot being stored into is behind every slot that is being copied.   *)
LEMMA NoSlotRaceStep == IInv => NoSlotRace
<1> SUFFICES ASSUME IInv, writerPc = "copy",
                    NEW i \in Len(chunk) .. dataSize - 1
             PROVE  tail # Index(head + i)
  BY DEF NoSlotRace
<1>1. /\ head \in Slots /\ tail \in Slots
      /\ Len(chunk) \in Nat /\ dataSize \in Nat
      /\ dataSize <= Size(head, tail)
  BY SizeIsGetDataSize DEF IInv, TypeInv, TypeOK, RingInv, CopyInv
<1>2. i \in 0 .. Size(head, tail) - 1
  BY <1>1, SizeBounds, BufferSizeType
<1>3. QED BY <1>1, <1>2, TailIsFree

(***************************************************************************)
(* Readers and writers of data_ never meet in a slot: the plain, not       *)
(* atomic, bytes of CircularBuffer are accessed without a data race.       *)
(***************************************************************************)
THEOREM SlotsAreRaceFree == Spec => []NoSlotRace
  BY InvCorrect, NoSlotRaceStep, PTL

=============================================================================
