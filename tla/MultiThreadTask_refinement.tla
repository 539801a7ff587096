--------------------- MODULE MultiThreadTask_refinement ---------------------
(***************************************************************************)
(* The two threads of MultiThreadTask implement ByteChannel, for every     *)
(* chunk size, buffer size, file size and set of faults, and so inherit    *)
(* its order.  The byte enters the abstract queue when the reader thread   *)
(* stores tail_, and the block leaves it when the writer thread stores     *)
(* head_; every other step but the drop of a byte, the append to the file  *)
(* and the stop is invisible to the channel.                               *)
(***************************************************************************)
EXTENDS MultiThreadTask_proofs, SequenceLemmas

Order == INSTANCE ByteChannel_proofs WITH
  Capacity <- BufferSize - 1,
  queue <- Contents,
  block <- Block,
  open <- running

(* What the buffer holds, as a sequence.                                   *)
ContentsTypes ==
  /\ GetDataSize \in 0 .. BufferSize - 1
  /\ Contents \in Seq(Nat)
  /\ Len(Contents) = GetDataSize

LEMMA ContentsSeq == TypeOK => ContentsTypes
<1> SUFFICES ASSUME TypeOK PROVE ContentsTypes
  OBVIOUS
<1>1. /\ head \in Slots /\ tail \in Slots
      /\ data \in [Slots -> Nat]
      /\ GetDataSize = Size(head, tail)
  BY SizeIsGetDataSize, TaskAssumption DEF TypeOK
<1>2. GetDataSize \in 0 .. BufferSize - 1 /\ GetDataSize \in Nat
  BY <1>1, SizeBounds, BufferSizeType
<1>3. ASSUME NEW k \in 1 .. GetDataSize
      PROVE  data[Index(head + k - 1)] \in Nat
  <2>1. k - 1 \in 0 .. Size(head, tail) - 1 /\ head + (k - 1) = head + k - 1
    BY <1>1, <1>2, BufferSizeType DEF Slots
  <2>2. Index(head + (k - 1)) \in Slots
    BY <1>1, <2>1, TailIsFree
  <2>3. QED BY <1>1, <2>1, <2>2
<1>4. Contents \in [1 .. GetDataSize -> Nat]
  BY <1>3 DEF Contents
<1>5. QED BY <1>2, <1>4, FunctionIsSeq DEF Contents, ContentsTypes

LEMMA ContentsSeqNext == TypeOK' => ContentsTypes'
  BY ContentsSeq, PTL

(* Nothing the buffer holds changes with the steps that store no index and *)
(* no byte.                                                                *)
LEMMA ContentsUnchanged ==
  UNCHANGED <<data, head, tail>> => Contents' = Contents
  BY DEF Contents, GetDataSize, Index

LEMMA InitRefines == Init => Channel!Init
<1> SUFFICES ASSUME Init PROVE Channel!Init
  OBVIOUS
<1>1. TypeOK
  BY TypeInit DEF TypeInv
<1>2. GetDataSize = 0
  BY DEF Init, BufferInit, GetDataSize
<1>3. Contents = <<>>
  BY <1>1, <1>2, ContentsSeq, EmptySeq DEF ContentsTypes
<1>4. QED BY <1>3 DEF Init, Block, Channel!Init

(* What the steps of both threads may use.                                 *)
LEMMA ContentsFacts ==
  ASSUME IInv, IInv'
  PROVE  /\ GetDataSize \in 0 .. BufferSize - 1
         /\ Contents \in Seq(Nat) /\ Len(Contents) = GetDataSize
         /\ Contents' \in Seq(Nat) /\ Len(Contents') = GetDataSize'
         /\ GetDataSize' \in 0 .. BufferSize - 1
         /\ GetDataSize = Size(head, tail)
<1>1. TypeOK /\ TypeOK'
  BY DEF IInv, TypeInv
<1>2. QED BY <1>1, ContentsSeq, ContentsSeqNext, SizeIsGetDataSize DEF ContentsTypes

(* The store of tail_ puts a byte into the channel.                        *)
LEMMA TailPuts ==
  ASSUME IInv, IInv', ReaderStoresTail
  PROVE  Channel!Put
<1>t. /\ head \in Slots /\ tail \in Slots /\ data \in [Slots -> 0 .. FileSize]
      /\ limit \in 0 .. FileSize /\ next \in 1 .. limit + 1
      /\ ChunkInHand /\ PutInv
  BY DEF IInv, TypeInv, TypeOK, RingInv
<1>c. /\ GetDataSize \in 0 .. BufferSize - 1
      /\ Contents \in Seq(Nat) /\ Len(Contents) = GetDataSize
      /\ Contents' \in Seq(Nat) /\ Len(Contents') = GetDataSize'
      /\ GetDataSize' \in 0 .. BufferSize - 1
      /\ GetDataSize = Size(head, tail)
  BY ContentsFacts
<1>1. /\ tail' = Index(tail + 1) /\ next' = next + 1
      /\ UNCHANGED <<data, head, running, writerPc, chunk, output>>
      /\ readerPc = "storeTail"
  BY DEF ReaderStoresTail, StoreTail, writerVars
<1>2. Index(tail + 1) # head /\ data[tail] = next
  BY <1>t, <1>1 DEF PutInv, Full
<1>3. GetDataSize' = GetDataSize + 1
  <2>1. Size(head, Index(tail + 1)) = Size(head, tail) + 1
    BY <1>t, <1>2, SizeGrows
  <2>2. GetDataSize' = Size(head', tail')
    BY DEF GetDataSize, Size
  <2>3. QED BY <1>c, <1>1, <2>1, <2>2
<1>4. next <= FileSize /\ next \in Nat
  BY <1>t, <1>1, TaskAssumption DEF ChunkInHand
<1>5. Len(Contents) < BufferSize - 1
  BY <1>c, <1>3, BufferSizeType
<1>6. /\ Append(Contents, next) \in Seq(Nat)
      /\ Len(Append(Contents, next)) = GetDataSize + 1
      /\ \A k \in 1 .. GetDataSize : Append(Contents, next)[k] = Contents[k]
      /\ Append(Contents, next)[GetDataSize + 1] = next
  BY <1>c, <1>4, AppendProperties
<1>7. ASSUME NEW k \in 1 .. GetDataSize + 1
      PROVE  Contents'[k] = Append(Contents, next)[k]
  <2>1. Contents'[k] = data[Index(head + k - 1)]
    BY <1>1, <1>3 DEF Contents, Index
  <2>2. CASE k \in 1 .. GetDataSize
    BY <1>6, <2>1, <2>2 DEF Contents
  <2>3. CASE k = GetDataSize + 1
    <3>1. head + k - 1 = head + Size(head, tail)
      BY <1>t, <1>c, <2>3 DEF Slots
    <3>2. Index(head + k - 1) = tail
      BY <1>t, <3>1, TailIsNext
    <3>3. QED BY <1>2, <1>6, <2>1, <2>3, <3>2
  <2>4. QED BY <1>c, <2>2, <2>3
<1>8. Contents' = Append(Contents, next)
  BY <1>c, <1>3, <1>6, <1>7, SeqEqual
<1>9. QED
  BY <1>1, <1>4, <1>5, <1>8 DEF Channel!Put, Block

(* The store of head_ takes a block out of it, if the copy is not empty.   *)
LEMMA HeadTakes ==
  ASSUME IInv, IInv', WriterStoresHead
  PROVE  [Channel!Take]_Channel!vars
<1>t. /\ head \in Slots /\ tail \in Slots /\ data \in [Slots -> 0 .. FileSize]
      /\ dataSize \in Nat /\ chunk \in Seq(Nat)
      /\ CopyInv
  BY DEF IInv, TypeInv, TypeOK, RingInv
<1>h. head' \in Slots
  BY DEF IInv, TypeInv, TypeOK
<1>c. /\ GetDataSize \in 0 .. BufferSize - 1
      /\ Contents \in Seq(Nat) /\ Len(Contents) = GetDataSize
      /\ Contents' \in Seq(Nat) /\ Len(Contents') = GetDataSize'
      /\ GetDataSize' \in 0 .. BufferSize - 1
      /\ GetDataSize = Size(head, tail)
  BY ContentsFacts
<1>1. /\ head' = Index(head + dataSize)
      /\ writerPc = "copy" /\ writerPc' = "enableWriting" /\ Len(chunk) = dataSize
      /\ UNCHANGED <<data, tail, next, chunk, output, running>>
  BY DEF WriterStoresHead, StoreHead, readerVars
<1>2. /\ dataSize \in 0 .. Size(head, tail)
      /\ \A k \in 1 .. dataSize : chunk[k] = data[Index(head + k - 1)]
  BY <1>t, <1>c, <1>1 DEF CopyInv
<1>3. /\ Size(Index(head + dataSize), tail) = Size(head, tail) - dataSize
      /\ \A k \in 0 .. Size(head, tail) - dataSize :
           Index(Index(head + dataSize) + k) = Index(head + dataSize + k)
  BY <1>t, <1>2, SizeShrinks
<1>4. GetDataSize' = GetDataSize - dataSize
  BY <1>c, <1>1, <1>3 DEF GetDataSize, Size
<1>5. Block = <<>> /\ Block' = chunk
  BY <1>1 DEF Block
<1>6. CASE dataSize = 0
  <2>1. head' = head
    BY <1>t, <1>1, <1>6, BufferSizeType, IndexWraps DEF Slots
  <2>2. chunk = <<>>
    BY <1>t, <1>1, <1>6, EmptySeq
  <2>3. QED BY <1>1, <1>5, <2>1, <2>2, ContentsUnchanged DEF Channel!vars
<1>7. CASE dataSize # 0
  <2>1. dataSize \in 1 .. Len(Contents)
    BY <1>c, <1>2, <1>7
  <2>2. \A k \in 1 .. Len(Contents) : Contents[k] \in Nat
    BY <1>c, ElementOfSeq
  <2>3. /\ SubSeq(Contents, 1, dataSize) \in Seq(Nat)
        /\ Len(SubSeq(Contents, 1, dataSize)) = dataSize
        /\ \A k \in 1 .. dataSize : SubSeq(Contents, 1, dataSize)[k] = Contents[k]
    BY <1>t, <2>1, <2>2, SubSeqProperties
  <2>4. chunk = SubSeq(Contents, 1, dataSize)
    <3>1. \A k \in 1 .. dataSize : Contents[k] = data[Index(head + k - 1)]
      BY <1>c, <2>1 DEF Contents
    <3>2. QED BY <1>t, <1>1, <1>2, <2>3, <3>1, SeqEqual
  <2> DEFINE rest == SubSeq(Contents, dataSize + 1, Len(Contents))
  <2>5. /\ rest \in Seq(Nat)
        /\ Len(rest) = GetDataSize - dataSize
        /\ \A k \in 1 .. GetDataSize - dataSize : rest[k] = Contents[dataSize + k]
    <3>1. \A k \in dataSize + 1 .. Len(Contents) : Contents[k] \in Nat
      BY <2>1, <2>2
    <3>2. /\ rest \in Seq(Nat)
          /\ Len(rest) = IF dataSize + 1 <= Len(Contents)
                         THEN Len(Contents) - (dataSize + 1) + 1 ELSE 0
          /\ \A k \in 1 .. Len(Contents) - (dataSize + 1) + 1 :
               rest[k] = Contents[dataSize + 1 + k - 1]
      BY <1>c, <1>t, <3>1, SubSeqProperties
    <3>3. QED BY <1>c, <2>1, <3>2
  <2>6. ASSUME NEW k \in 1 .. GetDataSize - dataSize
        PROVE  Contents'[k] = rest[k]
    <3>1. Contents'[k] = data[Index(head' + k - 1)]
      BY <1>1, <1>4 DEF Contents, Index
    <3>2. Index(head' + (k - 1)) = Index(head + dataSize + (k - 1))
      BY <1>c, <1>1, <1>2, <1>3
    <3>3. head' \in Int /\ head \in Int
      BY <1>t, <1>h, BufferSizeType DEF Slots
    <3>4. /\ head' + (k - 1) = head' + k - 1
          /\ head + dataSize + (k - 1) = head + (dataSize + k) - 1
      BY <1>t, <3>3
    <3>5. Contents[dataSize + k] = data[Index(head + (dataSize + k) - 1)]
      BY <1>c, <1>t, <1>2 DEF Contents
    <3>6. QED BY <2>5, <3>1, <3>2, <3>4, <3>5
  <2> HIDE DEF rest
  <2>7. Contents' = rest
    BY <1>c, <1>4, <2>5, <2>6, SeqEqual
  <2>8. Channel!Take
    BY <1>1, <1>5, <2>1, <2>4, <2>7 DEF Channel!Take, rest
  <2>9. QED BY <2>8
<1>8. QED BY <1>6, <1>7

(* The steps of the channel that are readerThread's, and writerThread's.   *)
ReaderSide == Channel!Put \/ Channel!Drop \/ Channel!Skip \/ Channel!Close

WriterSide == Channel!Take \/ Channel!Write

(* A step of readerThread is a step of its side of the channel.            *)
LEMMA ReaderRefines ==
  IInv /\ IInv' /\ ReaderThread => [ReaderSide]_Channel!vars
<1> SUFFICES ASSUME IInv, IInv', ReaderThread PROVE [ReaderSide]_Channel!vars
  OBVIOUS
<1>t. /\ head \in Slots /\ tail \in Slots /\ data \in [Slots -> 0 .. FileSize]
      /\ limit \in 0 .. FileSize /\ next \in 1 .. limit + 1
      /\ ChunkInHand /\ PutInv
  BY DEF IInv, TypeInv, TypeOK, RingInv
<1>c. /\ GetDataSize \in 0 .. BufferSize - 1
      /\ Contents \in Seq(Nat) /\ Len(Contents) = GetDataSize
      /\ Contents' \in Seq(Nat) /\ Len(Contents') = GetDataSize'
      /\ GetDataSize' \in 0 .. BufferSize - 1
      /\ GetDataSize = Size(head, tail)
  BY ContentsFacts
<1>1. CASE ReaderReads
  <2>1. UNCHANGED <<Contents, Block, output, running>>
    BY <1>1, ContentsUnchanged DEF ReaderReads, bufferVars, writerVars, Block
  <2>2. CASE limit < FileSize
    <3>1. next' = limit + 1
      BY <1>1, <2>2 DEF ReaderReads
    <3>2. CASE running
      <4>1. next' = next
        BY <1>1, <1>t, <3>1, <3>2 DEF ReaderReads, ChunkInHand
      <4>2. QED BY <2>1, <4>1 DEF Channel!vars
    <3>3. CASE ~running
      <4>1. next' \in next .. FileSize + 1
        BY <1>t, <3>1, TaskAssumption
      <4>2. QED BY <2>1, <3>3, <4>1 DEF ReaderSide, Channel!Skip
    <3>4. QED BY <3>2, <3>3
  <2>3. CASE ~(limit < FileSize)
    BY <1>1, <2>1, <2>3 DEF ReaderReads, Channel!vars
  <2>4. QED BY <2>2, <2>3
<1>2. CASE ReaderThrows \/ ReaderAwaitsWriting \/ ReaderChecksRunning \/ ReaderAwaitsStop
  BY <1>2, ContentsUnchanged DEF ReaderThrows, ReaderAwaitsWriting,
     ReaderChecksRunning, ReaderAwaitsStop, bufferVars, writerVars, Block, Channel!vars
<1>3. CASE ReaderChecksFull
  <2>1. UNCHANGED <<Contents, Block, output, running>>
    BY <1>3, ContentsUnchanged DEF ReaderChecksFull, bufferVars, writerVars, Block
  <2>2. CASE Full
    <3>1. next <= FileSize
      BY <1>3, <1>t, TaskAssumption DEF ReaderChecksFull, ChunkInHand
    <3>2. Len(Contents) = BufferSize - 1
      BY <1>t, <1>c, <2>2, SizeBounds DEF Full
    <3>3. next' = next + 1
      BY <1>3, <2>2 DEF ReaderChecksFull
    <3>4. QED BY <2>1, <3>1, <3>2, <3>3 DEF ReaderSide, Channel!Drop
  <2>3. CASE ~Full
    BY <1>3, <2>1, <2>3 DEF ReaderChecksFull, Channel!vars
  <2>4. QED BY <2>2, <2>3
<1>4. CASE ReaderStoresItem
  <2>1. /\ data' = [data EXCEPT ![tail] = next]
        /\ UNCHANGED <<head, tail, running, next, writerPc, chunk, output>>
    BY <1>4 DEF ReaderStoresItem, StoreItem, writerVars
  <2>2. GetDataSize' = GetDataSize
    BY <2>1 DEF GetDataSize
  <2>3. ASSUME NEW k \in 1 .. GetDataSize
        PROVE  Contents'[k] = Contents[k]
    <3>1. k - 1 \in 0 .. Size(head, tail) - 1 /\ head + (k - 1) = head + k - 1
      BY <1>t, <1>c, BufferSizeType DEF Slots
    <3>2. Index(head + k - 1) \in Slots /\ Index(head + k - 1) # tail
      BY <1>t, <3>1, TailIsFree
    <3>3. data'[Index(head + k - 1)] = data[Index(head + k - 1)]
      BY <1>t, <2>1, <3>2
    <3>4. Contents[k] = data[Index(head + k - 1)]
      BY DEF Contents
    <3>5. Contents'[k] = data'[Index(head' + k - 1)]
      BY <2>2 DEF Contents, Index
    <3>6. QED BY <2>1, <3>3, <3>4, <3>5
  <2>4. Contents' = Contents
    BY <1>c, <2>2, <2>3, SeqEqual
  <2>5. QED BY <2>1, <2>4 DEF Block, Channel!vars
<1>5. CASE ReaderStoresTail
  BY <1>5, TailPuts DEF ReaderSide
<1>6. CASE ReaderEnablesReading \/ ReaderDisablesWriting
  BY <1>6, ContentsUnchanged DEF ReaderEnablesReading, ReaderDisablesWriting,
     SetReading, SetWriting, writerVars, Block, Channel!vars
<1>7. CASE ReaderStops
  BY <1>7, ContentsUnchanged DEF ReaderStops, bufferVars, writerVars, Block,
     ReaderSide, Channel!Close
<1>8. QED BY <1>1, <1>2, <1>3, <1>4, <1>5, <1>6, <1>7 DEF ReaderThread

(* A step of writerThread is a step of its side, or gives the block up.    *)
LEMMA WriterRefines ==
  IInv /\ IInv' /\ WriterThread =>
    [WriterSide]_Channel!vars \/ (WriterThrows /\ Channel!Abandon)
<1> SUFFICES ASSUME IInv, IInv', WriterThread
             PROVE  [WriterSide]_Channel!vars \/ (WriterThrows /\ Channel!Abandon)
  OBVIOUS
<1>1. CASE WriterChecksLoop \/ WriterAwaitsReading \/ WriterChecksRunning
             \/ WriterLoadsSize \/ WriterCopiesItem \/ WriterChecksEmpty
  BY <1>1, ContentsUnchanged DEF WriterChecksLoop, WriterAwaitsReading,
     WriterChecksRunning, WriterLoadsSize, WriterCopiesItem, WriterChecksEmpty,
     bufferVars, readerVars, Block, Channel!vars
<1>2. CASE WriterStoresHead
  BY <1>2, HeadTakes DEF WriterSide
<1>3. CASE WriterEnablesWriting \/ WriterDisablesReading
  BY <1>3, ContentsUnchanged DEF WriterEnablesWriting, WriterDisablesReading,
     SetReading, SetWriting, readerVars, Block, Channel!vars
<1>4. CASE WriterWritesFile
  <2>1. Channel!Write
    BY <1>4, ContentsUnchanged DEF WriterWritesFile, bufferVars, readerVars, Block,
       Channel!Write
  <2>2. QED BY <2>1 DEF WriterSide
<1>5. CASE WriterThrows
  <2>1. Channel!Abandon
    BY <1>5, ContentsUnchanged DEF WriterThrows, bufferVars, readerVars, Block,
       Channel!Abandon
  <2>2. QED BY <1>5, <2>1
<1>6. QED BY <1>1, <1>2, <1>3, <1>4, <1>5 DEF WriterThread

(* Every step, and every stuttering step, is one of the channel.           *)
LEMMA StepRefines ==
  IInv /\ IInv' /\ [Next]_vars => [Channel!Next]_Channel!vars
<1> SUFFICES ASSUME IInv, IInv', [Next]_vars PROVE [Channel!Next]_Channel!vars
  OBVIOUS
<1>1. CASE ReaderThread BY <1>1, ReaderRefines DEF ReaderSide, Channel!Next
<1>2. CASE WriterThread BY <1>2, WriterRefines DEF WriterSide, Channel!Next
<1>3. CASE UNCHANGED vars
  BY <1>3, ContentsUnchanged DEF vars, bufferVars, readerVars, writerVars, Block,
     Channel!vars
<1>4. QED BY <1>1, <1>2, <1>3 DEF Next, Returned

(* ByteChannel_proofs speaks of the same channel.                          *)
LEMMA ChannelIsOrder ==
  /\ [Channel!Next]_Channel!vars <=> [Order!Next]_Order!vars
  /\ Channel!Put <=> Order!Put
  /\ Channel!Drop <=> Order!Drop
  /\ Channel!Skip <=> Order!Skip
  /\ Channel!Close <=> Order!Close
  /\ Channel!Take <=> Order!Take
  /\ Channel!Write <=> Order!Write
  /\ UNCHANGED Channel!vars <=> UNCHANGED Order!vars
  /\ Channel!Stream = Order!Stream
  BY DEF Channel!Next, Order!Next, Channel!vars, Order!vars,
     Channel!Put, Channel!Drop, Channel!Skip, Channel!Take, Channel!Write,
     Channel!Abandon, Channel!Close,
     Order!Put, Order!Drop, Order!Skip, Order!Take, Order!Write,
     Order!Abandon, Order!Close, Channel!Stream, Order!Stream

(***************************************************************************)
(* The threads, their buffer and their flags implement the bounded lossy   *)
(* FIFO channel: a byte is lost only by being offered to a full buffer, by *)
(* a failing write or after the stop, and by nothing the threads do to     *)
(* each other.                                                             *)
(***************************************************************************)
THEOREM ChannelImplemented == Spec => ImplementsChannel
  BY InitRefines, StepRefines, InvCorrect, PTL DEF Spec, ImplementsChannel, Channel!Spec

(***************************************************************************)
(* What is in the destination, in the writer thread's hands and in the     *)
(* buffer is in the order of the source, without repetition, whatever the  *)
(* flags do and whichever side fails.                                      *)
(***************************************************************************)
THEOREM OrderKept == Spec => []DeliveredInOrder
<1>1. FileSize \in Nat
  BY TaskAssumption
<1>2. Order!Spec => []Order!InOrder
  BY <1>1, Order!ChannelKeepsOrder
<1>3. Channel!Spec => []Channel!InOrder
  <2>1. Channel!Init <=> Order!Init
    BY DEF Channel!Init, Order!Init
  <2>2. [Channel!Next]_Channel!vars <=> [Order!Next]_Order!vars
    BY ChannelIsOrder
  <2>3. Channel!InOrder <=> Order!InOrder
    BY DEF Channel!InOrder, Channel!Stream, Order!InOrder, Order!Stream
  <2>4. QED BY <1>2, <2>1, <2>2, <2>3, PTL DEF Channel!Spec, Order!Spec
<1>4. QED BY ChannelImplemented, <1>3, PTL DEF ImplementsChannel, DeliveredInOrder
-----------------------------------------------------------------------------
(* The bytes of the channel, and what is known of them.                    *)
Stream == Channel!Stream

StreamTypes ==
  /\ next \in Nat /\ Len(Contents) \in Nat
  /\ Stream \in Seq(Nat) /\ Len(Stream) \in Nat
  /\ Len(output) \in Nat /\ Len(output) + Len(Contents) <= Len(Stream)
  /\ \A i \in 1 .. Len(output) : output[i] = Stream[i]

LEMMA StreamIsOrders == Stream = Order!Stream /\ Stream' = Order!Stream'
  BY DEF Stream, Channel!Stream, Order!Stream

LEMMA ChannelTyped == IInv => Order!ChannelTypes /\ StreamTypes
<1> SUFFICES ASSUME IInv PROVE Order!ChannelTypes /\ StreamTypes
  OBVIOUS
<1>1. /\ next \in Nat /\ chunk \in Seq(Nat) /\ output \in Seq(Nat)
      /\ Contents \in Seq(Nat)
  BY ContentsSeq, TaskAssumption DEF IInv, TypeInv, TypeOK, ContentsTypes
<1>2. Block \in Seq(Nat)
  BY <1>1, EmptySeq DEF Block
<1>3. Order!ChannelTypes
  BY <1>1, <1>2 DEF Order!ChannelTypes
<1>4. QED BY <1>1, <1>3, StreamIsOrders, Order!StreamParts DEF StreamTypes

LEMMA ChannelTypedNext == IInv' => StreamTypes'
  BY ChannelTyped, PTL

(***************************************************************************)
(* Why a pause is never free: a byte is missing when the reader thread is  *)
(* about to disable writing, and bytes that are missing stay missing.      *)
(***************************************************************************)
PauseInv ==
  ~writingEnabled \/ readerPc = "disableWriting" => Len(Stream) < next - 1

LEMMA PauseStep ==
  ASSUME IInv, IInv', PauseInv, [Next]_vars, Len(Stream) < next
  PROVE  PauseInv' /\ Len(Stream') < next'
<1>1. StreamTypes /\ StreamTypes'
  BY ChannelTyped, ChannelTypedNext
<1>2. next - Len(Stream) <= next' - Len(Stream')
  <2>1. FileSize \in Nat /\ Order!ChannelTypes /\ [Order!Next]_Order!vars
    BY StepRefines, ChannelIsOrder, ChannelTyped, TaskAssumption
  <2>2. QED BY <2>1, StreamIsOrders, Order!MissingStep
<1>3. CASE ReaderChecksFull /\ Full
  <2>1. next' = next + 1 /\ UNCHANGED <<data, head, tail, output, chunk, writerPc>>
    BY <1>3 DEF ReaderChecksFull, bufferVars, writerVars
  <2>2. Stream' = Stream
    BY <2>1, ContentsUnchanged DEF Stream, Channel!Stream, Block
  <2>3. QED BY <1>1, <2>1, <2>2 DEF StreamTypes, PauseInv
<1>4. CASE ~(ReaderChecksFull /\ Full)
  <2>1. ~writingEnabled' \/ readerPc' = "disableWriting" =>
          ~writingEnabled \/ readerPc = "disableWriting"
    <3>1. CASE ReaderReads \/ ReaderThrows \/ ReaderAwaitsWriting \/ ReaderChecksRunning
               \/ ReaderAwaitsStop \/ ReaderStops
      BY <3>1 DEF ReaderReads, ReaderThrows, ReaderAwaitsWriting, ReaderChecksRunning,
         ReaderAwaitsStop, ReaderStops, bufferVars
    <3>2. CASE ReaderChecksFull \/ ReaderStoresItem \/ ReaderStoresTail
               \/ ReaderEnablesReading \/ ReaderDisablesWriting
      BY <1>4, <3>2 DEF ReaderChecksFull, ReaderStoresItem, ReaderStoresTail,
         ReaderEnablesReading, ReaderDisablesWriting, AfterByte, StoreItem, StoreTail,
         SetReading, SetWriting, bufferVars
    <3>3. CASE WriterThread
      BY <3>3 DEF WriterThread, WriterChecksLoop, WriterAwaitsReading, WriterChecksRunning,
         WriterLoadsSize, WriterCopiesItem, WriterStoresHead, WriterEnablesWriting,
         WriterChecksEmpty, WriterDisablesReading, WriterWritesFile, WriterThrows,
         StoreHead, SetReading, SetWriting, bufferVars, readerVars
    <3>4. CASE UNCHANGED vars
      BY <3>4 DEF vars, bufferVars, readerVars
    <3>5. QED BY <3>1, <3>2, <3>3, <3>4 DEF Next, ReaderThread, Returned
  <2>2. QED BY <1>1, <1>2, <2>1 DEF StreamTypes, PauseInv
<1>5. QED BY <1>3, <1>4

LEMMA PauseInit == Init => PauseInv /\ Len(Stream) < next
<1> SUFFICES ASSUME Init PROVE PauseInv /\ Len(Stream) < next
  OBVIOUS
<1>1. Channel!Init
  BY InitRefines
<1>2. Stream = <<>> /\ next = 1
  BY <1>1, ConcatEmptySeq, EmptySeq DEF Channel!Init, Stream, Channel!Stream
<1>3. QED BY <1>2 DEF Init, BufferInit, PauseInv

(***************************************************************************)
(* Writing is disabled only by a byte given up: whenever the reader thread *)
(* is paused, the destination can no longer be complete, for every buffer  *)
(* and file size.                                                          *)
(***************************************************************************)
THEOREM PauseIsPaidFor == Spec => []PauseCostsAByte
<1> DEFINE J == PauseInv /\ Len(Stream) < next
<1>1. Init => J
  BY PauseInit
<1>2. IInv /\ IInv' /\ J /\ [Next]_vars => J'
  BY PauseStep
<1>3. J => PauseCostsAByte
  BY DEF PauseInv, PauseCostsAByte, Stream
<1>4. QED BY <1>1, <1>2, <1>3, InvCorrect, PTL DEF Spec

-----------------------------------------------------------------------------
(***************************************************************************)
(* As long as the writer thread runs, nothing of a file smaller than the   *)
(* buffer is missing.  When it has ended the output no longer changes.     *)
(***************************************************************************)
NothingMissing == Len(Stream) = next - 1 /\ \A i \in 1 .. Len(Stream) : Stream[i] = i

SmallInv ==
  /\ ~running => readerPc = "done" \/ writerPc = "done"
  /\ FileSize < BufferSize =>
       /\ writerPc # "done" => NothingMissing
       /\ \A i \in 1 .. Len(output) : output[i] = i

LEMMA SmallInit == Init => SmallInv
<1> SUFFICES ASSUME Init PROVE SmallInv
  OBVIOUS
<1>1. Channel!Init
  BY InitRefines
<1>2. Stream = <<>> /\ next = 1
  BY <1>1, ConcatEmptySeq, EmptySeq DEF Channel!Init, Stream, Channel!Stream
<1>3. QED BY <1>2 DEF Init, SmallInv, NothingMissing

(* The transfer is stopped by a thread that ends with it.                  *)
LEMMA StopStep ==
  ASSUME ~running => readerPc = "done" \/ writerPc = "done", [Next]_vars
  PROVE  ~running' => readerPc' = "done" \/ writerPc' = "done"
<1>1. CASE ReaderThread
  BY <1>1 DEF ReaderThread, ReaderReads, ReaderThrows, ReaderAwaitsWriting,
     ReaderChecksRunning, ReaderChecksFull, ReaderStoresItem, ReaderStoresTail,
     ReaderEnablesReading, ReaderDisablesWriting, ReaderAwaitsStop, ReaderStops, writerVars
<1>2. CASE WriterThread
  BY <1>2 DEF WriterThread, WriterChecksLoop, WriterAwaitsReading, WriterChecksRunning,
     WriterLoadsSize, WriterCopiesItem, WriterStoresHead, WriterEnablesWriting,
     WriterChecksEmpty, WriterDisablesReading, WriterWritesFile, WriterThrows, readerVars
<1>3. CASE UNCHANGED vars
  BY <1>3 DEF vars, readerVars, writerVars
<1>4. QED BY <1>1, <1>2, <1>3 DEF Next, Returned

(* Once the writer thread has ended, the output is what it is.             *)
LEMMA OutputStays ==
  ASSUME [Next]_vars, writerPc = "done" \/ writerPc' = "done"
  PROVE  output' = output
<1>1. CASE ReaderThread
  BY <1>1 DEF ReaderThread, ReaderReads, ReaderThrows, ReaderAwaitsWriting,
     ReaderChecksRunning, ReaderChecksFull, ReaderStoresItem, ReaderStoresTail,
     ReaderEnablesReading, ReaderDisablesWriting, ReaderAwaitsStop, ReaderStops, writerVars
<1>2. CASE WriterThread
  BY <1>2 DEF WriterThread, WriterChecksLoop, WriterAwaitsReading, WriterChecksRunning,
     WriterLoadsSize, WriterCopiesItem, WriterStoresHead, WriterEnablesWriting,
     WriterChecksEmpty, WriterDisablesReading, WriterWritesFile, WriterThrows
<1>3. CASE UNCHANGED vars
  BY <1>3 DEF vars, writerVars
<1>4. QED BY <1>1, <1>2, <1>3 DEF Next, Returned

LEMMA SmallStep ==
  ASSUME IInv, IInv', SmallInv, [Next]_vars
  PROVE  SmallInv'
<1>1. StreamTypes /\ StreamTypes' /\ Order!ChannelTypes
  BY ChannelTyped, ChannelTypedNext
<1>2. ~running' => readerPc' = "done" \/ writerPc' = "done"
  BY StopStep DEF SmallInv
<1> SUFFICES ASSUME FileSize < BufferSize
             PROVE  /\ writerPc' # "done" => NothingMissing'
                    /\ \A i \in 1 .. Len(output') : output'[i] = i
  BY <1>2 DEF SmallInv
<1>3. CASE writerPc = "done" \/ writerPc' = "done"
  <2>1. output' = output
    BY <1>3, OutputStays
  <2>2. writerPc' = "done"
    <3>1. ASSUME writerPc = "done" PROVE writerPc' = "done"
      BY <3>1 DEF Next, Returned, ReaderThread, ReaderReads, ReaderThrows,
         ReaderAwaitsWriting, ReaderChecksRunning, ReaderChecksFull, ReaderStoresItem,
         ReaderStoresTail, ReaderEnablesReading, ReaderDisablesWriting, ReaderAwaitsStop,
         ReaderStops, WriterThread, WriterChecksLoop, WriterAwaitsReading,
         WriterChecksRunning, WriterLoadsSize, WriterCopiesItem, WriterStoresHead,
         WriterEnablesWriting, WriterChecksEmpty, WriterDisablesReading,
         WriterWritesFile, WriterThrows, writerVars, vars
    <3>2. QED BY <1>3, <3>1
  <2>3. QED BY <2>1, <2>2 DEF SmallInv
<1>4. CASE writerPc # "done" /\ writerPc' # "done"
  <2>0. NothingMissing
    BY <1>4 DEF SmallInv
  <2>1. NothingMissing'
    <3>1. CASE ReaderThread
      <4>1. readerPc # "done"
        BY <3>1 DEF ReaderThread, ReaderReads, ReaderThrows, ReaderAwaitsWriting,
           ReaderChecksRunning, ReaderChecksFull, ReaderStoresItem, ReaderStoresTail,
           ReaderEnablesReading, ReaderDisablesWriting, ReaderAwaitsStop, ReaderStops
      <4>2. running
        BY <1>4, <4>1 DEF SmallInv
      <4>3. ~Channel!Drop
        <5>1. ASSUME Channel!Drop PROVE FALSE
          <6>1. next <= FileSize /\ Len(Contents) = BufferSize - 1
            BY <5>1 DEF Channel!Drop
          <6>2. Len(Contents) <= next - 1
            BY <1>1, <2>0 DEF StreamTypes, NothingMissing
          <6>3. QED BY <1>1, <6>1, <6>2, BufferSizeType, TaskAssumption DEF StreamTypes
        <5>2. QED BY <5>1
      <4>4. ~Channel!Skip
        BY <4>2 DEF Channel!Skip
      <4>5. CASE Channel!Put
        <5>1. Stream' = Append(Stream, next) /\ next' = next + 1
          BY <1>1, <4>5, ChannelIsOrder, StreamIsOrders, Order!PutStream DEF Channel!Put
        <5>2. /\ Len(Append(Stream, next)) = Len(Stream) + 1
              /\ \A i \in 1 .. Len(Stream) : Append(Stream, next)[i] = Stream[i]
              /\ Append(Stream, next)[Len(Stream) + 1] = next
          BY <1>1, AppendProperties DEF StreamTypes
        <5>3. QED BY <1>1, <2>0, <5>1, <5>2 DEF StreamTypes, NothingMissing
      <4>6. CASE Channel!Close \/ UNCHANGED Channel!vars
        <5>1. Stream' = Stream
          BY <1>1, <4>6, ChannelIsOrder, StreamIsOrders, TaskAssumption, Order!QuietStream
        <5>2. next' = next
          BY <4>6 DEF Channel!Close, Channel!vars
        <5>3. QED BY <2>0, <5>1, <5>2 DEF NothingMissing
      <4>7. QED BY <3>1, <4>3, <4>4, <4>5, <4>6, ReaderRefines DEF ReaderSide
    <3>2. CASE WriterThread
      <4>1. ~WriterThrows
        BY <1>4 DEF WriterThrows
      <4>2. Channel!Take \/ Channel!Write \/ UNCHANGED Channel!vars
        BY <3>2, <4>1, WriterRefines DEF WriterSide
      <4>3. Stream' = Stream
        BY <1>1, <4>2, ChannelIsOrder, StreamIsOrders, TaskAssumption,
           Order!TakeStream, Order!WriteStream, Order!QuietStream
      <4>4. next' = next
        BY <4>2 DEF Channel!Take, Channel!Write, Channel!vars
      <4>5. QED BY <2>0, <4>3, <4>4 DEF NothingMissing
    <3>3. CASE UNCHANGED vars
      <4>1. UNCHANGED <<data, head, tail, next, writerPc, chunk, output>>
        BY <3>3 DEF vars, bufferVars, readerVars, writerVars
      <4>2. Stream' = Stream /\ next' = next
        BY <4>1, ContentsUnchanged DEF Stream, Channel!Stream, Block
      <4>3. QED BY <2>0, <4>2 DEF NothingMissing
    <3>4. QED BY <3>1, <3>2, <3>3 DEF Next, Returned
  <2>2. ASSUME NEW i \in 1 .. Len(output') PROVE output'[i] = i
    <3>1. i \in 1 .. Len(Stream') /\ output'[i] = Stream'[i]
      BY <1>1 DEF StreamTypes
    <3>2. QED BY <2>1, <3>1 DEF NothingMissing
  <2>3. QED BY <2>1, <2>2
<1>5. QED BY <1>3, <1>4

(***************************************************************************)
(* The destination of a file smaller than the buffer holds a prefix of it, *)
(* whatever the sizes, the interleaving and the faults.                    *)
(***************************************************************************)
THEOREM SmallFileIsPrefix == Spec => []SmallFileKeepsPrefix
<1>1. IInv /\ IInv' /\ SmallInv /\ [Next]_vars => SmallInv'
  BY SmallStep
<1>2. SmallInv => SmallFileKeepsPrefix
  BY DEF SmallInv, SmallFileKeepsPrefix
<1>3. QED BY SmallInit, <1>1, <1>2, InvCorrect, PTL DEF Spec
=============================================================================
