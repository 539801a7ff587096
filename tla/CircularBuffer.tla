-------------------------- MODULE CircularBuffer ---------------------------
(***************************************************************************)
(* Threads/CircularBuffer.h and the two flags of Threads/BufferStateSync.h *)
(* that its operations raise and lower (BufferStateSetter) and its users   *)
(* poll (BufferStateGetter).  The buffer has one producer, who alone       *)
(* stores tail_, and one consumer, who alone stores head_.                 *)
(*                                                                         *)
(* Each operation of the class is several atomic accesses, and the other   *)
(* thread may run between any two of them, so this module gives the        *)
(* accesses: MultiThreadTask puts them in the order of Write, Read and     *)
(* SetHead.  A thread's reads of an index that only it stores are not      *)
(* separate steps.                                                         *)
(***************************************************************************)
EXTENDS Naturals, Sequences

CONSTANTS
  ChunkSize,    \* config::DefaultChunkSize, bytes read from the file at once
  ChunkAmount   \* config::DefaultChunkAmountInBuffer

ASSUME BufferAssumption ==
  /\ ChunkSize \in Nat \ {0}
  /\ ChunkAmount \in Nat \ {0}

BufferSize == ChunkSize * ChunkAmount

VARIABLES
  data,            \* data_[0 .. BufferSize - 1], zero-filled by resize()
  head,            \* head_, the slot the consumer reads next
  tail,            \* tail_, the slot the producer writes next
  writingEnabled,  \* BufferStateSync::writingEnabled_
  readingEnabled   \* BufferStateSync::readingEnabled_

bufferVars == <<data, head, tail, writingEnabled, readingEnabled>>

Slots == 0 .. BufferSize - 1

BufferInit ==
  /\ data = [s \in Slots |-> 0]
  /\ head = 0
  /\ tail = 0
  /\ writingEnabled = TRUE
  /\ readingEnabled = FALSE

(* operator[]: the slot of an index that may run past the end. *)
Index(i) == i % BufferSize

GetDataSize == IF head <= tail THEN tail - head ELSE BufferSize - head + tail

(* Slip: no wrap. *)
FullUnwrapped == tail + 1 = head

(* nextTail == head_: one slot always stays free. *)
Full == Index(tail + 1) = head

(* newHead == tail_ *)
Empty == head = tail

StoreItem(item) ==
  /\ data' = [data EXCEPT ![tail] = item]
  /\ UNCHANGED <<head, tail, writingEnabled, readingEnabled>>

(* Slip: no wrap. *)
StoreTailUnwrapped ==
  /\ tail' = tail + 1
  /\ UNCHANGED <<data, head, writingEnabled, readingEnabled>>

StoreTail ==
  /\ tail' = Index(tail + 1)
  /\ UNCHANGED <<data, head, writingEnabled, readingEnabled>>

(* Slip: frees what arrived during the copy too. *)
StoreHeadAtTail(count) ==
  /\ head' = tail
  /\ UNCHANGED <<data, tail, writingEnabled, readingEnabled>>

StoreHead(count) ==
  /\ head' = Index(head + count)
  /\ UNCHANGED <<data, tail, writingEnabled, readingEnabled>>

(* The flags are stored with memory_order_release (BufferStateSetter.h:24  *)
(* to 48) and polled with memory_order_acquire, unlike head_ and tail_,    *)
(* which are sequentially consistent.  A store to a flag may be seen after *)
(* a later load of the same thread; here it is seen at once.               *)
SetWriting(enabled) ==
  /\ writingEnabled' = enabled
  /\ UNCHANGED <<data, head, tail, readingEnabled>>

SetReading(enabled) ==
  /\ readingEnabled' = enabled
  /\ UNCHANGED <<data, head, tail, writingEnabled>>

(* The bytes in the buffer, oldest first. *)
Contents == [k \in 1 .. GetDataSize |-> data[Index(head + k - 1)]]
=============================================================================
