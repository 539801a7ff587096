-------------------------- MODULE MultiThreadTask --------------------------
(***************************************************************************)
(* The multi_thread mode: Threads/MultiThreadTask.cpp starts two threads.  *)
(*                                                                         *)
(*   readerThread  FileDataTransferTask::Run: reads the source file chunk  *)
(*                 by chunk (FileDataReader) and writes each chunk to the  *)
(*                 circular buffer (SafeWriteDataAccess, BufferWriter);    *)
(*   writerThread  BufferTransferTask::Run: takes what the buffer holds    *)
(*                 (SafeReadDataAccess, BufferReader) and appends it to    *)
(*                 the destination file (FileDataWriter).                  *)
(*                                                                         *)
(* A step is one access to a variable both threads use, with the local     *)
(* computation that follows it.  A loop that spins on two flags is a step  *)
(* that waits for either of them: the exits are the same.  Bytes are file  *)
(* offsets, as in ByteChannel.                                             *)
(*                                                                         *)
(* Definitions named after a slip (..Unwrapped, ..Deaf and the like) stand *)
(* before the definition they distort and are used by no run as they are.  *)
(***************************************************************************)
EXTENDS CircularBuffer

CONSTANTS
  FileSize,   \* number of bytes of the source file
  Faults      \* which of {"reader", "writer"}, the IReader of the reader
              \* thread and the IWriter of the writer thread, may throw

ASSUME TaskAssumption ==
  /\ FileSize \in Nat
  /\ Faults \subseteq {"reader", "writer"}

VARIABLES
  running,    \* running_
  readerPc,   \* where readerThread is
  limit,      \* file offset of the last byte read (the end of the chunk)
  next,       \* file offset of the next byte of the chunk to write
  writerPc,   \* where writerThread is
  dataSize,   \* dataSize of BufferReader::Read
  chunk,      \* chunk_, the writer thread's copy of the data, as far as made
  output      \* the destination file

readerVars == <<readerPc, limit, next>>
writerVars == <<writerPc, dataSize, chunk, output>>
vars == <<bufferVars, running, readerVars, writerVars>>

ReaderStates == {"read", "awaitWriting", "checkRunning", "put", "storeItem",
                 "storeTail", "enableReading", "disableWriting",
                 "awaitStop", "stop", "done"}

WriterStates == {"checkLoop", "awaitReading", "checkRunning", "loadSize",
                 "copy", "enableWriting", "checkEmpty", "disableReading",
                 "writeFile", "done"}

Init ==
  /\ BufferInit
  /\ running = TRUE
  /\ readerPc = "read" /\ limit = 0 /\ next = 1
  /\ writerPc = "checkLoop" /\ dataSize = 0 /\ chunk = <<>> /\ output = <<>>

Lesser(m, n) == IF m < n THEN m ELSE n

-----------------------------------------------------------------------------
(* readerThread: FileDataTransferTask::Run over SafeWriteDataAccess.       *)

(* FileDataReader::Read returns a full chunk, the short rest of the file,  *)
(* or nothing at its end.                                                  *)
ReaderReads ==
  /\ readerPc = "read"
  /\ IF limit < FileSize
     THEN /\ limit' = Lesser(limit + ChunkSize, FileSize)
          /\ next' = limit + 1
          /\ readerPc' = "awaitWriting"
     ELSE /\ readerPc' = "awaitStop"
          /\ UNCHANGED <<limit, next>>
  /\ UNCHANGED <<bufferVars, running, writerVars>>

(* A runtime_error of the reader: the handler stops the transfer too.      *)
ReaderThrows ==
  /\ "reader" \in Faults
  /\ readerPc = "read"
  /\ readerPc' = "awaitStop"
  /\ UNCHANGED <<bufferVars, running, limit, next, writerVars>>

(* SafeWriteDataAccess::Write spins until writing is enabled or the        *)
(* transfer stops.                                                         *)
ReaderAwaitsWriting ==
  /\ readerPc = "awaitWriting"
  /\ writingEnabled \/ ~running
  /\ readerPc' = "checkRunning"
  /\ UNCHANGED <<bufferVars, running, limit, next, writerVars>>

(* ... and returns without writing the chunk once the transfer stopped.    *)
ReaderChecksRunning ==
  /\ readerPc = "checkRunning"
  /\ readerPc' = IF running THEN "put" ELSE "read"
  /\ UNCHANGED <<bufferVars, running, limit, next, writerVars>>

(* CircularBuffer::Write, called for each byte of the chunk: a byte that   *)
(* finds the buffer full is given up.                                      *)
ReaderChecksFull ==
  /\ readerPc = "put"
  /\ IF Full
     THEN readerPc' = "disableWriting" /\ next' = next + 1
     ELSE readerPc' = "storeItem" /\ UNCHANGED next
  /\ UNCHANGED <<bufferVars, running, limit, writerVars>>

ReaderStoresItem ==
  /\ readerPc = "storeItem"
  /\ StoreItem(next)
  /\ readerPc' = "storeTail"
  /\ UNCHANGED <<running, limit, next, writerVars>>

ReaderStoresTail ==
  /\ readerPc = "storeTail"
  /\ StoreTail
  /\ next' = next + 1
  /\ readerPc' = "enableReading"
  /\ UNCHANGED <<running, limit, writerVars>>

(* The next byte of the chunk, or the next chunk.                          *)
AfterByte == IF next <= limit THEN "put" ELSE "read"

ReaderEnablesReading ==
  /\ readerPc = "enableReading"
  /\ SetReading(TRUE)
  /\ readerPc' = AfterByte
  /\ UNCHANGED <<running, limit, next, writerVars>>

ReaderDisablesWriting ==
  /\ readerPc = "disableWriting"
  /\ SetWriting(FALSE)
  /\ readerPc' = AfterByte
  /\ UNCHANGED <<running, limit, next, writerVars>>

(* SafeWriteDataAccess::Stop spins until writing is enabled, whether or    *)
(* not the transfer was stopped by the other thread ...                    *)
ReaderAwaitsStop ==
  /\ readerPc = "awaitStop"
  /\ writingEnabled
  /\ readerPc' = "stop"
  /\ UNCHANGED <<bufferVars, running, limit, next, writerVars>>

(* Slip: the thread ends without the stop.                                *)
ReaderStopsSilently ==
  /\ readerPc = "stop"
  /\ readerPc' = "done"
  /\ UNCHANGED <<bufferVars, running, limit, next, writerVars>>

(* ... and stops it.  The thread ends.                                     *)
ReaderStops ==
  /\ readerPc = "stop"
  /\ running' = FALSE
  /\ readerPc' = "done"
  /\ UNCHANGED <<bufferVars, limit, next, writerVars>>

ReaderThread ==
  \/ ReaderReads \/ ReaderThrows
  \/ ReaderAwaitsWriting \/ ReaderChecksRunning
  \/ ReaderChecksFull \/ ReaderStoresItem \/ ReaderStoresTail
  \/ ReaderEnablesReading \/ ReaderDisablesWriting
  \/ ReaderAwaitsStop \/ ReaderStops

-----------------------------------------------------------------------------
(* writerThread: BufferTransferTask::Run over SafeReadDataAccess.          *)

WriterChecksLoop ==
  /\ writerPc = "checkLoop"
  /\ writerPc' = IF running THEN "awaitReading" ELSE "done"
  /\ UNCHANGED <<bufferVars, running, readerVars, dataSize, chunk, output>>

(* Slip: the wait does not look at the stop.                               *)
WriterAwaitsReadingDeaf ==
  /\ writerPc = "awaitReading"
  /\ readingEnabled
  /\ writerPc' = "checkRunning"
  /\ UNCHANGED <<bufferVars, running, readerVars, dataSize, chunk, output>>

(* SafeReadDataAccess::Read spins until reading is enabled or the transfer *)
(* stops.                                                                  *)
WriterAwaitsReading ==
  /\ writerPc = "awaitReading"
  /\ readingEnabled \/ ~running
  /\ writerPc' = "checkRunning"
  /\ UNCHANGED <<bufferVars, running, readerVars, dataSize, chunk, output>>

(* ... and returns nothing once the transfer stopped.                      *)
WriterChecksRunning ==
  /\ writerPc = "checkRunning"
  /\ writerPc' = IF running THEN "loadSize" ELSE "checkLoop"
  /\ UNCHANGED <<bufferVars, running, readerVars, dataSize, chunk, output>>

(* BufferReader::Read takes the size once, copies that many bytes ...      *)
WriterLoadsSize ==
  /\ writerPc = "loadSize"
  /\ dataSize' = GetDataSize
  /\ chunk' = <<>>
  /\ writerPc' = "copy"
  /\ UNCHANGED <<bufferVars, running, readerVars, output>>

(* The slot of the next byte to copy.                                      *)
CopySlot == Index(head + Len(chunk))

WriterCopiesItem ==
  /\ writerPc = "copy"
  /\ Len(chunk) < dataSize
  /\ chunk' = Append(chunk, data[CopySlot])
  /\ UNCHANGED <<bufferVars, running, readerVars, writerPc, dataSize, output>>

(* ... and frees their slots: CircularBuffer::SetHead.                     *)
WriterStoresHead ==
  /\ writerPc = "copy"
  /\ Len(chunk) = dataSize
  /\ StoreHead(dataSize)
  /\ writerPc' = "enableWriting"
  /\ UNCHANGED <<running, readerVars, dataSize, chunk, output>>

WriterEnablesWriting ==
  /\ writerPc = "enableWriting"
  /\ SetWriting(TRUE)
  /\ writerPc' = "checkEmpty"
  /\ UNCHANGED <<running, readerVars, dataSize, chunk, output>>

WriterChecksEmpty ==
  /\ writerPc = "checkEmpty"
  /\ writerPc' = IF Empty THEN "disableReading" ELSE "writeFile"
  /\ UNCHANGED <<bufferVars, running, readerVars, dataSize, chunk, output>>

(* Slip: the flag of the other thread is lowered.                          *)
WriterDisablesWriting ==
  /\ writerPc = "disableReading"
  /\ SetWriting(FALSE)
  /\ writerPc' = "writeFile"
  /\ UNCHANGED <<running, readerVars, dataSize, chunk, output>>

WriterDisablesReading ==
  /\ writerPc = "disableReading"
  /\ SetReading(FALSE)
  /\ writerPc' = "writeFile"
  /\ UNCHANGED <<running, readerVars, dataSize, chunk, output>>

(* FileDataWriter::Write appends the copy; nothing happens if it is empty. *)
WriterWritesFile ==
  /\ writerPc = "writeFile"
  /\ output' = output \o chunk
  /\ chunk' = <<>>
  /\ writerPc' = "checkLoop"
  /\ UNCHANGED <<bufferVars, running, readerVars, dataSize>>

(* Slip: the failure is passed over.                                       *)
WriterRetries ==
  /\ "writer" \in Faults
  /\ writerPc = "writeFile" /\ chunk # <<>>
  /\ chunk' = <<>>
  /\ writerPc' = "checkLoop"
  /\ UNCHANGED <<bufferVars, running, readerVars, dataSize, output>>

(* A runtime_error of the writer: the handler stops the transfer and the   *)
(* thread ends.                                                            *)
WriterThrows ==
  /\ "writer" \in Faults
  /\ writerPc = "writeFile" /\ chunk # <<>>
  /\ chunk' = <<>>
  /\ running' = FALSE
  /\ writerPc' = "done"
  /\ UNCHANGED <<bufferVars, readerVars, dataSize, output>>

WriterThread ==
  \/ WriterChecksLoop \/ WriterAwaitsReading \/ WriterChecksRunning
  \/ WriterLoadsSize \/ WriterCopiesItem \/ WriterStoresHead
  \/ WriterEnablesWriting \/ WriterChecksEmpty \/ WriterDisablesReading
  \/ WriterWritesFile \/ WriterThrows

-----------------------------------------------------------------------------
(* MultiThreadTask::Run returns when both threads have been joined.        *)
Joined == readerPc = "done" /\ writerPc = "done"

Returned == Joined /\ UNCHANGED vars

Next == ReaderThread \/ WriterThread \/ Returned

Spec == Init /\ [][Next]_vars

(* The operating system runs each thread that can take a step.             *)
FairSpec == Spec /\ WF_vars(ReaderThread) /\ WF_vars(WriterThread)
-----------------------------------------------------------------------------
(* Properties.                                                             *)

FlagTypes ==
  /\ writingEnabled \in BOOLEAN /\ readingEnabled \in BOOLEAN
  /\ running \in BOOLEAN

TypeOK ==
  /\ FlagTypes
  /\ data \in [Slots -> 0 .. FileSize]
  /\ head \in Slots /\ tail \in Slots
  /\ readerPc \in ReaderStates
  /\ limit \in 0 .. FileSize /\ next \in 1 .. limit + 1
  /\ writerPc \in WriterStates
  /\ dataSize \in 0 .. BufferSize
  /\ chunk \in Seq(Nat) /\ Len(chunk) <= dataSize
  /\ output \in Seq(Nat)

(***************************************************************************)
(* data_ is not atomic.  The slot readerThread is storing into is never a  *)
(* slot writerThread has yet to copy (CircularBuffer.h:85 against          *)
(* BufferReader.h:38): the two accesses would be a data race.              *)
(***************************************************************************)
NoSlotRace ==
  readerPc = "storeItem" /\ writerPc = "copy" =>
    \A i \in Len(chunk) .. dataSize - 1 : tail # Index(head + i)

(* Between its check for room and its store of tail_ the reader thread has *)
(* a free slot, and the byte it stored is there when tail_ moves over it.  *)
PutInv ==
  /\ readerPc \in {"storeItem", "storeTail"} => ~Full
  /\ readerPc = "storeTail" => data[tail] = next

(* The copy is a prefix of what the buffer holds.                          *)
CopyInv ==
  writerPc = "copy" =>
    /\ dataSize <= GetDataSize
    /\ \A i \in 1 .. Len(chunk) : chunk[i] = data[Index(head + i - 1)]

(***************************************************************************)
(* The ring buffer invariant: what each thread has learnt about the other  *)
(* one's index stays true until it has stored its own.                     *)
(***************************************************************************)
RingInv == PutInv /\ CopyInv

(* What left the buffer and has not reached the file.                      *)
Block ==
  IF writerPc \in {"enableWriting", "checkEmpty", "disableReading", "writeFile"}
  THEN chunk ELSE <<>>

Channel == INSTANCE ByteChannel WITH
  Capacity <- BufferSize - 1,
  queue <- Contents,
  block <- Block,
  open <- running

(***************************************************************************)
(* Through every interleaving of the two threads the buffer is a FIFO      *)
(* queue of BufferSize - 1 bytes that loses exactly the bytes offered to   *)
(* it while it is full: none is repeated, reordered, overwritten before it *)
(* is read, or read before it is written.                                  *)
(***************************************************************************)
ImplementsChannel == Channel!Spec

(***************************************************************************)
(* Bytes reach the destination in the order of the source, none twice,     *)
(* and so do those still in the buffer or in the writer thread's hands.    *)
(***************************************************************************)
DeliveredInOrder == Channel!InOrder

(***************************************************************************)
(* Back-pressure costs a byte: writing is disabled only by                 *)
(* CircularBuffer::Write giving up the byte it was called with, so         *)
(* whenever it is disabled the destination can no longer be complete.      *)
(***************************************************************************)
PauseCostsAByte == ~writingEnabled => Len(Channel!Stream) < next - 1

(***************************************************************************)
(* What reaches the destination of a file smaller than the buffer is a     *)
(* prefix of the source, in every interleaving and also when the reader or *)
(* the writer throws: nothing is given up for want of room, and nothing is *)
(* appended behind a block that could not be written.                      *)
(***************************************************************************)
SmallFileKeepsPrefix ==
  FileSize < BufferSize => \A i \in 1 .. Len(output) : output[i] = i

(***************************************************************************)
(* Once the transfer is stopped the writer thread ends, wherever it was.   *)
(***************************************************************************)
StopEndsWriter == ~running ~> writerPc = "done"

(***************************************************************************)
(* Both threads end, so that MultiThreadTask::Run returns                  *)
(* (MultiThreadTask.cpp:36).                                               *)
(***************************************************************************)
BothThreadsJoin == <>Joined

(***************************************************************************)
(* When the program has finished, the destination is the source            *)
(* (README.md:2).                                                          *)
(***************************************************************************)
DestinationIsSource == Joined => output = [i \in 1 .. FileSize |-> i]
=============================================================================
