# Multithreading_IO in TLA+

Multithreading_IO is a console program that copies a file. One process reads
the source and writes the destination with two threads (`multi_thread`); or two
processes pass the file through shared memory (`multi_process`); or a client
sends it, in encrypted packets, to a server over TCP (`network`, with a network mode
`client` or `server`). All paths below are relative to `src/multy/`.

The project models the program from its command line to the end of its task: what is
accepted, which files are opened and truncated in which order, and the three
modes; the ring buffer and the two threads on it; the shared memory and the two
processes on it, and the life of such a process from the creation of its named
objects to their removal; the clients, the streams and the server of the network.
It has specifications checked by TLC on small instances, and proofs of all their
safety properties, including both refinements, checked by TLAPS for all values of the
constants.

## 1. The system

### Components

| Component | Source | State | Operations | What makes it correct | Model |
|---|---|---|---|---|---|
| Ring buffer | `src/Threads/CircularBuffer.h`, `Buffer{Reader,Writer}.h`, `BufferState*.h` | array `data_`, atomics `head_`, `tail_`, `writingEnabled_`, `readingEnabled_` | `Write` a byte, `Read` all there is, `SetHead`, four flag setters | a FIFO queue; no slot used by both threads at once; the flags agree with the content | `CircularBuffer` |
| Multi-thread mode | `src/Threads/MultiThreadTask.cpp`, `Sync{Write,Read}DataAccess.h`, `src/common/{FileDataTransfer,BufferTransfer}Task.h` | `running_`, the chunk in hand on each side, the destination | `Run` of both tasks, `Write`/`Read`/`Stop`/`IsRunning` of the data access | what arrives is the source; both threads end, also after a failure | `MultiThreadTask`, `ByteChannel` |
| Multi-process transfer | `src/MultiProcess/Shared{Write,Read}{DataAccess,Data}.h`, `src/common/DataBuffer.h` | three semaphores, one shared memory object, the destination | the same operations of the other data access | one of the two at the memory; what arrives is the source; both end | `SharedDataTransfer` |
| Multi-process life cycle | `src/MultiProcess/MultiProcessTask.cpp` and the constructors and destructors above | named mutexes, semaphores and memory; the objects each process has open | `Create`, `Run`, the destructors, `Cleaner`, the SIGINT handler | one client and one server, on the same objects; nothing left behind | `MultiProcessTask` |
| File streams | `src/FileStream/*` | an open file | open, truncate, read a chunk, write | a file changes only for a command that can be carried out | the reader and the writer of each mode, `CommandLine` |
| Network mode | `src/Network/*`, `src/common/{Serializer,FileTransferTask,FileNameTransferTask}.h` | sockets, `id_`, the name and writer of each connection | connect, write a packet; accept, read, unpack, open the file, append | every sent packet is unpacked once, in order, into the file it belongs to; a client that fails harms no other | `NetworkTransfer` |
| Options and factories | `src/Command/ProgramOptions.h`, `src/Factory/*`, `main.cpp` | the command, the readers and writers made so far | parse, open the sources, open the destination, make the task; exit code | a command that fails costs no file; a file is changed only with the sources of the command open | `CommandLine` |
| Encryption | `src/Network/Encryption.cpp` | key | AES of Crypto++ | content decrypted with the IV of its own packet | `NetworkTransfer` (`Decrypt`), in part |
| Logger | `src/common/Logger.h` | none | prints | – | not modelled |

### How they interact

`FileDataTransferTask::Run` is the loop of whoever has the source, and
`BufferTransferTask::Run` the loop of whoever has the destination; both are
written against an interface (`ISyncWriteDataAccess`, `ISyncReadDataAccess`)
that the thread mode implements on the ring buffer and the process mode on
shared memory. In the thread mode the two loops are two `std::thread`s that share
the atomics `running_`, `head_`, `tail_` and the two flags, and the plain array.
In the process mode *every* process builds both loops, and so opens every named
object and both files, before it learns from two named mutexes whether it is the
client (which **writes** the destination), the server (which **reads** the
source) or superfluous. The modes share no state.

In the network mode a client runs the same reading loop, once for each of its
sources, on a `TCPClient` made when the client starts. The server is one
`io_context` on one thread: an accepted connection reads, gives what it got to its
`DataHandler`, and reads again. An exception of the handler leaves the
`io_context` and ends the server.

### What is hard here

* Between the test that a buffer is full (or empty) and the store to the flag
  that says so, the other thread may have changed both.
* The stop is a flag of its own and may overtake the data.
* Space in the shared memory is given back before the data in it was used.
* A semaphore is posted in a loop without bound, on the assumption that the
  other side takes something.
* Failures are handled by stopping the transfer, from inside a loop whose other
  half waits for something only the failed one gives.
* Names are removed by every process that ends, whoever uses what they name.
* TCP keeps the order of bytes, not the boundaries of packets.
* A send that is not finished at once refers to a buffer that is used again.
* One connection can end all; an error of `async_accept` ends nothing, but no client
  is accepted any more.
* Files are truncated when the writer is made, before it is known whether the
  process will write, and programs may name the same files.
* A constructor that throws half way leaves what its destructor would have removed.

`PROJECT.json` lists these and the others as hazards, each at its line.

## 2. Modules

```
ByteChannel            abstract: a bounded FIFO of bytes that may drop
   ^ refines                                        ByteChannel_proofs
CircularBuffer <- MultiThreadTask                   MultiThreadTask_proofs
                                                    MultiThreadTask_refinement
MultiProcessTask       any number of processes      MultiProcessTask_proofs
   ^ steps of a pair
SharedDataTransfer     two of them, byte by byte    SharedDataTransfer_proofs
NetworkTransfer        clients, streams, server     NetworkTransfer_proofs
CommandLine            from main to the exit code   CommandLine_proofs
SequenceLemmas         facts about sequences the proofs share
```

`CommandLine` stands above the others: it says which files a task of each mode gets and
what becomes of them when several programs run, and leaves how the bytes move to
the module of the mode.

Definitions whose comment begins with "Slip" are what a definition would be
after a plausible mistake (a wait that ignores the stop, an index that does not
wrap). They are part of no specification: put in the place of the definition
that follows them, they show that the property they violate can fail.

**Bytes** are their offsets in the source, 1, 2, …, so that "the right byte at the
right place" is `output[i] = i`, and 0 is the byte `truncate` fills with.

### CircularBuffer and MultiThreadTask

`CircularBuffer` declares the five shared variables and the operators that load
and store one of them; `MultiThreadTask` extends it with one action for each
access of a thread to a shared variable, and with the local computation up to
the next one. `head_` and `tail_` are accessed with the default, sequentially
consistent, order (`CircularBuffer.h:64` to `112`), so their interleaving is what the language
defines. `data_` is not atomic: `NoSlotRace` says that no two accesses conflict,
which is what makes it legitimate to interleave those as well. The two flags and
`running_` are release stores (`BufferStateSetter.h:24` to `48`, `SyncWriteDataAccess.h:58`) and
acquire loads, and so weaker than what the model has: a store to a flag may be seen only after a later load of
the same thread, where in the model it is seen at once. `NoSlotRace`, `RingInv`, the order and the
refinement do not depend on when a flag is seen, because their invariants do not mention
the flags; `PauseCostsAByte` and `SmallFileKeepsPrefix` rest on a byte being dropped before
the flag is lowered, which the order of release stores keeps. The liveness properties are checked
for flags that are seen at once.

* Reader thread: `ReaderReads` (`FileDataReader::Read`), `ReaderAwaitsWriting`
  and `ReaderChecksRunning` (`SafeWriteDataAccess::Write`), for each byte
  `ReaderChecksFull`, `ReaderStoresItem`, `ReaderStoresTail`,
  `ReaderEnablesReading` or `ReaderDisablesWriting` (`CircularBuffer::Write`),
  at the end `ReaderAwaitsStop`, `ReaderStops` (`SafeWriteDataAccess::Stop`).
* Writer thread: `WriterChecksLoop`, `WriterAwaitsReading`, `WriterChecksRunning`
  (`SafeReadDataAccess`), `WriterLoadsSize`, `WriterCopiesItem`
  (`BufferReader::Read`), `WriterStoresHead`, `WriterEnablesWriting`,
  `WriterChecksEmpty`, `WriterDisablesReading` (`CircularBuffer::SetHead`),
  `WriterWritesFile`.
* `ReaderThrows` and `WriterThrows`: a `std::runtime_error` of the reader or the
  writer, and what the handlers of the two `Run`s do. The constant `Faults` says
  which may happen. The production streams report errors by throwing only if
  asked to; the interfaces allow it and the handlers exist.

A spin loop over two flags is one action that waits for either: each round reads
both and changes nothing, so the exits are the same.

### ByteChannel

What the two threads and the buffer amount to: a queue of at most `Capacity`
bytes into which the next byte is put or, *if the queue is full*, dropped; from
which a block is taken; which is written; and which is closed. `InOrder` says that
output, block and queue together are strictly increasing: nothing is repeated or
reordered. `MultiThreadTask!Channel` is the mapping: `queue` is what lies
between `head_` and `tail_`, with `BufferSize - 1` as its capacity because a full
ring has one free slot, and `block` is the writer thread's copy from the moment
its slots are freed.

### SharedDataTransfer

The client and the server after they have got their roles, on fresh semaphores
(space 1, data 0, stop 0). One action per semaphore operation and per step at
the memory; the chunk goes into the memory, and from it to the file, byte by byte, because
these two interleave. `Faults` allows a failure of the server's reader, of the
client's writer, and of the mapping on either side, which the code catches and
goes on; the history variable `happened` keeps which of them have occurred, so that
one run with all faults can say what holds without some of them. `SemaphoreMax` is
the value at which a post throws. The bytes behind the end of a
memory that was made shorter read as 0 up to the end of the page, as POSIX
defines it.

`Pair` is `MultiProcessTask` with two processes that have their roles and the same
objects, and `StepsOfAPair` says that every step here is a step there or none: what is one
action there (`ServerWrites`, `ClientReads`) is here a wait, the work at the
memory and a post, with steps of the other process in between. The mapping counts
a token that is taken as still there until it is given back, and the chunks
left and written from the offsets in the file. A mapping that fails loses a
chunk, which `MultiProcessTask` does not have, and is excepted.

### MultiProcessTask

Any number of processes from `Create` to the end. An object is a *generation* of
its name: `current[n]` is the generation that has the name, `value[n][g]` the value
of the semaphore, `handle[p][side][n]` the generation process `p` has open for
its reader or its writer. `todo[p]` is the list of names a process is about to
open (in constructor order) or to remove (in destructor order), one action each,
so that two processes starting and ending interleave name by name.

Everything on the way may fail. Without a source on the command line (`Create`) and
with one that cannot be opened (`OpenSource`), or with such a destination
(`OpenDestination`), what is complete is destroyed. A name that cannot be opened
(`OpenFails`) leaves a constructor half way: its destructor does not run, and
`Unwind` has what is removed all the same, by the members that are complete and
by the task. A process that has lost names in this way is `"unwinding"` and then
`"failed"`, others are in `"cleanup"` and then `"ended"`. `ServerThrows` and
`ClientThrows` are the handlers of the two loops. `MultiProcessTask::Run` takes *any*
`interprocess_exception` for a mutex that exists: one that cannot be created though it is free
(`Misses`), and one out of the transfer, which the loops do not catch, so that a client goes on
as server (`ClientFails`) and a server ends as if there were another (`ServerFails`).

SIGINT starts a handler (`Interrupt`), which removes the two mutexes, one after the other
(`HandlerRemoves`), and exits (`HandlerExits`). The program is made for Windows only
(`Windows.h` in `NetworkTask.cpp:9`), where such a handler is a thread of its own: between its steps the process
goes on, may create a mutex that was just removed, or end by itself. `handling[p]` is what the handler has still
to do. `late` is a history variable: the roles that were taken in this way.

The transfer is abstracted to its semaphore operations, on the objects the process
has open, and to the numbers of the chunks: `written[p]` is how many `p` has written,
`file` which of them are in the destination, which every process truncates on its way
to its role.

### NetworkTransfer

Client processes, a server process and a stream for each connection. A connection is
a pair of a client and the number of one of its sources.

* Client: `Connect` for each source (`ReaderFactory::CreateTask`,
  `TCPClient::TCPClient`), then for one source after the other `Write` (a packet read,
  packed and given to `TCPClient::Write`) and `NextTask`; `ClientEnds`. `SourceMissing`
  is the exception of a constructor, `Interrupt` SIGINT. `NameFails` is a name that is empty or
  whose reading throws: `FileNameTransferTask::Run` only reports it and the chunks are sent
  without a name (`nameless`, a history variable, keeps where). `FileNameSegmentReader` itself refuses such
  a name in its constructor; the task is written against an interface that may return one. `EncryptThrows` is the
  `invalid_argument` of `Encryption::Encrypt`, which ends the client.
* Stream: each packet is two units, header and content. `Send` puts as many
  units on the wire as the socket takes; the rest is `pending`, and `Transmit` sends it
  later, *with the content the buffer has by then*, or never. A stream cut elsewhere
  inside a header or a content gives the server no other outcome: too short
  to unpack, or a start that is no header.
* Server: `Start`, `Accept` (`TCPServer::Run`), `AcceptFails` (no `async_accept` follows:
  `accepting` is false, and `Return` ends the server when no handler is left),
  `Stop` (SIGINT), `Receive` (`TCPConnection::Read`: any
  beginning of what is on the wire, handled by `Handle`, which is
  `DataHandler::Write` with `Serializer::Unpack`), `Disconnect` (end of stream) and
  `Break` (any other error). `Throw` is an exception and takes the server
  with all connections; `server = "denied"` tells the exception of a file that
  cannot be opened from the others. What is not a header may by chance be taken for
  one: `HandleNoHeader` allows each type. `Created` is the file a name packet opens,
  `Decrypt` what the content gives with the IV of a header.

A block of a file is the number of its chunk, 0 if it was decrypted from what is
not one packet. The file of connection `c` is `files[id[c]]`, the folder being that of
the id. `inTime` and `packetwise` are history variables for the
properties; no action looks at them.

### CommandLine

Any number of starts of the program in one directory. `step[p]` follows `p` from
`"parse"` over `"create"` and the steps of its task to `"succeeded"` (0),
`"failed"` (-1) or `"interrupted"`; `command[p]` is what `ProgramOptions::Parse` made of
the line, `opened[p]` the sources whose readers have been made.
`Parse` takes any combination of options and rejects those the code rejects, `OpenSource`,
`OpenDestination` and `CreateNetworkTask` are the factories in their order, each with
its failures (`SourceFails`, `DestinationFails`), and `Copy`, `CopyBetween`, `TakeRole`
and `TakeSecondRole` the tasks as far as the files are concerned. `Used` are the sources a task
uses: all of them in a client of the network, the first in the other modes, which ignore
the rest without a word. `HandlerCleans` is the handler of SIGINT of a process, with the
process going on until `Interrupt`; other programs are ended at once.

The content of a file is the *set of those files some of whose original bytes it has*:
`disk[f] = {f}` is untouched, `{}` empty, and copying adds any part of what the
source has at that moment. This is enough to tell who has lost what, and no more: the
order of the bytes is the subject of the other modules. `touched` is a history variable: the
files a program has truncated or written.

## 3. What the runs check

All properties are safety invariants unless said otherwise.

| Run | Instance | Distinct states | Shows |
|---|---|---|---|
| `MultiThread_full` | chunk 3, buffer 6, file 13, both faults | 259,527 | `TypeOK`, `NoSlotRace`, `RingInv` (what a thread has learnt of the other's index stays true until it stores its own), `DeliveredInOrder`, `PauseCostsAByte` (writing is only ever disabled at the price of a lost byte), `ImplementsChannel` (refinement), `StopEndsWriter` (liveness) |
| `MultiThread_small` | chunk 2, buffer 6, file 5, both faults | 4,645 | a file that fits: `SmallFileKeepsPrefix`, and `BothThreadsJoin` (liveness) |
| `SharedData_transfer` | chunk 2, file 7, all faults | 194,915 | `TypeOK`, `MappedAlone`, `DamageIsOneChunk` (what the early post of space can spoil), `OnlyLastChunkLost`; `StepsOfAPair` (each step is one of `MultiProcessTask`); `ServerIsServed`, `ClientFollowsServer` (liveness) |
| `MultiProcess_starts` | 2 processes, 2 chunks, all faults, SIGINT for one | 6,554,838 | `TypeOK`, `RoleOfTheLiving` (a mutex whose creator is gone was created while its own SIGINT handler was at work), `NothingIsLeft`, `OnlySemaphoresAreLeft` (after a name could not be opened), `PairIsConnected`, `PairKeepsFile` (no truncation costs a pair what it has written) |
| `Network_transfer` | a client with 2 connections, 2 chunks each, all faults | 355,413 | `TypeOK`, `NoNullWriter` (no chunk is handled before a name, except from a client that gave the name up), `ChunksInOrder`, `WholeFiles` (while reads are packets and sends in time, each file is its source), `ServerEndsForAReason`; `ConnectionsAreClosed`, `DeafServerReturns` (liveness) |
| `Command_line` | 2 programs, 2 files, at most 2 sources | 644,722 | `TypeOK`, `FilesChangeByWholeCommands` (a file is truncated only after all sources its task uses were opened), `LostUnlessCopied` (what is truncated stays lost, unless it is the first source of someone who writes another file), `FailureLeavesFiles`, `OnlyFirstSourcesAreCopied` (sources behind the first reach no destination) |

Six more runs each show that something the repository says of the program is
not so; TLC finds a shortest behaviour.

| Run | Violated | The behaviour |
|---|---|---|
| `MultiThread_hang` | `BothThreadsJoin` | The reader thread finds the buffer full; the writer thread drains it and enables writing, sees it empty; the reader thread disables writing, late. The full buffer was met at the end of a chunk (chunk 2, capacity 3, file 5), so the reader thread puts no byte that would enable reading again. With both flags down both threads spin. |
| `MultiThread_tail_loss` | `DestinationIsSource` | The reader thread finishes and clears `running_` while bytes are in the buffer; the writer thread leaves its loop. |
| `SharedData_overwritten` | `BytesInPlace` | The client posts space, the server writes the next chunk, the client writes the span to the file. |
| `SharedData_last_chunk` | `AllBytesArrive` | The server posts data and, having got the space of the chunk before, stop; the client looks at stop first. |
| `MultiProcess_disconnected` | `ServerHasClient` | The client runs; a process without a source removes the names while it unwinds; a third process opens new objects, finds the client mutex, and is a server without a client. In the shortest one only the name of the stop semaphore has been removed: the two share space and data, and the client never sees the stop. |
| `Network_keeps_running` | `ServerKeepsRunning` | A read returns the beginning of a packet: `Unpack` throws, `NetworkTask.cpp:62` catches it, and the server is gone. No failure is needed. |

### Bounds

* `MultiThread_full`: two chunks fill the buffer, the file is longer than two
  buffers, so both indices wrap twice, a chunk meets a full and a nearly full
  buffer, and the last chunk is short. Nothing depends on the byte except its offset.
* `MultiThread_small`: the largest file that fits (`BufferSize - 1` bytes). With
  one byte more `BothThreadsJoin` and `SmallFileKeepsPrefix` are no longer about it.
* `SharedData_*`: four chunks (two or three in the violations) are enough for a server one chunk ahead, a chunk
  behind that, a short last one. `SemaphoreMax = 3` instead of 2^31 - 1 lets the stop
  semaphore overflow, which takes a server that goes round `Stop` that often without
  a client.
* `MultiProcess_*`: two processes for a pair; a third for one that meets a
  running pair (`MultiProcess_disconnected`, whose only fault is the missing
  source). `Chunks` and `SemaphoreMax` keep the semaphores small. In `MultiProcess_starts` one
  of the two may be interrupted (`Interruptible`): it can be in either role or in neither, beside another that is
  anywhere. Both interrupted is an instance beyond a run of minutes, which the proofs cover.
* `Network_transfer`: two connections for what one does to the other; three packets on
  each, so that a read can take one, more than one, or end inside any of them,
  and a chunk can be sent late from the buffer of the next. The two connections of one
  client are in use at the same time, because the server may be behind by any number
  of packets. `Network_keeps_running` has two clients.
* `Command_line`: two programs, because a file can be lost to another program only
  between its steps, and one pair has both roles of `multi_process`; two files, so that a
  program can copy to its source, or two programs crosswise; two sources, for a client whose second
  is missing.
* `CHECK_DEADLOCK FALSE` is set where the system really stops: `MultiThread_full`
  (both threads waiting, the hang above), `SharedData_transfer` (a server waiting for a failed client),
  the processes of `MultiProcess_*`, the clients and servers of `Network_*` and the
  programs of `Command_line`, which end.

### Fairness

Weak fairness of each thread (`WF_vars(ReaderThread)`, `WF_vars(WriterThread)`) and
of each process (`Server`, `Client`): the operating system goes on running a thread
that can take a step. Nothing stronger: no thread is assumed to be in time. Faults are
alternatives of a thread's step and are never forced. `MultiProcessTask` and
`CommandLine` have safety properties only and no fairness. In `NetworkTransfer` the handlers of the server are
weakly fair, each for itself (`WF_vars(Accept)`, `WF_vars(Serve(c))`, `WF_vars(Return)`), because `io_context::run`
takes ready handlers in turn; clients and their pending sends are not.

`ServerIsServed` excepts a client that has failed: it gives space only once more, and a
server with more chunks than that waits for ever, which is what the code does. `ConnectionsAreClosed` excepts a server that
has stopped accepting: a client in its backlog is never looked at.

## 4. What is proved

For every chunk size, buffer size, file size, number of chunks, semaphore limit, number of
processes, clients, sources, programs and files and every set of faults that the ASSUMEs of the
modules allow. Every safety property that a passing run checks is a theorem.

| Theorem | Module | |
|---|---|---|
| `TypeCorrect`, `RingIsKept`, `SlotsAreRaceFree` | `MultiThreadTask_proofs` | `Spec => []TypeOK`, `Spec => []RingInv`, `Spec => []NoSlotRace` |
| `ChannelImplemented`, `OrderKept` | `MultiThreadTask_refinement` | `Spec => ImplementsChannel`, `Spec => []DeliveredInOrder` |
| `PauseIsPaidFor`, `SmallFileIsPrefix` | `MultiThreadTask_refinement` | `Spec => []PauseCostsAByte`, `Spec => []SmallFileKeepsPrefix` |
| `ChannelKeepsOrder` | `ByteChannel_proofs` | the order, of the abstract channel |
| `TypeCorrect`, `MapsAreExclusive` | `SharedDataTransfer_proofs` | `Spec => []TypeOK`, `Spec => []MappedAlone` |
| `DamageIsBounded`, `LossIsBounded` | `SharedDataTransfer_proofs` | `Spec => []DamageIsOneChunk`, `Spec => []OnlyLastChunkLost` |
| `ImplementsPair` | `SharedDataTransfer_proofs` | `Spec => StepsOfAPair` |
| `TypeCorrect`, `RolesAreOfTheLiving`, `NamesAreRemoved`, `SemaphoresAreLeftOnly` | `MultiProcessTask_proofs` | `Spec => []TypeOK`, `[]RoleOfTheLiving`, `[]NothingIsLeft`, `[]OnlySemaphoresAreLeft` |
| `OnePairConnected`, `FileOfThePair` | `MultiProcessTask_proofs` | `Spec => []PairIsConnected`, `Spec => []PairKeepsFile` |
| `Invariant`, `WriterIsThere`, `FilesKeepTheOrder`, `FilesAreWhole`, `ServerEndsOnlyByAReadThatIsNoPacket` | `NetworkTransfer_proofs` | `TypeOK` (with the inductive invariant), `NoNullWriter`, `ChunksInOrder`, `WholeFiles`, `ServerEndsForAReason` |
| `Invariant`, `WholeCommands`, `DestinationIsLost`, `FailuresTouchNothing`, `FirstSourcesOnly` | `CommandLine_proofs` | `TypeOK` (with the inductive invariant), `FilesChangeByWholeCommands`, `LostUnlessCopied`, `FailureLeavesFiles`, `OnlyFirstSourcesAreCopied` |

**Threads.** `NoSlotRace` is not inductive: that the slot at `tail` is not one of
the slots being copied has to be known when the reader thread is about to store
into it, whatever the writer thread does meanwhile. The invariant is `RingInv`:
between its test for room and its store to `tail_` the reader thread has a free slot
(only the writer thread can change that, and it only frees slots), and while
the writer thread copies, the size it loaded is at most the present one (only the
reader thread can change that, and it only adds). Arithmetic about the ring is in lemmas about
`Index` and `Size` (`SizeGrows`, `SizeShrinks`, `TailIsFree`, `TailIsNext`). Neither
the flags nor `running_` occur in the invariant: order and exclusion do not
depend on the flags, which only decide who waits.

**Refinement.** With `RingInv`, the store to `tail_` appends one byte to `Contents`
and the store to `head_` removes the block just copied; the drop, the append to the file,
the end of the writer thread and the stop map to the steps of `ByteChannel` of the same meaning; all
others leave the mapped variables alone. The order proved of `ByteChannel`
carries over.

**The flags.** What *does* depend on the flags follows from a count. The bytes that are missing,
those the reader thread has passed (`next - 1`) less those in the buffer, the copy and the destination,
never get fewer (`MissingStep` of the channel), and there is one more when the reader thread finds the
buffer full, which is the only way to `disableWriting`: `PauseInv`. In a file that is
smaller than the buffer none can be missing before the writer thread has ended: the buffer is full
only with `BufferSize - 1` bytes, of which the next byte of the source would be one more than there
are. So all bytes passed are in one sequence without a gap, and the destination
is a prefix of it (`SmallInv`).

**Transfer.** `MappedAlone` needs the count of a token: `space + data +` whoever
holds it is at most 1, until a failing client, which does nothing any more, gives a
second (`TokenInv`). That the copy stays in the memory needs that its length is
the chunk's (`CopyFits`). For `DamageIsOneChunk` two things are related at every moment. What the memory
holds follows from where the server is (`MemoryInv`): the chunk before, the chunk as far as it is
copied, or the chunk. And what the server has put there is what the destination has, what the client has
still to write of its span, and what is announced (`CountInv`). With the token (an
announced chunk is not being overwritten) the byte the client writes next can only be in its own chunk, the one
that follows, or behind the end of a shorter last one (`ByteShown`, one case for each place of
the server). `OnlyLastChunkLost` is the same account when the stop arrives: a server that stops has put all
it has read (`StopInv`), and all of it but what is announced is in the destination. All of this ends
with the first mapping that fails, and the properties say so.

**The pair.** `StepsOfAPair` needs the same invariants, since a step of the client that has got a chunk
takes the branch of the pair only if the chunk is not empty, and the arithmetic of the
number of chunks (`AmountOfNext`: the chunk that is read next is one of those left, also when it is a short
one). The variables of the pair are functions of seven values here (`View`): the lemmas
`PairWrites`, `PairReads`, … say which change of the seven is which action of
`MultiProcessTask`, and `ServerRefines` and `ClientRefines` which step here makes which change. What is proved is
about steps: the pair begins where both have their roles, not in the initial state of
`MultiProcessTask`.

**Processes.** `RoleOfTheLiving`, `NothingIsLeft` and `OnlySemaphoresAreLeft` need what a process still has to do:
the creator of a mutex is past creating it, or is leaving and has the mutex on its list, or was
killed and had it `late` (`RoleInv`, `Keeps`); while a handler is at work it still has to remove what its
process had when it began, and only what was taken meanwhile escapes it (`HandlerInv`). For a name in use there is a process that `Accounts` for it (`NameInv`): one
that is past opening it, one that has it on its list of names to remove, one that failed
half way (but not for the memory), or one that was interrupted. That a process at
its first name accounts for nothing, and after each for one name more, needs that what it has still to open is
one of five lists (`StillToOpen`).

`PairIsConnected` and `PairKeepsFile` hold until the first process leaves, and so does their invariant:
`PairInv` is `Calm => Pairing`, and nobody who leaves ever comes back, so that a step
into a calm state starts in one and is one of the few of `CalmMove`. While it is calm no name is
removed, so what a process has opened is what has the name now (`OpenedInv`), a mutex belongs to
who runs in its role (`OwnerInv`), and no process looks for the server mutex before there is a client
(`ClientFirst`). Therefore a destination is truncated late only by a process that is not of the pair,
or before anything was sent (`NothingSent`, `WrittenInv`).

**Network.** A connection is what is on the wire, what is pending, how many packets its client has
packed, and the file; each part of the invariant relates some of these four, and there is a
lemma for each thing that happens to a connection (a packet is packed and sent in part, a pending unit follows, the
server takes a beginning of the wire, a link is cut). `NoNullWriter` rests on `NameFirst`: until a packet
was read, the stream begins with the header of the name, so the first beginning of it that can be
unpacked is the name. A connection whose name was given up carries chunks only, and the first read of them ends
the server (`NamelessInv`), so that it is the only kind on which a writer can be missing. The order rests on `InOrder` (the wire never goes back, the file is behind the wire) and
`NamesWait` (a pending name keeps all else behind it), and `Once` adds, for sends that are in time, that no header
is sent twice. A file is whole because headers and contents alternate (`Alternates`), so that
a read of one packet is a header with its content, and because the first `r` packets are in the file
and exactly the others on the wire (`Exact`). That connections do not disturb each other is `IdInv`: the id of a connection is
nobody else's.

**Command line.** What a program has done to files follows from how far it has come: it has touched nothing
until its task is complete, and then its destination only, with all sources opened (`Progress`). Where
bytes can be is `LostUnlessCopied` and `OnlyFirstSourcesAreCopied` together, which are inductive with
the rest: a transfer brings into a destination what a first source has, and whatever of it
belonged to a third file was copied away from that one before (`CopiedFrame`: what was copied away
stays so; `TransferInv`).

**Only model-checked**: liveness (`StopEndsWriter`, `BothThreadsJoin`, `ServerIsServed`,
`ClientFollowsServer`, `ConnectionsAreClosed`, `DeafServerReturns`), because the prover does not treat
ENABLED and fairness; and the six runs that end in a violation, which are behaviours.

## 5. What is not modelled

* A server of the network that is stopped and started again: its ids start from 1
  again, and the first client overwrites the file of the first client before it. It takes a
  client for each life of the server, an instance beyond a run of minutes.
* The length of a chunk in the network mode: all are taken to be equal.
* What an interrupted process leaves behind, as input of a later transfer: the
  names and values are kept in `MultiProcessTask`, but not the data, and no property speaks of a pair that
  starts with the old values of the semaphores.
* Memory orders weaker than interleaving, for the flags and `running_` (section 2).
* A memory that cannot be made shorter while it is mapped (Windows): there the
  mapping fault of `SharedDataTransfer` is what happens to a short last chunk, which
  `DamageIsOneChunk` and `OnlyLastChunkLost` except.
* The conversion of the port from 64 to 16 bits: nothing in the program depends on the
  number.
* The cipher (Crypto++), and an exception of `Encryption::Decrypt`, which would end the server as
  a packet that cannot be unpacked does; the logger.
* What the bytes, names, options and log lines are, beyond what is said above.

## 6. Plan

1. Safety halves of the liveness properties: that a step which is waited for stays possible
   (the token is somewhere; a stop that was posted is not taken by anyone else), as invariants with proofs.
2. The state in which `SharedDataTransfer` begins: that a client and a server of
   `MultiProcessTask` who have just got their roles, while nobody leaves, are in the initial state of
   the pair.
