------------------------- MODULE SharedDataTransfer -------------------------
(***************************************************************************)
(* The transfer of the multi_process mode, between the two processes that  *)
(* MultiProcessTask::Run calls client and server, with the semaphores and  *)
(* the shared memory freshly created.                                      *)
(*                                                                         *)
(*   server  FileDataTransferTask::Run: reads the source file chunk by     *)
(*           chunk and puts each chunk into the shared memory              *)
(*           (SharedWriteDataAccess, SharedWriteDataHandler);              *)
(*   client  BufferTransferTask::Run: polls for a chunk, maps the shared   *)
(*           memory and appends it to the destination file                 *)
(*           (SharedReadDataAccess, SharedReadDataHandler).                *)
(*                                                                         *)
(* A step is one semaphore operation, or one byte of the shared memory     *)
(* written by std::copy or read by ofstream::write: the span the client    *)
(* writes to the file points into the shared memory.  A byte is its offset *)
(* in the source file, and 0 is the byte truncate() fills with.            *)
(*                                                                         *)
(* Definitions named after a slip stand before the definition they distort *)
(* and are used by no run as they are.                                     *)
(***************************************************************************)
EXTENDS Naturals, Sequences

CONSTANTS
  ChunkSize,      \* config::DefaultChunkSize
  FileSize,       \* number of bytes of the source file
  SemaphoreMax,   \* the value at which a post fails (SEM_VALUE_MAX)
  Faults          \* which of {"server", "client", "memory"} may fail: the
                  \* IReader of the server, the IWriter of the client, the
                  \* mapping of the shared memory

ASSUME TransferAssumption ==
  /\ ChunkSize \in Nat \ {0}
  /\ FileSize \in Nat
  /\ SemaphoreMax \in Nat \ {0, 1}
  /\ Faults \subseteq {"server", "client", "memory"}

VARIABLES
  stop,       \* value of stopSemaphore_
  data,       \* value of dataAvailableSemaphore_
  space,      \* value of spaceAvailableSemaphore_
  memory,     \* the shared memory object, as long as truncate() made it
  serverPc,   \* where the server is
  first,      \* offset of the first byte of the chunk in its hands
  limit,      \* offset of the last byte it has read
  copied,     \* bytes of the chunk it has copied to the shared memory
  clientPc,   \* where the client is
  span,       \* length of the span returned by Read
  written,    \* bytes of the span that are in the destination file
  output,     \* the destination file
  happened    \* history: which of the faults have occurred

semaphores == <<stop, data, space>>
serverVars == <<serverPc, first, limit, copied>>
clientVars == <<clientPc, span, written, output>>
vars == <<semaphores, memory, serverVars, clientVars, happened>>

ServerStates == {"read", "awaitSpace", "truncate", "copy", "postData",
                 "postStop", "trySpace", "done", "failed"}

ClientStates == {"checkStop", "tryData", "map", "postSpace", "writeFile",
                 "stop", "done"}

Init ==
  /\ stop = 0 /\ data = 0 /\ space = 1
  /\ memory = <<>>
  /\ serverPc = "read" /\ first = 1 /\ limit = 0 /\ copied = 0
  /\ clientPc = "checkStop" /\ span = 0 /\ written = 0 /\ output = <<>>
  /\ happened = {}

Occurs(fault) == fault \in Faults /\ happened' = happened \cup {fault}

Lesser(m, n) == IF m < n THEN m ELSE n

-----------------------------------------------------------------------------
(* The server: FileDataTransferTask::Run over SharedWriteDataAccess.       *)

ServerReads ==
  /\ serverPc = "read"
  /\ IF limit < FileSize
     THEN /\ first' = limit + 1
          /\ limit' = Lesser(limit + ChunkSize, FileSize)
          /\ serverPc' = "awaitSpace"
     ELSE /\ serverPc' = "postStop"
          /\ UNCHANGED <<first, limit>>
  /\ UNCHANGED <<semaphores, memory, copied, clientVars, happened>>

(* A runtime_error of the reader: the handler stops the transfer too.      *)
ServerThrows ==
  /\ Occurs("server")
  /\ serverPc = "read"
  /\ serverPc' = "postStop"
  /\ UNCHANGED <<semaphores, memory, first, limit, copied, clientVars>>

(* Slip: the chunk is put there without waiting.                           *)
ServerIgnoresSpace ==
  /\ serverPc = "awaitSpace"
  /\ serverPc' = "truncate"
  /\ UNCHANGED <<semaphores, memory, first, limit, copied, clientVars, happened>>

(* SharedWriteDataAccess::Write waits for space ...                        *)
ServerAwaitsSpace ==
  /\ serverPc = "awaitSpace"
  /\ space > 0
  /\ space' = space - 1
  /\ serverPc' = "truncate"
  /\ UNCHANGED <<stop, data, memory, first, limit, copied, clientVars, happened>>

ChunkLength == limit + 1 - first

Resized(length) == [i \in 1 .. length |-> IF i <= Len(memory) THEN memory[i] ELSE 0]

(* Slip: only the first chunk sets the size.                               *)
ServerKeepsLength ==
  /\ serverPc = "truncate"
  /\ memory' = IF memory = <<>> THEN Resized(ChunkLength) ELSE memory
  /\ copied' = 0
  /\ serverPc' = "copy"
  /\ UNCHANGED <<semaphores, first, limit, clientVars, happened>>

(* ... resizes the shared memory, which cuts bytes off or adds zeros ...   *)
ServerTruncates ==
  /\ serverPc = "truncate"
  /\ memory' = Resized(ChunkLength)
  /\ copied' = 0
  /\ serverPc' = "copy"
  /\ UNCHANGED <<semaphores, first, limit, clientVars, happened>>

(* ... copies the chunk ...                                                *)
ServerCopiesByte ==
  /\ serverPc = "copy"
  /\ copied < ChunkLength
  /\ memory' = [memory EXCEPT ![copied + 1] = first + copied]
  /\ copied' = copied + 1
  /\ serverPc' = IF copied' = ChunkLength THEN "postData" ELSE "copy"
  /\ UNCHANGED <<semaphores, first, limit, clientVars, happened>>

(* ... or fails to, which SharedWriteDataHandler::Write only logs, with    *)
(* the shared memory resized or not ...                                    *)
ServerFailsToMap ==
  /\ Occurs("memory")
  /\ serverPc = "truncate"
  /\ memory' \in {memory, Resized(ChunkLength)}
  /\ serverPc' = "postData"
  /\ UNCHANGED <<semaphores, first, limit, copied, clientVars>>

(* ... and announces the data in any case.                                 *)
ServerPostsData ==
  /\ serverPc = "postData"
  /\ data' = data + 1
  /\ serverPc' = "read"
  /\ UNCHANGED <<stop, space, memory, first, limit, copied, clientVars, happened>>

(* Slip: the server only waits for its space.                              *)
ServerStopsQuietly ==
  /\ serverPc = "postStop"
  /\ stop < SemaphoreMax
  /\ serverPc' = "trySpace"
  /\ UNCHANGED <<semaphores, memory, first, limit, copied, clientVars, happened>>

(* SharedWriteDataAccess::Stop posts the stop semaphore ...                *)
ServerPostsStop ==
  /\ serverPc = "postStop"
  /\ stop < SemaphoreMax
  /\ stop' = stop + 1
  /\ serverPc' = "trySpace"
  /\ UNCHANGED <<data, space, memory, first, limit, copied, clientVars, happened>>

(* ... until it gets the space back ...                                    *)
ServerTriesSpace ==
  /\ serverPc = "trySpace"
  /\ IF space > 0
     THEN space' = space - 1 /\ serverPc' = "done"
     ELSE serverPc' = "postStop" /\ UNCHANGED space
  /\ UNCHANGED <<stop, data, memory, first, limit, copied, clientVars, happened>>

(* ... or the semaphore can take no more: the interprocess_exception of    *)
(* the post passes FileDataTransferTask::Run and MultiProcessTask::Run     *)
(* reports "Server already exist."                                         *)
ServerOverflowsStop ==
  /\ serverPc = "postStop"
  /\ stop = SemaphoreMax
  /\ serverPc' = "failed"
  /\ UNCHANGED <<semaphores, memory, first, limit, copied, clientVars, happened>>

Server ==
  \/ ServerReads \/ ServerThrows
  \/ ServerAwaitsSpace \/ ServerTruncates \/ ServerCopiesByte
  \/ ServerFailsToMap \/ ServerPostsData
  \/ ServerPostsStop \/ ServerTriesSpace \/ ServerOverflowsStop

-----------------------------------------------------------------------------
(* The client: BufferTransferTask::Run over SharedReadDataAccess.          *)

(* IsRunning takes a stop from the semaphore, and the loop ends.           *)
ClientChecksStop ==
  /\ clientPc = "checkStop"
  /\ IF stop > 0
     THEN stop' = stop - 1 /\ clientPc' = "done"
     ELSE clientPc' = "tryData" /\ UNCHANGED stop
  /\ UNCHANGED <<data, space, memory, serverVars, span, written, output, happened>>

ClientTriesData ==
  /\ clientPc = "tryData"
  /\ IF data > 0
     THEN data' = data - 1 /\ clientPc' = "map"
     ELSE clientPc' = "checkStop" /\ UNCHANGED data
  /\ UNCHANGED <<stop, space, memory, serverVars, span, written, output, happened>>

(* SharedReadDataHandler::Read returns a span over the whole object, or    *)
(* nothing if the object is empty and cannot be mapped.                    *)
ClientMaps ==
  /\ clientPc = "map"
  /\ span' = Len(memory)
  /\ written' = 0
  /\ clientPc' = "postSpace"
  /\ UNCHANGED <<semaphores, memory, serverVars, output, happened>>

(* A failure to map is logged and returns nothing.                         *)
ClientFailsToMap ==
  /\ Occurs("memory")
  /\ clientPc = "map"
  /\ span' = 0
  /\ written' = 0
  /\ clientPc' = "postSpace"
  /\ UNCHANGED <<semaphores, memory, serverVars, output>>

(* Slip: no space is given back.                                           *)
ClientForgetsSpace ==
  /\ clientPc = "postSpace"
  /\ clientPc' = IF span = 0 THEN "checkStop" ELSE "writeFile"
  /\ UNCHANGED <<semaphores, memory, serverVars, span, written, output, happened>>

(* The space is given back before the span is written to the file.         *)
ClientPostsSpace ==
  /\ clientPc = "postSpace"
  /\ space' = space + 1
  /\ clientPc' = IF span = 0 THEN "checkStop" ELSE "writeFile"
  /\ UNCHANGED <<stop, data, memory, serverVars, span, written, output, happened>>

(* What the span shows at i now: behind the end of a memory that was made  *)
(* shorter there are zeros up to the end of the page.                      *)
Shown(i) == IF i <= Len(memory) THEN memory[i] ELSE 0

ClientWritesByte ==
  /\ clientPc = "writeFile"
  /\ written < span
  /\ output' = Append(output, Shown(written + 1))
  /\ written' = written + 1
  /\ clientPc' = IF written' = span THEN "checkStop" ELSE "writeFile"
  /\ UNCHANGED <<semaphores, memory, serverVars, span, happened>>

(* A runtime_error of the writer, before anything is written ...           *)
ClientThrows ==
  /\ Occurs("client")
  /\ clientPc = "writeFile" /\ written = 0
  /\ clientPc' = "stop"
  /\ UNCHANGED <<semaphores, memory, serverVars, span, written, output>>

(* ... ends the loop, and SharedReadDataAccess::Stop gives space once more.*)
ClientStops ==
  /\ clientPc = "stop"
  /\ space' = space + 1
  /\ clientPc' = "done"
  /\ UNCHANGED <<stop, data, memory, serverVars, span, written, output, happened>>

Client ==
  \/ ClientChecksStop \/ ClientTriesData
  \/ ClientMaps \/ ClientFailsToMap \/ ClientPostsSpace
  \/ ClientWritesByte \/ ClientThrows \/ ClientStops

-----------------------------------------------------------------------------
(* What a pair of processes of MultiProcessTask with these two roles, who  *)
(* have the same objects, is doing.  A chunk counts as put and as taken    *)
(* when it has been announced, and when space has been given back.         *)
AmountOf(length) == (length + ChunkSize - 1) \div ChunkSize

InHand == serverPc \in {"awaitSpace", "truncate", "copy", "postData"}

ServerHoldsSpace == serverPc \in {"truncate", "copy", "postData"}
ClientHoldsData == clientPc \in {"map", "postSpace"}
ClientHoldsChunk ==
  clientPc \in {"writeFile", "stop"} \/ (clientPc = "done" /\ "client" \in happened)

Count(condition) == IF condition THEN 1 ELSE 0

ChunksLeft ==
  IF serverPc \in {"postStop", "trySpace", "done", "failed"}
  THEN 0
  ELSE AmountOf(FileSize - limit) + Count(InHand)

ChunksWritten ==
  AmountOf(limit) - Count(InHand) - data - Count(ClientHoldsData) - Count(ClientHoldsChunk)

ClientStep ==
  [checkStop |-> "client",
   tryData   |-> "clientReads", map |-> "clientReads", postSpace |-> "clientReads",
   writeFile |-> "clientWrites", stop |-> "clientWrites",
   done      |-> "cleanup"][clientPc]

ServerStep ==
  IF serverPc = "trySpace" THEN "serverStops"
  ELSE IF serverPc \in {"done", "failed"} THEN "cleanup" ELSE "server"

RoleSteps == [client |-> ClientStep, server |-> ServerStep]

(* The names a process removes when it leaves: those of the mutexes, and   *)
(* for both of its sides those of the semaphores and of the memory.        *)
NamesToRemove(step) ==
  IF step = "cleanup"
  THEN <<"client", "server">> \o <<"stop", "data", "space", "memory">>
         \o <<"stop", "data", "space", "memory">>
  ELSE <<>>

ClientTodo == NamesToRemove(ClientStep)
ServerTodo == NamesToRemove(ServerStep)

RoleTodo == [client |-> ClientTodo, server |-> ServerTodo]

PairNames == {"memory", "stop", "data", "space"}

DataThere  == data + Count(ClientHoldsData)
SpaceThere == space + Count(ServerHoldsSpace)

Pair == INSTANCE MultiProcessTask WITH
  Procs   <- {"client", "server"},
  NoProc  <- "none",
  Chunks  <- AmountOf(FileSize),
  Faults  <- {"reader", "writer"},
  Interruptible <- {},
  mutex   <- [client |-> "client", server |-> "server"],
  current <- [n \in PairNames |-> 1],
  value   <- [memory |-> <<0>>, stop |-> <<stop>>,
              data |-> <<DataThere>>, space |-> <<SpaceThere>>],
  pc      <- RoleSteps,
  todo    <- RoleTodo,
  handle  <- [r \in {"client", "server"} |->
                [side \in {"reader", "writer"} |-> [n \in PairNames |-> 1]]],
  left    <- [client |-> AmountOf(FileSize), server |-> ChunksLeft],
  written <- [client |-> ChunksWritten, server |-> 0],
  file    <- 1 .. ChunksWritten,
  handling <- [r \in {"client", "server"} |-> <<>>],
  late    <- {}

ServerEnded == serverPc \in {"done", "failed"}

Ended == ServerEnded /\ clientPc = "done"

Next == Server \/ Client \/ (Ended /\ UNCHANGED vars)

Spec == Init /\ [][Next]_vars

(* The operating system runs each process that can take a step.            *)
FairSpec == Spec /\ WF_vars(Server) /\ WF_vars(Client)
-----------------------------------------------------------------------------
(* Properties.                                                             *)

(* The server and the client pass one token around: it is in a semaphore   *)
(* or with the one who took it.                                            *)
Tokens ==
  space + data + Count(ServerHoldsSpace) + Count(ClientHoldsData)

TypeOK ==
  /\ stop \in 0 .. SemaphoreMax
  /\ data \in 0 .. 2 /\ space \in 0 .. 2
  /\ Len(memory) <= ChunkSize /\ memory \in Seq(0 .. FileSize)
  /\ serverPc \in ServerStates
  /\ limit \in 0 .. FileSize /\ first \in 1 .. limit + 1
  /\ ChunkLength <= ChunkSize /\ copied \in 0 .. ChunkSize
  /\ clientPc \in ClientStates
  /\ span \in 0 .. ChunkSize /\ written \in 0 .. span
  /\ output \in Seq(0 .. FileSize)
  /\ happened \subseteq Faults

(***************************************************************************)
(* The server never changes the shared memory between the client's         *)
(* successful try_wait for data and its post of space: what the client     *)
(* maps is a whole chunk (SharedWriteDataAccess.h:66-68 against            *)
(* SharedReadDataAccess.h:65-68).                                          *)
(***************************************************************************)
MappedAlone == ~(ServerHoldsSpace /\ ClientHoldsData)

(***************************************************************************)
(* The span points into the shared memory and is written to the file after *)
(* the space was given back, but the server is at most one chunk ahead and *)
(* every span keeps the length of the chunk it was returned for.  So a     *)
(* byte of the destination is the one that belongs there, the one a chunk  *)
(* further on, or a zero where the last chunk is shorter, unless a mapping *)
(* has failed.                                                             *)
(***************************************************************************)
DamageIsOneChunk == "memory" \notin happened =>
  /\ Len(output) <= limit
  /\ \A i \in 1 .. Len(output) :
       \/ output[i] \in {i, i + ChunkSize}
       \/ output[i] = 0 /\ i + ChunkSize > FileSize

(***************************************************************************)
(* Only the last chunk can be missing when the client has stopped: the     *)
(* stop is posted no earlier than the space for the last chunk was given,  *)
(* also by a server whose reader has failed, unless the client or a mapping*)
(* has failed.                                                             *)
(***************************************************************************)
OnlyLastChunkLost ==
  clientPc = "done" /\ happened \subseteq {"server"} => Len(output) >= limit - ChunkLength

(***************************************************************************)
(* A server that waits for space (a wait without time limit) gets it,      *)
(* unless the client has failed: that client takes no chunk any more and   *)
(* gives space only once.                                                  *)
(***************************************************************************)
ServerIsServed ==
  serverPc = "awaitSpace" ~> serverPc # "awaitSpace" \/ "client" \in happened

(***************************************************************************)
(* The client, which only polls, ends after the server, whatever was left  *)
(* to take and whoever has failed.                                         *)
(***************************************************************************)
ClientFollowsServer == ServerEnded ~> clientPc = "done"

(***************************************************************************)
(* However the operations of the two data access classes interleave, what  *)
(* they do to the semaphores, to what is left to send and to what has been *)
(* written comes to steps of a pair of MultiProcessTask, in which each is  *)
(* one step, also when the reader or the writer fails: Write of the server *)
(* (SharedWriteDataAccess.h:63) happens with its post of data, Read of the *)
(* client (SharedReadDataAccess.h:63) with its post of space.              *)
(***************************************************************************)
StepsOfAPair == [][ "memory" \notin happened' => Pair!Next ]_(Pair!vars)

(***************************************************************************)
(* What reaches the destination is what was read: BufferTransferTask "reads*)
(* data from a sync data access and writes it to a writer"                 *)
(* (BufferTransferTask.h:10).                                              *)
(***************************************************************************)
BytesInPlace == \A i \in 1 .. Len(output) : output[i] = i

(***************************************************************************)
(* ... and all that the server has put there is read                       *)
(* (FileDataTransferTask.h:10, BufferTransferTask.h:10).                   *)
(***************************************************************************)
AllBytesArrive == clientPc = "done" => Len(output) = FileSize
=============================================================================
