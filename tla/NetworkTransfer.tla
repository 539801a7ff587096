-------------------------- MODULE NetworkTransfer --------------------------
(***************************************************************************)
(* The network mode: Network/NetworkTask.cpp, TCPClient.h on the side of   *)
(* the clients, TCPServer.h, TCPConnection.h and DataHandler.h on the side *)
(* of the server.                                                          *)
(*                                                                         *)
(* A client process connects once for each of its sources, and then sends  *)
(* one source after the other: a packet with the name, a packet for each   *)
(* chunk.  The server takes what one read of a connection returns for one  *)
(* packet, and appends its chunk to a file of that connection.             *)
(*                                                                         *)
(* A connection is a stream of units, two for each packet (the header with *)
(* type, IV and length, and the encrypted content): where a stream is cut  *)
(* matters only against these two.  Packet 0 is the name, packet k chunk   *)
(* k; all chunks have the same length.  A block of a file is the number of *)
(* its chunk, or 0 if it was decrypted from what is not one packet.        *)
(***************************************************************************)
EXTENDS Naturals, Sequences, FiniteSets

CONSTANTS
  Clients,  \* the client processes
  Files,    \* number of sources of a client
  Chunks,   \* number of chunks of a source
  Faults    \* which of FaultKinds may happen

(* A source that does not exist, a name that cannot be read, a packet that *)
(* cannot be encrypted, a read of the source that throws, an interrupted   *)
(* client, a destination that cannot be opened, a connection that breaks,  *)
(* an accept that fails, an interrupted server.                            *)
FaultKinds ==
  {"source", "name", "encrypt", "reader", "sigint", "destination", "reset", "accept", "stop"}

ASSUME NetworkAssumption ==
  /\ IsFiniteSet(Clients)
  /\ Files \in Nat \ {0}
  /\ Chunks \in Nat
  /\ Faults \subseteq FaultKinds

VARIABLES
  server,     \* "off", "up", "ended", "crashed", or ended by an exception:
              \* "denied" by that of FileDataWriter::Create, "down" by another
  accepting,  \* an async_accept is under way
  currentId,  \* current_id_: for the connection to be accepted next
  backlog,    \* connections to accept, oldest first
  clientPc,   \* where a client is
  turn,       \* the source it connects for, or sends
  packed,     \* the packet to pack next, for each source
  nameless,   \* history: the sources whose name was given up
  pending,    \* units of packets that async_write could not send at once
  wire,       \* units sent and not read
  link,       \* the connection as the server has it
  id,         \* ID_ of an accepted connection
  writer,     \* dataWriter_ of its DataHandler
  files,      \* the file in the folder of an id
  inTime,     \* history: no unit of the connection was ever pending
  packetwise  \* history: every read returned one packet

clientVars == <<clientPc, turn, packed, nameless>>
serverVars == <<server, accepting, currentId, backlog>>
streamVars == <<pending, wire>>
handlerVars == <<id, writer, files>>
vars == <<clientVars, serverVars, streamVars, link, handlerVars, inTime, packetwise>>

Connections == Clients \X (1 .. Files)

Ids == 1 .. Cardinality(Connections)

Packet(k) == <<[packet |-> k, part |-> "head"], [packet |-> k, part |-> "body"]>>

Init ==
  /\ server = "off" /\ accepting = FALSE /\ currentId = 1 /\ backlog = <<>>
  /\ clientPc = [p \in Clients |-> "connect"]
  /\ turn = [p \in Clients |-> 1]
  /\ packed = [c \in Connections |-> 0]
  /\ nameless = {}
  /\ pending = [c \in Connections |-> <<>>]
  /\ wire = [c \in Connections |-> <<>>]
  /\ link = [c \in Connections |-> "none"]
  /\ id = [c \in Connections |-> 0]
  /\ writer = [c \in Connections |-> "none"]
  /\ files = [i \in Ids |-> <<>>]
  /\ inTime = [c \in Connections |-> TRUE]
  /\ packetwise = [c \in Connections |-> TRUE]

Alive(c) == link[c] \notin {"none", "closed", "reset"}

-----------------------------------------------------------------------------
(* A client: ReaderFactory::CreateTask, then NetworkTask::Run.             *)

(* The process is gone: what is pending is cancelled, what was sent is     *)
(* still there to be read.                                                 *)
End(p) ==
  /\ clientPc' = [clientPc EXCEPT ![p] = "ended"]
  /\ pending' = [c \in Connections |-> IF c[1] = p THEN <<>> ELSE pending[c]]
  /\ UNCHANGED <<turn, packed, nameless, serverVars, wire, link, handlerVars, inTime, packetwise>>

(* TCPClient::TCPClient, for one source after the other.  A connection     *)
(* that fails is only reported.                                            *)
Connect(p) ==
  /\ clientPc[p] = "connect"
  /\ LET c == <<p, turn[p]>> IN
       IF server = "up"
       THEN /\ link' = [link EXCEPT ![c] = "backlog"]
            /\ backlog' = Append(backlog, c)
       ELSE UNCHANGED <<link, backlog>>
  /\ IF turn[p] < Files
     THEN turn' = [turn EXCEPT ![p] = @ + 1] /\ UNCHANGED clientPc
     ELSE turn' = [turn EXCEPT ![p] = 1] /\ clientPc' = [clientPc EXCEPT ![p] = "run"]
  /\ UNCHANGED <<packed, nameless, server, accepting, currentId, streamVars, handlerVars,
                 inTime, packetwise>>

(* FileNameSegmentReader or FileDataReader throws: so does the factory,    *)
(* and the process ends with the connections it has.                       *)
SourceMissing(p) ==
  /\ "source" \in Faults
  /\ clientPc[p] = "connect"
  /\ End(p)

(* Slip: a packet that was sent may be sent again.                         *)
SendAgain(c, units) ==
  /\ \E again \in BOOLEAN :
       wire' = [wire EXCEPT ![c] = @ \o units \o IF again THEN units ELSE <<>>]
  /\ UNCHANGED <<pending, inTime>>

(* async_write of a packet: what the socket takes at once is sent, the     *)
(* rest is pending, and so is all that follows.  (Asio tries to send at    *)
(* once only while nothing of the socket is waiting; a client runs no      *)
(* handler any more that would continue.)                                  *)
Send(c, units) ==
  \E n \in 0 .. Len(units) :
    /\ pending[c] # <<>> => n = 0
    /\ wire' = [wire EXCEPT ![c] = @ \o SubSeq(units, 1, n)]
    /\ pending' = [pending EXCEPT ![c] = @ \o SubSeq(units, n + 1, Len(units))]
    /\ inTime' = [inTime EXCEPT ![c] = @ /\ n = Len(units)]

(* FileNameTransferTask::Run and a round of FileDataTransferTask::Run: the *)
(* next packet is read, packed and given to TCPClient::Write, which does   *)
(* nothing without a connection.                                           *)
Write(p) ==
  /\ clientPc[p] = "run" /\ turn[p] <= Files
  /\ LET c == <<p, turn[p]>> IN
       /\ packed[c] <= Chunks
       /\ packed' = [packed EXCEPT ![c] = @ + 1]
       /\ IF Alive(c)
          THEN Send(c, Packet(packed[c]))
          ELSE UNCHANGED <<streamVars, inTime>>
  /\ UNCHANGED <<clientPc, turn, nameless, serverVars, link, handlerVars, packetwise>>

(* The name that is read is empty, or a runtime_error: either is only      *)
(* reported by FileNameTransferTask::Run, and FileTransferTask::Run goes   *)
(* on to the chunks.                                                       *)
NameFails(p) ==
  /\ "name" \in Faults
  /\ clientPc[p] = "run" /\ turn[p] <= Files
  /\ LET c == <<p, turn[p]>> IN
       /\ packed[c] = 0
       /\ packed' = [packed EXCEPT ![c] = 1]
       /\ nameless' = nameless \cup {c}
  /\ UNCHANGED <<clientPc, turn, serverVars, streamVars, link, handlerVars, inTime, packetwise>>

(* The invalid_argument of Encryption::Encrypt is no runtime_error: it     *)
(* leaves all tasks, and NetworkTask::Run returns.                         *)
EncryptThrows(p) ==
  /\ "encrypt" \in Faults
  /\ clientPc[p] = "run" /\ turn[p] <= Files /\ packed[<<p, turn[p]>>] <= Chunks
  /\ End(p)

(* The end of the source, or a runtime_error of its data reader: the       *)
(* socket stays open until the process ends.                               *)
NextTask(p) ==
  /\ clientPc[p] = "run" /\ turn[p] <= Files
  /\ LET c == <<p, turn[p]>> IN
       packed[c] = Chunks + 1 \/ ("reader" \in Faults /\ packed[c] > 0)
  /\ turn' = [turn EXCEPT ![p] = @ + 1]
  /\ UNCHANGED <<clientPc, packed, nameless, serverVars, streamVars, link, handlerVars,
                 inTime, packetwise>>

ClientEnds(p) ==
  /\ clientPc[p] = "run" /\ turn[p] = Files + 1
  /\ End(p)

(* SIGINT: exit, wherever the process is.                                  *)
Interrupt(p) ==
  /\ "sigint" \in Faults
  /\ clientPc[p] # "ended"
  /\ End(p)

Client(p) ==
  \/ Connect(p) \/ SourceMissing(p)
  \/ Write(p) \/ NameFails(p) \/ EncryptThrows(p) \/ NextTask(p)
  \/ ClientEnds(p) \/ Interrupt(p)

-----------------------------------------------------------------------------
(* The operating system of a client: a pending unit may be sent later (an  *)
(* overlapped send of Windows), or never (where io_context would have to   *)
(* run).  It is taken from the buffer of the serializer that packed it as  *)
(* it is then: the name has one of its own, all chunks of a source have    *)
(* the same.                                                               *)
Transmit(c) ==
  /\ pending[c] # <<>> /\ Alive(c)
  /\ LET unit == Head(pending[c])
         current == IF unit.packet = 0 THEN 0 ELSE packed[c] - 1
     IN  wire' = [wire EXCEPT ![c] = Append(@, [unit EXCEPT !.packet = current])]
  /\ pending' = [pending EXCEPT ![c] = Tail(@)]
  /\ UNCHANGED <<clientVars, serverVars, link, handlerVars, inTime, packetwise>>

-----------------------------------------------------------------------------
(* The server: NetworkTask::Run, whose io_context runs one handler at a    *)
(* time.                                                                   *)

(* NetworkTask::Create and Run.                                            *)
Start ==
  /\ server = "off"
  /\ server' = "up" /\ accepting' = TRUE
  /\ UNCHANGED <<clientVars, currentId, backlog, streamVars, link, handlerVars, inTime, packetwise>>

(* The oldest connection gets the current id and starts to read.           *)
Take ==
  /\ server = "up" /\ accepting /\ backlog # <<>>
  /\ LET c == Head(backlog) IN
       /\ link' = [link EXCEPT ![c] = "open"]
       /\ id' = [id EXCEPT ![c] = currentId]
  /\ backlog' = Tail(backlog)
  /\ UNCHANGED <<clientVars, server, accepting, streamVars, writer, files, inTime, packetwise>>

(* Slip: the next connection gets the same id.                             *)
AcceptUncounted == Take /\ UNCHANGED currentId

(* Slip: the id is counted when the connection is made and when accepted.  *)
AcceptCountedTwice == Take /\ currentId' = currentId + 2

(* TCPServer::Run and its handler, which runs it again.                    *)
Accept == Take /\ currentId' = currentId + 1

(* An error of async_accept (no socket is left for a connection that has   *)
(* arrived) is only reported: the acceptor still listens, but nothing is   *)
(* accepted any more.                                                      *)
AcceptFails ==
  /\ "accept" \in Faults
  /\ server = "up" /\ accepting /\ backlog # <<>>
  /\ accepting' = FALSE
  /\ UNCHANGED <<clientVars, server, currentId, backlog, streamVars, link, handlerVars,
                 inTime, packetwise>>

(* The server is gone, and with it every connection.                       *)
Fall(how) ==
  /\ server' = how
  /\ backlog' = <<>>
  /\ link' = [c \in Connections |-> IF Alive(c) THEN "reset" ELSE link[c]]
  /\ pending' = [c \in Connections |-> <<>>]
  /\ wire' = [c \in Connections |-> <<>>]

(* SIGINT.                                                                 *)
Stop ==
  /\ "stop" \in Faults
  /\ server = "up"
  /\ Fall("ended")
  /\ UNCHANGED <<clientVars, accepting, currentId, handlerVars, inTime, packetwise>>

(* io_context::run returns when no operation is under way.                 *)
Return ==
  /\ server = "up"
  /\ ~accepting /\ \A c \in Connections : link[c] # "open"
  /\ Fall("ended")
  /\ UNCHANGED <<clientVars, accepting, currentId, handlerVars, inTime, packetwise>>

(* An exception of a handler leaves io_context::run.                       *)
Throw == Fall("down") /\ UNCHANGED <<writer, files>>

(* Slip: the connection is not read again.                                 *)
ReadOnce(c, n) ==
  /\ wire' = [wire EXCEPT ![c] = SubSeq(@, n + 1, Len(@))]
  /\ link' = [link EXCEPT ![c] = "idle"]
  /\ UNCHANGED <<server, backlog, pending>>

(* The handler returns, after it has started the next read.                *)
ReadOn(c, n) ==
  /\ wire' = [wire EXCEPT ![c] = SubSeq(@, n + 1, Len(@))]
  /\ UNCHANGED <<server, backlog, pending, link>>

(* FileDataWriter::Create for the folder of the connection, which may be   *)
(* there: the file is created, or emptied.                                 *)
Created(c) == [files EXCEPT ![id[c]] = <<>>]

(* Slip: the writer of the file is not kept.                               *)
HandleFileNameOnly(c, n) ==
  /\ files' = Created(c)
  /\ UNCHANGED writer
  /\ ReadOn(c, n)

(* DataHandler::HandleFileName.                                            *)
HandleFileName(c, n) ==
  \/ /\ writer' = [writer EXCEPT ![c] = "own"]
     /\ files' = Created(c)
     /\ ReadOn(c, n)
  \/ /\ "destination" \in Faults
     /\ Fall("denied") /\ UNCHANGED <<writer, files>>

(* DataHandler::HandleFileData, which dereferences dataWriter_.            *)
HandleFileData(c, n, block) ==
  IF writer[c] = "none"
  THEN Fall("crashed") /\ UNCHANGED <<writer, files>>
  ELSE /\ IF writer[c] = "own"
          THEN files' = [files EXCEPT ![id[c]] = Append(@, block)]
          ELSE UNCHANGED files
       /\ UNCHANGED writer
       /\ ReadOn(c, n)

(* Bytes that are no header may pass for one: of no known type, of a chunk *)
(* or of a name, and then what follows goes to another file.               *)
HandleNoHeader(c, n) ==
  \/ UNCHANGED <<writer, files>> /\ ReadOn(c, n)
  \/ HandleFileData(c, n, 0)
  \/ /\ writer' = [writer EXCEPT ![c] = "other"]
     /\ UNCHANGED files /\ ReadOn(c, n)

(* Encryption::Decrypt, counter mode: with the IV of another packet the    *)
(* content becomes something else, and nothing notices.                    *)
Decrypt(head, body) == IF body.packet = head.packet THEN head.packet ELSE 0

(* DataHandler::Write of the first n units of the stream: Serializer::     *)
(* Unpack throws what is too short for its header or its length, and drops *)
(* what is behind the first packet.                                        *)
Handle(c, n) ==
  LET first == wire[c][1] IN
  \/ first.part = "head" /\ n = 1 /\ Throw
  \/ first.part = "head" /\ n > 1 /\ first.packet = 0 /\ HandleFileName(c, n)
  \/ /\ first.part = "head" /\ n > 1 /\ first.packet > 0
     /\ HandleFileData(c, n, Decrypt(first, wire[c][2]))
  \/ first.part = "body" /\ (Throw \/ HandleNoHeader(c, n))

(* The handler of TCPConnection::Read: async_read_some has returned what   *)
(* there was, or a part of it.                                             *)
Receive(c) ==
  /\ server = "up" /\ link[c] = "open"
  /\ \E n \in 1 .. Len(wire[c]) :
       /\ Handle(c, n)
       /\ packetwise' = [packetwise EXCEPT ![c] = @ /\ n = 2]
  /\ UNCHANGED <<clientVars, accepting, currentId, id, inTime>>

AtEof(c) ==
  server = "up" /\ link[c] = "open" /\ wire[c] = <<>> /\ clientPc[c[1]] = "ended"

(* Slip: the end of the stream is an exception too.                        *)
DisconnectThrows(c) ==
  /\ AtEof(c)
  /\ Throw
  /\ UNCHANGED <<clientVars, accepting, currentId, id, inTime, packetwise>>

(* Slip: the socket is not closed, and read again.                         *)
DisconnectReads(c) ==
  /\ AtEof(c)
  /\ UNCHANGED vars

(* The end of the stream: the socket is closed.                            *)
Disconnect(c) ==
  /\ AtEof(c)
  /\ link' = [link EXCEPT ![c] = "closed"]
  /\ UNCHANGED <<clientVars, serverVars, streamVars, handlerVars, inTime, packetwise>>

Serve(c) == Receive(c) \/ Disconnect(c)

(* Any other error of async_read_some: it is only reported, and the        *)
(* connection goes with its last handler.                                  *)
Break(c) ==
  /\ "reset" \in Faults
  /\ server = "up" /\ link[c] = "open"
  /\ link' = [link EXCEPT ![c] = "reset"]
  /\ pending' = [pending EXCEPT ![c] = <<>>]
  /\ wire' = [wire EXCEPT ![c] = <<>>]
  /\ UNCHANGED <<clientVars, serverVars, handlerVars, inTime, packetwise>>

-----------------------------------------------------------------------------
Next ==
  \/ \E p \in Clients : Client(p)
  \/ Start \/ Accept \/ AcceptFails \/ Return \/ Stop
  \/ \E c \in Connections : Transmit(c) \/ Serve(c) \/ Break(c)

Spec == Init /\ [][Next]_vars

(* The io_context runs its ready handlers in turn.                         *)
FairSpec ==
  Spec /\ WF_vars(Accept) /\ WF_vars(Return) /\ \A c \in Connections : WF_vars(Serve(c))
-----------------------------------------------------------------------------
(* Properties.                                                             *)

Units == [packet : 0 .. Chunks, part : {"head", "body"}]

TypeOK ==
  /\ server \in {"off", "up", "ended", "denied", "down", "crashed"}
  /\ accepting \in BOOLEAN
  /\ currentId \in 1 .. Cardinality(Connections) + 1
  /\ backlog \in Seq(Connections)
  /\ clientPc \in [Clients -> {"connect", "run", "ended"}]
  /\ turn \in [Clients -> 1 .. Files + 1]
  /\ packed \in [Connections -> 0 .. Chunks + 1]
  /\ nameless \subseteq Connections
  /\ pending \in [Connections -> Seq(Units)]
  /\ wire \in [Connections -> Seq(Units)]
  /\ link \in [Connections -> {"none", "backlog", "open", "closed", "reset"}]
  /\ id \in [Connections -> 0 .. Cardinality(Connections)]
  /\ writer \in [Connections -> {"none", "own", "other"}]
  /\ files \in [Ids -> Seq(0 .. Chunks)]
  /\ inTime \in [Connections -> BOOLEAN]
  /\ packetwise \in [Connections -> BOOLEAN]

(***************************************************************************)
(* However sends and reads cut a stream and whichever of them is late, a   *)
(* chunk is handled before the name of its file (DataHandler.h:79          *)
(* dereferences dataWriter_) only on a connection whose client gave its    *)
(* name up and sent a chunk all the same (FileNameTransferTask.h:38).      *)
(***************************************************************************)
NoNullWriter ==
  server = "crashed" =>
    \E c \in nameless : id[c] # 0 /\ writer[c] = "none" /\ packed[c] > 1

(***************************************************************************)
(* A file never goes back in its source.  A chunk can be there twice only  *)
(* if a pending send took it from the buffer of the one before.            *)
(***************************************************************************)
ChunksInOrder ==
  \A c \in Connections : id[c] # 0 =>
    LET file == files[id[c]] IN
    \A j, k \in 1 .. Len(file) :
      j < k /\ file[j] # 0 /\ file[k] # 0 =>
        file[j] <= file[k] /\ (inTime[c] => file[j] # file[k])

(***************************************************************************)
(* As long as every send is taken at once and every read returns one       *)
(* packet, the file of a connection is what its client has sent, and all   *)
(* of it when the server sees the client disconnected, whatever the other  *)
(* connections do.  A connection without a name is closed only if no chunk *)
(* was sent either.                                                        *)
(***************************************************************************)
WholeFiles ==
  \A c \in Connections : inTime[c] /\ packetwise[c] /\ id[c] # 0 =>
    LET file == files[id[c]] IN
    /\ \A k \in 1 .. Len(file) : file[k] = k
    /\ link[c] = "closed" /\ packed[c] > 0 => Len(file) + 1 = packed[c]

(***************************************************************************)
(* Unless a file cannot be opened, no exception but that of a read that is *)
(* not one packet ends the server (NetworkTask.cpp:62): no client throws   *)
(* one there by ending, being interrupted or breaking its connection,      *)
(* wherever it was.                                                        *)
(***************************************************************************)
ServerEndsForAReason ==
  server = "down" => \E c \in Connections : ~packetwise[c]

(***************************************************************************)
(* The server notices every client that is gone, and its sockets do not    *)
(* stay open (TCPConnection.h:66), unless the server ends or has stopped   *)
(* accepting.                                                              *)
(***************************************************************************)
ConnectionsAreClosed ==
  \A p \in Clients :
    clientPc[p] = "ended" /\ server = "up" ~> ~accepting \/ \A i \in 1 .. Files : ~Alive(<<p, i>>)

(***************************************************************************)
(* A server that accepts no more (TCPServer.h:51) does not stay for ever   *)
(* with clients waiting in its backlog: when the clients it has are gone,  *)
(* it ends.                                                                *)
(***************************************************************************)
DeafServerReturns ==
  server = "up" /\ ~accepting /\ (\A p \in Clients : clientPc[p] = "ended") ~>
    server # "up"

(***************************************************************************)
(* The server is running when its client has ended                         *)
(* (IntegrationTest.cpp:145, "EXPECT_EQ(serverProcess.running(), true)").  *)
(***************************************************************************)
ServerKeepsRunning ==
  \A p \in Clients : clientPc[p] = "ended" => server # "down"
=============================================================================
