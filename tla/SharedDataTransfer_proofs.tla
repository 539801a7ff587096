--------------------- MODULE SharedDataTransfer_proofs ---------------------
(***************************************************************************)
(* Proofs about SharedDataTransfer, for every chunk size, file size,       *)
(* semaphore limit and set of faults.                                      *)
(*                                                                         *)
(* The argument for the mutual exclusion is the one of a token: a process  *)
(* takes it with try_wait or wait and gives it back with a post, so there  *)
(* is never more than one, until a failing client gives a second one in    *)
(* Stop.  From then on the client does nothing.                            *)
(*                                                                         *)
(* The argument for the bytes is one of account: what the server has put   *)
(* there is what the destination has, what the client still has to write   *)
(* and what is announced (CountInv), and what the memory holds follows     *)
(* from where the server is (MemoryInv).  So the next byte the client      *)
(* writes lies in its own chunk or in the one that follows.                *)
(***************************************************************************)
EXTENDS SharedDataTransfer, SequenceLemmas

TokenInv ==
  /\ Tokens <= 2
  /\ clientPc # "done" => Tokens <= 1

(* The server copies into a memory that has the length of the chunk.       *)
CopyFits == serverPc = "copy" => Len(memory) = ChunkLength

IInv == TypeOK /\ TokenInv /\ CopyFits

LEMMA InitInv == Init => IInv
  BY TransferAssumption
  DEF Init, IInv, TypeOK, TokenInv, CopyFits, Tokens, Count, ServerHoldsSpace, ClientHoldsData,
      ServerStates, ClientStates, ChunkLength

(* Resizing keeps the memory a sequence of bytes, of the given length.     *)
LEMMA ResizedType ==
  ASSUME TypeOK, NEW n \in Nat
  PROVE  Resized(n) \in Seq(0 .. FileSize) /\ Len(Resized(n)) = n
<1>1. /\ memory \in Seq(0 .. FileSize) /\ Len(memory) \in Nat
      /\ \A i \in 1 .. Len(memory) : memory[i] \in 0 .. FileSize
  BY LenProperties, ElementOfSeq DEF TypeOK
<1>2. Resized(n) \in [1 .. n -> 0 .. FileSize]
  BY <1>1, TransferAssumption DEF Resized
<1>3. QED BY <1>2, FunctionIsSeq

(* What the client writes to the file is a byte of the file or a zero.     *)
LEMMA ShownType ==
  ASSUME TypeOK, NEW i \in Nat \ {0}
  PROVE  Shown(i) \in 0 .. FileSize
<1>1. /\ Len(memory) \in Nat
      /\ \A k \in 1 .. Len(memory) : memory[k] \in 0 .. FileSize
  BY LenProperties, ElementOfSeq DEF TypeOK
<1>2. QED BY <1>1, TransferAssumption DEF Shown

(* A step of the server keeps the invariant.                               *)
LEMMA ServerInv == IInv /\ Server => IInv'
<1> SUFFICES ASSUME IInv, Server PROVE IInv'
  OBVIOUS
<1>0. /\ Resized(ChunkLength) \in Seq(0 .. FileSize)
      /\ Len(Resized(ChunkLength)) = ChunkLength
  <2>1. ChunkLength \in Nat
    BY DEF IInv, TypeOK, ChunkLength
  <2>2. QED BY <2>1, ResizedType DEF IInv
<1> USE TransferAssumption
    DEF IInv, TypeOK, TokenInv, CopyFits, Tokens, Count, ServerHoldsSpace, ClientHoldsData, ServerStates,
        semaphores, clientVars, ChunkLength
<1>1. CASE ServerReads
  <2>1. CASE limit < FileSize
    <3>1. limit' \in limit + 1 .. FileSize /\ limit' + 1 - first' <= ChunkSize
      BY <1>1, <2>1 DEF ServerReads, Lesser
    <3>2. QED BY <1>1, <2>1, <3>1 DEF ServerReads
  <2>2. CASE ~(limit < FileSize)
    BY <1>1, <2>2 DEF ServerReads
  <2>3. QED BY <2>1, <2>2
<1>2. CASE ServerThrows
  BY <1>2 DEF ServerThrows, Occurs
<1>3. CASE ServerAwaitsSpace
  BY <1>3 DEF ServerAwaitsSpace
<1>4. CASE ServerTruncates
  <2>1. /\ memory' \in Seq(0 .. FileSize) /\ Len(memory') <= ChunkSize
        /\ Len(memory') = ChunkLength
    BY <1>4, <1>0 DEF ServerTruncates
  <2>2. QED BY <1>4, <2>1 DEF ServerTruncates
<1>5. CASE ServerCopiesByte
  <2>1. copied + 1 \in 1 .. Len(memory) /\ first + copied \in 0 .. FileSize
    BY <1>5 DEF ServerCopiesByte
  <2>2. memory' \in Seq(0 .. FileSize) /\ Len(memory') = Len(memory)
    BY <1>5, <2>1, ExceptSeq DEF ServerCopiesByte
  <2>3. QED BY <1>5, <2>2 DEF ServerCopiesByte
<1>6. CASE ServerFailsToMap
  <2>1. memory' \in Seq(0 .. FileSize) /\ Len(memory') <= ChunkSize
    BY <1>6, <1>0 DEF ServerFailsToMap
  <2>2. QED BY <1>6, <2>1 DEF ServerFailsToMap, Occurs
<1>7. CASE ServerPostsData
  BY <1>7 DEF ServerPostsData
<1>8. CASE ServerPostsStop
  BY <1>8 DEF ServerPostsStop
<1>9. CASE ServerTriesSpace
  <2>1. TypeOK' /\ CopyFits'
    BY <1>9 DEF ServerTriesSpace
  <2>2. TokenInv'
    <3>1. CASE space > 0
      BY <1>9, <3>1 DEF ServerTriesSpace
    <3>2. CASE ~(space > 0)
      BY <1>9, <3>2 DEF ServerTriesSpace
    <3>3. QED BY <3>1, <3>2
  <2>3. QED BY <2>1, <2>2
<1>10. CASE ServerOverflowsStop
  BY <1>10 DEF ServerOverflowsStop
<1>11. QED
  BY <1>1, <1>2, <1>3, <1>4, <1>5, <1>6, <1>7, <1>8, <1>9, <1>10 DEF Server

(* A step of the client keeps the invariant.                               *)
LEMMA ClientInv == IInv /\ Client => IInv'
<1> SUFFICES ASSUME IInv, Client PROVE IInv'
  OBVIOUS
<1> USE TransferAssumption
    DEF IInv, TypeOK, TokenInv, CopyFits, Tokens, Count, ServerHoldsSpace, ClientHoldsData, ClientStates,
        semaphores, serverVars, ChunkLength
<1>1. CASE ClientChecksStop
  BY <1>1 DEF ClientChecksStop
<1>2. CASE ClientTriesData
  BY <1>2 DEF ClientTriesData
<1>3. CASE ClientMaps \/ ClientFailsToMap
  <2>1. Len(memory) \in Nat
    BY LenProperties
  <2>2. span' \in 0 .. ChunkSize /\ written' = 0
    BY <1>3, <2>1 DEF ClientMaps, ClientFailsToMap
  <2>3. /\ clientPc = "map" /\ clientPc' = "postSpace"
        /\ UNCHANGED <<semaphores, memory, serverVars, output>>
      /\ happened' \subseteq Faults
    BY <1>3 DEF ClientMaps, ClientFailsToMap, Occurs
  <2>4. QED BY <2>2, <2>3
<1>4. CASE ClientPostsSpace
  BY <1>4 DEF ClientPostsSpace
<1>5. CASE ClientWritesByte
  <2>1. output' \in Seq(0 .. FileSize)
    BY <1>5, ShownType, AppendProperties DEF ClientWritesByte
  <2>2. TypeOK' /\ CopyFits'
    BY <1>5, <2>1 DEF ClientWritesByte
  <2>3. TokenInv'
    BY <1>5 DEF ClientWritesByte
  <2>4. QED BY <2>2, <2>3
<1>6. CASE ClientThrows
  BY <1>6 DEF ClientThrows, Occurs
<1>7. CASE ClientStops
  BY <1>7 DEF ClientStops
<1>8. QED BY <1>1, <1>2, <1>3, <1>4, <1>5, <1>6, <1>7 DEF Client

LEMMA StepInv == IInv /\ [Next]_vars => IInv'
<1> SUFFICES ASSUME IInv, [Next]_vars PROVE IInv'
  OBVIOUS
<1>1. CASE Server BY <1>1, ServerInv
<1>2. CASE Client BY <1>2, ClientInv
<1>3. CASE UNCHANGED vars
  BY <1>3 DEF vars, semaphores, serverVars, clientVars, IInv, TypeOK, TokenInv, CopyFits, Tokens, Count,
     ServerHoldsSpace, ClientHoldsData, ChunkLength
<1>4. QED BY <1>1, <1>2, <1>3 DEF Next

(***************************************************************************)
(* Every variable keeps its type: no chunk is longer than the chunk size,  *)
(* and the data and space semaphores never count past two.                 *)
(***************************************************************************)
THEOREM TypeCorrect == Spec => []TypeOK
<1>1. IInv => TypeOK
  BY DEF IInv
<1>2. QED BY InitInv, StepInv, <1>1, PTL DEF Spec

(***************************************************************************)
(* Server and client are never both between taking the token and giving it *)
(* back, whichever of them fails: the memory the client maps is not being  *)
(* resized or filled.                                                      *)
(***************************************************************************)
THEOREM MapsAreExclusive == Spec => []MappedAlone
<1>1. IInv => MappedAlone
  BY DEF IInv, TypeOK, TokenInv, Tokens, Count, MappedAlone, ServerHoldsSpace, ClientHoldsData
<1>2. QED BY InitInv, StepInv, <1>1, PTL DEF Spec

-----------------------------------------------------------------------------
(***************************************************************************)
(* Where the bytes are.  The server reads whole chunks but for the last.   *)
(* What the memory holds is the chunk in the server's hands, as far as it  *)
(* has copied it, over the chunk before.  Then the bytes announced are     *)
(* those in the destination, those of the span still to write, and, when   *)
(* data is announced, those in the memory.  All this is lost with the first*)
(* mapping that fails.                                                     *)
(***************************************************************************)
ReadInv ==
  /\ ChunkLength = ChunkSize \/ limit = FileSize \/ limit = 0
  /\ InHand => first <= limit

MemoryInv ==
  /\ serverPc \in {"awaitSpace", "truncate"} =>
       /\ Len(memory) = IF first = 1 THEN 0 ELSE ChunkSize
       /\ \A j \in 1 .. Len(memory) : memory[j] + ChunkSize = first - 1 + j
  /\ serverPc = "copy" =>
       /\ Len(memory) = ChunkLength /\ copied < ChunkLength
       /\ \A j \in 1 .. Len(memory) :
            IF j <= copied
            THEN memory[j] = first - 1 + j
            ELSE first > 1 => memory[j] + ChunkSize = first - 1 + j
  /\ serverPc \notin {"awaitSpace", "truncate", "copy"} =>
       /\ Len(memory) = ChunkLength
       /\ \A j \in 1 .. Len(memory) : memory[j] = first - 1 + j

(* The last byte of the last chunk that was announced.                     *)
Put == IF InHand THEN first - 1 ELSE limit

Announced == data > 0 \/ ClientHoldsData

Unwritten == IF clientPc = "writeFile" THEN span - written ELSE 0

CountInv ==
  /\ Put = Len(output) + Unwritten + (IF Announced THEN Len(memory) ELSE 0)
  /\ Announced => Len(memory) > 0
  /\ clientPc = "postSpace" => span = Len(memory) /\ written = 0
  /\ clientPc = "writeFile" =>
       /\ written < span
       /\ span = ChunkSize \/ Len(output) - written + span = FileSize
       /\ ~Announced /\ serverPc \notin {"copy", "postData"} => span = Len(memory)

DamageInv ==
  /\ Len(output) <= limit
  /\ \A i \in 1 .. Len(output) :
       \/ output[i] \in {i, i + ChunkSize}
       \/ output[i] = 0 /\ i + ChunkSize > FileSize

Stopping == serverPc \in {"postStop", "trySpace", "done", "failed"}

(* A stop is posted by a server that has announced all it has read.        *)
StopInv ==
  /\ stop > 0 => Stopping
  /\ clientPc = "stop" => "client" \in happened
  /\ clientPc = "done" /\ "client" \notin happened =>
       /\ Stopping
       /\ "memory" \notin happened => Len(output) >= first - 1

Working == clientPc \notin {"stop", "done"}

ByteInv ==
  "memory" \notin happened => MemoryInv /\ DamageInv /\ (Working => CountInv)

(* What the proofs below need of the types.                                *)
Numbers ==
  /\ ChunkSize \in Nat \ {0} /\ FileSize \in Nat
  /\ first \in Nat \ {0} /\ limit \in 0 .. FileSize /\ first <= limit + 1
  /\ limit + 1 - first <= ChunkSize /\ copied \in Nat
  /\ Len(memory) \in Nat /\ Len(output) \in Nat
  /\ \A j \in 1 .. Len(memory) : memory[j] \in Nat
  /\ span \in Nat /\ written \in 0 .. span
  /\ data \in Nat /\ space \in Nat /\ stop \in Nat

LEMMA NumbersHold == IInv => Numbers
<1> SUFFICES ASSUME IInv PROVE Numbers
  OBVIOUS
<1>1. /\ Len(memory) \in Nat /\ Len(output) \in Nat
      /\ \A j \in 1 .. Len(memory) : memory[j] \in 0 .. FileSize
  BY LenProperties, ElementOfSeq DEF IInv, TypeOK
<1>2. QED BY <1>1, TransferAssumption DEF IInv, TypeOK, ChunkLength, Numbers

LEMMA NumbersHoldNext == IInv' => Numbers'
  BY NumbersHold, PTL

LEMMA ReadStep ==
  ASSUME IInv, ReadInv, [Next]_vars
  PROVE  ReadInv'
<1>n. Numbers
  BY NumbersHold
<1>1. CASE ServerReads /\ limit < FileSize
  <2>1. first' = limit + 1 /\ limit' = Lesser(limit + ChunkSize, FileSize)
    BY <1>1 DEF ServerReads
  <2>2. /\ limit' \in Nat /\ limit' >= first'
        /\ limit' = limit + ChunkSize \/ limit' = FileSize
    BY <1>1, <1>n, <2>1 DEF Lesser, Numbers
  <2>3. QED BY <1>n, <2>1, <2>2 DEF ReadInv, ChunkLength, Numbers
<1>2. CASE ~(ServerReads /\ limit < FileSize)
  <2>1. UNCHANGED <<first, limit>> /\ (InHand' => InHand)
    <3>1. CASE Server
      BY <1>2, <3>1 DEF Server, ServerReads, ServerThrows, ServerAwaitsSpace, ServerTruncates,
         ServerCopiesByte, ServerFailsToMap, ServerPostsData, ServerPostsStop,
         ServerTriesSpace, ServerOverflowsStop, InHand
    <3>2. CASE Client \/ UNCHANGED vars
      BY <3>2 DEF Client, ClientChecksStop, ClientTriesData, ClientMaps, ClientFailsToMap,
         ClientPostsSpace, ClientWritesByte, ClientThrows, ClientStops, serverVars, vars, InHand
    <3>3. QED BY <3>1, <3>2 DEF Next
  <2>2. QED BY <2>1 DEF ReadInv, ChunkLength
<1>3. QED BY <1>1, <1>2

(* The memory after a step of the server.                                  *)
LEMMA MemoryStep ==
  ASSUME IInv, ReadInv, MemoryInv, [Next]_vars, "memory" \notin happened'
  PROVE  MemoryInv'
<1>n. Numbers
  BY NumbersHold
<1>1. CASE ServerReads
  <2>0. /\ serverPc = "read" /\ UNCHANGED memory
        /\ Len(memory) = limit + 1 - first
        /\ \A j \in 1 .. Len(memory) : memory[j] = first - 1 + j
    BY <1>1 DEF ServerReads, MemoryInv, ChunkLength
  <2>1. CASE limit < FileSize
    <3>1. first' = limit + 1 /\ serverPc' = "awaitSpace"
      BY <1>1, <2>1 DEF ServerReads
    <3>2. CASE limit = 0
      <4>1. Len(memory) = 0 /\ first' = 1
        BY <1>n, <2>0, <3>1, <3>2 DEF Numbers
      <4>2. QED BY <2>0, <3>1, <4>1 DEF MemoryInv
    <3>3. CASE limit # 0
      <4>1. limit + 1 - first = ChunkSize
        BY <1>n, <2>1, <3>3 DEF ReadInv, ChunkLength, Numbers
      <4>2. Len(memory) = ChunkSize /\ first' # 1 /\ first' - 1 = first - 1 + ChunkSize
        BY <1>n, <2>0, <3>1, <3>3, <4>1 DEF Numbers
      <4>3. ASSUME NEW j \in 1 .. Len(memory)
            PROVE  memory[j] + ChunkSize = first' - 1 + j
        <5>1. memory[j] = first - 1 + j
          BY <2>0
        <5>2. QED BY <1>n, <4>2, <5>1 DEF Numbers
      <4>4. QED BY <2>0, <3>1, <4>2, <4>3 DEF MemoryInv
    <3>4. QED BY <3>2, <3>3
  <2>2. CASE ~(limit < FileSize)
    BY <1>1, <2>0, <2>2 DEF ServerReads, MemoryInv, ChunkLength
  <2>3. QED BY <2>1, <2>2
<1>2. CASE ServerAwaitsSpace
  BY <1>2 DEF ServerAwaitsSpace, MemoryInv, ChunkLength
<1>3. CASE ServerTruncates
  <2>0. /\ serverPc = "truncate" /\ serverPc' = "copy" /\ copied' = 0
        /\ UNCHANGED <<first, limit>> /\ memory' = Resized(ChunkLength)
        /\ Len(memory) = IF first = 1 THEN 0 ELSE ChunkSize
        /\ \A j \in 1 .. Len(memory) : memory[j] + ChunkSize = first - 1 + j
    BY <1>3 DEF ServerTruncates, MemoryInv
  <2>1. ChunkLength \in Nat /\ 0 < ChunkLength /\ ChunkLength <= ChunkSize
    BY <1>n, <2>0 DEF ReadInv, InHand, ChunkLength, Numbers
  <2>2. Len(memory') = ChunkLength
    BY <2>0, <2>1, ResizedType DEF IInv
  <2>3. ASSUME NEW j \in 1 .. Len(memory'), first > 1
        PROVE  memory'[j] + ChunkSize = first - 1 + j
    <3>1. j \in 1 .. ChunkLength /\ j \in 1 .. Len(memory)
      BY <1>n, <2>0, <2>1, <2>2, <2>3 DEF Numbers
    <3>2. memory'[j] = memory[j]
      BY <2>0, <3>1 DEF Resized
    <3>3. QED BY <2>0, <3>1, <3>2
  <2>4. ChunkLength' = ChunkLength
    BY <2>0 DEF ChunkLength
  <2>5. QED BY <2>0, <2>1, <2>2, <2>3, <2>4 DEF MemoryInv
<1>4. CASE ServerCopiesByte
  <2>0. /\ serverPc = "copy" /\ copied < ChunkLength /\ copied' = copied + 1
        /\ memory' = [memory EXCEPT ![copied + 1] = first + copied]
        /\ serverPc' = IF copied' = ChunkLength THEN "postData" ELSE "copy"
        /\ UNCHANGED <<first, limit>> /\ ChunkLength' = ChunkLength
        /\ Len(memory) = ChunkLength
        /\ \A j \in 1 .. Len(memory) :
             IF j <= copied THEN memory[j] = first - 1 + j
             ELSE first > 1 => memory[j] + ChunkSize = first - 1 + j
    BY <1>4 DEF ServerCopiesByte, MemoryInv, ChunkLength
  <2>1. ChunkLength \in Nat
    BY <1>n DEF ChunkLength, Numbers
  <2>2. /\ Len(memory') = Len(memory)
        /\ \A j \in 1 .. Len(memory) :
             memory'[j] = IF j = copied + 1 THEN first + copied ELSE memory[j]
    <3>1. copied + 1 \in 1 .. Len(memory) /\ first + copied \in 0 .. FileSize
      BY <1>n, <2>0, <2>1 DEF Numbers, ChunkLength
    <3>2. memory \in Seq(0 .. FileSize)
      BY DEF IInv, TypeOK
    <3>3. QED BY <2>0, <3>1, <3>2, ExceptSeq
  <2>3. ASSUME NEW j \in 1 .. Len(memory')
        PROVE  IF j <= copied + 1 THEN memory'[j] = first - 1 + j
               ELSE first > 1 => memory'[j] + ChunkSize = first - 1 + j
    <3>1. j \in 1 .. Len(memory) /\ copied \in Nat /\ first \in Nat
      BY <1>n, <2>2 DEF Numbers
    <3>2. CASE j = copied + 1
      BY <2>2, <3>1, <3>2
    <3>3. CASE j # copied + 1
      <4>1. memory'[j] = memory[j] /\ (j <= copied + 1 <=> j <= copied)
        BY <2>2, <3>1, <3>3
      <4>2. QED BY <2>0, <3>1, <4>1
    <3>4. QED BY <3>2, <3>3
  <2>4. CASE copied' = ChunkLength
    <3>1. \A j \in 1 .. Len(memory') : j <= copied + 1
      BY <2>0, <2>1, <2>2, <2>4
    <3>2. QED BY <2>0, <2>2, <2>3, <2>4, <3>1 DEF MemoryInv
  <2>5. CASE copied' # ChunkLength
    <3>1. copied' < ChunkLength
      BY <1>n, <2>0, <2>1, <2>5 DEF Numbers
    <3>2. QED BY <2>0, <2>2, <2>3, <2>5, <3>1 DEF MemoryInv
  <2>6. QED BY <2>4, <2>5
<1>5. CASE ServerFailsToMap
  BY <1>5 DEF ServerFailsToMap, Occurs
<1>6. CASE ServerThrows \/ ServerPostsData \/ ServerPostsStop \/ ServerTriesSpace
             \/ ServerOverflowsStop
  BY <1>6 DEF ServerThrows, ServerPostsData, ServerPostsStop, ServerTriesSpace,
     ServerOverflowsStop, MemoryInv, ChunkLength
<1>7. CASE Client \/ UNCHANGED vars
  BY <1>7 DEF Client, ClientChecksStop, ClientTriesData, ClientMaps, ClientFailsToMap,
     ClientPostsSpace, ClientWritesByte, ClientThrows, ClientStops, serverVars, vars,
     MemoryInv, ChunkLength
<1>8. QED BY <1>1, <1>2, <1>3, <1>4, <1>5, <1>6, <1>7 DEF Next, Server

(* Who holds the token alone.                                              *)
LEMMA OneToken ==
  ASSUME IInv, Working
  PROVE  /\ ServerHoldsSpace => ~Announced
         /\ ClientHoldsData => data = 0
  BY DEF IInv, TypeOK, TokenInv, Working, Tokens, Count, Announced, ServerHoldsSpace,
     ClientHoldsData

(* A step of the server and what it has put there: only the announcement   *)
(* adds a chunk.                                                           *)
LEMMA ServerCounts ==
  ASSUME IInv, ReadInv, MemoryInv, CountInv, Working, Server, "memory" \notin happened'
  PROVE  CountInv'
<1>n. Numbers
  BY NumbersHold
<1>t. /\ ServerHoldsSpace => ~Announced
      /\ Announced \in BOOLEAN
  BY OneToken DEF Announced
<1>1. CASE ServerReads \/ ServerThrows \/ ServerAwaitsSpace \/ ServerPostsStop
             \/ ServerTriesSpace \/ ServerOverflowsStop
  <2>1. /\ UNCHANGED <<memory, data, clientPc, span, written, output>>
        /\ serverPc \notin {"copy", "postData"} /\ serverPc' \notin {"copy", "postData"}
    BY <1>1 DEF ServerReads, ServerThrows, ServerAwaitsSpace, ServerPostsStop,
       ServerTriesSpace, ServerOverflowsStop, semaphores, clientVars
  <2>2. Put' = Put
    BY <1>1, <1>n DEF ServerReads, ServerThrows, ServerAwaitsSpace, ServerPostsStop,
       ServerTriesSpace, ServerOverflowsStop, Put, InHand, Numbers
  <2>3. UNCHANGED <<Announced, Unwritten>>
    BY <2>1 DEF Announced, ClientHoldsData, Unwritten
  <2>4. QED BY <2>1, <2>2, <2>3 DEF CountInv
<1>2. CASE ServerTruncates \/ ServerCopiesByte
  <2>1. /\ UNCHANGED <<data, clientPc, span, written, output, first, limit>>
        /\ serverPc \in {"truncate", "copy"} /\ serverPc' \in {"copy", "postData"}
    BY <1>2 DEF ServerTruncates, ServerCopiesByte, semaphores, clientVars
  <2>2. UNCHANGED <<Put, Announced, Unwritten>> /\ ~Announced /\ clientPc # "postSpace"
    BY <1>t, <2>1
    DEF Put, InHand, Announced, ClientHoldsData, Unwritten, ServerHoldsSpace
  <2>3. QED BY <2>1, <2>2 DEF CountInv
<1>3. CASE ServerFailsToMap
  BY <1>3 DEF ServerFailsToMap, Occurs
<1>4. CASE ServerPostsData
  <2>1. /\ serverPc = "postData" /\ serverPc' = "read" /\ data' = data + 1
        /\ UNCHANGED <<memory, clientPc, span, written, output, first, limit>>
    BY <1>4 DEF ServerPostsData, clientVars
  <2>2. /\ Put = first - 1 /\ Put' = limit /\ first <= limit
        /\ Len(memory) = limit + 1 - first
    BY <2>1 DEF Put, InHand, ReadInv, MemoryInv, ChunkLength
  <2>3. ~Announced /\ Announced' /\ Unwritten' = Unwritten /\ clientPc # "postSpace"
    BY <1>t, <1>n, <2>1
    DEF Announced, ClientHoldsData, Unwritten, ServerHoldsSpace, Numbers
  <2>4. Unwritten \in Nat
    BY <1>n DEF Unwritten, Numbers
  <2>5. Put' = Len(output) + Unwritten + Len(memory) /\ Len(memory) > 0
    <3>1. Put = Len(output) + Unwritten + 0
      BY <2>3 DEF CountInv
    <3>2. QED BY <1>n, <2>2, <2>4, <3>1 DEF Numbers
  <2>6. QED BY <2>1, <2>3, <2>5 DEF CountInv
<1>5. QED BY <1>1, <1>2, <1>3, <1>4 DEF Server

(* A step of the client: what is announced becomes what is to be written,  *)
(* and that goes to the destination byte by byte.                          *)
LEMMA ClientCounts ==
  ASSUME IInv, ReadInv, MemoryInv, CountInv, Working, Working', Client,
         "memory" \notin happened'
  PROVE  CountInv'
<1>n. Numbers
  BY NumbersHold
<1>t. /\ ServerHoldsSpace => ~Announced
      /\ ClientHoldsData => data = 0
  BY OneToken
<1>0. UNCHANGED <<memory, serverPc, first, limit>> /\ UNCHANGED Put
  BY DEF Client, ClientChecksStop, ClientTriesData, ClientMaps, ClientFailsToMap,
     ClientPostsSpace, ClientWritesByte, ClientThrows, ClientStops, serverVars, Put, InHand
<1>1. CASE ClientChecksStop
  <2>1. /\ clientPc = "checkStop" /\ clientPc' = "tryData"
        /\ UNCHANGED <<data, span, written, output>>
    BY <1>1 DEF ClientChecksStop, Working
  <2>2. UNCHANGED <<Announced, Unwritten>>
    BY <2>1 DEF Announced, ClientHoldsData, Unwritten
  <2>3. QED BY <1>0, <2>1, <2>2 DEF CountInv
<1>2. CASE ClientTriesData
  <2>1. /\ clientPc = "tryData" /\ clientPc' \in {"map", "checkStop"}
        /\ clientPc' = "map" <=> data > 0
        /\ data > 0 => data' \in Nat
        /\ ~(data > 0) => data' = data
        /\ UNCHANGED <<span, written, output>>
    BY <1>2, <1>n DEF ClientTriesData, Numbers
  <2>2. (Announced' <=> Announced) /\ UNCHANGED Unwritten
    BY <2>1 DEF Announced, ClientHoldsData, Unwritten
  <2>3. QED BY <1>0, <2>1, <2>2 DEF CountInv
<1>3. CASE ClientMaps
  <2>1. /\ clientPc = "map" /\ clientPc' = "postSpace" /\ span' = Len(memory)
        /\ written' = 0 /\ UNCHANGED <<data, output>>
    BY <1>3 DEF ClientMaps, semaphores
  <2>2. Announced /\ Announced' /\ Unwritten = 0 /\ Unwritten' = 0
    BY <2>1 DEF Announced, ClientHoldsData, Unwritten
  <2>3. QED BY <1>0, <2>1, <2>2 DEF CountInv
<1>4. CASE ClientFailsToMap
  BY <1>4 DEF ClientFailsToMap, Occurs
<1>5. CASE ClientPostsSpace
  <2>1. /\ clientPc = "postSpace" /\ UNCHANGED <<data, span, written, output>>
        /\ clientPc' = IF span = 0 THEN "checkStop" ELSE "writeFile"
    BY <1>5 DEF ClientPostsSpace
  <2>2. Announced /\ data = 0 /\ Unwritten = 0 /\ ~ServerHoldsSpace
    BY <1>t, <2>1 DEF Announced, ClientHoldsData, Unwritten
  <2>3. /\ span = Len(memory) /\ written = 0 /\ Len(memory) > 0
        /\ Put = Len(output) + 0 + Len(memory)
    BY <2>1, <2>2 DEF CountInv
  <2>4. clientPc' = "writeFile" /\ ~Announced' /\ Unwritten' = Len(memory)
    BY <1>n, <2>1, <2>2, <2>3 DEF Announced, ClientHoldsData, Unwritten, Numbers
  <2>5. Len(memory) = ChunkSize \/ Put = FileSize
    <3>1. CASE serverPc = "awaitSpace"
      BY <2>3, <3>1 DEF MemoryInv
    <3>2. CASE serverPc # "awaitSpace"
      <4>1. Len(memory) = limit + 1 - first /\ Put = limit
        BY <2>2, <3>2 DEF MemoryInv, ServerHoldsSpace, Put, InHand, ChunkLength
      <4>2. QED BY <1>n, <2>3, <4>1 DEF ReadInv, ChunkLength, Numbers
    <3>3. QED BY <3>1, <3>2
  <2>6. /\ Put' = Len(output') + Unwritten' + 0
        /\ written' < span' /\ span' = Len(memory')
        /\ span' = ChunkSize \/ Len(output') - written' + span' = FileSize
    BY <1>n, <1>0, <2>1, <2>3, <2>4, <2>5 DEF Numbers
  <2>7. QED BY <2>4, <2>6 DEF CountInv
<1>6. CASE ClientWritesByte
  <2>1. /\ clientPc = "writeFile" /\ written < span /\ written' = written + 1
        /\ clientPc' = IF written' = span THEN "checkStop" ELSE "writeFile"
        /\ UNCHANGED <<data, span>> /\ Len(output') = Len(output) + 1
    <3>1. Len(output') = Len(output) + 1
      <4>1. output \in Seq(0 .. FileSize) /\ Shown(written + 1) \in 0 .. FileSize
        BY <1>n, ShownType DEF IInv, TypeOK, Numbers
      <4>2. QED BY <1>6, <4>1, AppendProperties DEF ClientWritesByte
    <3>2. QED BY <1>6, <3>1 DEF ClientWritesByte, semaphores
  <2>2. (Announced' <=> Announced) /\ Unwritten = span - written
        /\ Unwritten' = Unwritten - 1
    BY <1>n, <2>1 DEF Announced, ClientHoldsData, Unwritten, Numbers
  <2>3. /\ Len(output') + Unwritten' = Len(output) + Unwritten
        /\ Len(output') - written' + span' = Len(output) - written + span
        /\ clientPc' = "writeFile" => written' < span'
    BY <1>n, <2>1, <2>2 DEF Numbers
  <2>4. /\ Put' = Len(output') + Unwritten' + (IF Announced' THEN Len(memory') ELSE 0)
        /\ Announced' => Len(memory') > 0
    BY <1>0, <2>2, <2>3 DEF CountInv
  <2>5. clientPc' \in {"checkStop", "writeFile"}
    BY <2>1
  <2>6. clientPc' = "writeFile" =>
          /\ written' < span'
          /\ span' = ChunkSize \/ Len(output') - written' + span' = FileSize
          /\ ~Announced' /\ serverPc' \notin {"copy", "postData"} => span' = Len(memory')
    BY <1>0, <2>1, <2>2, <2>3 DEF CountInv
  <2>7. QED BY <2>4, <2>5, <2>6 DEF CountInv
<1>7. CASE ClientThrows \/ ClientStops
  BY <1>7 DEF ClientThrows, ClientStops, Working
<1>8. QED BY <1>1, <1>2, <1>3, <1>4, <1>5, <1>6, <1>7 DEF Client

(* What the next byte of the destination would be.                         *)
NextByteFits ==
  LET i == Len(output) + 1  b == Shown(written + 1)
  IN  b \in {i, i + ChunkSize} \/ (b = 0 /\ i + ChunkSize > FileSize)

(* The client writes a byte of its chunk: the server has put no chunk over *)
(* it, or it is putting or has put there the one that follows.             *)
LEMMA ByteShown ==
  ASSUME IInv, ReadInv, MemoryInv, CountInv, clientPc = "writeFile"
  PROVE  NextByteFits /\ Len(output) + 1 <= limit
<1>n. Numbers
  BY NumbersHold
<1>t. ServerHoldsSpace => ~Announced
  BY OneToken DEF Working
<1> DEFINE j == written + 1
           i == Len(output) + 1
           base == Len(output) - written
           m == Len(memory)
<1>1. /\ j \in 1 .. span /\ base \in Int /\ i = base + j /\ written < span
      /\ m \in Nat /\ j \in Nat
      /\ span = ChunkSize \/ base + span = FileSize
      /\ Put = base + span + (IF Announced THEN m ELSE 0)
  BY <1>n DEF CountInv, Unwritten, Numbers
<1>2. Put <= limit /\ limit <= FileSize
  BY <1>n DEF Put, Numbers
<1>3. i <= limit
  <2>1. Put \in Int /\ limit \in Int /\ i \in Int /\ span \in Int
    BY <1>n DEF Put, Numbers
  <2>2. Put >= base + span /\ i <= base + span
    BY ONLY <1>1, <2>1
  <2>3. QED BY ONLY <1>1, <1>2, <2>1, <2>2
<1>4. NextByteFits
  <2> SUFFICES Shown(j) \in {i, i + ChunkSize} \/ (Shown(j) = 0 /\ i + ChunkSize > FileSize)
    BY DEF NextByteFits
  <2>1. /\ j <= m => Shown(j) = memory[j] /\ memory[j] \in Nat
        /\ ~(j <= m) => Shown(j) = 0
    BY <1>1, <1>n DEF Shown, Numbers
  (* Nothing was put over the chunk.                                       *)
  <2>2. CASE ~Announced /\ serverPc \notin {"copy", "postData"}
    <3>1. span = m /\ j <= m /\ Put = base + m
      BY <1>1, <2>2 DEF CountInv
    <3>2. CASE serverPc \in {"awaitSpace", "truncate"}
      <4>1. Put = first - 1 /\ m = ChunkSize /\ memory[j] + ChunkSize = first - 1 + j
        BY <1>1, <3>1, <3>2 DEF MemoryInv, Put, InHand
      <4>2. memory[j] = i
        BY <1>1, <1>n, <2>1, <3>1, <4>1 DEF Numbers
      <4>3. QED BY <2>1, <3>1, <4>2
    <3>3. CASE serverPc \notin {"awaitSpace", "truncate"}
      <4>1. Put = limit /\ m = limit + 1 - first /\ memory[j] = first - 1 + j
        BY <1>1, <2>2, <3>1, <3>3 DEF MemoryInv, Put, InHand, ChunkLength
      <4>2. memory[j] = i
        BY <1>1, <1>n, <3>1, <4>1 DEF Numbers
      <4>3. QED BY <2>1, <3>1, <4>2
    <3>4. QED BY <3>2, <3>3
  (* The following chunk was announced, and the server has another one.    *)
  <2>3. CASE Announced /\ serverPc = "awaitSpace"
    <3>1. Put = base + span + m /\ m > 0
      BY <1>1, <2>3 DEF CountInv
    <3>2. /\ Put = first - 1 /\ m = ChunkSize
          /\ \A k \in 1 .. m : memory[k] + ChunkSize = first - 1 + k
      BY <2>3, <3>1 DEF MemoryInv, Put, InHand
    <3>3. span = ChunkSize
      <4>1. Put \in Int /\ span \in Int /\ limit \in Int /\ FileSize \in Int
        BY <1>n DEF Put, Numbers
      <4>2. QED BY ONLY <1>1, <1>2, <3>1, <4>1
    <3>4. j <= m /\ memory[j] + ChunkSize = first - 1 + j
      BY <1>1, <3>2, <3>3
    <3>5. memory[j] = i + ChunkSize
      <4>1. first - 1 = base + ChunkSize + ChunkSize
        BY <3>1, <3>2, <3>3
      <4>2. memory[j] + ChunkSize = base + ChunkSize + ChunkSize + j
        BY <3>4, <4>1
      <4>3. /\ memory[j] \in Nat /\ ChunkSize \in Nat /\ base \in Int /\ j \in Nat
            /\ i = base + j
        BY <1>1, <1>n, <2>1, <3>4 DEF Numbers
      <4>4. QED BY ONLY <4>2, <4>3
    <3>6. QED BY <2>1, <3>4, <3>5
  (* The following chunk was announced, and is all the server has read.    *)
  <2>4. CASE Announced /\ serverPc # "awaitSpace"
    <3>1. Put = base + span + m /\ m > 0
      BY <1>1, <2>4 DEF CountInv
    <3>2. /\ Put = limit /\ m = limit + 1 - first
          /\ \A k \in 1 .. m : memory[k] = first - 1 + k
      BY <1>t, <2>4 DEF MemoryInv, Put, InHand, ServerHoldsSpace, ChunkLength
    <3>3. span = ChunkSize /\ i + ChunkSize = first - 1 + j
      BY <1>1, <1>2, <1>n, <3>1, <3>2 DEF Numbers
    <3>4. CASE j <= m
      BY <1>1, <2>1, <3>2, <3>3, <3>4
    <3>5. CASE ~(j <= m)
      <4>1. limit = FileSize
        BY <1>1, <1>n, <3>1, <3>2, <3>3, <3>5 DEF ReadInv, ChunkLength, Numbers
      <4>2. i + ChunkSize > FileSize
        BY <1>1, <1>n, <3>2, <3>3, <3>5, <4>1 DEF Numbers
      <4>3. QED BY <2>1, <3>5, <4>2
    <3>6. QED BY <3>4, <3>5
  (* The following chunk is being put there, or is there.                  *)
  <2>5. CASE ~Announced /\ serverPc \in {"copy", "postData"}
    <3>1. /\ Put = first - 1 /\ Put = base + span /\ first <= limit
          /\ m = limit + 1 - first
      <4>1. Put = base + span + 0
        BY <1>1, <2>5
      <4>2. /\ Put = first - 1 /\ first <= limit /\ m = limit + 1 - first
        BY <2>5 DEF MemoryInv, ReadInv, Put, InHand, ChunkLength
      <4>3. QED BY <1>1, <1>n, <4>1, <4>2 DEF Numbers
    <3>2. span = ChunkSize /\ i + ChunkSize = first - 1 + j
      BY <1>1, <1>2, <1>n, <3>1 DEF Numbers
    <3>3. first > 1
      BY <1>1, <1>n, <3>1 DEF Numbers
    <3>4. CASE j <= m
      <4>1. memory[j] = first - 1 + j \/ memory[j] + ChunkSize = first - 1 + j
        BY <1>1, <2>5, <3>3, <3>4 DEF MemoryInv
      <4>2. memory[j] = i + ChunkSize \/ memory[j] = i
        BY <1>1, <1>n, <2>1, <3>2, <3>4, <4>1 DEF Numbers
      <4>3. QED BY <2>1, <3>4, <4>2
    <3>5. CASE ~(j <= m)
      <4>1. limit = FileSize
        BY <1>1, <1>n, <3>1, <3>2, <3>5 DEF ReadInv, ChunkLength, Numbers
      <4>2. i + ChunkSize > FileSize
        BY <1>1, <1>n, <3>1, <3>2, <3>5, <4>1 DEF Numbers
      <4>3. QED BY <2>1, <3>5, <4>2
    <3>6. QED BY <3>4, <3>5
  <2>6. QED BY <2>2, <2>3, <2>4, <2>5
<1>5. QED BY <1>3, <1>4

(* The destination grows by one byte of that kind, or stays.               *)
LEMMA DamageStep ==
  ASSUME IInv, ReadInv, MemoryInv, Working => CountInv, DamageInv, [Next]_vars
  PROVE  DamageInv'
<1>n. Numbers
  BY NumbersHold
<1>1. CASE ClientWritesByte
  <2>1. NextByteFits /\ Len(output) + 1 <= limit
    BY <1>1, ByteShown DEF ClientWritesByte, Working
  <2>2. /\ Len(output') = Len(output) + 1
        /\ output'[Len(output) + 1] = Shown(written + 1)
        /\ \A i \in 1 .. Len(output) : output'[i] = output[i]
    <3>1. output \in Seq(0 .. FileSize) /\ Shown(written + 1) \in 0 .. FileSize
      BY <1>n, ShownType DEF IInv, TypeOK, Numbers
    <3>2. QED BY <1>1, <3>1, AppendProperties DEF ClientWritesByte
  <2>3. limit' = limit
    BY <1>1 DEF ClientWritesByte, serverVars
  <2>4. ASSUME NEW i \in 1 .. Len(output')
        PROVE  output'[i] \in {i, i + ChunkSize} \/ (output'[i] = 0 /\ i + ChunkSize > FileSize)
    <3>1. CASE i = Len(output) + 1
      BY <2>1, <2>2, <3>1 DEF NextByteFits
    <3>2. CASE i # Len(output) + 1
      <4>1. i \in 1 .. Len(output)
        BY <1>n, <2>2, <3>2 DEF Numbers
      <4>2. QED BY <2>2, <4>1 DEF DamageInv
    <3>3. QED BY <3>1, <3>2
  <2>5. QED BY <2>1, <2>2, <2>3, <2>4 DEF DamageInv
<1>2. CASE ~ClientWritesByte
  <2>1. output' = output
    BY <1>2 DEF Next, Server, ServerReads, ServerThrows, ServerAwaitsSpace, ServerTruncates,
       ServerCopiesByte, ServerFailsToMap, ServerPostsData, ServerPostsStop, ServerTriesSpace,
       ServerOverflowsStop, Client, ClientChecksStop, ClientTriesData, ClientMaps,
       ClientFailsToMap, ClientPostsSpace, ClientThrows, ClientStops, clientVars, vars
  <2>2. limit <= limit' /\ limit' \in Nat
    <3>1. CASE ServerReads /\ limit < FileSize
      BY <1>n, <3>1 DEF ServerReads, Lesser, Numbers
    <3>2. CASE ~(ServerReads /\ limit < FileSize)
      <4>1. limit' = limit
        BY <3>2 DEF Next, Server, ServerReads, ServerThrows, ServerAwaitsSpace, ServerTruncates,
           ServerCopiesByte, ServerFailsToMap, ServerPostsData, ServerPostsStop,
           ServerTriesSpace, ServerOverflowsStop, Client, ClientChecksStop, ClientTriesData,
           ClientMaps, ClientFailsToMap, ClientPostsSpace, ClientWritesByte, ClientThrows,
           ClientStops, serverVars, vars
      <4>2. QED BY <1>n, <4>1 DEF Numbers
    <3>3. QED BY <3>1, <3>2
  <2>3. Len(output) <= limit'
    BY <1>n, <2>2 DEF DamageInv, Numbers
  <2>4. QED BY <2>1, <2>3 DEF DamageInv
<1>3. QED BY <1>1, <1>2

(* A server that stops never reads again, and the client ends either by    *)
(* its stop or after a failure of its own.                                 *)
LEMMA StopStep ==
  ASSUME IInv, StopInv, "memory" \notin happened => MemoryInv,
         "memory" \notin happened /\ Working => CountInv, [Next]_vars
  PROVE  StopInv'
<1>n. Numbers
  BY NumbersHold
<1>1. CASE Server
  <2>1. UNCHANGED <<clientPc, output>> /\ happened \subseteq happened'
    BY <1>1 DEF Server, ServerReads, ServerThrows, ServerAwaitsSpace, ServerTruncates,
       ServerCopiesByte, ServerFailsToMap, ServerPostsData, ServerPostsStop, ServerTriesSpace,
       ServerOverflowsStop, clientVars, Occurs
  <2>2. /\ Stopping => Stopping' /\ UNCHANGED first
        /\ stop' > 0 => stop > 0 \/ Stopping
    BY <1>1 DEF Server, ServerReads, ServerThrows, ServerAwaitsSpace, ServerTruncates,
       ServerCopiesByte, ServerFailsToMap, ServerPostsData, ServerPostsStop, ServerTriesSpace,
       ServerOverflowsStop, semaphores, Stopping
  <2>3. "client" \in happened' => "client" \in happened
    BY <1>1 DEF Server, ServerReads, ServerThrows, ServerAwaitsSpace, ServerTruncates,
       ServerCopiesByte, ServerFailsToMap, ServerPostsData, ServerPostsStop, ServerTriesSpace,
       ServerOverflowsStop, Occurs
  <2>4. QED BY <2>1, <2>2, <2>3 DEF StopInv
<1>2. CASE ClientChecksStop /\ stop > 0
  <2>1. /\ clientPc = "checkStop" /\ clientPc' = "done" /\ stop' = stop - 1
        /\ UNCHANGED <<serverPc, first, output, happened>>
    BY <1>2 DEF ClientChecksStop, serverVars
  <2>2. Stopping /\ Stopping'
    BY <1>2, <2>1 DEF StopInv, Stopping
  <2>3. ASSUME "memory" \notin happened
        PROVE  Len(output) >= first - 1
    <3>1. CountInv /\ MemoryInv
      BY <2>1, <2>3 DEF Working
    <3>2. /\ Put = limit /\ Unwritten = 0 /\ Len(memory) = limit + 1 - first
      BY <2>1, <2>2, <3>1 DEF Put, InHand, Unwritten, Stopping, MemoryInv, ChunkLength
    <3>3. limit = Len(output) + 0 + (IF Announced THEN Len(memory) ELSE 0)
      BY <3>1, <3>2 DEF CountInv
    <3>4. CASE Announced
      <4>1. limit = Len(output) + 0 + Len(memory)
        BY <3>3, <3>4
      <4>2. QED BY <1>n, <3>2, <4>1 DEF Numbers
    <3>5. CASE ~Announced
      <4>1. limit = Len(output) + 0 + 0
        BY <3>3, <3>5
      <4>2. QED BY <1>n, <4>1 DEF Numbers
    <3>6. QED BY <3>4, <3>5
  <2>4. QED BY <2>1, <2>2, <2>3 DEF StopInv
<1>3. CASE Client /\ ~(ClientChecksStop /\ stop > 0)
  <2>1. UNCHANGED <<stop, serverPc, first>> /\ happened \subseteq happened'
    BY <1>3 DEF Client, ClientChecksStop, ClientTriesData, ClientMaps, ClientFailsToMap,
       ClientPostsSpace, ClientWritesByte, ClientThrows, ClientStops, semaphores, serverVars,
       Occurs
  <2>2. clientPc \in {"stop", "done"} \/ clientPc' \in {"stop", "done"} => "client" \in happened'
    BY <1>3 DEF Client, ClientChecksStop, ClientTriesData, ClientMaps, ClientFailsToMap,
       ClientPostsSpace, ClientWritesByte, ClientThrows, ClientStops, Occurs, StopInv
  <2>3. QED BY <2>1, <2>2 DEF StopInv, Stopping
<1>4. CASE UNCHANGED vars
  BY <1>4 DEF StopInv, Stopping, vars, semaphores, serverVars, clientVars
<1>5. QED BY <1>1, <1>2, <1>3, <1>4 DEF Next

TransferInv == IInv /\ ReadInv /\ StopInv /\ ByteInv

LEMMA InitTransfer == Init => TransferInv
<1> SUFFICES ASSUME Init PROVE TransferInv
  OBVIOUS
<1>1. IInv
  BY InitInv
<1>2. /\ memory = <<>> /\ output = <<>> /\ Len(memory) = 0 /\ Len(output) = 0
      /\ serverPc = "read" /\ first = 1 /\ limit = 0 /\ clientPc = "checkStop"
      /\ stop = 0 /\ data = 0 /\ written = 0 /\ span = 0
  BY DEF Init
<1>3. QED
  BY <1>1, <1>2
  DEF TransferInv, ReadInv, StopInv, ByteInv, MemoryInv, CountInv, DamageInv, Put, InHand,
      Announced, Unwritten, ClientHoldsData, ChunkLength, Stopping, Working

LEMMA TransferStep == TransferInv /\ [Next]_vars => TransferInv'
<1> SUFFICES ASSUME TransferInv, [Next]_vars PROVE TransferInv'
  OBVIOUS
<1>0. IInv /\ ReadInv /\ StopInv /\ ByteInv
  BY DEF TransferInv
<1>1. IInv'
  BY <1>0, StepInv
<1>2. ReadInv'
  BY <1>0, ReadStep
<1>3. StopInv'
  BY <1>0, StopStep DEF ByteInv
<1>4. (happened \subseteq happened') /\ (Working' => Working)
  BY DEF Next, Server, ServerReads, ServerThrows, ServerAwaitsSpace, ServerTruncates,
     ServerCopiesByte, ServerFailsToMap, ServerPostsData, ServerPostsStop, ServerTriesSpace,
     ServerOverflowsStop, Client, ClientChecksStop, ClientTriesData, ClientMaps,
     ClientFailsToMap, ClientPostsSpace, ClientWritesByte, ClientThrows, ClientStops,
     clientVars, vars, Occurs, Working
<1>5. ByteInv'
  <2> SUFFICES ASSUME "memory" \notin happened'
               PROVE  MemoryInv' /\ DamageInv' /\ (Working' => CountInv')
    BY DEF ByteInv
  <2>1. MemoryInv /\ DamageInv /\ (Working => CountInv)
    BY <1>0, <1>4 DEF ByteInv
  <2>2. MemoryInv'
    BY <1>0, <2>1, MemoryStep
  <2>3. DamageInv'
    BY <1>0, <2>1, DamageStep
  <2>4. ASSUME Working'
        PROVE  CountInv'
    <3>1. Working /\ CountInv
      BY <1>4, <2>1, <2>4
    <3>2. CASE Server
      BY <1>0, <2>1, <3>1, <3>2, ServerCounts
    <3>3. CASE Client
      BY <1>0, <2>1, <2>4, <3>1, <3>3, ClientCounts
    <3>4. CASE UNCHANGED vars
      BY <3>1, <3>4 DEF CountInv, Put, InHand, Announced, ClientHoldsData, Unwritten, vars,
         semaphores, serverVars, clientVars
    <3>5. QED BY <3>2, <3>3, <3>4 DEF Next
  <2>5. QED BY <2>2, <2>3, <2>4
<1>6. QED BY <1>1, <1>2, <1>3, <1>5 DEF TransferInv

LEMMA Transfers == Spec => []TransferInv
  BY InitTransfer, TransferStep, PTL DEF Spec

(***************************************************************************)
(* Whatever the interleaving of the server's refilling and the client's    *)
(* writing, and whichever reader or writer fails, a byte of the destination*)
(* is its own or that of the following chunk, or a zero behind the end of  *)
(* the file, and there is never more of it than was read.                  *)
(***************************************************************************)
THEOREM DamageIsBounded == Spec => []DamageIsOneChunk
<1>1. TransferInv => DamageIsOneChunk
  BY DEF TransferInv, ByteInv, DamageInv, DamageIsOneChunk
<1>2. QED BY Transfers, <1>1, PTL

(***************************************************************************)
(* A client that was stopped by the server has written every chunk but     *)
(* possibly the last one, also when the reader of the server has failed.   *)
(***************************************************************************)
THEOREM LossIsBounded == Spec => []OnlyLastChunkLost
<1>1. TransferInv => OnlyLastChunkLost
  <2> SUFFICES ASSUME TransferInv, clientPc = "done", happened \subseteq {"server"}
               PROVE  Len(output) >= limit - ChunkLength
    BY DEF OnlyLastChunkLost
  <2>1. Len(output) >= first - 1
    BY DEF TransferInv, StopInv
  <2>2. Numbers
    BY NumbersHold DEF TransferInv
  <2>3. QED BY <2>1, <2>2 DEF ChunkLength, Numbers
<1>2. QED BY Transfers, <1>1, PTL

-----------------------------------------------------------------------------
(***************************************************************************)
(* The pair of MultiProcessTask.  Its variables are functions of seven     *)
(* values here (the view), and a step here that changes one of them is the *)
(* step of the pair that the operation as a whole is there.                *)
(***************************************************************************)
LEMMA AmountType ==
  ASSUME NEW n \in Nat
  PROVE  AmountOf(n) \in Nat
<1>1. n + ChunkSize - 1 \in Nat /\ ChunkSize \in Nat \ {0}
  BY TransferAssumption
<1>2. QED BY <1>1 DEF AmountOf

LEMMA AmountZero == AmountOf(0) = 0
<1>1. 0 + ChunkSize - 1 \in 0 .. ChunkSize - 1 /\ ChunkSize \in Nat \ {0}
  BY TransferAssumption
<1>2. QED BY <1>1 DEF AmountOf

(* A whole chunk more.                                                     *)
LEMMA AmountGrows ==
  ASSUME NEW n \in Nat
  PROVE  AmountOf(n + ChunkSize) = AmountOf(n) + 1
<1>1. ChunkSize \in Nat \ {0}
  BY TransferAssumption
<1> DEFINE a == n + ChunkSize - 1
<1>2. a \in Nat /\ n + ChunkSize + ChunkSize - 1 = a + ChunkSize
  BY <1>1
<1>3. (a + ChunkSize) \div ChunkSize = (a \div ChunkSize) + 1
  <2> HIDE DEF a
  <2>1. QED BY <1>1, <1>2
<1>4. QED BY <1>2, <1>3 DEF AmountOf

LEMMA MultipleGrows ==
  ASSUME NEW c \in Nat, NEW p \in Nat, NEW q \in Nat, p + 1 <= q
  PROVE  p * c + c <= q * c
<1>1. PICK d \in Nat : q = p + 1 + d
  <2>1. q - p - 1 \in Nat /\ q = p + 1 + (q - p - 1)
    OBVIOUS
  <2>2. QED BY <2>1
<1>2. q * c = p * c + c + d * c
  BY <1>1
<1>3. d * c \in Nat /\ p * c \in Nat
  OBVIOUS
<1>4. QED BY <1>2, <1>3

(* The quotient is the only number of whole chunks that fits.              *)
LEMMA QuotientIs ==
  ASSUME NEW c \in Nat \ {0}, NEW a \in Nat, NEW k \in Nat, k * c <= a, a < k * c + c
  PROVE  a \div c = k
<1> DEFINE q == a \div c
<1>1. q \in Nat /\ q * c <= a /\ a < q * c + c /\ q * c \in Nat /\ k * c \in Nat
  OBVIOUS
<1>2. q = k
  <2> HIDE DEF q
  <2>1. q + 1 <= k => q * c + c <= k * c
    BY <1>1, MultipleGrows
  <2>2. k + 1 <= q => k * c + c <= q * c
    BY <1>1, MultipleGrows
  <2>3. QED BY <1>1, <2>1, <2>2
<1>3. QED BY <1>2

(* A number of chunks and the bytes that need it.                          *)
LEMMA AmountIs ==
  ASSUME NEW n \in Nat, NEW k \in Nat, k * ChunkSize < n + ChunkSize, n <= k * ChunkSize
  PROVE  AmountOf(n) = k
<1>1. ChunkSize \in Nat \ {0} /\ k * ChunkSize \in Nat
  BY TransferAssumption
<1>2. PICK a \in Nat : a = n + ChunkSize - 1
  BY <1>1
<1>3. k * ChunkSize <= a /\ a < k * ChunkSize + ChunkSize
  BY <1>1, <1>2
<1>4. a \div ChunkSize = k
  BY <1>1, <1>3, QuotientIs
<1>5. QED BY <1>2, <1>4 DEF AmountOf

(* The chunk that is read next is one of those that are left.              *)
LEMMA AmountOfNext ==
  ASSUME NEW l \in Nat, l < FileSize,
         AmountOf(l) * ChunkSize = l,
         NEW m, m = Lesser(l + ChunkSize, FileSize)
  PROVE  /\ AmountOf(m) = AmountOf(l) + 1
         /\ AmountOf(FileSize - l) = AmountOf(FileSize - m) + 1
         /\ m = FileSize \/ AmountOf(m) * ChunkSize = m
<1>1. ChunkSize \in Nat \ {0} /\ FileSize \in Nat /\ AmountOf(l) \in Nat
  BY TransferAssumption, AmountType
<1>2. CASE l + ChunkSize < FileSize
  <2>1. m = l + ChunkSize /\ AmountOf(m) = AmountOf(l) + 1
    BY <1>2, AmountGrows DEF Lesser
  <2>2. FileSize - m \in Nat /\ FileSize - l = FileSize - m + ChunkSize
    <3>1. l \in Nat
      OBVIOUS
    <3>2. QED BY ONLY <1>1, <1>2, <2>1, <3>1
  <2>3. AmountOf(FileSize - l) = AmountOf(FileSize - m) + 1
    BY <2>2, AmountGrows
  <2>4. (AmountOf(l) + 1) * ChunkSize = AmountOf(l) * ChunkSize + ChunkSize
    BY <1>1
  <2>5. QED BY <2>1, <2>3, <2>4
<1>3. CASE ~(l + ChunkSize < FileSize)
  <2>1. m = FileSize /\ FileSize - m = 0 /\ FileSize - l \in Nat
    BY <1>1, <1>3 DEF Lesser
  <2>2. AmountOf(FileSize) = AmountOf(l) + 1
    <3>1. (AmountOf(l) + 1) * ChunkSize = l + ChunkSize
      BY <1>1
    <3>2. AmountOf(l) + 1 \in Nat
      BY <1>1
    <3>3. QED BY <1>1, <1>3, <3>1, <3>2, AmountIs
  <2>3. AmountOf(FileSize - l) = 1
    <3>1. 1 * ChunkSize = ChunkSize
      BY <1>1
    <3>2. QED BY <1>1, <1>3, <2>1, <3>1, AmountIs
  <2>4. QED BY <2>1, <2>2, <2>3, AmountZero
<1>4. QED BY <1>2, <1>3

(* Every chunk read but the last is whole.                                 *)
WholeChunks == limit = FileSize \/ AmountOf(limit) * ChunkSize = limit

LEMMA TodoRests ==
  /\ UNCHANGED ServerStep => UNCHANGED ServerTodo
  /\ UNCHANGED ClientStep => UNCHANGED ClientTodo
  BY DEF ServerTodo, ClientTodo, NamesToRemove

View == <<stop, DataThere, SpaceThere, ClientStep, ServerStep, ChunksLeft, ChunksWritten>>

LEMMA PairRests == UNCHANGED View => UNCHANGED Pair!vars
  BY DEF View, Pair!vars, Pair!objectVars, Pair!fileVars, Pair!signalVars, RoleSteps, RoleTodo,
     ClientTodo, ServerTodo, NamesToRemove

LEMMA ServerGoes ==
  ASSUME NEW step, ServerStep' = step, UNCHANGED ClientStep
  PROVE  Pair!Goto("server", step, NamesToRemove(step))
<1>1. ServerTodo' = NamesToRemove(step) /\ UNCHANGED ClientTodo
  BY DEF ServerTodo, ClientTodo, NamesToRemove
<1>2. RoleSteps' = [RoleSteps EXCEPT !["server"] = step]
  BY DEF RoleSteps
<1>3. RoleTodo' = [RoleTodo EXCEPT !["server"] = NamesToRemove(step)]
  BY <1>1 DEF RoleTodo
<1>4. QED BY <1>2, <1>3 DEF Pair!Goto

LEMMA ClientGoes ==
  ASSUME NEW step, ClientStep' = step, UNCHANGED ServerStep
  PROVE  Pair!Goto("client", step, NamesToRemove(step))
<1>1. ClientTodo' = NamesToRemove(step) /\ UNCHANGED ServerTodo
  BY DEF ClientTodo, ServerTodo, NamesToRemove
<1>2. RoleSteps' = [RoleSteps EXCEPT !["client"] = step]
  BY DEF RoleSteps
<1>3. RoleTodo' = [RoleTodo EXCEPT !["client"] = NamesToRemove(step)]
  BY <1>1 DEF RoleTodo
<1>4. QED BY <1>2, <1>3 DEF Pair!Goto

LEMMA ServerLeaves ==
  ASSUME ServerStep' = "cleanup", UNCHANGED ClientStep
  PROVE  Pair!Leave("server")
  BY ServerGoes DEF Pair!Leave, NamesToRemove, Pair!Roles, Pair!Closing

LEMMA ClientLeaves ==
  ASSUME ClientStep' = "cleanup", UNCHANGED ServerStep
  PROVE  Pair!Leave("client")
  BY ClientGoes DEF Pair!Leave, NamesToRemove, Pair!Roles, Pair!Closing

LEMMA PairWrites ==
  ASSUME ServerStep = "server", ChunksLeft \in Nat, ChunksLeft' = ChunksLeft - 1,
         ChunksLeft > 0, SpaceThere > 0,
         SpaceThere' = SpaceThere - 1, DataThere' = DataThere + 1,
         UNCHANGED <<stop, ClientStep, ServerStep, ChunksWritten>>
  PROVE  Pair!Next
<1>1. Pair!ServerWrites("server")
  BY TodoRests
  DEF Pair!ServerWrites, Pair!Value, Pair!fileVars, Pair!signalVars, RoleSteps, RoleTodo, PairNames
<1>2. QED BY <1>1 DEF Pair!Next, Pair!Process

LEMMA PairReaderThrows ==
  ASSUME ServerStep = "server", ChunksLeft > 0, ChunksLeft' = 0,
         UNCHANGED <<stop, DataThere, SpaceThere, ClientStep, ServerStep, ChunksWritten>>
  PROVE  Pair!Next
<1>1. Pair!ServerThrows("server")
  BY TodoRests DEF Pair!ServerThrows, Pair!fileVars, Pair!signalVars, Pair!objectVars, RoleSteps, RoleTodo
<1>2. QED BY <1>1 DEF Pair!Next, Pair!Process

LEMMA PairPostsStop ==
  ASSUME ServerStep = "server", ChunksLeft = 0,
         UNCHANGED <<DataThere, SpaceThere, ClientStep, ChunksLeft, ChunksWritten>>,
         \/ stop < SemaphoreMax /\ stop' = stop + 1 /\ ServerStep' = "serverStops"
         \/ ~(stop < SemaphoreMax) /\ UNCHANGED stop /\ ServerStep' = "cleanup"
  PROVE  Pair!Next
<1>1. Pair!ServerPostsStop("server")
  <2>1. CASE stop < SemaphoreMax /\ stop' = stop + 1 /\ ServerStep' = "serverStops"
    <3>1. Pair!Goto("server", "serverStops", <<>>)
      BY <2>1, ServerGoes DEF NamesToRemove
    <3>2. Pair!Post("server", "reader", "stop")
      BY <2>1 DEF Pair!Post, PairNames
    <3>3. QED
      BY <2>1, <3>1, <3>2
      DEF Pair!ServerPostsStop, Pair!Value, Pair!fileVars, Pair!signalVars, RoleSteps, PairNames
  <2>2. CASE ~(stop < SemaphoreMax) /\ UNCHANGED stop /\ ServerStep' = "cleanup"
    BY <2>2, ServerLeaves
    DEF Pair!ServerPostsStop, Pair!Value, Pair!fileVars, Pair!signalVars, RoleSteps, PairNames
  <2>3. QED BY <2>1, <2>2
<1>2. QED BY <1>1 DEF Pair!Next, Pair!Process

LEMMA PairTriesSpace ==
  ASSUME ServerStep = "serverStops",
         UNCHANGED <<stop, DataThere, ClientStep, ChunksLeft, ChunksWritten>>,
         \/ SpaceThere > 0 /\ SpaceThere' = SpaceThere - 1 /\ ServerStep' = "cleanup"
         \/ ~(SpaceThere > 0) /\ UNCHANGED SpaceThere /\ ServerStep' = "server"
  PROVE  Pair!Next
<1>1. Pair!ServerTriesSpace("server")
  <2>1. CASE SpaceThere > 0 /\ SpaceThere' = SpaceThere - 1 /\ ServerStep' = "cleanup"
    <3>1. Pair!Take("server", "reader", "space")
      BY <2>1 DEF Pair!Take, PairNames
    <3>2. QED
      BY <2>1, <3>1, ServerLeaves
      DEF Pair!ServerTriesSpace, Pair!Value, Pair!fileVars, Pair!signalVars, RoleSteps, PairNames
  <2>2. CASE ~(SpaceThere > 0) /\ UNCHANGED SpaceThere /\ ServerStep' = "server"
    <3>1. Pair!Goto("server", "server", <<>>)
      BY <2>2, ServerGoes DEF NamesToRemove
    <3>2. QED
      BY <2>2, <3>1
      DEF Pair!ServerTriesSpace, Pair!Value, Pair!fileVars, Pair!signalVars, RoleSteps, PairNames
  <2>3. QED BY <2>1, <2>2
<1>2. QED BY <1>1 DEF Pair!Next, Pair!Process

LEMMA PairChecksStop ==
  ASSUME ClientStep = "client",
         UNCHANGED <<DataThere, SpaceThere, ServerStep, ChunksLeft, ChunksWritten>>,
         \/ stop > 0 /\ stop' = stop - 1 /\ ClientStep' = "cleanup"
         \/ ~(stop > 0) /\ UNCHANGED stop /\ ClientStep' = "clientReads"
  PROVE  Pair!Next
<1>1. Pair!ClientChecksStop("client")
  <2>1. CASE stop > 0 /\ stop' = stop - 1 /\ ClientStep' = "cleanup"
    <3>1. Pair!Take("client", "writer", "stop")
      BY <2>1 DEF Pair!Take, PairNames
    <3>2. QED
      BY <2>1, <3>1, ClientLeaves
      DEF Pair!ClientChecksStop, Pair!Value, Pair!fileVars, Pair!signalVars, RoleSteps, PairNames
  <2>2. CASE ~(stop > 0) /\ UNCHANGED stop /\ ClientStep' = "clientReads"
    <3>1. Pair!Goto("client", "clientReads", <<>>)
      BY <2>2, ClientGoes DEF NamesToRemove
    <3>2. QED
      BY <2>2, <3>1
      DEF Pair!ClientChecksStop, Pair!Value, Pair!fileVars, Pair!signalVars, RoleSteps, PairNames
  <2>3. QED BY <2>1, <2>2
<1>2. QED BY <1>1 DEF Pair!Next, Pair!Process

LEMMA PairReads ==
  ASSUME ClientStep = "clientReads",
         UNCHANGED <<stop, ServerStep, ChunksLeft, ChunksWritten>>,
         \/ /\ DataThere > 0 /\ DataThere' = DataThere - 1 /\ SpaceThere' = SpaceThere + 1
            /\ ClientStep' = "clientWrites"
         \/ ~(DataThere > 0) /\ UNCHANGED <<DataThere, SpaceThere>> /\ ClientStep' = "client"
  PROVE  Pair!Next
<1>1. Pair!ClientReads("client")
  <2>1. CASE /\ DataThere > 0 /\ DataThere' = DataThere - 1 /\ SpaceThere' = SpaceThere + 1
             /\ ClientStep' = "clientWrites"
    <3>1. Pair!Goto("client", "clientWrites", <<>>)
      BY <2>1, ClientGoes DEF NamesToRemove
    <3>2. Pair!ReadChunk("client")
      BY <2>1 DEF Pair!ReadChunk, PairNames
    <3>3. QED
      BY <2>1, <3>1, <3>2
      DEF Pair!ClientReads, Pair!Value, Pair!fileVars, Pair!signalVars, RoleSteps, PairNames
  <2>2. CASE ~(DataThere > 0) /\ UNCHANGED <<DataThere, SpaceThere>> /\ ClientStep' = "client"
    <3>1. Pair!Goto("client", "client", <<>>)
      BY <2>2, ClientGoes DEF NamesToRemove
    <3>2. QED
      BY <2>2, <3>1
      DEF Pair!ClientReads, Pair!Value, Pair!fileVars, Pair!signalVars, RoleSteps, PairNames
  <2>3. QED BY <2>1, <2>2
<1>2. QED BY <1>1 DEF Pair!Next, Pair!Process

LEMMA PairClientWrites ==
  ASSUME ClientStep = "clientWrites", ClientStep' = "client",
         ChunksWritten \in Nat, ChunksWritten' = ChunksWritten + 1,
         UNCHANGED <<stop, DataThere, SpaceThere, ServerStep, ChunksLeft>>
  PROVE  Pair!Next
<1>1. Pair!ClientWrites("client")
  <2>1. Pair!Goto("client", "client", <<>>)
    BY ClientGoes DEF NamesToRemove
  <2>2. 1 .. ChunksWritten' = (1 .. ChunksWritten) \cup {ChunksWritten'}
    OBVIOUS
  <2>3. QED
    BY <2>1, <2>2 DEF Pair!ClientWrites, Pair!objectVars, RoleSteps
<1>2. QED BY <1>1 DEF Pair!Next, Pair!Process

LEMMA PairWriterThrows ==
  ASSUME ClientStep = "clientWrites", ClientStep' = "cleanup",
         SpaceThere' = SpaceThere + 1,
         UNCHANGED <<stop, DataThere, ServerStep, ChunksLeft, ChunksWritten>>
  PROVE  Pair!Next
<1>1. Pair!ClientThrows("client")
  <2>1. Pair!Post("client", "writer", "space")
    BY DEF Pair!Post, PairNames
  <2>2. QED
    BY <2>1, ClientLeaves DEF Pair!ClientThrows, Pair!fileVars, Pair!signalVars, RoleSteps
<1>2. QED BY <1>1 DEF Pair!Next, Pair!Process

(* A step of the server is none of the pair, or one.                       *)
LEMMA ServerRefines ==
  ASSUME IInv, ReadInv, WholeChunks, Server, "memory" \notin happened'
  PROVE  /\ WholeChunks' /\ UNCHANGED ChunksWritten
         /\ Pair!Next \/ UNCHANGED Pair!vars
<1>n. Numbers
  BY NumbersHold
<1>a. /\ AmountOf(limit) \in Nat /\ FileSize - limit \in Nat
      /\ AmountOf(FileSize - limit) \in Nat
  <2>1. FileSize - limit \in Nat /\ limit \in Nat
    BY <1>n DEF Numbers
  <2>2. QED BY <2>1, AmountType
<1>c. /\ UNCHANGED <<clientPc, ClientHoldsData, ClientStep, Count(ClientHoldsChunk)>>
      /\ Count(ClientHoldsChunk) \in Int
  <2>1. UNCHANGED clientPc /\ ("client" \in happened' <=> "client" \in happened)
    BY DEF Server, ServerReads, ServerThrows, ServerAwaitsSpace, ServerTruncates,
       ServerCopiesByte, ServerFailsToMap, ServerPostsData, ServerPostsStop, ServerTriesSpace,
       ServerOverflowsStop, clientVars, Occurs
  <2>2. QED BY <2>1 DEF ClientHoldsData, ClientHoldsChunk, ClientStep, Count
<1>1. CASE ServerReads /\ limit < FileSize
  <2>1. /\ serverPc = "read" /\ serverPc' = "awaitSpace"
        /\ limit' = Lesser(limit + ChunkSize, FileSize)
        /\ UNCHANGED <<stop, data, space>>
    BY <1>1 DEF ServerReads, semaphores
  <2>2. PICK m : m = Lesser(limit + ChunkSize, FileSize)
    OBVIOUS
  <2>3. /\ AmountOf(m) = AmountOf(limit) + 1
        /\ AmountOf(FileSize - limit) = AmountOf(FileSize - m) + 1
        /\ m = FileSize \/ AmountOf(m) * ChunkSize = m
    <3>1. limit \in Nat /\ AmountOf(limit) * ChunkSize = limit
      BY <1>1, <1>n DEF WholeChunks, Numbers
    <3>2. QED BY <1>1, <2>2, <3>1, AmountOfNext
  <2>4. m = limit' /\ FileSize - m \in Nat
    BY <1>n, <2>1, <2>2 DEF Lesser, Numbers
  <2>5. AmountOf(limit)' = AmountOf(m) /\ AmountOf(FileSize - limit)' = AmountOf(FileSize - m)
        /\ AmountOf(FileSize - m) \in Nat
    BY <2>4, AmountType DEF AmountOf
  <2>6. WholeChunks'
    BY <2>3, <2>4, <2>5 DEF WholeChunks
  <2>7. UNCHANGED ChunksWritten
    BY <1>n, <1>a, <1>c, <2>1, <2>3, <2>5 DEF ChunksWritten, InHand, Count, Numbers
  <2>8. UNCHANGED ChunksLeft
    BY <1>a, <2>1, <2>3, <2>5 DEF ChunksLeft, InHand, Count
  <2>9. UNCHANGED <<DataThere, SpaceThere, ServerStep>>
    BY <1>c, <2>1 DEF DataThere, SpaceThere, ServerHoldsSpace, ServerStep
  <2>10. QED BY <1>c, <2>1, <2>6, <2>7, <2>8, <2>9, PairRests DEF View
<1>2. CASE ~(ServerReads /\ limit < FileSize)
  <2>1. UNCHANGED limit
    BY <1>2 DEF Server, ServerReads, ServerThrows, ServerAwaitsSpace, ServerTruncates,
       ServerCopiesByte, ServerFailsToMap, ServerPostsData, ServerPostsStop, ServerTriesSpace,
       ServerOverflowsStop
  <2>2. WholeChunks' /\ UNCHANGED <<AmountOf(limit), AmountOf(FileSize - limit)>>
    BY <2>1 DEF WholeChunks, AmountOf
  <2>3. UNCHANGED ChunksWritten
    <3>1. Count(InHand)' + data' = Count(InHand) + data
      BY <1>2, <1>n
      DEF Server, ServerReads, ServerThrows, ServerAwaitsSpace, ServerTruncates,
         ServerCopiesByte, ServerFailsToMap, ServerPostsData, ServerPostsStop,
         ServerTriesSpace, ServerOverflowsStop, semaphores, InHand, Count, Numbers
    <3>2. /\ Count(InHand) \in Int /\ Count(InHand)' \in Int /\ data \in Int /\ data' \in Int
          /\ Count(ClientHoldsData) \in Int /\ UNCHANGED Count(ClientHoldsData)
      <4>1. data' \in {data, data + 1}
        BY DEF Server, ServerReads, ServerThrows, ServerAwaitsSpace, ServerTruncates,
           ServerCopiesByte, ServerFailsToMap, ServerPostsData, ServerPostsStop,
           ServerTriesSpace, ServerOverflowsStop, semaphores
      <4>2. QED BY <1>n, <1>c, <4>1 DEF Count, Numbers
    <3>3. QED BY <1>a, <1>c, <2>2, <3>1, <3>2 DEF ChunksWritten
  <2>4. Pair!Next \/ UNCHANGED Pair!vars
    <3>1. CASE ServerReads
      <4>1. /\ serverPc = "read" /\ serverPc' = "postStop" /\ limit = FileSize
            /\ UNCHANGED <<stop, data, space>>
        BY <1>2, <1>n, <3>1 DEF ServerReads, semaphores, Numbers
      <4>2. AmountOf(FileSize - limit) = 0
        BY <1>n, <4>1, AmountZero DEF Numbers
      <4>3. UNCHANGED View
        BY <1>c, <2>2, <2>3, <4>1, <4>2
        DEF View, DataThere, SpaceThere, ServerHoldsSpace, ServerStep, ChunksLeft, InHand, Count
      <4>4. QED BY <4>3, PairRests
    <3>2. CASE ServerThrows
      <4>1. /\ serverPc = "read" /\ serverPc' = "postStop" /\ UNCHANGED <<stop, data, space>>
        BY <3>2 DEF ServerThrows, semaphores
      <4>2. /\ UNCHANGED <<stop, DataThere, SpaceThere, ClientStep, ServerStep, ChunksWritten>>
            /\ ServerStep = "server"
            /\ ChunksLeft \in Nat /\ ChunksLeft' = 0
        BY <1>a, <1>c, <2>3, <4>1
        DEF DataThere, SpaceThere, ServerHoldsSpace, ServerStep, ChunksLeft, InHand, Count
      <4>3. CASE ChunksLeft = 0
        BY <4>2, <4>3, PairRests DEF View
      <4>4. CASE ChunksLeft # 0
        BY <4>2, <4>4, PairReaderThrows
      <4>5. QED BY <4>3, <4>4
    <3>3. CASE ServerAwaitsSpace \/ ServerTruncates \/ ServerCopiesByte
      <4>1. /\ serverPc \in {"awaitSpace", "truncate", "copy"}
            /\ serverPc' \in {"truncate", "copy", "postData"}
            /\ UNCHANGED <<stop, data>>
        BY <3>3 DEF ServerAwaitsSpace, ServerTruncates, ServerCopiesByte, semaphores
      <4>2. UNCHANGED SpaceThere
        BY <1>n, <3>3 DEF ServerAwaitsSpace, ServerTruncates, ServerCopiesByte, semaphores,
           SpaceThere, ServerHoldsSpace, Count, Numbers
      <4>3. UNCHANGED View
        BY <1>c, <2>2, <2>3, <4>1, <4>2
        DEF View, DataThere, ServerStep, ChunksLeft, InHand, Count
      <4>4. QED BY <4>3, PairRests
    <3>4. CASE ServerFailsToMap
      BY <3>4 DEF ServerFailsToMap, Occurs
    <3>5. CASE ServerPostsData
      <4>1. /\ serverPc = "postData" /\ serverPc' = "read" /\ data' = data + 1
            /\ UNCHANGED <<stop, space>>
        BY <3>5 DEF ServerPostsData
      <4>2. /\ ServerStep = "server" /\ UNCHANGED ServerStep
            /\ ChunksLeft \in Nat /\ ChunksLeft > 0 /\ ChunksLeft' = ChunksLeft - 1
        BY <1>a, <2>2, <4>1 DEF ServerStep, ChunksLeft, InHand, Count
      <4>3. SpaceThere > 0 /\ SpaceThere' = SpaceThere - 1 /\ DataThere' = DataThere + 1
        BY <1>n, <1>c, <4>1 DEF SpaceThere, DataThere, ServerHoldsSpace, Count, Numbers
      <4>4. QED BY <1>c, <2>3, <4>1, <4>2, <4>3, PairWrites
    <3>6. CASE ServerPostsStop \/ ServerOverflowsStop
      <4>1. /\ serverPc = "postStop" /\ UNCHANGED <<data, space>>
            /\ \/ stop < SemaphoreMax /\ stop' = stop + 1 /\ serverPc' = "trySpace"
               \/ ~(stop < SemaphoreMax) /\ UNCHANGED stop /\ serverPc' = "failed"
        BY <3>6, TransferAssumption DEF ServerPostsStop, ServerOverflowsStop, semaphores
      <4>2. /\ UNCHANGED <<DataThere, SpaceThere, ChunksLeft>> /\ ChunksLeft = 0
            /\ ServerStep = "server"
        BY <1>c, <4>1
        DEF DataThere, SpaceThere, ServerHoldsSpace, ServerStep, ChunksLeft, InHand
      <4>3. /\ serverPc' = "trySpace" => ServerStep' = "serverStops"
            /\ serverPc' = "failed" => ServerStep' = "cleanup"
        BY DEF ServerStep
      <4>4. QED BY <1>c, <2>3, <4>1, <4>2, <4>3, PairPostsStop
    <3>7. CASE ServerTriesSpace
      <4>1. /\ serverPc = "trySpace" /\ UNCHANGED <<stop, data>>
            /\ \/ space > 0 /\ space' = space - 1 /\ serverPc' = "done"
               \/ ~(space > 0) /\ UNCHANGED space /\ serverPc' = "postStop"
        BY <3>7 DEF ServerTriesSpace
      <4>2. /\ UNCHANGED <<DataThere, ChunksLeft>> /\ ServerStep = "serverStops"
        BY <1>c, <4>1 DEF DataThere, ServerStep, ChunksLeft
      <4>3. SpaceThere = space /\ SpaceThere' = space'
        BY <1>n, <4>1 DEF SpaceThere, ServerHoldsSpace, Count, Numbers
      <4>4. /\ serverPc' = "done" => ServerStep' = "cleanup"
            /\ serverPc' = "postStop" => ServerStep' = "server"
        BY DEF ServerStep
      <4>5. QED BY <1>c, <2>3, <4>1, <4>2, <4>3, <4>4, PairTriesSpace
    <3>8. QED BY <3>1, <3>2, <3>3, <3>4, <3>5, <3>6, <3>7 DEF Server
  <2>5. QED BY <2>2, <2>3, <2>4
<1>3. QED BY <1>1, <1>2

(* A step of the client is none of the pair, or one.                       *)
LEMMA ClientRefines ==
  ASSUME IInv, StopInv, Working => CountInv, WholeChunks, ChunksWritten \in Nat,
         "client" \in happened => ~Working, Client, "memory" \notin happened'
  PROVE  /\ WholeChunks' /\ ChunksWritten' \in Nat
         /\ Pair!Next \/ UNCHANGED Pair!vars
<1>n. Numbers
  BY NumbersHold
<1>a. AmountOf(limit) \in Nat /\ AmountOf(FileSize - limit) \in Nat
  <2>1. FileSize - limit \in Nat /\ limit \in Nat
    BY <1>n DEF Numbers
  <2>2. QED BY <2>1, AmountType
<1>c. /\ UNCHANGED <<limit, serverPc, InHand, ServerHoldsSpace, ServerStep>>
      /\ UNCHANGED <<AmountOf(limit), Count(InHand), ChunksLeft>> /\ WholeChunks'
      /\ Count(InHand) \in Int /\ Count(ServerHoldsSpace) \in Int
      /\ UNCHANGED Count(ServerHoldsSpace)
  <2>1. UNCHANGED <<limit, serverPc>>
    BY DEF Client, ClientChecksStop, ClientTriesData, ClientMaps, ClientFailsToMap,
       ClientPostsSpace, ClientWritesByte, ClientThrows, ClientStops, serverVars
  <2>2. QED
    BY <2>1 DEF WholeChunks, AmountOf, InHand, ServerHoldsSpace, ServerStep, ChunksLeft, Count
(* What a step may use of the chunks the client has.                       *)
<1>w. ASSUME data \in Int, data' \in Int
      PROVE  /\ ChunksWritten = AmountOf(limit) - Count(InHand) - DataThere
                                  - Count(ClientHoldsChunk)
             /\ ChunksWritten' = AmountOf(limit) - Count(InHand) - DataThere'
                                   - Count(ClientHoldsChunk)'
             /\ DataThere \in Int /\ DataThere' \in Int
  <2>1. /\ Count(ClientHoldsData) \in Int /\ Count(ClientHoldsData)' \in Int
        /\ Count(ClientHoldsChunk) \in Int /\ Count(ClientHoldsChunk)' \in Int
    BY DEF Count
  <2>2. QED BY <1>a, <1>c, <1>w, <2>1 DEF ChunksWritten, DataThere
<1>1. CASE ClientChecksStop
  <2>1. /\ clientPc = "checkStop" /\ UNCHANGED <<data, space>>
        /\ \/ stop > 0 /\ stop' = stop - 1 /\ clientPc' = "done"
           \/ ~(stop > 0) /\ UNCHANGED stop /\ clientPc' = "tryData"
        /\ "client" \notin happened'
    BY <1>1 DEF ClientChecksStop, Working
  <2>2. /\ UNCHANGED <<DataThere, SpaceThere>> /\ ClientStep = "client"
        /\ clientPc' = "done" => ClientStep' = "cleanup"
        /\ clientPc' = "tryData" => ClientStep' = "clientReads"
    BY <1>c, <2>1 DEF DataThere, SpaceThere, ClientHoldsData, ClientStep, Count
  <2>3. UNCHANGED ChunksWritten
    <3>1. Count(ClientHoldsChunk) = 0 /\ Count(ClientHoldsChunk)' = 0
      BY <2>1 DEF ClientHoldsChunk, Count
    <3>2. data \in Int /\ data' \in Int
      BY <1>n, <2>1 DEF Numbers
    <3>3. QED BY <1>w, <2>2, <3>1, <3>2
  <2>4. QED BY <1>c, <2>1, <2>2, <2>3, PairChecksStop
<1>2. CASE ClientTriesData
  <2>1. /\ clientPc = "tryData" /\ UNCHANGED <<stop, space>>
        /\ \/ data > 0 /\ data' = data - 1 /\ clientPc' = "map"
           \/ ~(data > 0) /\ UNCHANGED data /\ clientPc' = "checkStop"
    BY <1>2 DEF ClientTriesData
  <2>2. /\ UNCHANGED <<DataThere, SpaceThere>> /\ ClientStep = "clientReads"
        /\ clientPc' = "map" => ClientStep' = "clientReads"
        /\ clientPc' = "checkStop" => ClientStep' = "client" /\ DataThere = 0
    BY <1>c, <1>n, <2>1
    DEF DataThere, SpaceThere, ClientHoldsData, ClientStep, Count, Numbers
  <2>3. UNCHANGED ChunksWritten
    <3>1. Count(ClientHoldsChunk) = 0 /\ Count(ClientHoldsChunk)' = 0
      BY <2>1 DEF ClientHoldsChunk, Count
    <3>2. data \in Int /\ data' \in Int
      BY <1>n, <2>1 DEF Numbers
    <3>3. QED BY <1>w, <2>2, <3>1, <3>2
  <2>4. CASE clientPc' = "map"
    BY <1>c, <2>1, <2>2, <2>3, <2>4, PairRests DEF View
  <2>5. CASE clientPc' = "checkStop"
    BY <1>c, <2>1, <2>2, <2>3, <2>5, PairReads
  <2>6. QED BY <2>1, <2>3, <2>4, <2>5
<1>3. CASE ClientMaps
  <2>1. /\ clientPc = "map" /\ clientPc' = "postSpace" /\ UNCHANGED <<stop, data, space>>
    BY <1>3 DEF ClientMaps, semaphores
  <2>2. UNCHANGED <<DataThere, SpaceThere, ClientStep>>
    BY <1>c, <2>1 DEF DataThere, SpaceThere, ClientHoldsData, ClientStep, Count
  <2>3. UNCHANGED ChunksWritten
    <3>1. Count(ClientHoldsChunk) = 0 /\ Count(ClientHoldsChunk)' = 0
      BY <2>1 DEF ClientHoldsChunk, Count
    <3>2. data \in Int /\ data' \in Int
      BY <1>n, <2>1 DEF Numbers
    <3>3. QED BY <1>w, <2>2, <3>1, <3>2
  <2>4. QED BY <1>c, <2>1, <2>2, <2>3, PairRests DEF View
<1>4. CASE ClientFailsToMap
  BY <1>4 DEF ClientFailsToMap, Occurs
(* The span is not empty: the chunk is there with its space given back.    *)
<1>5. CASE ClientPostsSpace
  <2>1. span > 0
    <3>1. CountInv /\ clientPc = "postSpace"
      BY <1>5 DEF ClientPostsSpace, Working
    <3>2. QED BY <1>n, <3>1 DEF CountInv, Announced, ClientHoldsData, Numbers
  <2>2. /\ clientPc = "postSpace" /\ clientPc' = "writeFile" /\ space' = space + 1
        /\ UNCHANGED <<stop, data>>
    BY <1>5, <1>n, <2>1 DEF ClientPostsSpace, Numbers
  <2>3. /\ DataThere > 0 /\ DataThere' = DataThere - 1 /\ SpaceThere' = SpaceThere + 1
        /\ ClientStep = "clientReads" /\ ClientStep' = "clientWrites"
    BY <1>c, <1>n, <2>2
    DEF DataThere, SpaceThere, ClientHoldsData, ClientStep, Count, Numbers
  <2>4. UNCHANGED ChunksWritten
    <3>1. Count(ClientHoldsChunk) = 0 /\ Count(ClientHoldsChunk)' = 1
      BY <2>2 DEF ClientHoldsChunk, Count
    <3>2. data \in Int /\ data' \in Int
      BY <1>n, <2>2 DEF Numbers
    <3>3. QED BY <1>a, <1>c, <1>w, <2>3, <3>1, <3>2
  <2>5. QED BY <1>c, <2>2, <2>3, <2>4, PairReads
<1>6. CASE ClientWritesByte
  <2>1. /\ clientPc = "writeFile" /\ UNCHANGED <<stop, data, space>>
        /\ clientPc' \in {"checkStop", "writeFile"}
    BY <1>6 DEF ClientWritesByte, semaphores
  <2>2. /\ UNCHANGED <<DataThere, SpaceThere>> /\ ClientStep = "clientWrites"
        /\ clientPc' = "checkStop" => ClientStep' = "client"
        /\ clientPc' = "writeFile" => ClientStep' = "clientWrites"
    BY <1>c, <2>1 DEF DataThere, SpaceThere, ClientHoldsData, ClientStep, Count
  <2>3. data \in Int /\ data' \in Int
    BY <1>n, <2>1 DEF Numbers
  <2>4. CASE clientPc' = "writeFile"
    <3>1. Count(ClientHoldsChunk) = 1 /\ Count(ClientHoldsChunk)' = 1
      BY <2>1, <2>4 DEF ClientHoldsChunk, Count
    <3>2. UNCHANGED ChunksWritten
      BY <1>w, <2>2, <2>3, <3>1
    <3>3. QED BY <1>c, <2>1, <2>2, <2>4, <3>2, PairRests DEF View
  <2>5. CASE clientPc' = "checkStop"
    <3>1. Count(ClientHoldsChunk) = 1 /\ Count(ClientHoldsChunk)' = 0
      BY <2>1, <2>5 DEF ClientHoldsChunk, Count
    <3>2. ChunksWritten' = ChunksWritten + 1
      BY <1>a, <1>c, <1>w, <2>2, <2>3, <3>1
    <3>3. QED BY <1>c, <2>1, <2>2, <2>5, <3>2, PairClientWrites
  <2>6. QED BY <2>1, <2>4, <2>5
<1>7. CASE ClientThrows \/ ClientStops
  <2>1. /\ clientPc \in {"writeFile", "stop"} /\ UNCHANGED <<stop, data>>
        /\ "client" \in happened'
        /\ \/ clientPc' = "stop" /\ UNCHANGED space
           \/ clientPc' = "done" /\ space' = space + 1
    BY <1>7 DEF ClientThrows, ClientStops, Occurs, semaphores, StopInv
  <2>2. /\ UNCHANGED DataThere /\ ClientStep = "clientWrites"
        /\ clientPc' = "stop" => ClientStep' = "clientWrites" /\ UNCHANGED SpaceThere
        /\ clientPc' = "done" => ClientStep' = "cleanup" /\ SpaceThere' = SpaceThere + 1
    BY <1>c, <1>n, <2>1
    DEF DataThere, SpaceThere, ClientHoldsData, ClientStep, Count, Numbers
  <2>3. UNCHANGED ChunksWritten
    <3>1. Count(ClientHoldsChunk) = 1 /\ Count(ClientHoldsChunk)' = 1
      BY <2>1 DEF ClientHoldsChunk, Count
    <3>2. data \in Int /\ data' \in Int
      BY <1>n, <2>1 DEF Numbers
    <3>3. QED BY <1>w, <2>2, <3>1, <3>2
  <2>4. CASE clientPc' = "stop"
    BY <1>c, <2>1, <2>2, <2>3, <2>4, PairRests DEF View
  <2>5. CASE clientPc' = "done"
    BY <1>c, <2>1, <2>2, <2>3, <2>5, PairWriterThrows
  <2>6. QED BY <2>1, <2>3, <2>4, <2>5
<1>8. WholeChunks'
  BY <1>c
<1>9. QED BY <1>1, <1>2, <1>3, <1>4, <1>5, <1>6, <1>7, <1>8 DEF Client

(* A failed client is not working any more: its chunk stays in its hands.  *)
ViewInv ==
  /\ "memory" \notin happened => WholeChunks /\ ChunksWritten \in Nat
  /\ "client" \in happened => ~Working

LEMMA InitView == Init => ViewInv
<1> SUFFICES ASSUME Init PROVE ViewInv
  OBVIOUS
<1>1. /\ limit = 0 /\ serverPc = "read" /\ clientPc = "checkStop" /\ data = 0
      /\ happened = {}
  BY DEF Init
<1>2. AmountOf(limit) = 0
  BY <1>1, AmountZero
<1>3. QED
  BY <1>1, <1>2, TransferAssumption
  DEF ViewInv, WholeChunks, ChunksWritten, InHand, ClientHoldsData, ClientHoldsChunk, Count,
      Working

LEMMA PairSteps ==
  ASSUME TransferInv, ViewInv, [Next]_vars
  PROVE  ViewInv' /\ ("memory" \notin happened' => Pair!Next \/ UNCHANGED Pair!vars)
<1>0. IInv /\ ReadInv /\ StopInv /\ ByteInv
  BY DEF TransferInv
<1>1. /\ happened \subseteq happened'
      /\ "client" \in happened' => ~Working'
  BY DEF ViewInv, Next, Server, ServerReads, ServerThrows, ServerAwaitsSpace, ServerTruncates,
     ServerCopiesByte, ServerFailsToMap, ServerPostsData, ServerPostsStop, ServerTriesSpace,
     ServerOverflowsStop, Client, ClientChecksStop, ClientTriesData, ClientMaps,
     ClientFailsToMap, ClientPostsSpace, ClientWritesByte, ClientThrows, ClientStops,
     clientVars, vars, Occurs, Working
<1>2. ASSUME "memory" \notin happened'
      PROVE  /\ WholeChunks' /\ ChunksWritten' \in Nat
             /\ Pair!Next \/ UNCHANGED Pair!vars
  <2>1. /\ WholeChunks /\ ChunksWritten \in Nat /\ ("client" \in happened => ~Working)
        /\ Working => CountInv
    BY <1>0, <1>1, <1>2 DEF ViewInv, ByteInv
  <2>2. CASE Server
    BY <1>0, <1>2, <2>1, <2>2, ServerRefines
  <2>3. CASE Client
    BY <1>0, <1>2, <2>1, <2>3, ClientRefines
  <2>4. CASE UNCHANGED vars
    <3>1. UNCHANGED <<View, limit>>
      BY <2>4 DEF vars, semaphores, serverVars, clientVars, View, DataThere, SpaceThere,
         ClientStep, ServerStep, ChunksLeft, ChunksWritten, ClientHoldsData,
         ClientHoldsChunk, ServerHoldsSpace, InHand, Count, AmountOf
    <3>2. QED BY <2>1, <3>1, PairRests DEF View, WholeChunks, AmountOf
  <2>5. QED BY <2>2, <2>3, <2>4 DEF Next
<1>3. QED BY <1>1, <1>2 DEF ViewInv

(***************************************************************************)
(* The transfer implements that of MultiProcessTask, for every chunk size, *)
(* file size and semaphore limit, whichever reader or writer fails, as long*)
(* as no mapping has failed: every semaphore operation and every byte is a *)
(* step of the pair or invisible to it.                                    *)
(***************************************************************************)
THEOREM ImplementsPair == Spec => StepsOfAPair
<1>1. TransferInv /\ ViewInv /\ [Next]_vars =>
        ViewInv' /\ [ "memory" \notin happened' => Pair!Next ]_(Pair!vars)
  BY PairSteps
<1>2. Init => TransferInv
  BY InitTransfer
<1>3. QED
  BY <1>1, <1>2, InitView, TransferStep, PTL DEF Spec, StepsOfAPair
=============================================================================
