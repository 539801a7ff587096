-------------------------- MODULE MultiProcessTask --------------------------
(***************************************************************************)
(* The multi_process mode from the start of a process to its end:          *)
(* MultiProcess/MultiProcessTask.cpp.  All processes are started alike     *)
(* with the same name of shared memory; the first one to create the client *)
(* mutex is the client, the first one to create the server mutex after it  *)
(* the server, and one that finds both is turned away.                     *)
(*                                                                         *)
(* Mutexes, semaphores and shared memory have names known to all.  Opening *)
(* a name gives the object that has it or creates one; removing a name     *)
(* takes it from its object, which lives on for those who have opened it   *)
(* (an object here is a generation of its name).  Every process opens all  *)
(* of them for both roles, whichever it gets, and when it ends or fails    *)
(* removes the names, of both roles and whoever else is running.           *)
(*                                                                         *)
(* The transfer is that of SharedDataTransfer, one step for each operation *)
(* of the two data access classes: what the memory holds and how the       *)
(* operations interleave is modelled there, and StepsOfAPair there says    *)
(* that it comes to the steps here.                                        *)
(***************************************************************************)
EXTENDS Naturals, Sequences

CONSTANTS
  Procs,         \* the processes ever started
  NoProc,        \* in place of the creator of a mutex: there is none
  Chunks,        \* number of chunks the server sends
  SemaphoreMax,  \* largest value of the stop semaphore
  Faults,        \* which of FaultKinds may happen
  Interruptible  \* the processes that may get a SIGINT

(* No source is named, a name or a file cannot be opened, a mutex cannot   *)
(* be created though it is free, the source, the destination or a wait for *)
(* a semaphore throws in the middle of the transfer.                       *)
FaultKinds == {"options", "open", "source", "destination", "mutex", "reader",
               "writer", "wait"}

ASSUME ProcessAssumption ==
  /\ NoProc \notin Procs
  /\ Chunks \in Nat
  /\ SemaphoreMax \in Nat \ {0}
  /\ Faults \subseteq FaultKinds
  /\ Interruptible \subseteq Procs

VARIABLES
  mutex,    \* the creator of the mutex that has the name of a role
  current,  \* the generation of the object that has a name, 0: none
  value,    \* value[n][g]: of the semaphore of generation g (0 for the memory)
  pc,       \* where a process is
  todo,     \* the names it has still to open or to remove, in this order
  handle,   \* handle[p][side][n]: the generation p has opened
  left,     \* the number of chunks p has to send should it be the server
  written,  \* the number of chunks p has written as the client
  file,     \* which of these are in the destination, the same for all
  handling, \* what the handler of SIGINT of p has still to do
  late      \* history: who has taken which role with that handler at work

objectVars == <<current, value>>
fileVars == <<written, file>>
signalVars == <<handling, late>>
vars == <<mutex, current, value, pc, todo, handle, left, fileVars, signalVars>>

(* mutexClientName and mutexServerName, removed in this order.             *)
Roles == <<"client", "server">>

(* SignalHandler: Cleaner, then exit.                                      *)
Handling == <<"client", "server", "exit">>

(* The names of the data access classes, in the order they are opened ...  *)
Opening == <<"memory", "stop", "data", "space">>

(* Slip: a semaphore forgotten.                                            *)
ClosingButSpace == <<"stop", "data", "memory">>

(* ... and removed, by SharedWriteDataAccess and by SharedReadDataAccess.  *)
Closing == <<"stop", "data", "space", "memory">>

Names == {"memory", "stop", "data", "space"}
RoleNames == {"client", "server"}

(* Both tasks of a process have objects: reader_, which the server runs    *)
(* (SharedWriteDataAccess), and writer_, which the client runs.            *)
Sides == {"reader", "writer"}

States ==
  {"idle", "reader", "writer", "tryClient", "tryServer", "client", "clientReads",
   "clientWrites", "server", "serverStops", "cleanup", "unwinding", "ended",
   "failed", "killed"}

InitialValue == [n \in Names |-> IF n = "space" THEN 1 ELSE 0]

Closed == [side \in Sides |-> [n \in Names |-> 0]]

Init ==
  /\ mutex = [r \in RoleNames |-> NoProc]
  /\ current = [n \in Names |-> 0]
  /\ value = [n \in Names |-> <<>>]
  /\ pc = [p \in Procs |-> "idle"]
  /\ todo = [p \in Procs |-> <<>>]
  /\ handle = [p \in Procs |-> Closed]
  /\ left = [p \in Procs |-> Chunks]
  /\ written = [p \in Procs |-> 0]
  /\ file = {}
  /\ handling = [p \in Procs |-> <<>>]
  /\ late = {}

Goto(p, label, names) ==
  /\ pc' = [pc EXCEPT ![p] = label]
  /\ todo' = [todo EXCEPT ![p] = names]

-----------------------------------------------------------------------------
(* MultiProcessTask::Create.                                               *)

(* Without a source ReaderFactory throws before anything is opened.        *)
Create(p) ==
  /\ pc[p] = "idle"
  /\ \/ Goto(p, "reader", Opening)
     \/ "options" \in Faults /\ Goto(p, "cleanup", Roles)
  /\ UNCHANGED <<mutex, objectVars, handle, left, fileVars, signalVars>>

(* Slip: every process makes an object of its own.                         *)
OpenAnew(p) ==
  /\ pc[p] \in Sides /\ todo[p] # <<>>
  /\ LET n == Head(todo[p]) IN
       /\ value' = [value EXCEPT ![n] = Append(@, InitialValue[n])]
       /\ current' = [current EXCEPT ![n] = Len(value[n]) + 1]
       /\ handle' = [handle EXCEPT ![p][pc[p]][n] = current'[n]]
  /\ todo' = [todo EXCEPT ![p] = Tail(@)]
  /\ UNCHANGED <<mutex, pc, left, fileVars, signalVars>>

(* open_or_create of the next name, for the side the process is setting up.*)
Open(p) ==
  /\ pc[p] \in Sides /\ todo[p] # <<>>
  /\ LET n == Head(todo[p]) IN
       /\ IF current[n] = 0
          THEN /\ value' = [value EXCEPT ![n] = Append(@, InitialValue[n])]
               /\ current' = [current EXCEPT ![n] = Len(value[n]) + 1]
          ELSE UNCHANGED objectVars
       /\ handle' = [handle EXCEPT ![p][pc[p]][n] = current'[n]]
  /\ todo' = [todo EXCEPT ![p] = Tail(@)]
  /\ UNCHANGED <<mutex, pc, left, fileVars, signalVars>>

(* The constructor of a data access throws: its own destructor does not    *)
(* run, so that nothing removes the semaphores it has opened, but that of  *)
(* the task does, and of a reader_ that was complete.                      *)
Unwind(p, closing) ==
  IF pc[p] = "writer"
  THEN Goto(p, "cleanup", closing \o Roles \o Closing)
  ELSE Goto(p, "unwinding", closing \o Roles)

(* Slip: the memory keeps its name when it is closed.                      *)
OpenFailsMemoryStays(p) ==
  /\ "open" \in Faults
  /\ pc[p] \in Sides /\ todo[p] # <<>>
  /\ Unwind(p, <<>>)
  /\ UNCHANGED <<mutex, objectVars, handle, left, fileVars, signalVars>>

(* A name that cannot be opened.  The memory, handler_, is closed with its *)
(* name removed, if it is not the one that could not be opened.            *)
OpenFails(p) ==
  /\ "open" \in Faults
  /\ pc[p] \in Sides /\ todo[p] # <<>>
  /\ Unwind(p, IF Head(todo[p]) = "memory" THEN <<>> ELSE <<"memory">>)
  /\ UNCHANGED <<mutex, objectVars, handle, left, fileVars, signalVars>>

(* FileDataReader::Create: the source is opened, or the data access just   *)
(* made and then the task are destroyed.                                   *)
OpenSource(p) ==
  /\ pc[p] = "reader" /\ todo[p] = <<>>
  /\ \/ Goto(p, "writer", Opening)
     \/ "source" \in Faults /\ Goto(p, "cleanup", Closing \o Roles)
  /\ UNCHANGED <<mutex, objectVars, handle, left, fileVars, signalVars>>

(* FileDataWriter::Create: the destination is truncated.  If it cannot be  *)
(* opened it is as with the source, but the task has its reader_ already.  *)
OpenDestination(p) ==
  /\ pc[p] = "writer" /\ todo[p] = <<>>
  /\ \/ Goto(p, "tryClient", <<>>) /\ file' = {}
     \/ /\ "destination" \in Faults
        /\ Goto(p, "cleanup", Closing \o Roles \o Closing)
        /\ UNCHANGED file
  /\ UNCHANGED <<mutex, objectVars, handle, left, written, signalVars>>

-----------------------------------------------------------------------------
(* MultiProcessTask::Run.                                                  *)

(* ~MultiProcessTask: Cleaner, then writer_ and reader_.                   *)
Leave(p) == Goto(p, "cleanup", Roles \o Closing \o Closing)

Takes(p, role) ==
  /\ mutex[role] = NoProc
  /\ mutex' = [mutex EXCEPT ![role] = p]
  /\ late' = IF handling[p] = <<>> THEN late ELSE late \cup {<<p, role>>}

(* Whatever keeps it from creating the mutex, that it exists or not.       *)
Misses(role) ==
  /\ mutex[role] # NoProc \/ "mutex" \in Faults
  /\ UNCHANGED <<mutex, late>>

TryClient(p) ==
  /\ pc[p] = "tryClient"
  /\ \/ Takes(p, "client") /\ Goto(p, "client", <<>>)
     \/ Misses("client") /\ Goto(p, "tryServer", <<>>)
  /\ UNCHANGED <<objectVars, handle, left, fileVars, handling>>

(* A process that finds a server is turned away: "Server already exist."   *)
TryServer(p) ==
  /\ pc[p] = "tryServer"
  /\ \/ Takes(p, "server") /\ Goto(p, "server", <<>>)
     \/ Misses("server") /\ Leave(p)
  /\ UNCHANGED <<objectVars, handle, left, fileVars, handling>>

(* The value of semaphore n as the process has it open for one side.       *)
Value(p, side, n) == value[n][handle[p][side][n]]

Post(p, side, n) == value' = [value EXCEPT ![n][handle[p][side][n]] = @ + 1]

Take(p, side, n) == value' = [value EXCEPT ![n][handle[p][side][n]] = @ - 1]

(* SharedReadDataAccess::IsRunning *)
ClientChecksStop(p) ==
  /\ pc[p] = "client"
  /\ IF Value(p, "writer", "stop") > 0
     THEN Take(p, "writer", "stop") /\ Leave(p)
     ELSE Goto(p, "clientReads", <<>>) /\ UNCHANGED value
  /\ UNCHANGED <<mutex, current, handle, left, fileVars, signalVars>>

(* What SharedReadDataAccess::Read does with the semaphores.               *)
ReadChunk(p) ==
  value' = [value EXCEPT
    !["data"][handle[p]["writer"]["data"]] = @ - 1,
    !["space"][handle[p]["writer"]["space"]] = @ + 1]

ClientReads(p) ==
  /\ pc[p] = "clientReads"
  /\ IF Value(p, "writer", "data") > 0
     THEN ReadChunk(p) /\ Goto(p, "clientWrites", <<>>)
     ELSE Goto(p, "client", <<>>) /\ UNCHANGED value
  /\ UNCHANGED <<mutex, current, handle, left, fileVars, signalVars>>

(* Slip: the destination is opened for every chunk.                        *)
ClientReopens(p) ==
  /\ pc[p] = "clientWrites"
  /\ written' = [written EXCEPT ![p] = @ + 1]
  /\ file' = {written'[p]}
  /\ Goto(p, "client", <<>>)
  /\ UNCHANGED <<mutex, objectVars, handle, left, signalVars>>

(* BufferTransferTask::Run: the chunk is written ...                       *)
ClientWrites(p) ==
  /\ pc[p] = "clientWrites"
  /\ written' = [written EXCEPT ![p] = @ + 1]
  /\ file' = file \cup {written'[p]}
  /\ Goto(p, "client", <<>>)
  /\ UNCHANGED <<mutex, objectVars, handle, left, signalVars>>

(* ... or the writer throws, and SharedReadDataAccess::Stop posts space.   *)
ClientThrows(p) ==
  /\ "writer" \in Faults
  /\ pc[p] = "clientWrites"
  /\ Post(p, "writer", "space") /\ Leave(p)
  /\ UNCHANGED <<mutex, current, handle, left, fileVars, signalVars>>

(* A wait for a semaphore, or a try, throws an interprocess_exception,     *)
(* which the Run of a task does not catch: that of the client is taken for *)
(* the mutex that exists, and the client, whose mutex keeps its name, tries*)
(* to be the server ...                                                    *)
ClientFails(p) ==
  /\ "wait" \in Faults
  /\ pc[p] \in {"client", "clientReads"}
  /\ Goto(p, "tryServer", <<>>)
  /\ UNCHANGED <<mutex, objectVars, handle, left, fileVars, signalVars>>

(* ... and that of the server for a server that exists.                    *)
ServerFails(p) ==
  /\ "wait" \in Faults
  /\ (pc[p] = "server" /\ left[p] > 0) \/ pc[p] = "serverStops"
  /\ Leave(p)
  /\ UNCHANGED <<mutex, objectVars, handle, left, fileVars, signalVars>>

(* SharedWriteDataAccess::Write: wait for space, write, post data.         *)
ServerWrites(p) ==
  /\ pc[p] = "server" /\ left[p] > 0
  /\ Value(p, "reader", "space") > 0
  /\ value' = [value EXCEPT
       !["space"][handle[p]["reader"]["space"]] = @ - 1,
       !["data"][handle[p]["reader"]["data"]] = @ + 1]
  /\ left' = [left EXCEPT ![p] = @ - 1]
  /\ UNCHANGED <<mutex, current, pc, todo, handle, fileVars, signalVars>>

(* FileDataTransferTask::Run: when the reader throws, the server stops.    *)
ServerThrows(p) ==
  /\ "reader" \in Faults
  /\ pc[p] = "server" /\ left[p] > 0
  /\ left' = [left EXCEPT ![p] = 0]
  /\ UNCHANGED <<mutex, objectVars, pc, todo, handle, fileVars, signalVars>>

(* Slip: the post never throws.                                            *)
ServerPostsStopAnyway(p) ==
  /\ pc[p] = "server" /\ left[p] = 0
  /\ Post(p, "reader", "stop") /\ Goto(p, "serverStops", <<>>)
  /\ UNCHANGED <<mutex, current, handle, left, fileVars, signalVars>>

(* SharedWriteDataAccess::Stop posts the stop and tries for space in turn, *)
(* until it gets it or the post throws.                                    *)
ServerPostsStop(p) ==
  /\ pc[p] = "server" /\ left[p] = 0
  /\ IF Value(p, "reader", "stop") < SemaphoreMax
     THEN Post(p, "reader", "stop") /\ Goto(p, "serverStops", <<>>)
     ELSE Leave(p) /\ UNCHANGED value
  /\ UNCHANGED <<mutex, current, handle, left, fileVars, signalVars>>

ServerTriesSpace(p) ==
  /\ pc[p] = "serverStops"
  /\ IF Value(p, "reader", "space") > 0
     THEN Take(p, "reader", "space") /\ Leave(p)
     ELSE Goto(p, "server", <<>>) /\ UNCHANGED value
  /\ UNCHANGED <<mutex, current, handle, left, fileVars, signalVars>>

-----------------------------------------------------------------------------
(* The end of a process.                                                   *)

(* What becomes of a process that removes names.                           *)
Outcome == [cleanup |-> "ended", unwinding |-> "failed"]

(* The next name is removed, whoever created what it names.  With the last *)
(* one the process is gone, and with it its handles and, if one is at      *)
(* work, its handler.                                                      *)
Remove(p) ==
  /\ pc[p] \in {"cleanup", "unwinding"}
  /\ LET n == Head(todo[p]) IN
       IF n \in Names
       THEN current' = [current EXCEPT ![n] = 0] /\ UNCHANGED mutex
       ELSE mutex' = [mutex EXCEPT ![n] = NoProc] /\ UNCHANGED current
  /\ todo' = [todo EXCEPT ![p] = Tail(@)]
  /\ IF todo'[p] = <<>>
     THEN /\ pc' = [pc EXCEPT ![p] = Outcome[@]]
          /\ handle' = [handle EXCEPT ![p] = Closed]
          /\ handling' = [handling EXCEPT ![p] = <<>>]
     ELSE UNCHANGED <<pc, handle, handling>>
  /\ UNCHANGED <<value, left, fileVars, late>>

Gone(p) == pc[p] \in {"ended", "failed", "killed"}

(* Slip: exit and nothing else.                                            *)
InterruptExits(p) ==
  /\ p \in Interruptible
  /\ pc[p] # "idle" /\ ~Gone(p) /\ handling[p] = <<>>
  /\ handling' = [handling EXCEPT ![p] = <<"exit">>]
  /\ UNCHANGED <<mutex, objectVars, pc, todo, handle, left, fileVars, late>>

(* SIGINT, once for a process.  On Windows, for which alone the program is *)
(* made (NetworkTask.cpp:9), the handler runs in a thread of its own: the  *)
(* process goes on meanwhile.                                              *)
Interrupt(p) ==
  /\ p \in Interruptible
  /\ pc[p] # "idle" /\ ~Gone(p) /\ handling[p] = <<>>
  /\ handling' = [handling EXCEPT ![p] = Handling]
  /\ UNCHANGED <<mutex, objectVars, pc, todo, handle, left, fileVars, late>>

(* The handler removes the next mutex, whoever created it ...              *)
HandlerRemoves(p) ==
  /\ handling[p] # <<>> /\ Head(handling[p]) \in RoleNames
  /\ mutex' = [mutex EXCEPT ![Head(handling[p])] = NoProc]
  /\ handling' = [handling EXCEPT ![p] = Tail(@)]
  /\ UNCHANGED <<objectVars, pc, todo, handle, left, fileVars, late>>

(* ... and ends the process, wherever it is, with no destructor run.       *)
HandlerExits(p) ==
  /\ handling[p] # <<>> /\ Head(handling[p]) = "exit"
  /\ Goto(p, "killed", <<>>)
  /\ handle' = [handle EXCEPT ![p] = Closed]
  /\ handling' = [handling EXCEPT ![p] = <<>>]
  /\ UNCHANGED <<mutex, objectVars, left, fileVars, late>>

-----------------------------------------------------------------------------
Process(p) ==
  \/ Create(p) \/ Open(p) \/ OpenFails(p) \/ OpenSource(p) \/ OpenDestination(p)
  \/ TryClient(p) \/ TryServer(p)
  \/ ClientChecksStop(p) \/ ClientReads(p) \/ ClientWrites(p) \/ ClientThrows(p)
  \/ ClientFails(p) \/ ServerFails(p)
  \/ ServerWrites(p) \/ ServerThrows(p) \/ ServerPostsStop(p) \/ ServerTriesSpace(p)
  \/ Remove(p) \/ Interrupt(p) \/ HandlerRemoves(p) \/ HandlerExits(p)

Next == \E p \in Procs : Process(p)

Spec == Init /\ [][Next]_vars
-----------------------------------------------------------------------------
(* Properties.                                                             *)

Running(role) ==
  {p \in Procs : pc[p] \in IF role = "client" THEN {"client", "clientReads", "clientWrites"}
                                              ELSE {"server", "serverStops"}}

TypeOK ==
  /\ mutex \in [RoleNames -> Procs \cup {NoProc}]
  /\ value \in [Names -> Seq(Nat)]
  /\ current \in [Names -> Nat]
  /\ pc \in [Procs -> States]
  /\ todo \in [Procs -> Seq(Names \cup RoleNames)]
  /\ handle \in [Procs -> [Sides -> [Names -> Nat]]]
  /\ left \in [Procs -> 0 .. Chunks]
  /\ written \in [Procs -> Nat] /\ file \subseteq Nat
  /\ handling \in [Procs -> Seq(RoleNames \cup {"exit"})]
  /\ late \subseteq Procs \X RoleNames
  /\ \A g \in 1 .. Len(value["stop"]) : value["stop"][g] <= SemaphoreMax

(***************************************************************************)
(* Whoever finds a mutex finds a process that is still there, whatever has *)
(* failed or been interrupted (MultiProcessTask.cpp:26, 38), except for one*)
(* mutex: that which a process has created while its handler of SIGINT was *)
(* at work.  An interrupted transfer leaves no role behind.                *)
(***************************************************************************)
RoleOfTheLiving ==
  \A r \in RoleNames :
    mutex[r] # NoProc => ~Gone(mutex[r]) \/ <<mutex[r], r>> \in late

NamesRemoved == \A n \in Names : current[n] = 0

(***************************************************************************)
(* When all that were started have ended, in whatever order and with       *)
(* whatever failure but that of a name, and none was ended by SIGINT, no   *)
(* name is left.                                                           *)
(***************************************************************************)
NothingIsLeft == (\A p \in Procs : pc[p] \in {"idle", "ended"}) => NamesRemoved

(***************************************************************************)
(* With processes that have failed in the constructor of their first data  *)
(* access (SharedWriteDataAccess.h:38, whose destructor does not run) only *)
(* the names of semaphores can be left: not that of the memory, and no     *)
(* role is taken.                                                          *)
(***************************************************************************)
OnlySemaphoresAreLeft ==
  (\A p \in Procs : pc[p] \in {"idle", "ended", "failed"}) =>
    current["memory"] = 0 /\ \A r \in RoleNames : mutex[r] = NoProc

(***************************************************************************)
(* Until the first process leaves or is interrupted there is one client    *)
(* and one server at most, also when the mutex of a role could not be      *)
(* created or a client has gone on as server, and they have the same       *)
(* memory and the same semaphores.                                         *)
(***************************************************************************)
PairIsConnected ==
  (\A p \in Procs : ~Gone(p) /\ pc[p] \notin {"cleanup", "unwinding"} /\ handling[p] = <<>>) =>
    /\ \A r \in RoleNames : \A p, q \in Running(r) : p = q
    /\ \A p \in Running("client"), q \in Running("server") :
         handle[p]["writer"] = handle[q]["reader"]

(***************************************************************************)
(* Every process truncates the destination on its way (FileDataWriter.h:   *)
(* 55), the server and those turned away too.  As long as no process but   *)
(* those of the pair has been started, and neither is interrupted, none of *)
(* this costs the client a chunk it has written.                           *)
(***************************************************************************)
PairKeepsFile ==
  (\A p \in Procs :
     /\ pc[p] = "idle" \/ p \in Running("client") \cup Running("server")
     /\ handling[p] = <<>>) =>
    \A p \in Running("client") : 1 .. written[p] \subseteq file

(***************************************************************************)
(* A process that starts as server because a "client already exists"       *)
(* (MultiProcessTask.cpp:71) has the memory and the semaphores of a client.*)
(***************************************************************************)
ServerHasClient ==
  \A p \in Running("client"), q \in Running("server") :
    handle[p]["writer"] = handle[q]["reader"]
=============================================================================
