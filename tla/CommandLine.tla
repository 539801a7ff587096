----------------------------- MODULE CommandLine -----------------------------
(***************************************************************************)
(* A start of the program, from main to the end of the task: Command/      *)
(* ProgramOptions.h, Factory/*, the Create functions of the three tasks,   *)
(* and what they do to the files, for any number of programs that run at   *)
(* the same time in the same directory.                                    *)
(*                                                                         *)
(* What a running task does is the subject of the other modules; here only *)
(* the files matter.  The content of a file is the set of those files some *)
(* of whose original bytes it has.  The folders of the network server lie  *)
(* outside, and are part of NetworkTransfer.                               *)
(***************************************************************************)
EXTENDS Naturals, Sequences

CONSTANTS
  Programs,    \* the starts of the program
  Files,       \* the files of the directory
  NoFile,      \* an option that is not given
  MaxSources   \* bound on the sources of a command line

ASSUME CommandAssumption ==
  /\ NoFile \notin Files
  /\ MaxSources \in Nat

VARIABLES
  step,       \* where a program is
  command,    \* the SCommand of an accepted command line
  opened,     \* the sources whose readers have been created
  disk,       \* the content of each file
  taken,      \* the named mutexes of the multi_process mode that exist
  handling,   \* the processes whose handler of SIGINT has removed them
  touched     \* history: the files a program has truncated or written

vars == <<step, command, opened, disk, taken, handling, touched>>

Absent == {NoFile}

Modes == {"multi_thread", "multi_process", "network"}

SourceLists == UNION {[1 .. n -> Files] : n \in 0 .. MaxSources}

Lines == [request : {"help", "malformed", "task"},
          mode : Modes \cup {"none", "other"},
          network : {"server", "client", "none", "other"},
          shared : BOOLEAN,
          sources : SourceLists,
          dest : Files \cup {NoFile}]

Commands == [mode : Modes, network : {"server", "client", "none"},
             sources : SourceLists, dest : Files \cup {NoFile}]

NoCommand == [mode |-> "none"]

Init ==
  /\ step = [p \in Programs |-> "parse"]
  /\ command = [p \in Programs |-> NoCommand]
  /\ opened = [p \in Programs |-> <<>>]
  /\ disk \in {d \in [Files -> SUBSET Files \cup {Absent}] : \A f \in Files : d[f] \in {{f}, Absent}}
  /\ taken = {}
  /\ handling = {}
  /\ touched = [p \in Programs |-> {}]

-----------------------------------------------------------------------------
(* ProgramOptions::Parse.                                                  *)

ParseMode(mode) ==
  IF mode = "none" THEN "multi_thread" ELSE IF mode = "other" THEN "Undefined" ELSE mode

ParseNetworkMode(network) == IF network = "other" THEN "none" ELSE network

(* Slip: the network mode is not asked for.                                *)
RejectsButNetwork(line) ==
  \/ line.request # "task"
  \/ ParseMode(line.mode) = "Undefined"
  \/ ParseMode(line.mode) = "multi_process" /\ ~line.shared

Rejects(line) ==
  \/ line.request # "task"
  \/ ParseMode(line.mode) = "Undefined"
  \/ ParseMode(line.mode) = "network" /\ ParseNetworkMode(line.network) = "none"
  \/ ParseMode(line.mode) = "multi_process" /\ ~line.shared

(* The SCommand, without what no task of its mode looks at.                *)
CommandOf(line) ==
  LET mode == ParseMode(line.mode) IN
  [mode    |-> mode,
   network |-> IF mode = "network" THEN ParseNetworkMode(line.network) ELSE "none",
   sources |-> line.sources,
   dest    |-> IF mode = "network" THEN NoFile ELSE line.dest]

IsProcess(p) == command[p].mode = "multi_process"

(* ~MultiProcessTask: the Cleaner removes both mutexes, whoever has made   *)
(* them.                                                                   *)
Clean(p) == taken' = IF IsProcess(p) THEN {} ELSE taken

(* An exception that reaches main.                                         *)
Fail(p) ==
  /\ step' = [step EXCEPT ![p] = "failed"]
  /\ Clean(p)
  /\ UNCHANGED <<command, opened, disk, handling, touched>>

(* Help and errors give no command, for which TaskFactory::Run throws.     *)
Parse(p) ==
  /\ step[p] = "parse"
  /\ \E line \in Lines :
       IF Rejects(line)
       THEN Fail(p)
       ELSE /\ command' = [command EXCEPT ![p] = CommandOf(line)]
            /\ step' = [step EXCEPT ![p] = "create"]
            /\ UNCHANGED <<opened, disk, taken, handling, touched>>

-----------------------------------------------------------------------------
(* The factories: TaskFactory::Run and the Create of the task.             *)

IsServer(p) == command[p].network = "server"

(* The sources a task uses.  The client of the network takes them all; the *)
(* other modes take the first and ignore the rest, which need not exist.   *)
Used(p) ==
  LET sources == command[p].sources IN
  IF IsServer(p) \/ sources = <<>> THEN <<>>
  ELSE IF command[p].network = "client" THEN sources ELSE <<Head(sources)>>

SourcesReady(p) ==
  /\ step[p] = "create"
  /\ opened[p] = Used(p)
  /\ IsServer(p) \/ command[p].sources # <<>>

Source(p) == Used(p)[Len(opened[p]) + 1]

(* FileDataReader::Create for the next source, behind a                    *)
(* FileNameSegmentReader and before a TCPClient if it is to be sent.       *)
OpenSource(p) ==
  /\ step[p] = "create"
  /\ Len(opened[p]) < Len(Used(p))
  /\ disk[Source(p)] # Absent
  /\ opened' = [opened EXCEPT ![p] = Append(@, Source(p))]
  /\ UNCHANGED <<step, command, disk, taken, handling, touched>>

(* No source is given, or it cannot be opened, or what is made before or   *)
(* after it fails: the objects of the shared memory, a TCPClient that      *)
(* cannot resolve the name of its server.                                  *)
SourceFails(p) ==
  /\ step[p] = "create"
  /\ ~IsServer(p)
  /\ command[p].sources = <<>> \/ Len(opened[p]) < Len(Used(p))
  /\ Fail(p)

(* Slip: the destination is appended to.                                   *)
TruncateNothing(p) ==
  /\ disk' = [disk EXCEPT ![command[p].dest] = @ \ Absent]
  /\ touched' = [touched EXCEPT ![p] = @ \cup {command[p].dest}]

(* The file is created or truncated.                                       *)
Truncate(p) ==
  /\ disk' = [disk EXCEPT ![command[p].dest] = {}]
  /\ touched' = [touched EXCEPT ![p] = @ \cup {command[p].dest}]

(* Slip: the writer is created before the reader.                          *)
OpenDestinationFirst(p) ==
  /\ step[p] = "create" /\ opened[p] = <<>>
  /\ command[p].mode # "network" /\ command[p].dest # NoFile
  /\ Truncate(p)
  /\ UNCHANGED <<step, command, opened, taken, handling>>

(* WriterFactory::CreateTask, FileDataWriter::Create.                      *)
OpenDestination(p) ==
  /\ SourcesReady(p)
  /\ command[p].mode # "network" /\ command[p].dest # NoFile
  /\ Truncate(p)
  /\ step' = [step EXCEPT ![p] = "run"]
  /\ UNCHANGED <<command, opened, taken, handling>>

(* dest.value() throws without a destination, FileDataWriter::Create if it *)
(* cannot be opened, SharedReadDataAccess if it cannot open its objects.   *)
DestinationFails(p) ==
  /\ SourcesReady(p)
  /\ command[p].mode # "network"
  /\ Fail(p)

(* NetworkTask::Create needs no destination; the acceptor of a server may  *)
(* not get its port.                                                       *)
CreateNetworkTask(p) ==
  /\ SourcesReady(p)
  /\ command[p].mode = "network"
  /\ \/ /\ step' = [step EXCEPT ![p] = "run"]
        /\ UNCHANGED <<command, opened, disk, taken, handling, touched>>
     \/ IsServer(p) /\ Fail(p)

-----------------------------------------------------------------------------
(* The tasks.                                                              *)

(* Slip: it is the last source that is read.                               *)
TransferLast(p, q) ==
  /\ LET sources == command[q].sources IN
       \E bytes \in SUBSET (disk[sources[Len(sources)]] \ Absent) :
         disk' = [disk EXCEPT ![command[p].dest] = @ \cup bytes]
  /\ UNCHANGED <<step, command, opened, taken, handling, touched>>

(* Some of what q's source holds reaches the destination of p.             *)
Transfer(p, q) ==
  /\ \E bytes \in SUBSET (disk[opened[q][1]] \ Absent) :
       disk' = [disk EXCEPT ![command[p].dest] = @ \cup bytes]
  /\ UNCHANGED <<step, command, opened, taken, handling, touched>>

Copy(p) ==
  /\ step[p] = "run" /\ command[p].mode = "multi_thread"
  /\ Transfer(p, p)

(* Whatever has happened to its transfer, the task returns.                *)
Finish(p) ==
  /\ step[p] = "run" /\ ~IsProcess(p)
  /\ step' = [step EXCEPT ![p] = "succeeded"]
  /\ UNCHANGED <<command, opened, disk, taken, handling, touched>>

(* MultiProcessTask::Run: the first mutex makes a client, the second one a *)
(* server, and whoever gets neither fails: "Server already exist."         *)
TakeRole(p) ==
  /\ step[p] = "run" /\ IsProcess(p)
  /\ IF "client" \in taken
     THEN step' = [step EXCEPT ![p] = "second"] /\ UNCHANGED taken
     ELSE step' = [step EXCEPT ![p] = "client"] /\ taken' = taken \cup {"client"}
  /\ UNCHANGED <<command, opened, disk, handling, touched>>

TakeSecondRole(p) ==
  /\ step[p] = "second"
  /\ IF "server" \in taken
     THEN Fail(p)
     ELSE /\ step' = [step EXCEPT ![p] = "server"]
          /\ taken' = taken \cup {"server"}
          /\ UNCHANGED <<command, opened, disk, handling, touched>>

CopyBetween(p, q) ==
  /\ step[p] = "client" /\ step[q] = "server"
  /\ Transfer(p, q)

(* A server whose stop semaphore overflows fails.                          *)
Leave(p) ==
  \/ /\ step[p] \in {"client", "server"}
     /\ step' = [step EXCEPT ![p] = "succeeded"]
     /\ Clean(p)
     /\ UNCHANGED <<command, opened, disk, handling, touched>>
  \/ step[p] = "server" /\ Fail(p)

Ended(p) == step[p] \in {"succeeded", "failed", "interrupted"}

(* SIGINT for a process: its handler removes both mutexes in a thread of   *)
(* its own, while the process goes on ...                                  *)
HandlerCleans(p) ==
  /\ IsProcess(p) /\ ~Ended(p) /\ p \notin handling
  /\ taken' = {}
  /\ handling' = handling \cup {p}
  /\ UNCHANGED <<step, command, opened, disk, touched>>

(* ... until the handler exits, as other programs do at once.              *)
Interrupt(p) ==
  /\ ~Ended(p)
  /\ IsProcess(p) => p \in handling
  /\ step' = [step EXCEPT ![p] = "interrupted"]
  /\ UNCHANGED <<command, opened, disk, taken, handling, touched>>

-----------------------------------------------------------------------------
Create(p) ==
  \/ OpenSource(p) \/ SourceFails(p)
  \/ OpenDestination(p) \/ DestinationFails(p) \/ CreateNetworkTask(p)

Run(p) == Copy(p) \/ Finish(p) \/ TakeRole(p) \/ TakeSecondRole(p) \/ Leave(p)

Next ==
  \/ \E p \in Programs : Parse(p) \/ Create(p) \/ Run(p) \/ HandlerCleans(p) \/ Interrupt(p)
  \/ \E p, q \in Programs : CopyBetween(p, q)

Spec == Init /\ [][Next]_vars
-----------------------------------------------------------------------------
(* Properties.                                                             *)

TypeOK ==
  /\ step \in [Programs -> {"parse", "create", "run", "second", "client", "server",
                            "succeeded", "failed", "interrupted"}]
  /\ command \in [Programs -> Commands \cup {NoCommand}]
  /\ \A p \in Programs : command[p] # NoCommand =>
       (command[p].mode = "network" <=> command[p].network # "none")
  /\ opened \in [Programs -> SourceLists]
  /\ disk \in [Files -> SUBSET Files \cup {Absent}]
  /\ taken \subseteq {"client", "server"}
  /\ handling \subseteq Programs
  /\ touched \in [Programs -> SUBSET Files]

(***************************************************************************)
(* A program loses bytes of an existing file, or creates one, only with a  *)
(* command that names the file as its destination, and when every source   *)
(* its task uses has been opened before (ReaderFactory before              *)
(* WriterFactory in MultiThreadTask.cpp:22-23 and                          *)
(* MultiProcessTask.cpp:54-55).                                            *)
(***************************************************************************)
FilesChangeByWholeCommands ==
  \A p \in Programs : \A f \in touched[p] :
    f = command[p].dest /\ opened[p] = Used(p) /\ opened[p] # <<>>

(* The file is the first source of a program that opened another file to   *)
(* write to, or of a process whose like did.                               *)
CopiedAway(f) ==
  \E p, q \in Programs :
    /\ p = q \/ (IsProcess(p) /\ IsProcess(q))
    /\ touched[p] \ {f} # {}
    /\ touched[q] # {} /\ command[q].sources # <<>> /\ f = Head(command[q].sources)

(***************************************************************************)
(* A destination never keeps or regains the bytes it had, unless they were *)
(* copied to another file: a copy of a file to itself empties it, and so   *)
(* do two programs, or the processes of one transfer, that copy two files  *)
(* to each other at the wrong time (FileDataWriter.h:55).                  *)
(***************************************************************************)
LostUnlessCopied ==
  \A p \in Programs : \A f \in touched[p] : f \in disk[f] => CopiedAway(f)

(***************************************************************************)
(* A program that reports a failure (the -1 of main) has not touched a     *)
(* file, except in the multi_process mode, where both roles may turn out   *)
(* to be taken when the destination is truncated already.                  *)
(***************************************************************************)
FailureLeavesFiles ==
  \A p \in Programs : step[p] = "failed" /\ touched[p] # {} => IsProcess(p)

(***************************************************************************)
(* However programs copy from and to each other's files, the bytes of a    *)
(* file get into others only by a program that names it as its first       *)
(* source: those behind the first, which the parser takes in every mode,   *)
(* are ignored without a word by the modes that have a destination         *)
(* (ReaderFactory.h:38 and 45).                                            *)
(***************************************************************************)
OnlyFirstSourcesAreCopied ==
  \A f, g \in Files : f \in disk[g] /\ f # g => CopiedAway(f)
=============================================================================
