-------------------------- MODULE CommandLine_proofs --------------------------
(***************************************************************************)
(* Proofs about CommandLine, for any number of programs, files and sources *)
(* of a command line.                                                      *)
(*                                                                         *)
(* What a program has done to files follows from where it is: Progress.    *)
(* Where the bytes of a file can be follows from the destinations that     *)
(* programs have opened and the sources they name: CopiedAway.             *)
(***************************************************************************)
EXTENDS CommandLine, SequenceLemmas

(* The states of a program whose task has been created.                    *)
Created == {"run", "second", "client", "server", "succeeded"}

(* The destination of p has been opened, and with a source.                *)
DestinationOpen(p) ==
  /\ command[p].mode # "network"
  /\ touched[p] = {command[p].dest}
  /\ opened[p] = Used(p) /\ opened[p] # <<>>

IsPrefix(s, t) ==
  Len(s) <= Len(t) /\ \A i \in 1 .. Len(s) : s[i] = t[i]

Progress(p) ==
  /\ step[p] = "parse" => command[p] = NoCommand /\ opened[p] = <<>> /\ touched[p] = {}
  /\ step[p] \in Created \cup {"create"} => command[p] \in Commands
  /\ step[p] = "create" => touched[p] = {} /\ IsPrefix(opened[p], Used(p))
  /\ step[p] \in Created =>
       /\ opened[p] = Used(p)
       /\ command[p].mode # "network" => touched[p] = {command[p].dest}
  /\ step[p] \in {"second", "client", "server"} => IsProcess(p)
  /\ touched[p] # {} => command[p] \in Commands /\ DestinationOpen(p)
  /\ step[p] = "failed" /\ touched[p] # {} => IsProcess(p)

IInv ==
  /\ TypeOK /\ \A p \in Programs : Progress(p)
  /\ LostUnlessCopied /\ OnlyFirstSourcesAreCopied

(* A list of sources is a sequence that is short enough.                   *)
LEMMA SourceListsAreSeq ==
  \A s : s \in SourceLists <=> s \in Seq(Files) /\ Len(s) <= MaxSources
<1>1. ASSUME NEW s \in SourceLists PROVE s \in Seq(Files) /\ Len(s) <= MaxSources
  <2>1. PICK n \in 0 .. MaxSources : s \in [1 .. n -> Files]
    BY DEF SourceLists
  <2>2. n \in Nat /\ n <= MaxSources
    BY CommandAssumption
  <2>3. QED BY <2>1, <2>2, FunctionIsSeq
<1>2. ASSUME NEW s \in Seq(Files), Len(s) <= MaxSources PROVE s \in SourceLists
  <2>1. s \in [1 .. Len(s) -> Files] /\ Len(s) \in 0 .. MaxSources
    BY <1>2, CommandAssumption, LenProperties
  <2>2. QED BY <2>1 DEF SourceLists
<1>3. QED BY <1>1, <1>2

LEMMA EmptyIsList == <<>> \in SourceLists
<1>1. <<>> \in Seq(Files) /\ Len(<<>>) <= MaxSources
  BY EmptySeq, CommandAssumption
<1>2. QED BY <1>1, SourceListsAreSeq

(* What a task reads is a list of sources too.                             *)
LEMMA PartIsList ==
  ASSUME NEW c \in Commands, NEW s,
         s \in {<<>>, c.sources} \/ (c.sources # <<>> /\ s = <<Head(c.sources)>>)
  PROVE  s \in SourceLists
<1> DEFINE sources == c.sources
<1>1. sources \in Seq(Files) /\ Len(sources) <= MaxSources
  BY SourceListsAreSeq DEF Commands
<1>2. ASSUME sources # <<>>
      PROVE  <<Head(sources)>> \in Seq(Files) /\ Len(<<Head(sources)>>) <= MaxSources
  <2>1. Head(sources) \in Files
    BY <1>1, <1>2, HeadTailProperties
  <2>2. 1 <= Len(sources)
    BY <1>1, <1>2, EmptySeq
  <2>3. QED BY <1>1, <2>1, <2>2, CommandAssumption
<1>3. QED BY <1>1, <1>2, EmptyIsList, SourceListsAreSeq

LEMMA UsedType ==
  ASSUME NEW p, command[p] \in Commands
  PROVE  Used(p) \in SourceLists
  BY PartIsList DEF Used

(* A program that makes no step keeps its progress.                        *)
LEMMA ProgressFrame ==
  ASSUME NEW q, Progress(q),
         step'[q] = step[q], command'[q] = command[q],
         opened'[q] = opened[q], touched'[q] = touched[q]
  PROVE  Progress(q)'
  BY DEF Progress, DestinationOpen, Used, IsServer, IsProcess, IsPrefix

LEMMA InitInv == Init => IInv
<1> SUFFICES ASSUME Init PROVE IInv
  OBVIOUS
<1>1. TypeOK
  <2>1. <<>> \in SourceLists
    BY EmptyIsList
  <2>2. QED BY <2>1 DEF Init, TypeOK
<1>2. \A p \in Programs : Progress(p)
  BY DEF Init, Progress, Created
<1>3. LostUnlessCopied /\ OnlyFirstSourcesAreCopied
  BY CommandAssumption DEF Init, LostUnlessCopied, OnlyFirstSourcesAreCopied, Absent
<1>4. QED BY <1>1, <1>2, <1>3 DEF IInv

(* A file that was copied away stays so.                                   *)
LEMMA CopiedFrame ==
  ASSUME NEW f, CopiedAway(f),
         \A p \in Programs : /\ touched[p] \subseteq touched'[p]
                             /\ touched[p] # {} => command'[p] = command[p]
  PROVE  CopiedAway(f)'
<1>1. PICK p \in Programs, q \in Programs :
        /\ p = q \/ (IsProcess(p) /\ IsProcess(q))
        /\ touched[p] \ {f} # {}
        /\ touched[q] # {} /\ command[q].sources # <<>> /\ f = Head(command[q].sources)
  BY DEF CopiedAway
<1>2. /\ command'[p] = command[p] /\ command'[q] = command[q]
      /\ touched'[p] \ {f} # {} /\ touched'[q] # {}
  BY <1>1
<1>3. QED BY <1>1, <1>2 DEF CopiedAway, IsProcess

(* A step that touches no file.                                            *)
LEMMA FilesFrame ==
  ASSUME IInv, UNCHANGED <<disk, touched>>,
         \A p \in Programs : touched[p] # {} => command'[p] = command[p]
  PROVE  LostUnlessCopied' /\ OnlyFirstSourcesAreCopied'
<1>1. ASSUME NEW f, CopiedAway(f) PROVE CopiedAway(f)'
  BY <1>1, CopiedFrame
<1>2. QED BY <1>1 DEF IInv, LostUnlessCopied, OnlyFirstSourcesAreCopied

(* A step that only moves p on, and mutexes with it.                       *)
LEMMA MoveInv ==
  ASSUME IInv, NEW p \in Programs,
         NEW label \in {"run", "second", "client", "server",
                        "succeeded", "failed", "interrupted"},
         step' = [step EXCEPT ![p] = label],
         taken' \subseteq {"client", "server"},
         UNCHANGED <<command, opened, disk, handling, touched>>,
         Progress(p)'
  PROVE  IInv'
<1>1. TypeOK'
  BY DEF IInv, TypeOK
<1>2. ASSUME NEW q \in Programs, q # p PROVE Progress(q)'
  BY <1>2, ProgressFrame DEF IInv, TypeOK
<1>3. QED BY <1>1, <1>2, FilesFrame DEF IInv

LEMMA FailInv ==
  ASSUME IInv, NEW p \in Programs, Fail(p),
         touched[p] = {} \/ IsProcess(p)
  PROVE  IInv'
<1>1. taken' \subseteq {"client", "server"}
  BY DEF IInv, TypeOK, Fail, Clean
<1>2. Progress(p)'
  BY DEF IInv, TypeOK, Fail, Progress, DestinationOpen, Used, IsServer, IsProcess, Created
<1>3. QED BY <1>1, <1>2, MoveInv DEF Fail

LEMMA ParseInv ==
  ASSUME IInv, NEW p \in Programs, Parse(p)
  PROVE  IInv'
<1>1. PICK line \in Lines :
        IF Rejects(line)
        THEN Fail(p)
        ELSE /\ command' = [command EXCEPT ![p] = CommandOf(line)]
             /\ step' = [step EXCEPT ![p] = "create"]
             /\ UNCHANGED <<opened, disk, taken, handling, touched>>
  BY DEF Parse
<1>2. opened[p] = <<>> /\ touched[p] = {}
  BY DEF Parse, IInv, Progress
<1>3. CASE Rejects(line)
  BY <1>1, <1>2, <1>3, FailInv
<1>4. CASE ~Rejects(line)
  <2>1. /\ CommandOf(line) \in Commands
        /\ CommandOf(line).mode = "network" <=> CommandOf(line).network # "none"
    BY <1>4 DEF CommandOf, Commands, Lines, Rejects, ParseMode, ParseNetworkMode, Modes
  <2>2. TypeOK'
    <3>1. /\ command' = [command EXCEPT ![p] = CommandOf(line)]
          /\ step' = [step EXCEPT ![p] = "create"]
          /\ UNCHANGED <<opened, disk, taken, handling, touched>>
      BY <1>1, <1>4
    <3>2. \A q \in Programs : command'[q] # NoCommand =>
            (command'[q].mode = "network" <=> command'[q].network # "none")
      BY <2>1, <3>1 DEF IInv, TypeOK
    <3>3. QED BY <2>1, <3>1, <3>2 DEF IInv, TypeOK
  <2>3. command'[p] \in Commands /\ step'[p] = "create"
    BY <1>1, <1>4, <2>1 DEF IInv, TypeOK
  <2>4. IsPrefix(<<>>, Used(p)')
    <3>1. Used(p)' \in SourceLists
      BY <2>3, PartIsList DEF Used
    <3>2. QED BY <3>1, SourceListsAreSeq, LenProperties, EmptySeq DEF IsPrefix
  <2>5. ASSUME NEW q \in Programs PROVE Progress(q)'
    <3>1. CASE q # p
      BY <1>1, <1>4, <3>1, ProgressFrame DEF IInv, TypeOK
    <3>2. CASE q = p
      BY <1>1, <1>2, <1>4, <2>3, <2>4, <3>2 DEF Progress, Created
    <3>3. QED BY <3>1, <3>2
  <2>6. \A q \in Programs : touched[q] # {} => command'[q] = command[q]
    BY <1>1, <1>2, <1>4 DEF IInv, TypeOK
  <2>7. QED BY <1>1, <1>4, <2>2, <2>5, <2>6, FilesFrame DEF IInv
<1>5. QED BY <1>3, <1>4

LEMMA OpenSourceInv ==
  ASSUME IInv, NEW p \in Programs, OpenSource(p)
  PROVE  IInv'
<1> DEFINE old == opened[p]
           used == Used(p)
           n == Len(old)
<1>1. /\ old \in Seq(Files) /\ used \in Seq(Files) /\ Len(used) <= MaxSources
      /\ IsPrefix(old, used) /\ n < Len(used)
      /\ command[p] \in Commands
      /\ opened' = [opened EXCEPT ![p] = Append(old, used[n + 1])]
      /\ UNCHANGED <<step, command, disk, taken, handling, touched>>
      /\ touched[p] = {} /\ step[p] = "create"
  BY UsedType, SourceListsAreSeq DEF IInv, TypeOK, OpenSource, Progress, Source
<1>2. Used(p)' = used
  BY <1>1 DEF Used, IsServer
<1> HIDE DEF old, used
<1>3. /\ Append(old, used[n + 1]) \in Seq(Files)
      /\ Len(Append(old, used[n + 1])) = n + 1
      /\ IsPrefix(Append(old, used[n + 1]), used)
  <2>1. n \in Nat /\ Len(used) \in Nat
    BY <1>1, LenProperties
  <2>2. n + 1 \in 1 .. Len(used) /\ used[n + 1] \in Files
    BY <1>1, <2>1, ElementOfSeq
  <2>3. /\ Append(old, used[n + 1]) \in Seq(Files)
        /\ Len(Append(old, used[n + 1])) = n + 1
        /\ \A i \in 1 .. n : Append(old, used[n + 1])[i] = old[i]
        /\ Append(old, used[n + 1])[n + 1] = used[n + 1]
    BY <1>1, <2>1, <2>2
  <2>4. QED BY <1>1, <2>1, <2>2, <2>3 DEF IsPrefix
<1>4. Append(old, used[n + 1]) \in SourceLists
  <2>1. n + 1 <= MaxSources
    BY <1>1, LenProperties, CommandAssumption
  <2>2. QED BY <1>3, <2>1, SourceListsAreSeq
<1>5. TypeOK'
  BY <1>1, <1>4 DEF IInv, TypeOK
<1>6. ASSUME NEW q \in Programs PROVE Progress(q)'
  <2>1. CASE q # p
    BY <1>1, <2>1, ProgressFrame DEF IInv, TypeOK
  <2>2. CASE q = p
    <3>1. opened'[p] = Append(old, used[n + 1])
      BY <1>1 DEF IInv, TypeOK
    <3>2. IsPrefix(opened[p], Used(p))'
      BY <1>2, <1>3, <3>1 DEF IsPrefix
    <3>3. QED BY <1>1, <2>2, <3>2 DEF Progress, Created
  <2>3. QED BY <2>1, <2>2
<1>7. QED BY <1>1, <1>5, <1>6, FilesFrame DEF IInv

LEMMA OpenDestinationInv ==
  ASSUME IInv, NEW p \in Programs, OpenDestination(p)
  PROVE  IInv'
<1> DEFINE d == command[p].dest
<1>1. /\ step[p] = "create" /\ command[p] \in Commands
      /\ d \in Files /\ command[p].mode # "network"
      /\ disk' = [disk EXCEPT ![d] = {}]
      /\ touched' = [touched EXCEPT ![p] = @ \cup {d}]
      /\ step' = [step EXCEPT ![p] = "run"]
      /\ UNCHANGED <<command, opened, taken, handling>>
      /\ opened[p] = Used(p) /\ touched[p] = {}
  BY DEF IInv, Progress, OpenDestination, Truncate, SourcesReady, Commands
<1>2. ~IsServer(p) /\ command[p].sources # <<>>
  <2>1. command[p] # NoCommand
    BY <1>1 DEF Commands, NoCommand, Modes
  <2>2. QED BY <1>1, <2>1 DEF IInv, TypeOK, OpenDestination, SourcesReady, IsServer
<1>3. Used(p) # <<>>
  BY <1>2 DEF Used
<1> HIDE DEF d
<1>4. TypeOK'
  BY <1>1 DEF IInv, TypeOK
<1>5. touched'[p] = {d}
  BY <1>1 DEF IInv, TypeOK
<1>6. ASSUME NEW q \in Programs PROVE Progress(q)'
  <2>1. CASE q # p
    BY <1>1, <2>1, ProgressFrame DEF IInv, TypeOK
  <2>2. CASE q = p
    <3>1. step'[p] = "run" /\ Used(p)' = Used(p)
      BY <1>1 DEF IInv, TypeOK, Used, IsServer
    <3>2. DestinationOpen(p)'
      BY <1>1, <1>3, <1>5, <3>1 DEF DestinationOpen, d
    <3>3. QED BY <1>1, <2>2, <3>1, <3>2 DEF Progress, DestinationOpen, Created
  <2>3. QED BY <2>1, <2>2
<1>7. \A q \in Programs : touched[q] \subseteq touched'[q]
  BY <1>1 DEF IInv, TypeOK
<1>8. ASSUME NEW f, CopiedAway(f) PROVE CopiedAway(f)'
  BY <1>1, <1>7, <1>8, CopiedFrame
<1>9. \A f, g \in Files : f \in disk'[g] => f \in disk[g] /\ g # d
  BY <1>1 DEF IInv, TypeOK
<1>10. LostUnlessCopied'
  <2> SUFFICES ASSUME NEW q \in Programs, NEW f \in touched'[q], f \in disk'[f]
               PROVE  CopiedAway(f)'
    BY DEF LostUnlessCopied
  <2>1. f \in disk[f] /\ f \in touched[q]
    BY <1>1, <1>4, <1>9 DEF IInv, TypeOK
  <2>2. QED BY <1>8, <2>1 DEF IInv, LostUnlessCopied
<1>11. OnlyFirstSourcesAreCopied'
  BY <1>8, <1>9 DEF IInv, OnlyFirstSourcesAreCopied
<1>12. QED BY <1>4, <1>6, <1>10, <1>11 DEF IInv

(* Bytes that reach the destination of p from the source of q.             *)
LEMMA TransferInv ==
  ASSUME IInv, NEW p \in Programs, NEW q \in Programs, Transfer(p, q),
         touched[p] # {}, touched[q] # {}, p = q \/ (IsProcess(p) /\ IsProcess(q))
  PROVE  IInv'
<1> DEFINE d == command[p].dest
           g == opened[q][1]
<1>1. d \in Files /\ touched[p] = {d}
  <2>1. touched[p] = {d} /\ touched[p] \subseteq Files
    BY DEF IInv, TypeOK, Progress, DestinationOpen
  <2>2. QED BY <2>1
<1>2. g \in Files
  <2>1. opened[q] \in Seq(Files) /\ opened[q] # <<>>
    BY SourceListsAreSeq DEF IInv, TypeOK, Progress, DestinationOpen
  <2>2. QED BY <2>1, EmptySeq, ElementOfSeq
<1>3. PICK bytes \in SUBSET (disk[g] \ Absent) :
        disk' = [disk EXCEPT ![d] = @ \cup bytes]
  BY DEF Transfer
<1>4. UNCHANGED <<step, command, opened, taken, handling, touched>>
  BY DEF Transfer
<1> HIDE DEF d, g
<1>5. TypeOK'
  BY <1>1, <1>2, <1>3, <1>4 DEF IInv, TypeOK
<1>6. ASSUME NEW r \in Programs PROVE Progress(r)'
  BY <1>4, ProgressFrame DEF IInv
<1>7. command[q].sources # <<>> /\ g = Head(command[q].sources)
  <2>1. /\ command[q] \in Commands /\ command[q].mode # "network"
        /\ opened[q] = Used(q) /\ opened[q] # <<>>
    BY DEF IInv, Progress, DestinationOpen
  <2>2. command[q] # NoCommand
    BY <2>1 DEF Commands, NoCommand, Modes
  <2>3. command[q].network = "none"
    BY <2>1, <2>2 DEF IInv, TypeOK
  <2>4. command[q].sources # <<>> /\ opened[q] = <<Head(command[q].sources)>>
    BY <2>1, <2>3 DEF Used, IsServer
  <2>5. QED BY <2>4 DEF g
<1>8. ASSUME NEW f, CopiedAway(f) PROVE CopiedAway(f)'
  BY <1>4, <1>8, CopiedFrame
<1>9. ASSUME NEW f \in Files, NEW h \in Files, f \in disk'[h], f \notin disk[h]
      PROVE  CopiedAway(f)'
  <2>1. h = d /\ f \in disk[g]
    BY <1>1, <1>2, <1>3, <1>9 DEF IInv, TypeOK
  <2>2. CASE f = g
    <3>1. touched[p] \ {f} # {}
      BY <1>1, <1>9, <2>1, <2>2
    <3>2. CopiedAway(f)
      BY <1>7, <2>2, <3>1 DEF CopiedAway
    <3>3. QED BY <1>8, <3>2
  <2>3. CASE f # g
    <3>1. CopiedAway(f)
      BY <1>2, <2>1, <2>3 DEF IInv, OnlyFirstSourcesAreCopied
    <3>2. QED BY <1>8, <3>1
  <2>4. QED BY <2>2, <2>3
<1>10. LostUnlessCopied'
  <2> SUFFICES ASSUME NEW r \in Programs, NEW f \in touched[r], f \in disk'[f]
               PROVE  CopiedAway(f)'
    BY <1>4 DEF LostUnlessCopied
  <2>1. f \in Files
    BY DEF IInv, TypeOK
  <2>2. CASE f \in disk[f]
    BY <1>8, <2>2 DEF IInv, LostUnlessCopied
  <2>3. CASE f \notin disk[f]
    BY <1>9, <2>1, <2>3
  <2>4. QED BY <2>2, <2>3
<1>11. OnlyFirstSourcesAreCopied'
  <2> SUFFICES ASSUME NEW f \in Files, NEW h \in Files, f \in disk'[h], f # h
               PROVE  CopiedAway(f)'
    BY DEF OnlyFirstSourcesAreCopied
  <2>1. CASE f \in disk[h]
    BY <1>8, <2>1 DEF IInv, OnlyFirstSourcesAreCopied
  <2>2. CASE f \notin disk[h]
    BY <1>9, <2>2
  <2>3. QED BY <2>1, <2>2
<1>12. QED BY <1>5, <1>6, <1>10, <1>11 DEF IInv

(* A program that runs in one of the modes with files has its destination. *)
LEMMA RunsWithDestination ==
  ASSUME NEW p \in Programs, Progress(p), step[p] \in Created, command[p].mode # "network"
  PROVE  touched[p] # {}
  BY DEF Progress

(* The step that a program makes within its mode.                          *)
LEMMA MoveKeeps ==
  ASSUME IInv, NEW p \in Programs, step[p] \in Created,
         NEW label \in Created,
         label \in {"second", "client", "server"} => IsProcess(p),
         step' = [step EXCEPT ![p] = label],
         UNCHANGED <<command, opened, handling, touched>>
  PROVE  Progress(p)'
  BY DEF IInv, TypeOK, Progress, DestinationOpen, Used, IsServer, IsProcess, Created

LEMMA CreateInv ==
  ASSUME IInv, NEW p \in Programs, Create(p)
  PROVE  IInv'
<1>1. step[p] = "create" => touched[p] = {}
  BY DEF IInv, Progress
<1>2. CASE OpenSource(p)
  BY <1>2, OpenSourceInv
<1>3. CASE SourceFails(p)
  BY <1>1, <1>3, FailInv DEF SourceFails
<1>4. CASE OpenDestination(p)
  BY <1>4, OpenDestinationInv
<1>5. CASE DestinationFails(p)
  BY <1>1, <1>5, FailInv DEF DestinationFails, SourcesReady
<1>6. CASE CreateNetworkTask(p)
  <2>1. CASE Fail(p)
    BY <1>1, <1>6, <2>1, FailInv DEF CreateNetworkTask, SourcesReady
  <2>2. CASE /\ step' = [step EXCEPT ![p] = "run"]
             /\ UNCHANGED <<command, opened, disk, taken, handling, touched>>
    <3>1. Progress(p)'
      BY <1>6, <2>2 DEF IInv, TypeOK, Progress, DestinationOpen, Used, IsServer,
         IsProcess, Created, CreateNetworkTask, SourcesReady
    <3>2. QED BY <2>2, <3>1, MoveInv DEF IInv, TypeOK
  <2>3. QED BY <1>6, <2>1, <2>2 DEF CreateNetworkTask
<1>7. QED BY <1>2, <1>3, <1>4, <1>5, <1>6 DEF Create

LEMMA RunInv ==
  ASSUME IInv, NEW p \in Programs, Run(p)
  PROVE  IInv'
<1>1. CASE Copy(p)
  <2>1. touched[p] # {}
    BY <1>1, RunsWithDestination DEF IInv, Copy, Created
  <2>2. QED BY <1>1, <2>1, TransferInv DEF Copy
<1>2. CASE Finish(p)
  <2>1. Progress(p)'
    BY <1>2, MoveKeeps DEF Finish, Created
  <2>2. QED BY <1>2, <2>1, MoveInv DEF Finish, IInv, TypeOK
<1>3. CASE TakeRole(p)
  <2>1. PICK label \in {"second", "client"} : step' = [step EXCEPT ![p] = label]
    BY <1>3 DEF TakeRole
  <2>2. Progress(p)'
    BY <1>3, <2>1, MoveKeeps DEF TakeRole, Created
  <2>3. taken' \subseteq {"client", "server"}
    BY <1>3 DEF TakeRole, IInv, TypeOK
  <2>4. QED BY <1>3, <2>1, <2>2, <2>3, MoveInv DEF TakeRole
<1>4. CASE TakeSecondRole(p)
  <2>1. IsProcess(p)
    BY <1>4 DEF TakeSecondRole, IInv, Progress
  <2>2. CASE Fail(p)
    BY <2>1, <2>2, FailInv
  <2>3. CASE ~Fail(p)
    <3>1. /\ step' = [step EXCEPT ![p] = "server"]
          /\ taken' = taken \cup {"server"}
          /\ UNCHANGED <<command, opened, disk, handling, touched>>
      BY <1>4, <2>3 DEF TakeSecondRole
    <3>2. Progress(p)'
      BY <1>4, <2>1, <3>1, MoveKeeps DEF TakeSecondRole, Created
    <3>3. QED BY <3>1, <3>2, MoveInv DEF IInv, TypeOK
  <2>4. QED BY <2>2, <2>3
<1>5. CASE Leave(p)
  <2>1. IsProcess(p) /\ step[p] \in Created
    BY <1>5 DEF Leave, Fail, IInv, Progress, Created
  <2>2. CASE Fail(p)
    BY <2>1, <2>2, FailInv
  <2>3. CASE ~Fail(p)
    <3>1. /\ step' = [step EXCEPT ![p] = "succeeded"]
          /\ Clean(p)
          /\ UNCHANGED <<command, opened, disk, handling, touched>>
      BY <1>5, <2>3 DEF Leave
    <3>2. Progress(p)'
      BY <2>1, <3>1, MoveKeeps DEF Created
    <3>3. taken' \subseteq {"client", "server"}
      BY <3>1 DEF Clean, IInv, TypeOK
    <3>4. QED BY <3>1, <3>2, <3>3, MoveInv
  <2>4. QED BY <2>2, <2>3
<1>6. QED BY <1>1, <1>2, <1>3, <1>4, <1>5 DEF Run

LEMMA NextInv == IInv /\ [Next]_vars => IInv'
<1> SUFFICES ASSUME IInv, [Next]_vars PROVE IInv'
  OBVIOUS
<1>1. ASSUME NEW p \in Programs, Parse(p) PROVE IInv'
  BY <1>1, ParseInv
<1>2. ASSUME NEW p \in Programs, Create(p) PROVE IInv'
  BY <1>2, CreateInv
<1>3. ASSUME NEW p \in Programs, Run(p) PROVE IInv'
  BY <1>3, RunInv
<1>4. ASSUME NEW p \in Programs, Interrupt(p) PROVE IInv'
  <2>1. Progress(p)'
    BY <1>4 DEF Interrupt, IInv, TypeOK, Progress, DestinationOpen, Used, IsServer,
       IsProcess, Created
  <2>2. taken' \subseteq {"client", "server"}
    BY <1>4 DEF Interrupt, IInv, TypeOK
  <2>3. QED BY <1>4, <2>1, <2>2, MoveInv DEF Interrupt
<1>5. ASSUME NEW p \in Programs, NEW q \in Programs, CopyBetween(p, q) PROVE IInv'
  <2>1. /\ step[p] = "client" /\ step[q] = "server"
        /\ command[p].mode = "multi_process" /\ command[q].mode = "multi_process"
    BY <1>5 DEF CopyBetween, IInv, Progress, IsProcess
  <2>2. touched[p] # {} /\ touched[q] # {}
    BY <2>1, RunsWithDestination DEF IInv, Created
  <2>3. IsProcess(p) /\ IsProcess(q)
    BY <2>1 DEF IsProcess
  <2>4. QED BY <1>5, <2>2, <2>3, TransferInv DEF CopyBetween
<1>6. CASE UNCHANGED vars
  <2>1. UNCHANGED <<step, command, opened, disk, taken, handling, touched>>
    BY <1>6 DEF vars
  <2>2. TypeOK' /\ \A p \in Programs : Progress(p)'
    BY <2>1, ProgressFrame DEF IInv, TypeOK
  <2>3. QED BY <2>1, <2>2, FilesFrame DEF IInv
<1>7. ASSUME NEW p \in Programs, HandlerCleans(p) PROVE IInv'
  <2>1. /\ UNCHANGED <<step, command, opened, disk, touched>>
        /\ taken' = {} /\ handling' = handling \cup {p}
    BY <1>7 DEF HandlerCleans
  <2>2. TypeOK' /\ \A q \in Programs : Progress(q)'
    BY <2>1, ProgressFrame DEF IInv, TypeOK
  <2>3. QED BY <2>1, <2>2, FilesFrame DEF IInv
<1>8. QED BY <1>1, <1>2, <1>3, <1>4, <1>5, <1>6, <1>7 DEF Next

(* The inductive invariant, and with it the type of the state.             *)
THEOREM Invariant == Spec => [](TypeOK /\ IInv)
<1>1. IInv => TypeOK
  BY DEF IInv
<1>2. QED BY InitInv, NextInv, <1>1, PTL DEF Spec

(***************************************************************************)
(* A file is truncated or written by a program only as the destination of  *)
(* its command, and with every source its task uses open.                  *)
(***************************************************************************)
THEOREM WholeCommands == Spec => []FilesChangeByWholeCommands
<1>1. IInv => FilesChangeByWholeCommands
  BY DEF IInv, Progress, DestinationOpen, FilesChangeByWholeCommands
<1>2. QED BY InitInv, NextInv, <1>1, PTL DEF Spec

(***************************************************************************)
(* The bytes of a destination are lost for good, unless another file has   *)
(* been opened as a destination: only from there they could come back.     *)
(***************************************************************************)
THEOREM DestinationIsLost == Spec => []LostUnlessCopied
<1>1. IInv => LostUnlessCopied
  BY DEF IInv
<1>2. QED BY InitInv, NextInv, <1>1, PTL DEF Spec

(***************************************************************************)
(* A program that reports a failure has touched a file only in the         *)
(* multi_process mode.                                                     *)
(***************************************************************************)
THEOREM FailuresTouchNothing == Spec => []FailureLeavesFiles
<1>1. IInv => FailureLeavesFiles
  BY DEF IInv, Progress, FailureLeavesFiles
<1>2. QED BY InitInv, NextInv, <1>1, PTL DEF Spec

(***************************************************************************)
(* Bytes of a file are copied only as those of a first source              *)
(* (ReaderFactory.h:38 and 45), through however many files they go.        *)
(***************************************************************************)
THEOREM FirstSourcesOnly == Spec => []OnlyFirstSourcesAreCopied
<1>1. IInv => OnlyFirstSourcesAreCopied
  BY DEF IInv
<1>2. QED BY InitInv, NextInv, <1>1, PTL DEF Spec
=============================================================================
