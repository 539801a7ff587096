---------------------- MODULE MultiProcessTask_proofs ----------------------
(***************************************************************************)
(* Proofs about MultiProcessTask, for any number of processes and chunks   *)
(* and every set of faults.                                                *)
(*                                                                         *)
(* All rests on what a process still has to do: the creator of a mutex     *)
(* runs, or has the name on its list of names to remove, or was ended by   *)
(* its handler of SIGINT after that had removed the name, and has taken it *)
(* in between; and for every name that is in use some process has opened   *)
(* it and will remove it or has it on its list, unless one has failed (and *)
(* the name is not that of the memory) or was ended by SIGINT.             *)
(***************************************************************************)
EXTENDS MultiProcessTask, SequenceLemmas

AllNames == Names \cup RoleNames

Occurs(s, x) == \E i \in 1 .. Len(s) : s[i] = x

RoleStates(r) ==
  IF r = "client" THEN {"client", "clientReads", "clientWrites"} ELSE {"server", "serverStops"}

Alive == {"reader", "writer", "tryClient", "tryServer", "client", "clientReads",
          "clientWrites", "server", "serverStops"}

Leaving == {"cleanup", "unwinding"}

(* Where the creator of a mutex can be before it leaves: a client may have *)
(* gone on as server.                                                      *)
Holding(r) ==
  IF r = "client" THEN {"client", "clientReads", "clientWrites", "tryServer", "server", "serverStops"}
  ELSE {"server", "serverStops"}

(* What a process that is setting up may have left to open.                *)
StillToOpen ==
  {Opening, <<"stop", "data", "space">>, <<"data", "space">>, <<"space">>, <<>>}

(* A process that removes names has one left to remove; one that is        *)
(* setting up opens the names in their order.                              *)
TodoInv ==
  \A p \in Procs : /\ pc[p] \in Leaving => todo[p] # <<>>
                   /\ pc[p] \in Sides => todo[p] \in StillToOpen

(* Why process p in state label with a list L may be the creator of r.     *)
Keeps(p, r, label, L) ==
  \/ label \in Holding(r)
  \/ label \in Leaving /\ Occurs(L, r)
  \/ label = "killed" /\ <<p, r>> \in late

RoleInv ==
  \A r \in RoleNames, p \in Procs : mutex[r] = p => Keeps(p, r, pc[p], todo[p])

StillToHandle == {<<"client", "server", "exit">>, <<"server", "exit">>, <<"exit">>}

(* The handler of p has still to remove what p had when it began.          *)
HandlerInv ==
  \A p \in Procs : handling[p] # <<>> =>
    /\ handling[p] \in StillToHandle
    /\ \A r \in RoleNames : mutex[r] = p => Occurs(handling[p], r) \/ <<p, r>> \in late

(* A process in state label with a list L may be why name n is in use.     *)
Accounts(label, L, n) ==
  \/ label \in Alive \ {"reader"}
  \/ label = "reader" /\ ~Occurs(L, n)
  \/ label \in {"cleanup", "unwinding"} /\ Occurs(L, n)
  \/ label \in {"unwinding", "failed"} /\ n # "memory"
  \/ label = "killed"

Responsible(p, n) == Accounts(pc[p], todo[p], n)

NameInv == \A n \in Names : current[n] # 0 => \E p \in Procs : Responsible(p, n)

IInv == TypeOK /\ TodoInv /\ RoleInv /\ HandlerInv /\ NameInv

LEMMA OccursConcat ==
  ASSUME NEW S, NEW s \in Seq(S), NEW t \in Seq(S), NEW x,
         Occurs(s, x) \/ Occurs(t, x)
  PROVE  Occurs(s \o t, x)
<1>1. /\ s \o t \in Seq(S) /\ Len(s \o t) = Len(s) + Len(t)
      /\ \A i \in 1 .. Len(s) + Len(t) :
           (s \o t)[i] = IF i <= Len(s) THEN s[i] ELSE t[i - Len(s)]
      /\ Len(s) \in Nat /\ Len(t) \in Nat
  BY ConcatProperties, LenProperties
<1>2. CASE Occurs(s, x)
  <2>1. PICK i \in 1 .. Len(s) : s[i] = x
    BY <1>2 DEF Occurs
  <2>2. i \in 1 .. Len(s \o t) /\ (s \o t)[i] = x
    BY <1>1, <2>1
  <2>3. QED BY <2>2 DEF Occurs
<1>3. CASE Occurs(t, x)
  <2>1. PICK i \in 1 .. Len(t) : t[i] = x
    BY <1>3 DEF Occurs
  <2>2. i + Len(s) \in 1 .. Len(s \o t) /\ (s \o t)[i + Len(s)] = x
    BY <1>1, <2>1
  <2>3. QED BY <2>2 DEF Occurs
<1>4. QED BY <1>2, <1>3

LEMMA OccursTail ==
  ASSUME NEW S, NEW s \in Seq(S), s # <<>>, NEW x, x # Head(s), Occurs(s, x)
  PROVE  Tail(s) # <<>> /\ Occurs(Tail(s), x)
<1>1. /\ Tail(s) \in Seq(S) /\ Len(Tail(s)) = Len(s) - 1
      /\ \A i \in 1 .. Len(Tail(s)) : Tail(s)[i] = s[i + 1]
      /\ Head(s) = s[1] /\ Len(s) \in Nat
  BY HeadTailProperties, LenProperties
<1>2. PICK i \in 1 .. Len(s) : s[i] = x
  BY DEF Occurs
<1>3. i # 1 /\ i - 1 \in 1 .. Len(Tail(s)) /\ Tail(s)[i - 1] = x
  BY <1>1, <1>2
<1>4. Tail(s) # <<>>
  <2>1. 0 < Len(Tail(s))
    BY <1>1, <1>3
  <2>2. \A t : 0 < Len(t) => t # <<>>
    OBVIOUS
  <2>3. QED BY <2>1, <2>2, Zenon
<1>5. QED BY <1>3, <1>4 DEF Occurs

(* Changing the element at a place that may not exist.                     *)
LEMMA SeqExcept ==
  ASSUME NEW s \in Seq(Nat), NEW g, NEW e, g \in 1 .. Len(s) => e \in Nat
  PROVE  /\ [s EXCEPT ![g] = e] \in Seq(Nat)
         /\ Len([s EXCEPT ![g] = e]) = Len(s)
         /\ \A i \in 1 .. Len(s) : [s EXCEPT ![g] = e][i] = IF i = g THEN e ELSE s[i]
<1>1. s \in [1 .. Len(s) -> Nat] /\ Len(s) \in Nat
  BY LenProperties
<1>2. [s EXCEPT ![g] = e] \in [1 .. Len(s) -> Nat]
  BY <1>1
<1>3. QED BY <1>1, <1>2, FunctionIsSeq

(* The lists a process leaves with: what is on them, and that they are     *)
(* never empty.                                                            *)
LEMMA Lists ==
  /\ Opening \in Seq(AllNames)
  /\ Roles \in Seq(AllNames) /\ Roles # <<>>
  /\ \A r \in RoleNames : Occurs(Roles, r)
  /\ \A S \in StillToOpen : S \in Seq(AllNames)
  /\ <<"memory">> \o Roles \in Seq(AllNames) /\ Occurs(<<"memory">> \o Roles, "memory")
  /\ \A r \in RoleNames : Occurs(<<"memory">> \o Roles, r)
  /\ \A L \in {Closing \o Roles, Closing \o Roles \o Closing, Roles \o Closing \o Closing,
              Roles \o Closing, <<"memory">> \o Roles \o Closing} :
       /\ L \in Seq(AllNames) /\ L # <<>>
       /\ \A x \in AllNames : Occurs(L, x)
<1>1. /\ Opening \in Seq(AllNames) /\ Opening \in Seq(Names) /\ Closing \in Seq(AllNames) /\ Roles \in Seq(AllNames)
  BY DEF Opening, Closing, Roles, AllNames, Names, RoleNames
<1>2. \A r \in RoleNames : Occurs(Roles, r)
  BY DEF Occurs, Roles, RoleNames
<1>3. \A n \in Names : Occurs(Closing, n)
  BY DEF Occurs, Closing, Names
<1>4. \A L \in Seq(AllNames) : (\E x \in AllNames : Occurs(L, x)) => L # <<>>
  BY EmptySeq DEF Occurs
<1>5. /\ Closing \o Roles \in Seq(AllNames)
      /\ \A x \in AllNames : Occurs(Closing \o Roles, x)
  BY <1>1, <1>2, <1>3, OccursConcat, ConcatProperties DEF AllNames
<1>6. /\ Closing \o Roles \o Closing \in Seq(AllNames)
      /\ \A x \in AllNames : Occurs(Closing \o Roles \o Closing, x)
  BY <1>1, <1>5, OccursConcat, ConcatProperties
<1>7. /\ Roles \o Closing \in Seq(AllNames)
      /\ \A x \in AllNames : Occurs(Roles \o Closing, x)
  BY <1>1, <1>2, <1>3, OccursConcat, ConcatProperties DEF AllNames
<1>8. /\ Roles \o Closing \o Closing \in Seq(AllNames)
      /\ \A x \in AllNames : Occurs(Roles \o Closing \o Closing, x)
  BY <1>1, <1>7, OccursConcat, ConcatProperties
<1>9. "client" \in AllNames /\ "client" \in RoleNames
  BY DEF AllNames, RoleNames
<1>10. <<"memory">> \in Seq(AllNames) /\ Occurs(<<"memory">>, "memory")
  BY DEF AllNames, Names, Occurs
<1>11. /\ <<"memory">> \o Roles \in Seq(AllNames)
       /\ Occurs(<<"memory">> \o Roles, "memory")
       /\ \A r \in RoleNames : Occurs(<<"memory">> \o Roles, r)
  BY <1>1, <1>2, <1>10, OccursConcat, ConcatProperties
<1>12. /\ <<"memory">> \o Roles \o Closing \in Seq(AllNames)
       /\ \A x \in AllNames : Occurs(<<"memory">> \o Roles \o Closing, x)
  BY <1>1, <1>3, <1>11, OccursConcat, ConcatProperties DEF AllNames
<1>13. \A S \in StillToOpen : S \in Seq(AllNames)
  <2>1. /\ <<"stop", "data", "space">> \in Seq(AllNames)
        /\ <<"data", "space">> \in Seq(AllNames)
    BY DEF AllNames, Names
  <2>2. <<"space">> \in Seq(AllNames) /\ <<>> \in Seq(AllNames)
    BY EmptySeq DEF AllNames, Names
  <2>3. QED BY <1>1, <2>1, <2>2 DEF StillToOpen
<1>14. QED BY <1>1, <1>2, <1>4, <1>5, <1>6, <1>7, <1>8, <1>9, <1>11, <1>12, <1>13

LEMMA InitInv == Init => IInv
<1> SUFFICES ASSUME Init PROVE IInv
  OBVIOUS
<1>1. TypeOK
  BY ProcessAssumption, EmptySeq
  DEF Init, TypeOK, States, Closed, Names, RoleNames, Sides
<1>2. TodoInv /\ RoleInv /\ HandlerInv /\ NameInv
  BY ProcessAssumption DEF Init, TodoInv, RoleInv, HandlerInv, NameInv, Leaving, Sides
<1>3. QED BY <1>1, <1>2 DEF IInv

(* The state of the process and of the objects, as TypeOK has it, after a  *)
(* step that changes one semaphore or none.                                *)
LEMMA PostType ==
  ASSUME TypeOK, NEW n \in Names, NEW g, NEW e,
         g \in 1 .. Len(value[n]) => e \in Nat,
         n = "stop" /\ g \in 1 .. Len(value[n]) => e <= SemaphoreMax,
         value' = [value EXCEPT ![n] = [@ EXCEPT ![g] = e]]
  PROVE  /\ value' \in [Names -> Seq(Nat)]
         /\ \A i \in 1 .. Len(value'["stop"]) : value'["stop"][i] <= SemaphoreMax
<1>1. value[n] \in Seq(Nat)
  BY DEF TypeOK
<1>2. /\ [value[n] EXCEPT ![g] = e] \in Seq(Nat)
      /\ Len([value[n] EXCEPT ![g] = e]) = Len(value[n])
      /\ \A i \in 1 .. Len(value[n]) :
           [value[n] EXCEPT ![g] = e][i] = IF i = g THEN e ELSE value[n][i]
  <2> DEFINE s == value[n]
  <2>1. s \in Seq(Nat) /\ (g \in 1 .. Len(s) => e \in Nat)
    BY <1>1
  <2> HIDE DEF s
  <2>2. /\ [s EXCEPT ![g] = e] \in Seq(Nat)
        /\ Len([s EXCEPT ![g] = e]) = Len(s)
        /\ \A i \in 1 .. Len(s) : [s EXCEPT ![g] = e][i] = IF i = g THEN e ELSE s[i]
    BY <2>1, SeqExcept
  <2>3. QED BY <2>2 DEF s
<1>3. QED BY <1>2 DEF TypeOK, Names

(* A semaphore that is posted, or taken from when it is not 0, keeps a     *)
(* natural value; nothing happens to the others.                           *)
LEMMA ChangedType ==
  ASSUME TypeOK, NEW n \in Names, NEW g \in Nat
  PROVE  /\ [value[n] EXCEPT ![g] = @ + 1] \in Seq(Nat)
         /\ value[n][g] > 0 => [value[n] EXCEPT ![g] = @ - 1] \in Seq(Nat)
<1> DEFINE s == value[n]
<1>1. s \in Seq(Nat)
  BY DEF TypeOK
<1>2. g \in 1 .. Len(s) => s[g] \in Nat
  BY <1>1, ElementOfSeq
<1> HIDE DEF s
<1>3. [s EXCEPT ![g] = s[g] + 1] \in Seq(Nat)
  <2>1. g \in 1 .. Len(s) => s[g] + 1 \in Nat
    BY <1>2
  <2>2. QED BY <1>1, <2>1, SeqExcept
<1>4. ASSUME s[g] > 0 PROVE [s EXCEPT ![g] = s[g] - 1] \in Seq(Nat)
  <2>1. g \in 1 .. Len(s) => s[g] - 1 \in Nat
    BY <1>2, <1>4
  <2>2. QED BY <1>1, <2>1, SeqExcept
<1>5. QED BY <1>3, <1>4 DEF s

ValueOK ==
  /\ value \in [Names -> Seq(Nat)]
  /\ \A g \in 1 .. Len(value["stop"]) : value["stop"][g] <= SemaphoreMax

LEMMA PostStep ==
  ASSUME TypeOK, NEW n \in Names, NEW g \in Nat,
         n = "stop" => value[n][g] < SemaphoreMax,
         value' = [value EXCEPT ![n][g] = @ + 1]
  PROVE  ValueOK'
<1>1. g \in 1 .. Len(value[n]) => value[n][g] \in Nat
  BY ElementOfSeq DEF TypeOK
<1>2. /\ g \in 1 .. Len(value[n]) => value[n][g] + 1 \in Nat
      /\ n = "stop" /\ g \in 1 .. Len(value[n]) => value[n][g] + 1 <= SemaphoreMax
  BY <1>1, ProcessAssumption
<1>3. QED BY <1>2, PostType DEF ValueOK

LEMMA TakeStep ==
  ASSUME TypeOK, NEW n \in Names, NEW g \in Nat, value[n][g] > 0,
         value' = [value EXCEPT ![n][g] = @ - 1]
  PROVE  ValueOK'
<1>1. g \in 1 .. Len(value[n]) =>
        value[n][g] \in Nat /\ (n = "stop" => value[n][g] <= SemaphoreMax)
  BY ElementOfSeq DEF TypeOK
<1>2. /\ g \in 1 .. Len(value[n]) => value[n][g] - 1 \in Nat
      /\ n = "stop" /\ g \in 1 .. Len(value[n]) => value[n][g] - 1 <= SemaphoreMax
  BY <1>1, ProcessAssumption
<1>3. QED BY <1>2, PostType DEF ValueOK

(* Take from one semaphore and post another one, neither of them the stop. *)
LEMMA PassStep ==
  ASSUME TypeOK, NEW n \in Names, NEW m \in Names, n # m, n # "stop", m # "stop",
         NEW g \in Nat, NEW h \in Nat, value[n][g] > 0,
         value' = [value EXCEPT ![n][g] = @ - 1, ![m][h] = @ + 1]
  PROVE  ValueOK'
<1> DEFINE s == [value[n] EXCEPT ![g] = @ - 1]
           t == [value[m] EXCEPT ![h] = @ + 1]
<1>1. s \in Seq(Nat) /\ t \in Seq(Nat)
  BY ChangedType
<1>2. value' = [value EXCEPT ![n] = s, ![m] = t]
  OBVIOUS
<1> HIDE DEF s, t
<1>3. value' \in [Names -> Seq(Nat)] /\ value'["stop"] = value["stop"]
  <2>1. value \in [Names -> Seq(Nat)] /\ "stop" \in Names
    BY DEF TypeOK, Names
  <2>2. QED BY <1>1, <1>2, <2>1
<1>4. \A g1 \in 1 .. Len(value["stop"]) : value["stop"][g1] <= SemaphoreMax
  BY DEF TypeOK
<1>5. QED BY <1>3, <1>4 DEF ValueOK

(* What a process does that only moves on: it may open, run or leave.      *)
LEMMA MoveInv ==
  ASSUME IInv, NEW p \in Procs, NEW label \in States, NEW L \in Seq(AllNames),
         Goto(p, label, L), UNCHANGED <<current, handling>>, late \subseteq late',
         \A r \in RoleNames :
           \/ mutex'[r] = mutex[r]
           \/ mutex'[r] = p /\ (handling[p] = <<>> \/ <<p, r>> \in late'),
         label \in Leaving => L # <<>> /\ \A r \in RoleNames : Occurs(L, r),
         label \in Sides => L \in StillToOpen,
         \A n \in Names : Responsible(p, n) => Accounts(label, L, n),
         \A r \in RoleNames : mutex'[r] = p => label \in Holding(r) \cup Leaving
  PROVE  /\ pc' \in [Procs -> States] /\ todo' \in [Procs -> Seq(Names \cup RoleNames)]
         /\ TodoInv' /\ RoleInv' /\ HandlerInv' /\ NameInv'
<1>1. /\ pc' = [pc EXCEPT ![p] = label] /\ todo' = [todo EXCEPT ![p] = L]
      /\ pc \in [Procs -> States] /\ todo \in [Procs -> Seq(AllNames)]
  BY DEF Goto, IInv, TypeOK, AllNames
<1>2. pc' \in [Procs -> States] /\ todo' \in [Procs -> Seq(Names \cup RoleNames)]
  BY <1>1 DEF AllNames
<1>3. /\ pc'[p] = label /\ todo'[p] = L
      /\ \A q \in Procs \ {p} : pc'[q] = pc[q] /\ todo'[q] = todo[q]
  BY <1>1
<1>4. TodoInv'
  BY <1>3 DEF IInv, TodoInv
<1>5. RoleInv'
  <2> SUFFICES ASSUME NEW r \in RoleNames, NEW q \in Procs, mutex'[r] = q
               PROVE  Keeps(q, r, pc[q], todo[q])'
    BY DEF RoleInv
  <2>1. CASE q = p
    BY <1>3, <2>1 DEF Keeps
  <2>2. CASE q # p
    <3>1. Keeps(q, r, pc[q], todo[q])
      BY <2>2 DEF IInv, RoleInv
    <3>2. QED BY <1>3, <2>2, <3>1 DEF Keeps
  <2>3. QED BY <2>1, <2>2
<1>6. HandlerInv'
  BY DEF IInv, HandlerInv
<1>7. NameInv'
  <2> SUFFICES ASSUME NEW n \in Names, current[n] # 0
               PROVE  \E q \in Procs : Responsible(q, n)'
    BY DEF NameInv
  <2>1. PICK q \in Procs : Responsible(q, n)
    BY DEF IInv, NameInv
  <2>2. CASE q = p
    BY <1>3, <2>1, <2>2 DEF Responsible
  <2>3. CASE q # p
    BY <1>3, <2>1, <2>3 DEF Responsible
  <2>4. QED BY <2>2, <2>3
<1>8. QED BY <1>2, <1>4, <1>5, <1>6, <1>7

(* Leaving is always possible.                                             *)
LEMMA LeaveInv ==
  ASSUME IInv, NEW p \in Procs, Leave(p), UNCHANGED <<mutex, current, handling, late>>
  PROVE  /\ TodoInv' /\ RoleInv' /\ HandlerInv' /\ NameInv'
         /\ pc' \in [Procs -> States] /\ todo' \in [Procs -> Seq(Names \cup RoleNames)]
<1> DEFINE L == Roles \o Closing \o Closing
<1>1. /\ L \in Seq(AllNames) /\ L # <<>>
      /\ \A n \in AllNames : Occurs(L, n)
  BY Lists
<1>2. Goto(p, "cleanup", L)
  BY DEF Leave
<1> HIDE DEF L
<1>3. /\ \A n \in Names : Occurs(L, n)
      /\ \A r \in RoleNames : Occurs(L, r)
  BY <1>1 DEF AllNames
<1>4. "cleanup" \in States \cap Leaving /\ "cleanup" \notin Sides
  BY DEF States, Leaving, Sides
<1>5. \A n \in Names : Accounts("cleanup", L, n)
  BY <1>3 DEF Accounts
<1>6. QED BY <1>1, <1>2, <1>3, <1>4, <1>5, MoveInv

(* Going on from one state of a running process to another.                *)
LEMMA ProceedInv ==
  ASSUME IInv, NEW p \in Procs, NEW label \in (States \cap Alive) \ Sides,
         Goto(p, label, <<>>), UNCHANGED <<current, handling>>, late \subseteq late',
         \A r \in RoleNames :
           /\ \/ mutex'[r] = mutex[r]
              \/ mutex'[r] = p /\ (handling[p] = <<>> \/ <<p, r>> \in late')
           /\ mutex'[r] = p => label \in Holding(r) \cup Leaving
  PROVE  /\ TodoInv' /\ RoleInv' /\ HandlerInv' /\ NameInv'
         /\ pc' \in [Procs -> States] /\ todo' \in [Procs -> Seq(Names \cup RoleNames)]
<1>1. <<>> \in Seq(AllNames)
  BY EmptySeq
<1>2. /\ label \in States /\ label \notin Leaving /\ label \notin Sides
      /\ \A n \in Names : Accounts(label, <<>>, n)
  BY DEF Alive, Leaving, Sides, Accounts
<1>3. QED BY <1>1, <1>2, MoveInv

(* Every action of a process keeps the invariant.                          *)
(* What is left to open after one name has been opened.                    *)
LEMMA OpeningOne ==
  ASSUME NEW s \in StillToOpen, s # <<>>
  PROVE  /\ Tail(s) \in StillToOpen /\ Head(s) \in Names
         /\ Occurs(s, Head(s)) /\ ~Occurs(Tail(s), Head(s))
         /\ \A n \in Names : ~Occurs(s, n) => ~Occurs(Tail(s), n)
<1>1. CASE s = Opening
  BY <1>1 DEF Opening, StillToOpen, Occurs, Names
<1>2. CASE s = <<"stop", "data", "space">>
  BY <1>2 DEF StillToOpen, Occurs, Names
<1>3. CASE s = <<"data", "space">>
  BY <1>3 DEF StillToOpen, Occurs, Names
<1>4. CASE s = <<"space">>
  BY <1>4 DEF StillToOpen, Occurs, Names
<1>5. QED BY <1>1, <1>2, <1>3, <1>4 DEF StillToOpen

(* What the handler still has to do once it has removed a mutex.           *)
LEMMA HandlingOne ==
  ASSUME NEW s \in StillToHandle, Head(s) \in RoleNames
  PROVE  Tail(s) \in StillToHandle /\ Tail(s) # <<>>
<1>1. s # <<"exit">>
  <2>1. Head(<<"exit">>) \notin RoleNames
    BY DEF RoleNames
  <2>2. QED BY <2>1
<1>2. CASE s = <<"client", "server", "exit">>
  <2>1. Tail(s) = <<"server", "exit">>
    BY <1>2
  <2>2. <<"server", "exit">> # <<>>
    OBVIOUS
  <2>3. QED BY <2>1, <2>2 DEF StillToHandle
<1>3. CASE s = <<"server", "exit">>
  <2>1. Tail(s) = <<"exit">>
    BY <1>3
  <2>2. <<"exit">> # <<>>
    OBVIOUS
  <2>3. QED BY <2>1, <2>2 DEF StillToHandle
<1>4. QED BY <1>1, <1>2, <1>3 DEF StillToHandle

(* A mutex is taken, and the history has it when the handler is at work.   *)
LEMMA TakesFacts ==
  ASSUME TypeOK, NEW p \in Procs, NEW role \in RoleNames, Takes(p, role)
  PROVE  /\ mutex' \in [RoleNames -> Procs \cup {NoProc}]
         /\ late' \subseteq Procs \X RoleNames /\ late \subseteq late'
         /\ mutex[role] = NoProc /\ mutex'[role] = p
         /\ \A r \in RoleNames : r # role => mutex'[r] = mutex[r]
         /\ \A r \in RoleNames :
              \/ mutex'[r] = mutex[r]
              \/ mutex'[r] = p /\ (handling[p] = <<>> \/ <<p, r>> \in late')
<1>1. /\ mutex \in [RoleNames -> Procs \cup {NoProc}]
      /\ mutex' = [mutex EXCEPT ![role] = p] /\ mutex[role] = NoProc
  BY DEF TypeOK, Takes
<1>2. late' \subseteq Procs \X RoleNames /\ late \subseteq late'
  <2>1. late \subseteq Procs \X RoleNames
    BY DEF TypeOK
  <2>2. late' = late \/ late' = late \cup {<<p, role>>}
    BY DEF Takes
  <2>3. QED BY <2>1, <2>2
<1>3. handling[p] = <<>> \/ <<p, role>> \in late'
  BY DEF Takes
<1>4. QED BY <1>1, <1>2, <1>3

(* With a step that does nothing to the signals their variables keep their *)
(* types.                                                                  *)
SignalOK ==
  /\ handling \in [Procs -> Seq(RoleNames \cup {"exit"})]
  /\ late \subseteq Procs \X RoleNames

LEMMA ProcessInv == ASSUME IInv, NEW p \in Procs, Process(p) PROVE IInv'
<1>0. /\ p # NoProc
      /\ \A r \in RoleNames : mutex[r] = p => pc[p] \in Holding(r) \cup Leaving \cup {"killed"}
      /\ handle[p]["writer"]["stop"] \in Nat /\ handle[p]["writer"]["data"] \in Nat
      /\ handle[p]["writer"]["space"] \in Nat /\ handle[p]["reader"]["stop"] \in Nat
      /\ handle[p]["reader"]["data"] \in Nat /\ handle[p]["reader"]["space"] \in Nat
  <2>1. p # NoProc
    BY ProcessAssumption
  <2>2. \A r \in RoleNames : mutex[r] = p => pc[p] \in Holding(r) \cup Leaving \cup {"killed"}
    BY DEF IInv, RoleInv, Keeps
  <2>3. \A side \in Sides, n \in Names : handle[p][side][n] \in Nat
    BY DEF IInv, TypeOK
  <2>4. {"reader", "writer"} \subseteq Sides /\ {"stop", "data", "space"} \subseteq Names
    BY DEF Sides, Names
  <2>5. QED BY <2>1, <2>2, <2>3, <2>4
<1>a. <<>> \in Seq(AllNames)
  BY EmptySeq
<1>m. mutex' = mutex => mutex' \in [RoleNames -> Procs \cup {NoProc}]
  BY DEF IInv, TypeOK
<1>g. UNCHANGED <<handling, late>> => SignalOK'
  BY DEF IInv, TypeOK, SignalOK
<1>h. handling' = handling => handling' \in [Procs -> Seq(RoleNames \cup {"exit"})]
  BY DEF IInv, TypeOK
<1>v. value' = value => /\ value' \in [Names -> Seq(Nat)]
                        /\ \A g \in 1 .. Len(value'["stop"]) : value'["stop"][g] <= SemaphoreMax
  BY DEF IInv, TypeOK
<1>c. /\ "cleanup" \in States /\ "cleanup" \in Leaving /\ "cleanup" \notin Sides
      /\ \A L \in {Closing \o Roles, Closing \o Roles \o Closing, Roles \o Closing,
                  <<"memory">> \o Roles \o Closing} :
           /\ L \in Seq(AllNames) /\ L # <<>>
           /\ \A r \in RoleNames : Occurs(L, r)
           /\ \A n \in Names : Accounts("cleanup", L, n)
  BY Lists DEF States, Leaving, Sides, Accounts, AllNames
<1> DEFINE Moved ==
      /\ TodoInv' /\ RoleInv' /\ HandlerInv' /\ NameInv'
      /\ pc' \in [Procs -> States] /\ todo' \in [Procs -> Seq(Names \cup RoleNames)]
<1>1. CASE Create(p)
  <2>1. /\ pc[p] = "idle" /\ UNCHANGED <<mutex, current, value, handle, left, written, file, handling, late>>
        /\ Goto(p, "reader", Opening) \/ Goto(p, "cleanup", Roles)
    BY <1>1 DEF Create, objectVars, fileVars, signalVars
  <2>2. /\ \A r \in RoleNames : mutex'[r] # p
        /\ \A n \in Names : ~Responsible(p, n)
    BY <1>0, <2>1 DEF Leaving, Holding, Responsible, Accounts, Alive
  <2>3. Moved
    <3>1. CASE Goto(p, "reader", Opening)
      <4>1. /\ "reader" \in States /\ "reader" \notin Leaving
            /\ Opening \in Seq(AllNames) /\ Opening \in StillToOpen
        BY Lists DEF States, Leaving, StillToOpen
      <4>2. QED BY <1>m, <2>1, <2>2, <3>1, <4>1, MoveInv
    <3>2. CASE Goto(p, "cleanup", Roles)
      <4>1. "cleanup" \in States /\ "cleanup" \in Leaving /\ "cleanup" \notin Sides
        BY DEF States, Leaving, Sides
      <4>2. QED BY <1>m, <2>1, <2>2, <3>2, <4>1, Lists, MoveInv
    <3>3. QED BY <2>1, <3>1, <3>2
  <2>4. QED BY <1>m, <1>v, <2>1, <2>3 DEF IInv, TypeOK
<1>2. CASE Open(p)
  <2> DEFINE n == Head(todo[p])
  <2>1. /\ pc[p] \in Sides /\ todo[p] # <<>>
        /\ todo' = [todo EXCEPT ![p] = Tail(@)]
        /\ UNCHANGED <<mutex, pc, left, written, file, handling, late>>
        /\ handle' = [handle EXCEPT ![p][pc[p]][n] = current'[n]]
        /\ IF current[n] = 0
           THEN /\ value' = [value EXCEPT ![n] = Append(@, InitialValue[n])]
                /\ current' = [current EXCEPT ![n] = Len(value[n]) + 1]
           ELSE UNCHANGED <<current, value>>
    BY <1>2 DEF Open, objectVars, fileVars, signalVars
  <2>2. /\ todo[p] \in StillToOpen /\ Tail(todo[p]) \in StillToOpen /\ n \in Names
        /\ ~Occurs(Tail(todo[p]), n)
        /\ \A m \in Names : ~Occurs(todo[p], m) => ~Occurs(Tail(todo[p]), m)
        /\ Tail(todo[p]) \in Seq(AllNames)
    BY <2>1, OpeningOne, Lists DEF IInv, TodoInv
  <2>3. /\ \A r \in RoleNames : mutex[r] # p
        /\ pc[p] \in Alive
    BY <1>0, <2>1 DEF Sides, Alive, Leaving, Holding
  <2>4. \A q \in Procs : q # p => todo'[q] = todo[q]
    BY <2>1 DEF IInv, TypeOK
  <2>a. todo'[p] = Tail(todo[p])
    BY <2>1 DEF IInv, TypeOK
  <2>5. TodoInv'
    <3>1. pc[p] \notin Leaving
      BY <2>1 DEF Sides, Leaving
    <3>2. QED BY <2>a, <2>1, <2>2, <2>4, <3>1 DEF IInv, TodoInv
  <2>6. RoleInv' /\ HandlerInv'
    <3>1. ASSUME NEW r \in RoleNames, NEW q \in Procs, mutex'[r] = q
          PROVE  Keeps(q, r, pc[q], todo[q])'
      <4>1. mutex[r] = q /\ q # p
        BY <2>1, <2>3, <3>1
      <4>2. Keeps(q, r, pc[q], todo[q])
        BY <4>1 DEF IInv, RoleInv
      <4>3. QED BY <2>1, <2>4, <4>1, <4>2 DEF Keeps
    <3>2. HandlerInv'
      BY <2>1 DEF IInv, HandlerInv
    <3>3. QED BY <3>1, <3>2 DEF RoleInv
  <2>7. NameInv'
    <3> SUFFICES ASSUME NEW m \in Names, current'[m] # 0
                 PROVE  \E q \in Procs : Responsible(q, m)'
      BY DEF NameInv
    <3>1. CASE m = n
      BY <2>1, <2>2, <2>a, <3>1 DEF Responsible, Accounts, Alive, Sides
    <3>2. CASE m # n
      <4>1. current[m] # 0
        BY <2>1, <3>2 DEF IInv, TypeOK
      <4>2. PICK q \in Procs : Responsible(q, m)
        BY <4>1 DEF IInv, NameInv
      <4>3. CASE q = p
        BY <2>1, <2>2, <2>a, <4>2, <4>3 DEF Responsible, Accounts, Alive, Sides
      <4>4. CASE q # p
        BY <2>1, <2>4, <4>2, <4>4 DEF Responsible
      <4>5. QED BY <4>3, <4>4
    <3>3. QED BY <3>1, <3>2
  <2>8. /\ value' \in [Names -> Seq(Nat)] /\ current' \in [Names -> Nat]
        /\ \A g \in 1 .. Len(value'["stop"]) : value'["stop"][g] <= SemaphoreMax
    <3>1. CASE current[n] = 0
      <4>1. /\ value[n] \in Seq(Nat) /\ Len(value[n]) \in Nat
            /\ InitialValue[n] \in Nat /\ (n = "stop" => InitialValue[n] = 0)
        BY <2>2, LenProperties DEF IInv, TypeOK, InitialValue
      <4> DEFINE s == Append(value[n], InitialValue[n])
                 m == Len(value[n]) + 1
      <4>2. /\ s \in Seq(Nat) /\ Len(s) = m /\ m \in Nat
            /\ \A g \in 1 .. Len(value[n]) : s[g] = value[n][g]
            /\ s[m] = InitialValue[n]
        BY <4>1, AppendProperties
      <4>3. n = "stop" => \A g \in 1 .. Len(s) : s[g] <= SemaphoreMax
        <5> SUFFICES ASSUME n = "stop", NEW g \in 1 .. Len(s) PROVE s[g] <= SemaphoreMax
          OBVIOUS
        <5> HIDE DEF s, n
        <5>1. CASE g = m
          BY <4>1, <4>2, <5>1, ProcessAssumption
        <5>2. CASE g # m
          <6>1. g \in 1 .. Len(value[n])
            BY <4>1, <4>2, <5>2
          <6>2. g \in 1 .. Len(value["stop"]) /\ s[g] = value["stop"][g]
            BY <4>2, <6>1
          <6>3. QED BY <6>2 DEF IInv, TypeOK
        <5>3. QED BY <5>1, <5>2
      <4>4. value' = [value EXCEPT ![n] = s] /\ current' = [current EXCEPT ![n] = m]
        BY <2>1, <3>1
      <4> HIDE DEF n, s, m
      <4>5. value' \in [Names -> Seq(Nat)] /\ current' \in [Names -> Nat]
        BY <2>2, <4>2, <4>4 DEF IInv, TypeOK
      <4>6. value'["stop"] = IF n = "stop" THEN s ELSE value["stop"]
        BY <4>4 DEF IInv, TypeOK, Names
      <4>7. QED BY <4>3, <4>5, <4>6 DEF IInv, TypeOK
    <3>2. CASE current[n] # 0
      BY <2>1, <3>2 DEF IInv, TypeOK
    <3>3. QED BY <3>1, <3>2
  <2>9. handle' \in [Procs -> [Sides -> [Names -> Nat]]]
    <3> DEFINE row == [handle[p][pc[p]] EXCEPT ![n] = current'[n]]
               rows == [handle[p] EXCEPT ![pc[p]] = row]
    <3>1. row \in [Names -> Nat]
      <4>1. handle[p][pc[p]] \in [Names -> Nat] /\ current'[n] \in Nat
        BY <2>1, <2>2, <2>8 DEF IInv, TypeOK
      <4>2. QED BY <4>1
    <3>2. handle' = [handle EXCEPT ![p] = rows]
      BY <2>1
    <3> HIDE DEF row, n
    <3>3. rows \in [Sides -> [Names -> Nat]]
      BY <3>1, <2>1 DEF IInv, TypeOK
    <3> HIDE DEF rows
    <3>4. QED BY <3>2, <3>3 DEF IInv, TypeOK
  <2>10. TypeOK'
    BY <2>1, <2>2, <2>8, <2>9 DEF IInv, TypeOK, AllNames
  <2>11. QED BY <2>5, <2>6, <2>7, <2>10 DEF IInv
<1>3. CASE OpenSource(p)
  <2>1. /\ pc[p] = "reader" /\ UNCHANGED <<mutex, current, value, handle, left, written, file, handling, late>>
        /\ Goto(p, "writer", Opening) \/ Goto(p, "cleanup", Closing \o Roles)
    BY <1>3 DEF OpenSource, objectVars, fileVars, signalVars
  <2>2. \A r \in RoleNames : mutex'[r] # p
    BY <1>0, <2>1 DEF Leaving, Holding
  <2>3. Moved
    <3>1. CASE Goto(p, "writer", Opening)
      <4>1. /\ "writer" \in States /\ "writer" \notin Leaving
            /\ Opening \in Seq(AllNames) /\ Opening \in StillToOpen
            /\ \A n \in Names : Accounts("writer", Opening, n)
        BY Lists DEF States, Leaving, StillToOpen, Accounts, Alive
      <4>2. QED BY <1>m, <2>1, <2>2, <3>1, <4>1, MoveInv
    <3>2. CASE Goto(p, "cleanup", Closing \o Roles)
      BY <1>c, <1>m, <2>1, <2>2, <3>2, Lists, MoveInv
    <3>3. QED BY <2>1, <3>1, <3>2
  <2>4. QED BY <1>m, <1>v, <2>1, <2>3 DEF IInv, TypeOK
<1>4. CASE OpenDestination(p)
  <2>1. /\ pc[p] = "writer" /\ UNCHANGED <<mutex, current, value, handle, left, written, handling, late>>
        /\ Goto(p, "tryClient", <<>>) \/ Goto(p, "cleanup", Closing \o Roles \o Closing)
        /\ file' = {} \/ file' = file
    BY <1>4 DEF OpenDestination, objectVars, signalVars
  <2>2. \A r \in RoleNames : mutex'[r] # p
    BY <1>0, <2>1 DEF Leaving, Holding
  <2>3. Moved
    <3>1. CASE Goto(p, "tryClient", <<>>)
      <4>1. "tryClient" \in (States \cap Alive) \ Sides
        BY DEF Alive, States, Sides
      <4>2. QED BY <1>m, <2>1, <2>2, <3>1, <4>1, ProceedInv
    <3>2. CASE Goto(p, "cleanup", Closing \o Roles \o Closing)
      BY <1>c, <1>m, <2>1, <2>2, <3>2, Lists, MoveInv
    <3>3. QED BY <2>1, <3>1, <3>2
  <2>4. file' \subseteq Nat
    BY <2>1 DEF IInv, TypeOK
  <2>5. QED BY <1>m, <1>v, <2>1, <2>3, <2>4 DEF IInv, TypeOK
<1>5. CASE TryClient(p)
  <2>1. /\ pc[p] = "tryClient" /\ UNCHANGED <<current, value, handle, left, written, file, handling>>
        /\ \/ Goto(p, "client", <<>>) /\ Takes(p, "client")
           \/ Goto(p, "tryServer", <<>>) /\ UNCHANGED <<mutex, late>>
    BY <1>5 DEF TryClient, Misses, objectVars, fileVars
  <2>2. {"client", "tryServer"} \subseteq (States \cap Alive) \ Sides /\ "client" \in RoleNames
    BY DEF Alive, States, Sides, RoleNames
  <2>3. \A r \in RoleNames : mutex[r] # p
    BY <1>0, <2>1 DEF Leaving, Holding
  <2>4. /\ Moved /\ SignalOK'
        /\ mutex' \in [RoleNames -> Procs \cup {NoProc}]
    <3>1. CASE Goto(p, "client", <<>>) /\ Takes(p, "client")
      <4>1. /\ mutex' \in [RoleNames -> Procs \cup {NoProc}]
            /\ late' \subseteq Procs \X RoleNames /\ late \subseteq late'
            /\ \A r \in RoleNames : r # "client" => mutex'[r] = mutex[r]
            /\ \A r \in RoleNames :
                 \/ mutex'[r] = mutex[r]
                 \/ mutex'[r] = p /\ (handling[p] = <<>> \/ <<p, r>> \in late')
        BY <2>2, <3>1, TakesFacts DEF IInv
      <4>2. \A r \in RoleNames : mutex'[r] = p => "client" \in Holding(r) \cup Leaving
        BY <2>3, <4>1 DEF Holding
      <4>3. Moved
        BY <2>1, <2>2, <3>1, <4>1, <4>2, ProceedInv
      <4>4. QED BY <1>h, <2>1, <4>1, <4>3 DEF SignalOK
    <3>2. CASE Goto(p, "tryServer", <<>>) /\ UNCHANGED <<mutex, late>>
      <4>1. Moved
        BY <2>1, <2>2, <2>3, <3>2, ProceedInv
      <4>2. QED BY <1>g, <1>m, <2>1, <3>2, <4>1
    <3>3. QED BY <2>1, <3>1, <3>2
  <2>5. QED BY <1>v, <2>1, <2>4 DEF IInv, TypeOK, SignalOK
<1>6. CASE TryServer(p)
  <2>1. /\ pc[p] = "tryServer" /\ UNCHANGED <<current, value, handle, left, written, file, handling>>
        /\ \/ Goto(p, "server", <<>>) /\ Takes(p, "server")
           \/ Leave(p) /\ UNCHANGED <<mutex, late>>
    BY <1>6 DEF TryServer, Misses, objectVars, fileVars
  <2>2. "server" \in (States \cap Alive) \ Sides /\ "server" \in RoleNames
    BY DEF Alive, States, Sides, RoleNames
  <2>3. \A r \in RoleNames : "server" \in Holding(r) \cup Leaving
    BY DEF Holding
  <2>4. /\ Moved /\ SignalOK'
        /\ mutex' \in [RoleNames -> Procs \cup {NoProc}]
    <3>1. CASE Goto(p, "server", <<>>) /\ Takes(p, "server")
      <4>1. /\ mutex' \in [RoleNames -> Procs \cup {NoProc}]
            /\ late' \subseteq Procs \X RoleNames /\ late \subseteq late'
            /\ \A r \in RoleNames :
                 \/ mutex'[r] = mutex[r]
                 \/ mutex'[r] = p /\ (handling[p] = <<>> \/ <<p, r>> \in late')
        BY <2>2, <3>1, TakesFacts DEF IInv
      <4>2. Moved
        BY <2>1, <2>2, <2>3, <3>1, <4>1, ProceedInv
      <4>3. QED BY <1>h, <2>1, <4>1, <4>2 DEF SignalOK
    <3>2. CASE Leave(p) /\ UNCHANGED <<mutex, late>>
      <4>1. Moved
        BY <2>1, <3>2, LeaveInv
      <4>2. QED BY <1>g, <1>m, <2>1, <3>2, <4>1
    <3>3. QED BY <2>1, <3>1, <3>2
  <2>5. QED BY <1>v, <2>1, <2>4 DEF IInv, TypeOK, SignalOK
<1>7. CASE ClientChecksStop(p)
  <2>1. /\ pc[p] = "client" /\ UNCHANGED <<mutex, current, handle, left, written, file, handling, late>>
        /\ \/ Value(p, "writer", "stop") > 0 /\ Take(p, "writer", "stop") /\ Leave(p)
           \/ Goto(p, "clientReads", <<>>) /\ value' = value
    BY <1>7 DEF ClientChecksStop, fileVars, signalVars
  <2>2. /\ "clientReads" \in States \cap Alive /\ "clientReads" \notin Leaving \cup Sides
    BY <2>1 DEF Alive, Leaving, States, Sides
  <2>3. \A r \in RoleNames : mutex'[r] = p => "clientReads" \in Holding(r) \cup Leaving
    BY <1>0, <2>1 DEF Leaving, Holding
  <2>4. Moved
    <3>1. CASE Leave(p)
      BY <2>1, <2>2, <3>1, LeaveInv
    <3>2. CASE Goto(p, "clientReads", <<>>)
      BY <1>m, <2>1, <2>2, <2>3, <3>2, ProceedInv
    <3>3. QED BY <2>1, <3>1, <3>2
  <2>5. ValueOK'
    <3>1. CASE Value(p, "writer", "stop") > 0 /\ Take(p, "writer", "stop")
      <4>1. "stop" \in Names
        BY DEF Names
      <4>2. QED BY <1>0, <3>1, <4>1, TakeStep DEF Value, Take, IInv
    <3>2. CASE value' = value
      BY <1>v, <3>2 DEF ValueOK
    <3>3. QED BY <2>1, <3>1, <3>2
  <2>6. QED BY <1>m, <2>1, <2>4, <2>5 DEF IInv, TypeOK, ValueOK
<1>8. CASE ClientReads(p)
  <2>1. /\ pc[p] = "clientReads" /\ UNCHANGED <<mutex, current, handle, left, written, file, handling, late>>
        /\ \/ /\ Goto(p, "clientWrites", <<>>)
              /\ value["data"][handle[p]["writer"]["data"]] > 0
              /\ value' = [value EXCEPT
                   !["data"][handle[p]["writer"]["data"]] = @ - 1,
                   !["space"][handle[p]["writer"]["space"]] = @ + 1]
           \/ Goto(p, "client", <<>>) /\ UNCHANGED value
    BY <1>8 DEF ClientReads, ReadChunk, Value, fileVars, signalVars
  <2>2. \A l \in {"client", "clientWrites"} :
          /\ l \in (States \cap Alive) \ Sides
          /\ \A r \in RoleNames : mutex[r] = p => l \in Holding(r) \cup Leaving
    BY <1>0, <2>1 DEF Alive, Leaving, States, Sides, Holding
  <2>3. Moved
    <3>1. CASE Goto(p, "client", <<>>)
      BY <1>m, <2>1, <2>2, <3>1, ProceedInv
    <3>2. CASE Goto(p, "clientWrites", <<>>)
      BY <1>m, <2>1, <2>2, <3>2, ProceedInv
    <3>3. QED BY <2>1, <3>1, <3>2
  <2>4. ValueOK'
    <3>1. CASE /\ value["data"][handle[p]["writer"]["data"]] > 0
               /\ value' = [value EXCEPT
                    !["data"][handle[p]["writer"]["data"]] = @ - 1,
                    !["space"][handle[p]["writer"]["space"]] = @ + 1]
      <4>1. {"data", "space"} \subseteq Names
        BY DEF Names
      <4>2. QED BY <1>0, <3>1, <4>1, PassStep DEF IInv
    <3>2. CASE value' = value
      BY <1>v, <3>2 DEF ValueOK
    <3>3. QED BY <2>1, <3>1, <3>2
  <2>5. QED BY <1>m, <2>1, <2>3, <2>4 DEF IInv, TypeOK, ValueOK
<1>15. CASE ClientWrites(p)
  <2>1. /\ pc[p] = "clientWrites" /\ UNCHANGED <<mutex, current, value, handle, left, handling, late>>
        /\ Goto(p, "client", <<>>)
        /\ written' = [written EXCEPT ![p] = @ + 1]
        /\ file' = file \cup {written'[p]}
    BY <1>15 DEF ClientWrites, objectVars, signalVars
  <2>2. /\ "client" \in (States \cap Alive) \ Sides
        /\ \A r \in RoleNames : mutex[r] = p => "client" \in Holding(r) \cup Leaving
    BY <1>0, <2>1 DEF Alive, Leaving, States, Sides, Holding
  <2>3. Moved
    BY <1>m, <2>1, <2>2, ProceedInv
  <2>4. written' \in [Procs -> Nat] /\ file' \subseteq Nat
    <3>1. written \in [Procs -> Nat] /\ file \subseteq Nat
      BY DEF IInv, TypeOK
    <3>2. written' \in [Procs -> Nat] /\ written'[p] \in Nat
      BY <2>1, <3>1
    <3>3. QED BY <2>1, <3>1, <3>2
  <2>5. QED BY <1>m, <1>v, <2>1, <2>3, <2>4 DEF IInv, TypeOK
<1>16. CASE ClientThrows(p)
  <2>1. /\ Post(p, "writer", "space") /\ Leave(p)
        /\ UNCHANGED <<mutex, current, handle, left, written, file, handling, late>>
    BY <1>16 DEF ClientThrows, fileVars, signalVars
  <2>2. Moved
    BY <2>1, LeaveInv
  <2>3. ValueOK'
    <3>1. "space" \in Names
      BY DEF Names
    <3>2. QED BY <1>0, <2>1, <3>1, PostStep DEF Post, IInv
  <2>4. QED BY <1>m, <2>1, <2>2, <2>3 DEF IInv, TypeOK, ValueOK
<1>17. CASE ServerThrows(p)
  <2>1. /\ left' = [left EXCEPT ![p] = 0]
        /\ UNCHANGED <<mutex, current, value, pc, todo, handle, written, file, handling, late>>
    BY <1>17 DEF ServerThrows, objectVars, fileVars, signalVars
  <2>2. left' \in [Procs -> 0 .. Chunks]
    BY <2>1, ProcessAssumption DEF IInv, TypeOK
  <2>3. TodoInv' /\ RoleInv' /\ HandlerInv' /\ NameInv'
    BY <2>1 DEF IInv, TodoInv, RoleInv, Keeps, HandlerInv, NameInv, Responsible
  <2>4. QED BY <2>1, <2>2, <2>3 DEF IInv, TypeOK
<1>9. CASE ServerWrites(p)
  <2>1. /\ UNCHANGED <<mutex, current, pc, todo, handle, written, file, handling, late>>
        /\ left[p] > 0 /\ left' = [left EXCEPT ![p] = @ - 1]
        /\ value["space"][handle[p]["reader"]["space"]] > 0
        /\ value' = [value EXCEPT
             !["space"][handle[p]["reader"]["space"]] = @ - 1,
             !["data"][handle[p]["reader"]["data"]] = @ + 1]
    BY <1>9 DEF ServerWrites, Value, fileVars, signalVars
  <2>2. ValueOK'
    <3>1. {"data", "space"} \subseteq Names
      BY DEF Names
    <3>2. QED BY <1>0, <2>1, <3>1, PassStep DEF IInv
  <2>3. left' \in [Procs -> 0 .. Chunks]
    <3>1. left[p] \in 0 .. Chunks /\ left[p] - 1 \in 0 .. Chunks
      BY <2>1, ProcessAssumption DEF IInv, TypeOK
    <3>2. QED BY <2>1, <3>1 DEF IInv, TypeOK
  <2>4. TodoInv' /\ RoleInv' /\ HandlerInv' /\ NameInv'
    BY <2>1 DEF IInv, TodoInv, RoleInv, Keeps, HandlerInv, NameInv, Responsible
  <2>5. QED BY <2>1, <2>2, <2>3, <2>4 DEF IInv, TypeOK, ValueOK
<1>10. CASE ServerPostsStop(p)
  <2>1. /\ pc[p] = "server" /\ UNCHANGED <<mutex, current, handle, left, written, file, handling, late>>
        /\ \/ /\ Value(p, "reader", "stop") < SemaphoreMax
              /\ Post(p, "reader", "stop") /\ Goto(p, "serverStops", <<>>)
           \/ Leave(p) /\ value' = value
    BY <1>10 DEF ServerPostsStop, fileVars, signalVars
  <2>2. /\ "serverStops" \in States \cap Alive /\ "serverStops" \notin Leaving \cup Sides
    BY <2>1 DEF Alive, Leaving, States, Sides
  <2>3. \A r \in RoleNames : mutex'[r] = p => "serverStops" \in Holding(r) \cup Leaving
    BY <1>0, <2>1 DEF Leaving, Holding, RoleNames
  <2>4. Moved
    <3>1. CASE Leave(p)
      BY <2>1, <2>2, <3>1, LeaveInv
    <3>2. CASE Goto(p, "serverStops", <<>>)
      BY <1>m, <2>1, <2>2, <2>3, <3>2, ProceedInv
    <3>3. QED BY <2>1, <3>1, <3>2
  <2>5. ValueOK'
    <3>1. CASE Value(p, "reader", "stop") < SemaphoreMax /\ Post(p, "reader", "stop")
      <4>1. "stop" \in Names
        BY DEF Names
      <4>2. QED BY <1>0, <3>1, <4>1, PostStep DEF Value, Post, IInv
    <3>2. CASE value' = value
      BY <1>v, <3>2 DEF ValueOK
    <3>3. QED BY <2>1, <3>1, <3>2
  <2>6. QED BY <1>m, <2>1, <2>4, <2>5 DEF IInv, TypeOK, ValueOK
<1>11. CASE ServerTriesSpace(p)
  <2>1. /\ pc[p] = "serverStops" /\ UNCHANGED <<mutex, current, handle, left, written, file, handling, late>>
        /\ \/ Value(p, "reader", "space") > 0 /\ Take(p, "reader", "space") /\ Leave(p)
           \/ Goto(p, "server", <<>>) /\ value' = value
    BY <1>11 DEF ServerTriesSpace, fileVars, signalVars
  <2>2. /\ "server" \in States \cap Alive /\ "server" \notin Leaving \cup Sides
    BY <2>1 DEF Alive, Leaving, States, Sides
  <2>3. \A r \in RoleNames : mutex'[r] = p => "server" \in Holding(r) \cup Leaving
    BY <1>0, <2>1 DEF Leaving, Holding, RoleNames
  <2>4. Moved
    <3>1. CASE Leave(p)
      BY <2>1, <2>2, <3>1, LeaveInv
    <3>2. CASE Goto(p, "server", <<>>)
      BY <1>m, <2>1, <2>2, <2>3, <3>2, ProceedInv
    <3>3. QED BY <2>1, <3>1, <3>2
  <2>5. ValueOK'
    <3>1. CASE Value(p, "reader", "space") > 0 /\ Take(p, "reader", "space")
      <4>1. "space" \in Names
        BY DEF Names
      <4>2. QED BY <1>0, <3>1, <4>1, TakeStep DEF Value, Take, IInv
    <3>2. CASE value' = value
      BY <1>v, <3>2 DEF ValueOK
    <3>3. QED BY <2>1, <3>1, <3>2
  <2>6. QED BY <1>m, <2>1, <2>4, <2>5 DEF IInv, TypeOK, ValueOK
<1>12. CASE Remove(p)
  <2> DEFINE n == Head(todo[p])
             rest == Tail(todo[p])
             label == Outcome[pc[p]]
  <2>1. /\ pc[p] \in Leaving /\ UNCHANGED <<value, left, written, file, late>>
        /\ \/ /\ n \in Names /\ mutex' = mutex
              /\ current' = [current EXCEPT ![n] = 0]
           \/ /\ n \notin Names /\ current' = current
              /\ mutex' = [mutex EXCEPT ![n] = NoProc]
        /\ todo' = [todo EXCEPT ![p] = rest]
        /\ \/ /\ todo'[p] = <<>>
              /\ pc' = [pc EXCEPT ![p] = label] /\ handle' = [handle EXCEPT ![p] = Closed]
              /\ handling' = [handling EXCEPT ![p] = <<>>]
           \/ todo'[p] # <<>> /\ UNCHANGED <<pc, handle, handling>>
    BY <1>12 DEF Remove, Leaving, fileVars
  <2>2. /\ todo[p] \in Seq(AllNames) /\ todo[p] # <<>>
        /\ n \in AllNames /\ rest \in Seq(AllNames)
    <3>1. todo[p] \in Seq(AllNames) /\ todo[p] # <<>>
      BY <2>1 DEF IInv, TypeOK, TodoInv, AllNames
    <3>2. QED BY <3>1, HeadTailProperties
  <2>3. \A x : x # n /\ Occurs(todo[p], x) => rest # <<>> /\ Occurs(rest, x)
    BY <2>2, OccursTail
  <2> HIDE DEF n, rest, label
  <2>4. /\ todo'[p] = rest
        /\ \A q \in Procs \ {p} : todo'[q] = todo[q] /\ pc'[q] = pc[q]
    BY <2>1 DEF IInv, TypeOK
  <2>5. /\ rest = <<>> => pc'[p] = label
        /\ rest # <<>> => pc'[p] = pc[p]
        /\ pc' \in [Procs -> States]
    <3>1. label \in States
      BY <2>1 DEF label, States, Leaving, Outcome
    <3>2. pc \in [Procs -> States]
      BY DEF IInv, TypeOK
    <3> HIDE DEF IInv
    <3>3. QED BY <2>1, <2>4, <3>1, <3>2
  <2>6. /\ mutex' \in [RoleNames -> Procs \cup {NoProc}]
        /\ \A r \in RoleNames : mutex'[r] # NoProc => r # n /\ mutex'[r] = mutex[r]
    <3>1. n \in Names => n \notin RoleNames
      BY DEF Names, RoleNames
    <3>2. n \notin Names => n \in RoleNames
      BY <2>2 DEF AllNames
    <3>3. QED BY <2>1, <3>1, <3>2 DEF IInv, TypeOK
  <2>7. /\ current' \in [Names -> Nat]
        /\ \A m \in Names : current'[m] # 0 => m # n /\ current[m] # 0
    <3>1. current \in [Names -> Nat]
      BY DEF IInv, TypeOK
    <3>2. CASE n \in Names /\ current' = [current EXCEPT ![n] = 0]
      BY <3>1, <3>2
    <3>3. CASE n \notin Names /\ current' = current
      BY <3>1, <3>3
    <3>4. QED BY <2>1, <3>2, <3>3
  <2>8. TodoInv'
    <3> SUFFICES ASSUME NEW q \in Procs
                 PROVE  /\ pc'[q] \in Leaving => todo'[q] # <<>>
                        /\ pc'[q] \in Sides => todo'[q] \in StillToOpen
      BY DEF TodoInv
    <3>1. CASE q = p
      BY <2>1, <2>4, <2>5, <3>1 DEF label, Outcome, Leaving, Sides
    <3>2. CASE q # p
      BY <2>4, <3>2 DEF IInv, TodoInv
    <3>3. QED BY <3>1, <3>2
  <2>9. RoleInv'
    <3> SUFFICES ASSUME NEW r \in RoleNames, NEW q \in Procs, mutex'[r] = q
                 PROVE  Keeps(q, r, pc[q], todo[q])'
      BY DEF RoleInv
    <3>1. mutex[r] = q /\ r # n
      BY <2>6, ProcessAssumption
    <3>2. Keeps(q, r, pc[q], todo[q])
      BY <3>1 DEF IInv, RoleInv
    <3>3. CASE q = p
      <4>1. Occurs(todo[p], r)
        BY <2>1, <3>2, <3>3 DEF Keeps, Leaving, Holding
      <4>2. rest # <<>> /\ Occurs(rest, r)
        BY <2>3, <3>1, <4>1
      <4>3. QED BY <2>1, <2>4, <2>5, <3>3, <4>2 DEF Keeps
    <3>4. CASE q # p
      BY <2>1, <2>4, <3>2, <3>4 DEF Keeps
    <3>5. QED BY <3>3, <3>4
  <2>14. HandlerInv' /\ SignalOK'
    <3>1. /\ handling \in [Procs -> Seq(RoleNames \cup {"exit"})]
          /\ late' \subseteq Procs \X RoleNames /\ late' = late
          /\ <<>> \in Seq(RoleNames \cup {"exit"})
      BY <2>1, EmptySeq DEF IInv, TypeOK
    <3>2. /\ handling' \in [Procs -> Seq(RoleNames \cup {"exit"})]
          /\ \A q \in Procs : handling'[q] # <<>> => handling'[q] = handling[q]
      BY <2>1, <3>1
    <3>3. \A r \in RoleNames, q \in Procs : mutex'[r] = q => mutex[r] = q
      BY <2>6, ProcessAssumption
    <3>4. HandlerInv
      BY DEF IInv
    <3>5. QED BY <3>1, <3>2, <3>3, <3>4 DEF HandlerInv, SignalOK
  <2>10. NameInv'
    <3> SUFFICES ASSUME NEW m \in Names, current'[m] # 0
                 PROVE  \E q \in Procs : Responsible(q, m)'
      BY DEF NameInv
    <3>1. PICK q \in Procs : Responsible(q, m)
      BY <2>7 DEF IInv, NameInv
    <3>2. CASE q # p
      BY <2>4, <3>1, <3>2 DEF Responsible
    <3>3. CASE q = p /\ pc[p] = "cleanup"
      <4>1. Occurs(todo[p], m) /\ m # n
        BY <2>7, <3>1, <3>3 DEF Responsible, Accounts, Alive
      <4>2. QED BY <2>3, <2>4, <2>5, <3>3, <4>1 DEF Responsible, Accounts
    <3>4. CASE q = p /\ pc[p] = "unwinding"
      <4>1. m # "memory" \/ (Occurs(todo[p], m) /\ m # n)
        BY <2>7, <3>1, <3>4 DEF Responsible, Accounts, Alive
      <4>2. label = "failed"
        BY <3>4 DEF label, Outcome
      <4>3. QED BY <2>3, <2>4, <2>5, <3>4, <4>1, <4>2 DEF Responsible, Accounts
    <3>5. QED BY <2>1, <3>2, <3>3, <3>4 DEF Leaving
  <2>11. handle' \in [Procs -> [Sides -> [Names -> Nat]]]
    <3>1. Closed \in [Sides -> [Names -> Nat]]
      BY DEF Closed
    <3>2. QED BY <2>1, <3>1 DEF IInv, TypeOK
  <2>12. todo' \in [Procs -> Seq(Names \cup RoleNames)]
    BY <2>1, <2>2 DEF IInv, TypeOK, AllNames
  <2>13. QED
    BY <1>v, <2>1, <2>5, <2>6, <2>7, <2>8, <2>9, <2>10, <2>11, <2>12, <2>14
    DEF IInv, TypeOK, SignalOK
<1>13. CASE Interrupt(p)
  <2>1. /\ UNCHANGED <<mutex, current, value, pc, todo, handle, left, written, file, late>>
        /\ handling' = [handling EXCEPT ![p] = Handling]
    BY <1>13 DEF Interrupt, objectVars, fileVars
  <2>2. /\ handling \in [Procs -> Seq(RoleNames \cup {"exit"})]
        /\ Handling \in Seq(RoleNames \cup {"exit"}) /\ Handling \in StillToHandle
        /\ \A r \in RoleNames : Occurs(Handling, r)
    BY DEF IInv, TypeOK, Handling, StillToHandle, RoleNames, Occurs
  <2>3. SignalOK'
    BY <2>1, <2>2 DEF IInv, TypeOK, SignalOK
  <2>4. TodoInv' /\ RoleInv' /\ NameInv'
    BY <2>1 DEF IInv, TodoInv, RoleInv, Keeps, NameInv, Responsible
  <2>5. HandlerInv'
    BY <2>1, <2>2 DEF IInv, HandlerInv
  <2>6. QED BY <2>1, <2>3, <2>4, <2>5 DEF IInv, TypeOK, SignalOK
<1>18. CASE HandlerRemoves(p)
  <2> DEFINE role == Head(handling[p])
  <2>1. /\ UNCHANGED <<current, value, pc, todo, handle, left, written, file, late>>
        /\ handling[p] # <<>> /\ role \in RoleNames
        /\ mutex' = [mutex EXCEPT ![role] = NoProc]
        /\ handling' = [handling EXCEPT ![p] = Tail(@)]
    BY <1>18 DEF HandlerRemoves, objectVars, fileVars
  <2>2. /\ handling \in [Procs -> Seq(RoleNames \cup {"exit"})]
        /\ handling[p] \in StillToHandle
        /\ \A r \in RoleNames : mutex[r] = p => Occurs(handling[p], r) \/ <<p, r>> \in late
        /\ mutex \in [RoleNames -> Procs \cup {NoProc}]
    BY <2>1 DEF IInv, TypeOK, HandlerInv
  <2>3. /\ Tail(handling[p]) \in Seq(RoleNames \cup {"exit"})
        /\ Tail(handling[p]) \in StillToHandle
    <3>4. Tail(handling[p]) \in StillToHandle
      BY <2>1, <2>2, HandlingOne
    <3>5. Tail(handling[p]) \in Seq(RoleNames \cup {"exit"})
      BY <2>2, <2>1, HeadTailProperties
    <3>6. QED BY <3>4, <3>5
  <2>4. \A x : x # role /\ Occurs(handling[p], x) => Occurs(Tail(handling[p]), x)
    BY <2>1, <2>2, OccursTail
  <2> HIDE DEF role
  <2>5. /\ mutex' \in [RoleNames -> Procs \cup {NoProc}]
        /\ \A r \in RoleNames, q \in Procs : mutex'[r] = q => mutex[r] = q /\ r # role
    BY <2>1, <2>2, ProcessAssumption
  <2>6. SignalOK'
    BY <2>1, <2>2, <2>3 DEF IInv, TypeOK, SignalOK
  <2>7. TodoInv' /\ RoleInv' /\ NameInv'
    BY <2>1, <2>5 DEF IInv, TodoInv, RoleInv, Keeps, NameInv, Responsible
  <2>8. HandlerInv'
    <3>1. ASSUME NEW q \in Procs, handling'[q] # <<>>
          PROVE  /\ handling'[q] \in StillToHandle
                 /\ \A r \in RoleNames :
                      mutex'[r] = q => Occurs(handling'[q], r) \/ <<q, r>> \in late
      <4>1. CASE q = p
        BY <2>1, <2>2, <2>3, <2>4, <2>5, <4>1
      <4>2. CASE q # p
        BY <2>1, <2>2, <2>5, <3>1, <4>2 DEF IInv, HandlerInv
      <4>3. QED BY <4>1, <4>2
    <3>2. QED BY <2>1, <3>1 DEF HandlerInv
  <2>9. QED BY <2>1, <2>5, <2>6, <2>7, <2>8 DEF IInv, TypeOK, SignalOK
<1>19. CASE HandlerExits(p)
  <2>1. /\ handling[p] # <<>> /\ Head(handling[p]) = "exit"
        /\ Goto(p, "killed", <<>>)
        /\ handle' = [handle EXCEPT ![p] = Closed]
        /\ handling' = [handling EXCEPT ![p] = <<>>]
        /\ UNCHANGED <<mutex, current, value, left, written, file, late>>
    BY <1>19 DEF HandlerExits, objectVars, fileVars
  <2>2. \A r \in RoleNames : mutex[r] = p => <<p, r>> \in late
    <3>1. handling[p] = <<"exit">>
      BY <2>1 DEF IInv, HandlerInv, StillToHandle
    <3>2. \A r \in RoleNames : ~Occurs(<<"exit">>, r)
      BY DEF Occurs, RoleNames
    <3>3. QED BY <2>1, <3>1, <3>2 DEF IInv, HandlerInv
  <2>3. /\ pc'[p] = "killed" /\ todo'[p] = <<>>
        /\ \A q \in Procs \ {p} : pc'[q] = pc[q] /\ todo'[q] = todo[q]
        /\ pc' \in [Procs -> States]
        /\ todo' \in [Procs -> Seq(Names \cup RoleNames)]
    <3>1. /\ pc' = [pc EXCEPT ![p] = "killed"] /\ todo' = [todo EXCEPT ![p] = <<>>]
          /\ pc \in [Procs -> States] /\ todo \in [Procs -> Seq(Names \cup RoleNames)]
          /\ "killed" \in States /\ <<>> \in Seq(Names \cup RoleNames)
      BY <2>1, EmptySeq DEF Goto, IInv, TypeOK, States
    <3>2. QED BY <3>1
  <2>4. TodoInv'
    BY <2>3 DEF IInv, TodoInv, Leaving, Sides
  <2>5. RoleInv'
    <3> SUFFICES ASSUME NEW r \in RoleNames, NEW q \in Procs, mutex'[r] = q
                 PROVE  Keeps(q, r, pc[q], todo[q])'
      BY DEF RoleInv
    <3>1. mutex[r] = q
      BY <2>1
    <3>2. CASE q = p
      BY <2>1, <2>2, <2>3, <3>1, <3>2 DEF Keeps
    <3>3. CASE q # p
      <4>1. Keeps(q, r, pc[q], todo[q])
        BY <3>1 DEF IInv, RoleInv
      <4>2. QED BY <2>1, <2>3, <3>3, <4>1 DEF Keeps
    <3>4. QED BY <3>2, <3>3
  <2>6. /\ handling' \in [Procs -> Seq(RoleNames \cup {"exit"})]
        /\ \A q \in Procs : handling'[q] # <<>> => handling'[q] = handling[q]
    <3>1. /\ handling \in [Procs -> Seq(RoleNames \cup {"exit"})]
          /\ <<>> \in Seq(RoleNames \cup {"exit"})
      BY EmptySeq DEF IInv, TypeOK
    <3>2. QED BY <2>1, <3>1
  <2>7. SignalOK' /\ HandlerInv'
    BY <2>1, <2>6 DEF IInv, TypeOK, HandlerInv, SignalOK
  <2>8. NameInv'
    <3> SUFFICES ASSUME NEW n \in Names, current[n] # 0
                 PROVE  \E q \in Procs : Responsible(q, n)'
      BY <2>1 DEF NameInv
    <3>1. PICK q \in Procs : Responsible(q, n)
      BY DEF IInv, NameInv
    <3>2. CASE q = p
      BY <2>3, <3>2 DEF Responsible, Accounts
    <3>3. CASE q # p
      BY <2>3, <3>1, <3>3 DEF Responsible
    <3>4. QED BY <3>2, <3>3
  <2>9. handle' \in [Procs -> [Sides -> [Names -> Nat]]]
    <3>1. Closed \in [Sides -> [Names -> Nat]]
      BY DEF Closed
    <3>2. QED BY <2>1, <3>1 DEF IInv, TypeOK
  <2>10. QED BY <1>m, <1>v, <2>1, <2>3, <2>4, <2>5, <2>7, <2>8, <2>9 DEF IInv, TypeOK, SignalOK
<1>20. CASE ClientFails(p)
  <2>1. /\ pc[p] \in {"client", "clientReads"} /\ Goto(p, "tryServer", <<>>)
        /\ UNCHANGED <<mutex, current, value, handle, left, written, file, handling, late>>
    BY <1>20 DEF ClientFails, objectVars, fileVars, signalVars
  <2>2. /\ "tryServer" \in (States \cap Alive) \ Sides
        /\ \A r \in RoleNames : mutex[r] = p => "tryServer" \in Holding(r) \cup Leaving
    BY <1>0, <2>1 DEF Alive, Leaving, States, Sides, Holding
  <2>3. Moved
    BY <2>1, <2>2, ProceedInv
  <2>4. QED BY <1>g, <1>m, <1>v, <2>1, <2>3 DEF IInv, TypeOK, SignalOK
<1>21. CASE ServerFails(p)
  <2>1. Leave(p) /\ UNCHANGED <<mutex, current, value, handle, left, written, file, handling, late>>
    BY <1>21 DEF ServerFails, objectVars, fileVars, signalVars
  <2>2. Moved
    BY <2>1, LeaveInv
  <2>3. QED BY <1>g, <1>m, <1>v, <2>1, <2>2 DEF IInv, TypeOK, SignalOK
<1>14. CASE OpenFails(p)
  <2> DEFINE handler == IF Head(todo[p]) = "memory" THEN <<>> ELSE <<"memory">>
  <2>1. /\ pc[p] \in Sides /\ todo[p] # <<>> /\ Unwind(p, handler)
        /\ UNCHANGED <<mutex, current, value, handle, left, written, file, handling, late>>
    BY <1>14 DEF OpenFails, objectVars, fileVars, signalVars
  <2>2. \A r \in RoleNames : mutex'[r] # p
    BY <1>0, <2>1 DEF Sides, Leaving, Holding
  <2>3. handler \in {<<>>, <<"memory">>}
    OBVIOUS
  <2>4. <<>> \o Roles = Roles
    BY Lists, ConcatEmptySeq
  <2>5. Moved
    <3>1. CASE pc[p] = "writer"
      <4> DEFINE L == handler \o Roles \o Closing
      <4>1. L \in {Closing \o Roles, Closing \o Roles \o Closing, Roles \o Closing,
                   <<"memory">> \o Roles \o Closing}
        BY <2>3, <2>4
      <4>2. Goto(p, "cleanup", L)
        BY <2>1, <3>1 DEF Unwind
      <4> HIDE DEF L, handler
      <4>3. /\ L \in Seq(AllNames) /\ L # <<>>
            /\ \A r \in RoleNames : Occurs(L, r)
            /\ \A n \in Names : Accounts("cleanup", L, n)
        BY <1>c, <4>1
      <4>4. QED BY <1>c, <1>m, <2>1, <2>2, <4>2, <4>3, MoveInv
    <3>2. CASE pc[p] = "reader"
      <4> DEFINE L == handler \o Roles
      <4>1. L = IF Head(todo[p]) = "memory" THEN Roles ELSE <<"memory">> \o Roles
        BY <2>4
      <4>2. Goto(p, "unwinding", L)
        BY <2>1, <3>2 DEF Unwind
      <4> HIDE DEF L, handler
      <4>3. L \in Seq(AllNames) /\ \A r \in RoleNames : Occurs(L, r)
        BY <4>1, Lists
      <4>4. L # <<>>
        <5>1. "client" \in RoleNames
          BY DEF RoleNames
        <5>2. QED BY <4>3, <5>1, EmptySeq DEF Occurs
      <4>5. \A n \in Names : Responsible(p, n) => Accounts("unwinding", L, n)
        <5>1. Head(todo[p]) = "memory" => Occurs(todo[p], "memory")
          BY <2>1, OpeningOne DEF IInv, TodoInv
        <5>2. Head(todo[p]) # "memory" => Occurs(L, "memory")
          BY <4>1, Lists
        <5>3. QED BY <3>2, <5>1, <5>2 DEF Responsible, Accounts, Alive
      <4>6. "unwinding" \in States /\ "unwinding" \in Leaving /\ "unwinding" \notin Sides
        BY DEF States, Leaving, Sides
      <4>7. QED BY <1>m, <2>1, <2>2, <4>2, <4>3, <4>4, <4>5, <4>6, MoveInv
    <3>3. QED BY <2>1, <3>1, <3>2 DEF Sides
  <2>6. QED BY <1>m, <1>v, <2>1, <2>5 DEF IInv, TypeOK
<1>99. QED
  BY <1>1, <1>2, <1>3, <1>4, <1>5, <1>6, <1>7, <1>8, <1>9, <1>10, <1>11, <1>12, <1>13, <1>14,
     <1>15, <1>16, <1>17, <1>18, <1>19, <1>20, <1>21
  DEF Process

LEMMA NextInv == IInv /\ [Next]_vars => IInv'
<1> SUFFICES ASSUME IInv, [Next]_vars PROVE IInv'
  OBVIOUS
<1>1. CASE Next
  BY <1>1, ProcessInv DEF Next
<1>2. CASE UNCHANGED vars
  BY <1>2 DEF vars, objectVars, fileVars, signalVars, IInv, TypeOK, TodoInv, RoleInv, Keeps,
     HandlerInv, NameInv, Responsible
<1>3. QED BY <1>1, <1>2

LEMMA Invariant == Spec => []IInv
BY InitInv, NextInv, PTL DEF Spec

(* The variables keep their types, and no stop semaphore ever holds more   *)
(* than it can: the post that would overflow it throws                     *)
(* (SharedWriteDataAccess::Stop).                                          *)
THEOREM TypeCorrect == Spec => []TypeOK
<1>1. IInv => TypeOK
  BY DEF IInv
<1>2. QED BY <1>1, Invariant, PTL

(* However many processes are started, fail or are interrupted, whoever    *)
(* finds the mutex of a role finds a process that has not ended, or one    *)
(* that has taken it between the Cleaner of its own SIGINT handler and     *)
(* exit.  Every other way out of MultiProcessTask, that of a client gone   *)
(* on as server too, passes through a Cleaner after the last mutex.        *)
THEOREM RolesAreOfTheLiving == Spec => []RoleOfTheLiving
<1>1. IInv => RoleOfTheLiving
  <2> SUFFICES ASSUME IInv, NEW r \in RoleNames, mutex[r] # NoProc
               PROVE  ~Gone(mutex[r]) \/ <<mutex[r], r>> \in late
    BY DEF RoleOfTheLiving
  <2>1. mutex[r] \in Procs
    BY DEF IInv, TypeOK
  <2>2. Keeps(mutex[r], r, pc[mutex[r]], todo[mutex[r]])
    BY <2>1 DEF IInv, RoleInv
  <2>3. QED BY <2>2 DEF Keeps, Holding, Leaving, Gone
<1>2. QED BY <1>1, Invariant, PTL

(* When every process started has ended and none was interrupted, no name  *)
(* of a semaphore or of the memory is left: the destructors of both data   *)
(* access objects, or of the one that was made, have removed them.         *)
THEOREM NamesAreRemoved == Spec => []NothingIsLeft
<1>1. IInv => NothingIsLeft
  <2> SUFFICES ASSUME IInv, \A p \in Procs : pc[p] \in {"idle", "ended"},
                      NEW n \in Names, current[n] # 0
               PROVE  FALSE
    BY DEF NothingIsLeft, NamesRemoved
  <2>1. PICK q \in Procs : Responsible(q, n)
    BY DEF IInv, NameInv
  <2>2. QED BY <2>1 DEF Responsible, Accounts, Alive
<1>2. QED BY <1>1, Invariant, PTL

(* When some of them have failed to open a name, the memory has lost its   *)
(* name all the same, because handler_ is closed with the constructor that *)
(* throws, and no role is taken.  Only names of semaphores can be left.    *)
THEOREM SemaphoresAreLeftOnly == Spec => []OnlySemaphoresAreLeft
<1>1. IInv => OnlySemaphoresAreLeft
  <2> SUFFICES ASSUME IInv, \A p \in Procs : pc[p] \in {"idle", "ended", "failed"}
               PROVE  current["memory"] = 0 /\ \A r \in RoleNames : mutex[r] = NoProc
    BY DEF OnlySemaphoresAreLeft
  <2>1. current["memory"] = 0
    <3>1. "memory" \in Names
      BY DEF Names
    <3>2. \A q \in Procs : ~Responsible(q, "memory")
      BY DEF Responsible, Accounts, Alive
    <3>3. QED BY <3>1, <3>2 DEF IInv, NameInv
  <2>2. \A r \in RoleNames : mutex[r] = NoProc
    <3> SUFFICES ASSUME NEW r \in RoleNames, mutex[r] # NoProc PROVE FALSE
      OBVIOUS
    <3>1. mutex[r] \in Procs
      BY DEF IInv, TypeOK
    <3>2. Keeps(mutex[r], r, pc[mutex[r]], todo[mutex[r]])
      BY <3>1 DEF IInv, RoleInv
    <3>3. QED BY <3>1, <3>2 DEF Keeps, Holding, Leaving
  <2>3. QED BY <2>1, <2>2
<1>2. QED BY <1>1, Invariant, PTL

-----------------------------------------------------------------------------
(***************************************************************************)
(* The pair.  As long as nobody has left, is leaving or is interrupted, no *)
(* name has been removed, so that every process finds the objects of the   *)
(* others, and no role is given twice.  Before there is a server nothing is*)
(* announced and nothing written, so that the server, when it is the last  *)
(* process to truncate the destination on its way, has cost the client     *)
(* nothing; and one that gets the role of a client later, because its      *)
(* mutex could not be created before, has written nothing yet.             *)
(***************************************************************************)
Calm == \A p \in Procs : ~Gone(p) /\ pc[p] \notin Leaving /\ handling[p] = <<>>

OwnerInv == \A r \in RoleNames, p \in Procs : pc[p] \in RoleStates(r) => mutex[r] = p

HasOpened(p, side, n) ==
  \/ pc[p] \in Alive \ Sides
  \/ pc[p] = "writer" /\ side = "reader"
  \/ pc[p] = side /\ ~Occurs(todo[p], n)

OpenedInv ==
  \A p \in Procs, side \in Sides, n \in Names :
    HasOpened(p, side, n) => current[n] # 0 /\ handle[p][side][n] = current[n]

NothingSent ==
  /\ current["data"] <= Len(value["data"])
  /\ \A g \in 1 .. Len(value["data"]) : value["data"][g] = 0
  /\ \A p \in Procs : written[p] = 0 /\ pc[p] # "clientWrites"

Starting == {"reader", "writer", "tryClient", "tryServer"}

Fresh == {"idle", "reader", "writer", "tryClient"}

FreshInv == \A p \in Procs : pc[p] \in Fresh => written[p] = 0

WrittenInv ==
  /\ mutex["server"] = NoProc => NothingSent
  /\ mutex["server"] # NoProc /\ (\A p \in Procs : pc[p] \notin Starting) =>
       \A p \in Procs : pc[p] \in RoleStates("client") => 1 .. written[p] \subseteq file

Pairing == OwnerInv /\ OpenedInv /\ FreshInv /\ WrittenInv

PairInv == Calm => Pairing

(* What can happen while nobody leaves.                                    *)
Prepares(p) ==
  /\ \/ pc[p] = "idle" /\ Goto(p, "reader", Opening)
     \/ pc[p] = "reader" /\ todo[p] = <<>> /\ Goto(p, "writer", Opening)
     \/ pc[p] = "writer" /\ todo[p] = <<>> /\ Goto(p, "tryClient", <<>>)
  /\ UNCHANGED <<mutex, current, value, handle, written>>

BecomesServer(p) ==
  /\ pc[p] = "tryServer" /\ mutex["server"] = NoProc
  /\ mutex' = [mutex EXCEPT !["server"] = p]
  /\ Goto(p, "server", <<>>)
  /\ UNCHANGED <<current, value, handle, written, file>>

Transfers(p) ==
  /\ UNCHANGED <<mutex, current, handle>>
  /\ \A q \in Procs \ {p} : pc'[q] = pc[q] /\ todo'[q] = todo[q]
  /\ \/ /\ pc[p] \in RoleStates("server") /\ pc'[p] \in RoleStates("server")
        /\ UNCHANGED <<written, file>>
     \/ /\ pc[p] = "client" /\ pc'[p] = "clientReads"
        /\ UNCHANGED <<value, written, file>>
     \/ /\ pc[p] \in {"client", "clientReads"} /\ pc'[p] = "tryServer"
        /\ UNCHANGED <<value, written, file>>
     \/ /\ pc[p] = "clientReads" /\ UNCHANGED <<written, file>>
        /\ IF Value(p, "writer", "data") > 0
           THEN pc'[p] = "clientWrites"
           ELSE pc'[p] = "client" /\ value' = value
     \/ /\ pc[p] = "clientWrites" /\ pc'[p] = "client"
        /\ written' = [written EXCEPT ![p] = @ + 1]
        /\ file' = file \cup {written'[p]}

CalmMove(p) ==
  Prepares(p) \/ Open(p) \/ TryClient(p) \/ BecomesServer(p) \/ Transfers(p)

LEMMA Goes ==
  ASSUME TypeOK, NEW p \in Procs, NEW label, NEW L, Goto(p, label, L)
  PROVE  /\ pc'[p] = label /\ todo'[p] = L
         /\ \A q \in Procs \ {p} : pc'[q] = pc[q] /\ todo'[q] = todo[q]
  BY DEF Goto, TypeOK

LEMMA Quits ==
  ASSUME TypeOK, NEW p \in Procs, Calm'
  PROVE  /\ \A label \in Leaving : \A L : ~Goto(p, label, L)
         /\ ~Leave(p)
<1>1. ASSUME NEW label \in Leaving, NEW L, Goto(p, label, L) PROVE FALSE
  BY <1>1, Goes DEF Calm
<1>2. QED BY <1>1 DEF Leave, Leaving

LEMMA SignalsRest ==
  ASSUME NEW p \in Procs, Process(p), ~Remove(p),
         ~Interrupt(p), ~HandlerRemoves(p), ~HandlerExits(p)
  PROVE  handling' = handling
  BY DEF Process, Create, Open, OpenFails, OpenSource, OpenDestination, TryClient, TryServer,
     ClientChecksStop, ClientReads, ClientWrites, ClientThrows, ClientFails, ServerFails,
     ServerWrites, ServerThrows, ServerPostsStop, ServerTriesSpace, signalVars

LEMMA CalmStep ==
  ASSUME IInv, NEW p \in Procs, Process(p), Calm'
  PROVE  Calm /\ CalmMove(p)
<1>t. TypeOK
  BY DEF IInv
<1>q. /\ \A label \in Leaving : \A L : ~Goto(p, label, L)
      /\ ~Leave(p)
  BY <1>t, Quits
<1>l. {"cleanup", "unwinding"} \subseteq Leaving
  BY DEF Leaving
<1>15. CASE Remove(p)
  <2>1. /\ pc[p] \in Leaving
        /\ pc' = [pc EXCEPT ![p] = Outcome[pc[p]]] \/ pc' = pc
    BY <1>15 DEF Remove, Leaving
  <2>2. pc'[p] \in {"ended", "failed", "killed"} \cup Leaving
    BY <1>t, <2>1 DEF TypeOK, Outcome, Leaving
  <2>3. QED BY <2>2 DEF Calm, Gone
<1>16. CASE Interrupt(p)
  <2>1. handling'[p] = Handling
    BY <1>t, <1>16 DEF Interrupt, TypeOK
  <2>2. Handling # <<>>
    BY DEF Handling
  <2>3. QED BY <2>1, <2>2 DEF Calm
<1>18. CASE HandlerRemoves(p)
  <2>1. handling'[p] = Tail(handling[p]) /\ handling[p] \in StillToHandle
    BY <1>t, <1>18 DEF HandlerRemoves, TypeOK, IInv, HandlerInv
  <2>2. Tail(handling[p]) # <<>>
    BY <1>18, <2>1, HandlingOne DEF HandlerRemoves
  <2>3. QED BY <2>1, <2>2 DEF Calm
<1>19. CASE HandlerExits(p)
  <2>1. pc'[p] = "killed"
    BY <1>t, <1>19, Goes DEF HandlerExits
  <2>2. QED BY <2>1 DEF Calm, Gone
<1> SUFFICES ASSUME ~Remove(p), ~Interrupt(p), ~HandlerRemoves(p), ~HandlerExits(p)
             PROVE  Calm /\ CalmMove(p)
  BY <1>15, <1>16, <1>18, <1>19
<1>h. handling' = handling
  BY SignalsRest
<1>1. ASSUME pc[p] \in Alive \cup {"idle"}, \A q \in Procs \ {p} : pc'[q] = pc[q]
      PROVE  Calm
  BY <1>h, <1>1 DEF Calm, Gone, Leaving, Alive
<1>2. CASE Create(p)
  <2>1. pc[p] = "idle" /\ Goto(p, "reader", Opening)
        /\ UNCHANGED <<mutex, current, value, handle, written>>
    BY <1>2, <1>q, <1>l DEF Create, objectVars, fileVars
  <2>2. QED BY <1>t, <1>1, <2>1, Goes DEF CalmMove, Prepares
<1>3. CASE Open(p)
  <2>1. pc[p] \in Sides /\ pc' = pc
    BY <1>3 DEF Open
  <2>2. QED BY <1>1, <1>3, <2>1 DEF CalmMove, Sides, Alive
<1>4. CASE OpenFails(p)
  BY <1>4, <1>q, <1>l DEF OpenFails, Unwind
<1>5. CASE OpenSource(p)
  <2>1. pc[p] = "reader" /\ todo[p] = <<>> /\ Goto(p, "writer", Opening)
        /\ UNCHANGED <<mutex, current, value, handle, written>>
    BY <1>5, <1>q, <1>l DEF OpenSource, objectVars, fileVars
  <2>2. QED BY <1>t, <1>1, <2>1, Goes DEF CalmMove, Prepares, Alive
<1>6. CASE OpenDestination(p)
  <2>1. pc[p] = "writer" /\ todo[p] = <<>> /\ Goto(p, "tryClient", <<>>)
        /\ UNCHANGED <<mutex, current, value, handle, written>>
    BY <1>6, <1>q, <1>l DEF OpenDestination, objectVars
  <2>2. QED BY <1>t, <1>1, <2>1, Goes DEF CalmMove, Prepares, Alive
<1>7. CASE TryClient(p)
  <2>1. pc[p] = "tryClient" /\ \E label : Goto(p, label, <<>>)
    BY <1>7 DEF TryClient
  <2>2. QED BY <1>t, <1>1, <1>7, <2>1, Goes DEF CalmMove, Alive
<1>8. CASE TryServer(p)
  <2>1. BecomesServer(p)
    BY <1>8, <1>q DEF TryServer, Takes, BecomesServer, objectVars, fileVars
  <2>2. QED BY <1>t, <1>1, <2>1, Goes DEF CalmMove, BecomesServer, Alive
<1>9. CASE ClientChecksStop(p)
  <2>1. /\ pc[p] = "client" /\ Goto(p, "clientReads", <<>>)
        /\ UNCHANGED <<mutex, current, value, handle, written, file>>
    BY <1>9, <1>q DEF ClientChecksStop, fileVars
  <2>2. QED BY <1>t, <1>1, <2>1, Goes DEF CalmMove, Transfers, Alive
<1>10. CASE ClientReads(p)
  <2>1. /\ pc[p] = "clientReads"
        /\ UNCHANGED <<mutex, current, handle, written, file>>
        /\ IF Value(p, "writer", "data") > 0
           THEN Goto(p, "clientWrites", <<>>)
           ELSE Goto(p, "client", <<>>) /\ value' = value
    BY <1>10 DEF ClientReads, fileVars
  <2>2. QED BY <1>t, <1>1, <2>1, Goes DEF CalmMove, Transfers, Alive
<1>11. CASE ClientWrites(p)
  <2>1. /\ pc[p] = "clientWrites" /\ Goto(p, "client", <<>>)
        /\ UNCHANGED <<mutex, current, handle>>
        /\ written' = [written EXCEPT ![p] = @ + 1]
        /\ file' = file \cup {written'[p]}
    BY <1>11 DEF ClientWrites, objectVars
  <2>2. QED BY <1>t, <1>1, <2>1, Goes DEF CalmMove, Transfers, Alive
<1>12. CASE ClientThrows(p)
  BY <1>12, <1>q DEF ClientThrows
<1>13. CASE ServerWrites(p) \/ ServerThrows(p)
  <2>1. /\ pc[p] = "server" /\ pc' = pc /\ todo' = todo
        /\ UNCHANGED <<mutex, current, handle, written, file>>
    BY <1>13 DEF ServerWrites, ServerThrows, objectVars, fileVars
  <2>2. QED BY <1>1, <2>1 DEF CalmMove, Transfers, Alive, RoleStates
<1>14. CASE ServerPostsStop(p) \/ ServerTriesSpace(p)
  <2>1. /\ pc[p] \in {"server", "serverStops"}
        /\ \E label \in {"server", "serverStops"} : Goto(p, label, <<>>)
        /\ UNCHANGED <<mutex, current, handle, written, file>>
    BY <1>14, <1>q DEF ServerPostsStop, ServerTriesSpace, fileVars
  <2>2. QED BY <1>t, <1>1, <2>1, Goes DEF CalmMove, Transfers, Alive, RoleStates
<1>20. CASE ClientFails(p)
  <2>1. /\ pc[p] \in {"client", "clientReads"} /\ Goto(p, "tryServer", <<>>)
        /\ UNCHANGED <<mutex, current, value, handle, written, file>>
    BY <1>20 DEF ClientFails, objectVars, fileVars
  <2>2. QED BY <1>t, <1>1, <2>1, Goes DEF CalmMove, Transfers, Alive
<1>21. CASE ServerFails(p)
  BY <1>21, <1>q DEF ServerFails
<1>17. QED
  BY <1>2, <1>3, <1>4, <1>5, <1>6, <1>7, <1>8, <1>9, <1>10, <1>11, <1>12, <1>13, <1>14,
     <1>20, <1>21
  DEF Process

(* What Open does, name by name.                                           *)
LEMMA OpenFacts ==
  ASSUME TypeOK, TodoInv, NEW p \in Procs, Open(p)
  PROVE  /\ pc[p] \in Sides /\ Head(todo[p]) \in Names
         /\ UNCHANGED <<mutex, pc, written, file>>
         /\ \A q \in Procs \ {p} : todo'[q] = todo[q]
         /\ \A m \in Names : m # Head(todo[p]) /\ ~Occurs(todo'[p], m) => ~Occurs(todo[p], m)
         /\ \A m \in Names : current[m] # 0 => current'[m] = current[m]
         /\ current'[Head(todo[p])] # 0
         /\ \A q \in Procs, side \in Sides, m \in Names :
              handle'[q][side][m] =
                IF q = p /\ side = pc[p] /\ m = Head(todo[p])
                THEN current'[m] ELSE handle[q][side][m]
<1> DEFINE n == Head(todo[p])
<1>1. /\ pc[p] \in Sides /\ todo[p] # <<>>
      /\ todo' = [todo EXCEPT ![p] = Tail(@)]
      /\ UNCHANGED <<mutex, pc, written, file>>
      /\ handle' = [handle EXCEPT ![p][pc[p]][n] = current'[n]]
      /\ IF current[n] = 0
         THEN current' = [current EXCEPT ![n] = Len(value[n]) + 1]
         ELSE UNCHANGED current
  BY DEF Open, objectVars, fileVars
<1>2. /\ todo[p] \in StillToOpen /\ n \in Names
      /\ todo[p] \in Seq(AllNames)
  BY <1>1, OpeningOne, Lists DEF TodoInv
<1>3. todo'[p] = Tail(todo[p]) /\ \A q \in Procs \ {p} : todo'[q] = todo[q]
  BY <1>1 DEF TypeOK
<1>4. \A m \in Names : m # n /\ Occurs(todo[p], m) => Occurs(Tail(todo[p]), m)
  BY <1>1, <1>2, OccursTail
<1> HIDE DEF n
<1>5. /\ \A m \in Names : current[m] # 0 => current'[m] = current[m]
      /\ current'[n] # 0
  <2>1. current \in [Names -> Nat] /\ Len(value[n]) \in Nat
    BY <1>2, LenProperties DEF TypeOK
  <2>2. QED BY <1>1, <1>2, <2>1
<1>6. \A q \in Procs, side \in Sides, m \in Names :
        handle'[q][side][m] =
          IF q = p /\ side = pc[p] /\ m = n THEN current'[m] ELSE handle[q][side][m]
  <2>1. handle \in [Procs -> [Sides -> [Names -> Nat]]]
    BY DEF TypeOK
  <2>2. QED BY <1>1, <1>2, <2>1
<1>7. QED BY <1>1, <1>2, <1>3, <1>4, <1>5, <1>6 DEF n

(* A role is taken by one process.                                         *)
LEMMA OwnerStep ==
  ASSUME IInv, Pairing, NEW p \in Procs, CalmMove(p)
  PROVE  OwnerInv'
<1>t. /\ TypeOK /\ TodoInv /\ p # NoProc
      /\ mutex \in [RoleNames -> Procs \cup {NoProc}]
      /\ {"client", "server"} = RoleNames
  BY ProcessAssumption DEF IInv, TypeOK, RoleNames
<1>o. OwnerInv
  BY DEF Pairing
<1>1. CASE Prepares(p)
  <2>1. /\ mutex' = mutex /\ pc'[p] \in {"reader", "writer", "tryClient"}
        /\ \A q \in Procs \ {p} : pc'[q] = pc[q]
    BY <1>t, <1>1, Goes DEF Prepares
  <2>2. QED BY <1>o, <2>1 DEF OwnerInv, RoleStates
<1>2. CASE Open(p)
  <2>1. UNCHANGED <<mutex, pc>>
    BY <1>t, <1>2, OpenFacts
  <2>2. QED BY <1>o, <2>1 DEF OwnerInv
<1>3. CASE TryClient(p)
  <2>1. CASE Takes(p, "client") /\ Goto(p, "client", <<>>)
    <3>1. /\ pc'[p] = "client" /\ \A q \in Procs \ {p} : pc'[q] = pc[q]
      BY <1>t, <2>1, Goes
    <3>2. /\ mutex'["client"] = p /\ mutex'["server"] = mutex["server"]
          /\ mutex["client"] = NoProc
      BY <1>t, <2>1, TakesFacts
    <3>3. \A q \in Procs : pc[q] \notin RoleStates("client")
      BY <1>o, <1>t, <3>2, ProcessAssumption DEF OwnerInv
    <3>4. QED BY <1>o, <1>t, <3>1, <3>2, <3>3 DEF OwnerInv, RoleStates
  <2>2. CASE Misses("client") /\ Goto(p, "tryServer", <<>>)
    <3>1. /\ pc'[p] = "tryServer" /\ \A q \in Procs \ {p} : pc'[q] = pc[q]
      BY <1>t, <2>2, Goes
    <3>2. mutex' = mutex
      BY <2>2 DEF Misses
    <3>3. QED BY <1>o, <3>1, <3>2 DEF OwnerInv, RoleStates
  <2>3. QED BY <1>3, <2>1, <2>2 DEF TryClient
<1>4. CASE BecomesServer(p)
  <2>1. /\ pc[p] = "tryServer" /\ mutex["server"] = NoProc
        /\ mutex' = [mutex EXCEPT !["server"] = p] /\ Goto(p, "server", <<>>)
    BY <1>4 DEF BecomesServer
  <2>2. /\ pc'[p] = "server" /\ \A q \in Procs \ {p} : pc'[q] = pc[q]
    BY <1>t, <2>1, Goes
  <2>3. mutex'["server"] = p /\ mutex'["client"] = mutex["client"]
    BY <1>t, <2>1
  <2>4. \A q \in Procs : pc[q] \notin RoleStates("server")
    BY <1>o, <1>t, <2>1, ProcessAssumption DEF OwnerInv
  <2>5. QED BY <1>o, <1>t, <2>2, <2>3, <2>4 DEF OwnerInv, RoleStates
<1>5. CASE Transfers(p)
  <2>1. /\ mutex' = mutex /\ \A q \in Procs \ {p} : pc'[q] = pc[q]
        /\ \A r \in RoleNames : pc'[p] \in RoleStates(r) => pc[p] \in RoleStates(r)
    BY <1>5, <1>t DEF Transfers, RoleStates
  <2>2. QED BY <1>o, <2>1 DEF OwnerInv
<1>6. QED BY <1>1, <1>2, <1>3, <1>4, <1>5 DEF CalmMove

(* Who has yet to try for the role of the client has written nothing.      *)
LEMMA FreshStep ==
  ASSUME IInv, Pairing, NEW p \in Procs, CalmMove(p)
  PROVE  FreshInv'
<1>t. TypeOK /\ TodoInv /\ written \in [Procs -> Nat]
  BY DEF IInv, TypeOK
<1>o. FreshInv
  BY DEF Pairing
<1>1. CASE Prepares(p)
  <2>1. /\ pc[p] \in Fresh /\ written' = written
        /\ \A q \in Procs \ {p} : pc'[q] = pc[q]
    BY <1>t, <1>1, Goes DEF Prepares, Fresh
  <2>2. QED BY <1>o, <2>1 DEF FreshInv
<1>2. CASE Open(p)
  <2>1. UNCHANGED <<pc, written>>
    BY <1>t, <1>2, OpenFacts
  <2>2. QED BY <1>o, <2>1 DEF FreshInv
<1>3. CASE TryClient(p) \/ BecomesServer(p)
  <2>1. /\ \E label \in {"client", "tryServer", "server"} : Goto(p, label, <<>>)
        /\ written' = written
    BY <1>3 DEF TryClient, BecomesServer, fileVars
  <2>2. /\ pc'[p] \notin Fresh /\ \A q \in Procs \ {p} : pc'[q] = pc[q]
    BY <1>t, <2>1, Goes DEF Fresh
  <2>3. QED BY <1>o, <2>1, <2>2 DEF FreshInv
<1>4. CASE Transfers(p)
  <2>1. pc'[p] \notin Fresh /\ \A q \in Procs \ {p} : pc'[q] = pc[q]
    BY <1>4 DEF Transfers, RoleStates, Fresh
  <2>2. \A q \in Procs \ {p} : written'[q] = written[q]
    BY <1>t, <1>4 DEF Transfers
  <2>3. QED BY <1>o, <2>1, <2>2 DEF FreshInv
<1>5. QED BY <1>1, <1>2, <1>3, <1>4 DEF CalmMove

(* What a process has opened is what has the name.                         *)
LEMMA OpenedStep ==
  ASSUME IInv, Pairing, NEW p \in Procs, CalmMove(p)
  PROVE  OpenedInv'
<1>t. TypeOK /\ TodoInv
  BY DEF IInv
<1>o. OpenedInv
  BY DEF Pairing
<1>1. CASE Open(p)
  <2> SUFFICES ASSUME NEW q \in Procs, NEW side \in Sides, NEW m \in Names,
                      HasOpened(q, side, m)'
               PROVE  current'[m] # 0 /\ handle'[q][side][m] = current'[m]
    BY DEF OpenedInv
  <2>f. /\ pc[p] \in Sides /\ Head(todo[p]) \in Names /\ pc' = pc
        /\ todo'[q] = todo[q] \/ q = p
        /\ m # Head(todo[p]) /\ ~Occurs(todo'[p], m) => ~Occurs(todo[p], m)
        /\ current[m] # 0 => current'[m] = current[m]
        /\ current'[Head(todo[p])] # 0
        /\ handle'[q][side][m] =
             IF q = p /\ side = pc[p] /\ m = Head(todo[p])
             THEN current'[m] ELSE handle[q][side][m]
    BY <1>t, <1>1, OpenFacts
  <2>1. CASE q = p /\ side = pc[p] /\ m = Head(todo[p])
    BY <2>f, <2>1
  <2>2. CASE ~(q = p /\ side = pc[p] /\ m = Head(todo[p]))
    <3>1. HasOpened(q, side, m)
      BY <2>f, <2>2 DEF HasOpened
    <3>2. current[m] # 0 /\ handle[q][side][m] = current[m]
      BY <1>o, <3>1 DEF OpenedInv
    <3>3. QED BY <2>f, <2>2, <3>2
  <2>3. QED BY <2>1, <2>2
<1>2. CASE ~Open(p)
  <2>1. UNCHANGED <<current, handle>>
    BY <1>2 DEF CalmMove, Prepares, TryClient, BecomesServer, Transfers, objectVars
  <2>2. ASSUME NEW q \in Procs, NEW side \in Sides, NEW m \in Names, HasOpened(q, side, m)'
        PROVE  HasOpened(q, side, m)
    <3>1. CASE Prepares(p)
      <4>1. CASE q = p
        <5>1. \A n \in Names : Occurs(Opening, n)
          BY DEF Opening, Names, Occurs
        <5>2. ~Occurs(<<>>, m)
          BY EmptySeq DEF Occurs
        <5>3. \/ pc'[p] = "reader" /\ todo'[p] = Opening
              \/ pc[p] = "reader" /\ todo[p] = <<>> /\ pc'[p] = "writer" /\ todo'[p] = Opening
              \/ pc[p] = "writer" /\ todo[p] = <<>>
          BY <1>t, <3>1, Goes DEF Prepares
        <5>4. QED BY <2>2, <4>1, <5>1, <5>2, <5>3 DEF HasOpened, Alive, Sides
      <4>2. CASE q # p
        <5>1. pc'[q] = pc[q] /\ todo'[q] = todo[q]
          BY <1>t, <3>1, <4>2, Goes DEF Prepares
        <5>2. QED BY <2>2, <5>1 DEF HasOpened
      <4>3. QED BY <4>1, <4>2
    <3>2. CASE TryClient(p) \/ BecomesServer(p) \/ Transfers(p)
      <4>1. CASE q = p
        BY <3>2, <4>1 DEF TryClient, BecomesServer, Transfers, HasOpened, Alive, Sides, RoleStates
      <4>2. CASE q # p
        <5>1. pc'[q] = pc[q] /\ todo'[q] = todo[q]
          <6>1. CASE TryClient(p) \/ BecomesServer(p)
            BY <1>t, <4>2, <6>1, Goes DEF TryClient, BecomesServer
          <6>2. CASE Transfers(p)
            BY <4>2, <6>2 DEF Transfers
          <6>3. QED BY <3>2, <6>1, <6>2
        <5>2. QED BY <2>2, <5>1 DEF HasOpened
      <4>3. QED BY <4>1, <4>2
    <3>3. QED BY <1>2, <3>1, <3>2 DEF CalmMove
  <2>3. QED BY <1>o, <2>1, <2>2 DEF OpenedInv
<1>3. QED BY <1>1, <1>2

(* Nothing is written before there is a server, and nothing the client has *)
(* written is lost after it.                                               *)
LEMMA NothingSentStep ==
  ASSUME IInv, Pairing, NEW p \in Procs, CalmMove(p), mutex'["server"] = NoProc
  PROVE  NothingSent'
<1>t. /\ TypeOK /\ TodoInv /\ p # NoProc
      /\ mutex \in [RoleNames -> Procs \cup {NoProc}]
      /\ {"client", "server"} = RoleNames /\ "data" \in Names
      /\ "writer" \in Sides
  BY ProcessAssumption DEF IInv, TypeOK, RoleNames, Names, Sides
<1>m. mutex["server"] = NoProc /\ ~BecomesServer(p)
  <2>1. ~BecomesServer(p)
    BY <1>t DEF BecomesServer
  <2>2. mutex'["server"] = mutex["server"]
    BY <1>t, <2>1 DEF CalmMove, Prepares, Open, TryClient, Takes, Misses, Transfers
  <2>3. QED BY <2>1, <2>2
<1>o. NothingSent /\ OwnerInv /\ OpenedInv
  BY <1>m DEF Pairing, WrittenInv
<1>1. CASE Prepares(p)
  <2>1. /\ UNCHANGED <<current, value, written>>
        /\ pc'[p] \in {"reader", "writer", "tryClient"}
        /\ \A q \in Procs \ {p} : pc'[q] = pc[q]
    BY <1>t, <1>1, Goes DEF Prepares
  <2>2. QED BY <1>o, <2>1 DEF NothingSent
<1>2. CASE Open(p)
  <2>1. /\ pc' = pc /\ written' = written
    BY <1>2 DEF Open, fileVars
  <2>2. /\ current'["data"] <= Len(value'["data"])
        /\ \A g \in 1 .. Len(value'["data"]) : value'["data"][g] = 0
    <3> DEFINE n == Head(todo[p])
               s == value["data"]
    <3>1. s \in Seq(Nat) /\ Len(s) \in Nat /\ current["data"] \in Nat
          /\ value \in [Names -> Seq(Nat)] /\ current \in [Names -> Nat]
      BY <1>t, LenProperties DEF TypeOK
    <3>2. CASE n = "data" /\ current[n] = 0
      <4>1. value'["data"] = Append(s, 0) /\ current'["data"] = Len(s) + 1
        BY <1>2, <1>t, <3>1, <3>2 DEF Open, InitialValue
      <4>2. /\ Len(Append(s, 0)) = Len(s) + 1
            /\ \A g \in 1 .. Len(s) : Append(s, 0)[g] = s[g]
            /\ Append(s, 0)[Len(s) + 1] = 0
        BY <3>1, AppendProperties
      <4>3. \A g \in 1 .. Len(s) : s[g] = 0
        BY <1>o DEF NothingSent
      <4> HIDE DEF s
      <4>4. QED BY <3>1, <4>1, <4>2, <4>3
    <3>3. CASE ~(n = "data" /\ current[n] = 0)
      <4>1. value'["data"] = value["data"] /\ current'["data"] = current["data"]
        BY <1>2, <1>t, <3>1, <3>3 DEF Open, objectVars
      <4>2. QED BY <1>o, <4>1 DEF NothingSent
    <3>4. QED BY <3>2, <3>3
  <2>3. QED BY <1>o, <2>1, <2>2 DEF NothingSent
<1>3. CASE TryClient(p)
  <2>1. /\ UNCHANGED <<current, value, written>>
        /\ \E label \in {"client", "tryServer"} : Goto(p, label, <<>>)
    BY <1>3 DEF TryClient, objectVars, fileVars
  <2>2. /\ pc'[p] # "clientWrites" /\ \A q \in Procs \ {p} : pc'[q] = pc[q]
    BY <1>t, <2>1, Goes
  <2>3. QED BY <1>o, <2>1, <2>2 DEF NothingSent
<1>4. CASE Transfers(p)
  <2>1. pc[p] \notin RoleStates("server")
    BY <1>m, <1>o, <1>t DEF OwnerInv
  <2>2. pc[p] # "clientWrites"
    BY <1>o DEF NothingSent
  <2>3. pc[p] = "clientReads" => Value(p, "writer", "data") = 0
    <3> SUFFICES ASSUME pc[p] = "clientReads" PROVE Value(p, "writer", "data") = 0
      OBVIOUS
    <3>1. HasOpened(p, "writer", "data")
      BY DEF HasOpened, Alive, Sides
    <3>2. /\ current["data"] # 0 /\ handle[p]["writer"]["data"] = current["data"]
          /\ current["data"] \in Nat
      BY <1>o, <1>t, <3>1 DEF OpenedInv, TypeOK
    <3>3. value["data"] \in Seq(Nat) /\ Len(value["data"]) \in Nat
      BY <1>t, LenProperties DEF TypeOK
    <3>4. current["data"] \in 1 .. Len(value["data"])
      BY <1>o, <3>2, <3>3 DEF NothingSent
    <3>5. QED BY <1>o, <3>2, <3>4 DEF NothingSent, Value
  <2>4. /\ UNCHANGED <<current, value, written>> /\ pc'[p] # "clientWrites"
        /\ \A q \in Procs \ {p} : pc'[q] = pc[q]
    BY <1>4, <2>1, <2>2, <2>3 DEF Transfers
  <2>5. QED BY <1>o, <2>4 DEF NothingSent
<1>5. QED BY <1>m, <1>1, <1>2, <1>3, <1>4 DEF CalmMove

LEMMA WrittenStep ==
  ASSUME IInv, Pairing, NEW p \in Procs, CalmMove(p)
  PROVE  WrittenInv'
<1> SUFFICES ASSUME mutex'["server"] # NoProc, \A q \in Procs : pc'[q] \notin Starting,
                    NEW q \in Procs, pc'[q] \in RoleStates("client")
             PROVE  1 .. written'[q] \subseteq file'
  BY NothingSentStep DEF WrittenInv
<1>t. /\ TypeOK /\ TodoInv
      /\ mutex \in [RoleNames -> Procs \cup {NoProc}]
      /\ {"client", "server"} = RoleNames
      /\ written \in [Procs -> Nat]
  BY DEF IInv, TypeOK, RoleNames
<1>1. CASE mutex["server"] = NoProc
  <2>1. BecomesServer(p)
    <3>1. ~BecomesServer(p) => mutex'["server"] = mutex["server"]
      BY <1>t DEF CalmMove, Prepares, Open, TryClient, Takes, Misses, Transfers
    <3>2. QED BY <1>1, <3>1
  <2>2. written'[q] = 0
    BY <1>1, <2>1 DEF BecomesServer, Pairing, WrittenInv, NothingSent
  <2>3. QED BY <2>2
<1>3. CASE mutex["server"] # NoProc /\ TryClient(p)
  <2>1. Takes(p, "client") /\ Goto(p, "client", <<>>)
    <3>1. ~Goto(p, "tryServer", <<>>)
      BY <1>t, Goes DEF Starting
    <3>2. QED BY <1>3, <3>1 DEF TryClient
  <2>2. /\ mutex["client"] = NoProc /\ \A x \in Procs \ {p} : pc'[x] = pc[x]
    BY <1>t, <2>1, Goes DEF Takes
  <2>3. q = p
    BY <1>t, <2>2, ProcessAssumption DEF Pairing, OwnerInv
  <2>4. written'[q] = 0
    BY <1>3, <2>3 DEF TryClient, fileVars, Pairing, FreshInv, Fresh
  <2>5. QED BY <2>4
<1>2. CASE mutex["server"] # NoProc /\ ~TryClient(p)
  <2>1. Transfers(p)
    <3>1. ~Prepares(p)
      BY <1>t, Goes DEF Prepares, Starting
    <3>2. ~Open(p)
      BY DEF Open, Sides, Starting
    <3>3. ~BecomesServer(p)
      BY <1>2 DEF BecomesServer
    <3>4. QED BY <1>2, <3>1, <3>2, <3>3 DEF CalmMove
  <2>2. /\ \A x \in Procs \ {p} : pc'[x] = pc[x]
        /\ pc[p] \notin Starting
        /\ pc'[p] \in RoleStates("client") => pc[p] \in RoleStates("client")
    BY <2>1 DEF Transfers, RoleStates, Starting
  <2>3. 1 .. written[q] \subseteq file
    BY <1>2, <2>2 DEF Pairing, WrittenInv
  <2>4. CASE UNCHANGED <<written, file>>
    BY <2>3, <2>4
  <2>5. CASE /\ written' = [written EXCEPT ![p] = @ + 1]
             /\ file' = file \cup {written'[p]}
    <3>1. CASE q = p
      <4>1. written'[q] = written[q] + 1 /\ written[q] \in Nat
        BY <1>t, <2>5, <3>1
      <4>2. QED BY <2>3, <2>5, <3>1, <4>1
    <3>2. CASE q # p
      <4>1. written'[q] = written[q]
        BY <1>t, <2>5, <3>2
      <4>2. QED BY <2>3, <2>5, <4>1
    <3>3. QED BY <3>1, <3>2
  <2>6. QED BY <2>1, <2>4, <2>5 DEF Transfers
<1>4. QED BY <1>1, <1>2, <1>3

LEMMA PairInit == Init => PairInv
<1> SUFFICES ASSUME Init PROVE Pairing
  BY DEF PairInv
<1>1. \A p \in Procs : pc[p] = "idle" /\ written[p] = 0
  BY DEF Init
<1>2. OwnerInv /\ OpenedInv
  BY <1>1 DEF OwnerInv, OpenedInv, HasOpened, Alive, Sides, RoleStates
<1>3. mutex["server"] = NoProc /\ FreshInv
  BY <1>1 DEF Init, FreshInv, RoleNames
<1>4. NothingSent
  BY <1>1, EmptySeq DEF Init, NothingSent, Names
<1>5. QED BY <1>2, <1>3, <1>4 DEF Pairing, WrittenInv

LEMMA PairStep == IInv /\ IInv' /\ PairInv /\ [Next]_vars => PairInv'
<1> SUFFICES ASSUME IInv, PairInv, [Next]_vars, Calm' PROVE Pairing'
  BY DEF PairInv
<1>1. CASE Next
  <2>1. PICK p \in Procs : Process(p)
    BY <1>1 DEF Next
  <2>2. Pairing /\ CalmMove(p)
    BY <2>1, CalmStep DEF PairInv
  <2>3. QED BY <2>2, OwnerStep, FreshStep, OpenedStep, WrittenStep DEF Pairing
<1>2. CASE UNCHANGED vars
  BY <1>2 DEF vars, objectVars, fileVars, signalVars, PairInv, Calm, Gone, Pairing, OwnerInv,
     OpenedInv, HasOpened, FreshInv, WrittenInv, NothingSent
<1>3. QED BY <1>1, <1>2

LEMMA PairInvariant == Spec => []PairInv
  BY PairInit, PairStep, Invariant, PTL DEF Spec

LEMMA RunningStates ==
  \A r \in RoleNames : \A p \in Procs : p \in Running(r) <=> pc[p] \in RoleStates(r)
  BY DEF Running, RoleStates, RoleNames

(* Any number of processes may be started at once: until one of them       *)
(* leaves, whether it has done its work or has failed, no role is given    *)
(* twice, and the server has opened the very objects the client has.       *)
THEOREM OnePairConnected == Spec => []PairIsConnected
<1>1. IInv /\ PairInv => PairIsConnected
  <2> SUFFICES ASSUME IInv, PairInv, Calm PROVE PairIsConnected
    BY DEF PairIsConnected, Calm, Leaving
  <2>1. Pairing /\ {"client", "server"} \subseteq RoleNames
    BY DEF PairInv, RoleNames
  <2>2. ASSUME NEW r \in RoleNames, NEW p \in Running(r), NEW q \in Running(r)
        PROVE  p = q
    <3>1. p \in Procs /\ q \in Procs
      BY DEF Running
    <3>2. QED BY <2>1, <3>1, RunningStates DEF Pairing, OwnerInv
  <2>3. ASSUME NEW p \in Running("client"), NEW q \in Running("server")
        PROVE  handle[p]["writer"] = handle[q]["reader"]
    <3>1. p \in Procs /\ q \in Procs /\ pc[p] \in Alive \ Sides /\ pc[q] \in Alive \ Sides
      BY DEF Running, Alive, Sides
    <3>2. \A n \in Names : handle[p]["writer"][n] = handle[q]["reader"][n]
      BY <2>1, <3>1 DEF Pairing, OpenedInv, HasOpened, Sides
    <3>3. /\ handle[p]["writer"] \in [Names -> Nat]
          /\ handle[q]["reader"] \in [Names -> Nat]
      BY <3>1 DEF IInv, TypeOK, Sides
    <3>4. QED BY <3>2, <3>3
  <2>4. QED BY <2>2, <2>3 DEF PairIsConnected
<1>2. QED BY <1>1, Invariant, PairInvariant, PTL

(* The server truncates the destination before it becomes the server, and  *)
(* a client has written nothing before there is one: with the pair alone,  *)
(* every chunk the client has written is in the file.                      *)
THEOREM FileOfThePair == Spec => []PairKeepsFile
<1>1. PairInv => PairKeepsFile
  <2> SUFFICES ASSUME PairInv,
                      \A p \in Procs :
                        /\ pc[p] = "idle" \/ p \in Running("client") \cup Running("server")
                        /\ handling[p] = <<>>,
                      NEW p \in Running("client")
               PROVE  1 .. written[p] \subseteq file
    BY DEF PairKeepsFile
  <2>1. \A q \in Procs : pc[q] \in {"idle"} \cup RoleStates("client") \cup RoleStates("server")
    BY DEF Running, RoleStates
  <2>2. Calm /\ \A q \in Procs : pc[q] \notin Starting
    BY <2>1 DEF Calm, Gone, Leaving, Starting, RoleStates
  <2>3. p \in Procs /\ pc[p] \in RoleStates("client")
    BY DEF Running, RoleStates
  <2>4. WrittenInv
    BY <2>2 DEF PairInv, Pairing
  <2>5. CASE mutex["server"] = NoProc
    BY <2>3, <2>4, <2>5 DEF WrittenInv, NothingSent
  <2>6. CASE mutex["server"] # NoProc
    BY <2>2, <2>3, <2>4, <2>6 DEF WrittenInv
  <2>7. QED BY <2>5, <2>6
<1>2. QED BY <1>1, PairInvariant, PTL
=============================================================================
