---------------------------- MODULE StartupProofs ----------------------------
(***************************************************************************)
(* The start of the server, for every set of configurations, every number  *)
(* of workers and clients, and every number of edits: nobody is served     *)
(* before the start can no longer fail, the server runs only as it is      *)
(* configured, and the workers differ only by an edit meanwhile.           *)
(***************************************************************************)
EXTENDS Startup, TLAPS

(* The listeners built are those of the configuration.                     *)
Built ==
    \A i \in DOMAIN listeners :
        /\ config[i] \in {"tcp", "ssl", "other"}
        /\ listeners[i] = (IF config[i] = "other" THEN "null" ELSE config[i])

(* What has been done when the main thread has come to a phase.            *)
Progress ==
    /\ phase \in {"workers", "threads", "accepts", Running}
          => Len(listeners) = Len(config)
    /\ phase = "listeners" => workers = <<>>
    /\ phase \in {"threads", "accepts", Running} => Len(workers) = cores
    /\ phase \in {"accepts", Running} => threads = cores
    /\ phase = Running => accepting \cup failed = DOMAIN listeners
    /\ phase # Running /\ phase # Dead => failed = {}
    /\ accepting \cap failed = {}
    /\ workers # <<>> => hosts
    /\ \A i \in accepting \cup failed : listeners[i] # "null"

(* A client is given to a worker only by a server that runs.               *)
Taken == \A k \in Clients : owner[k] # 0 => phase = Running /\ cores > 0

(* A dead process has its cause.                                           *)
Cause == phase = Dead => \/ Defective
                         \/ users = Gone /\ Len(workers) < cores
                         \/ cores = 0 /\ \E k \in Clients : place[k] = "reset"

(* As long as nobody edits the file while workers are built, they have     *)
(* read what is in it.                                                     *)
Alike == "workers" \notin edited =>
            /\ \A i, j \in DOMAIN workers : workers[i] = workers[j]
            /\ phase = "workers" => \A i \in DOMAIN workers : workers[i] = users

StartInv == TypeOK /\ Built /\ Progress /\ Taken /\ Cause /\ Alike

LEMMA ConstantTypes ==
  ASSUME config \in Configs, cores \in Cores
  PROVE  /\ config \in Seq(Elements) /\ Len(config) \in Nat
         /\ DOMAIN config = 1 .. Len(config)
         /\ \A i \in 1 .. Len(config) : config[i] \in Elements
         /\ cores \in Nat /\ Gone \in Nat
BY ConfigsAssumption, CoresAssumption, MaxEditsAssumption DEF Gone

LEMMA InitStart == Init => StartInv
<1> SUFFICES ASSUME Init PROVE StartInv
  OBVIOUS
<1> USE DEF Init
<1>1. /\ config \in Seq(Elements) /\ Len(config) \in Nat
      /\ cores \in Nat /\ Gone \in Nat
  BY ConstantTypes
<1>2. TypeOK
  BY <1>1, MaxEditsAssumption DEF TypeOK, Starting, Running, Dead, Places, Gone
<1>3. Built BY DEF Built
<1>4. Progress BY DEF Progress, Running
<1>5. Taken BY DEF Taken
<1>6. Cause BY DEF Cause, Dead
<1>7. Alike BY DEF Alike
<1> QED BY <1>2, <1>3, <1>4, <1>5, <1>6, <1>7 DEF StartInv

(* The process dies in its start of something that is wrong with the       *)
(* configuration or the file of users; nobody has been served then.        *)
LEMMA DieStart ==
  ASSUME StartInv, Die, phase # Running,
         Defective \/ (users = Gone /\ Len(workers) < cores)
  PROVE  StartInv'
<1> USE DEF StartInv, Die
<1>1. TypeOK' BY DEF TypeOK, files, Places
<1>2. Built' BY DEF Built, files
<1>3. Progress' BY DEF Progress, Running, Dead, files
<1>4. Taken' BY DEF Taken
<1>5. Cause' BY DEF Cause, Defective, files
<1>6. Alike' BY DEF Alike, Dead
<1> QED BY <1>1, <1>2, <1>3, <1>4, <1>5, <1>6

LEMMA OpenListenerStart ==
  ASSUME StartInv, OpenListener
  PROVE  StartInv'
<1> USE DEF StartInv, OpenListener
<1>1. /\ DOMAIN config = 1 .. Len(config) /\ Nth \in DOMAIN config
      /\ listeners \in Seq({"tcp", "ssl", "null"}) /\ Len(listeners) \in Nat
      /\ Nth = Len(listeners) + 1
  BY ConstantTypes DEF TypeOK, Nth
<1>2. CASE config[Nth] \in {"untyped", "unbindable"} /\ Die
  <2>1. Defective BY <1>1, <1>2 DEF Defective
  <2>2. phase # Running BY DEF Running
  <2> HIDE DEF StartInv
  <2> QED BY <1>2, <2>1, <2>2, DieStart
<1>3. CASE /\ config[Nth] = "other"
           /\ listeners' = Append(listeners, "null")
           /\ Go(phase) /\ UNCHANGED <<opened, workers, threads, accepting, next>>
  <2> USE DEF Go, files, clients
  <2>1. TypeOK' BY <1>1, <1>3 DEF TypeOK
  <2>2. Built' BY <1>1, <1>3 DEF Built
  <2>3. Progress' BY <1>1, <1>3 DEF Progress, Running, TypeOK
  <2>4. Taken' BY <1>3 DEF Taken
  <2>5. Cause' BY <1>3 DEF Cause, Dead
  <2>6. Alike' BY <1>3 DEF Alike
  <2> QED BY <2>1, <2>2, <2>3, <2>4, <2>5, <2>6
<1>4. CASE /\ config[Nth] \in {"tcp", "ssl", "ssl_broken"}
           /\ opened' = opened \cup {Nth}
           /\ listeners' = IF config[Nth] = "tcp" THEN Append(listeners, "tcp")
                                                  ELSE listeners
           /\ Go(phase) /\ UNCHANGED <<workers, threads, accepting, next>>
  <2> USE DEF Go, files, clients
  <2>1. TypeOK'
    <3>1. CASE config[Nth] = "tcp" BY <1>1, <1>4, <3>1 DEF TypeOK
    <3>2. CASE config[Nth] # "tcp" BY <1>1, <1>4, <3>2 DEF TypeOK
    <3> QED BY <3>1, <3>2
  <2>2. Built' BY <1>1, <1>4 DEF Built
  <2>3. Progress' BY <1>1, <1>4 DEF Progress, Running, TypeOK
  <2>4. Taken' BY <1>4 DEF Taken
  <2>5. Cause' BY <1>4 DEF Cause, Dead
  <2>6. Alike' BY <1>4 DEF Alike
  <2> QED BY <2>1, <2>2, <2>3, <2>4, <2>5, <2>6
<1> QED BY <1>2, <1>3, <1>4

LEMMA LoadContextStart ==
  ASSUME StartInv, LoadContext
  PROVE  StartInv'
<1> USE DEF StartInv, LoadContext
<1>1. /\ DOMAIN config = 1 .. Len(config) /\ Nth \in DOMAIN config
      /\ listeners \in Seq({"tcp", "ssl", "null"}) /\ Len(listeners) \in Nat
      /\ Nth = Len(listeners) + 1
  BY ConstantTypes DEF TypeOK, Nth
<1>2. CASE config[Nth] = "ssl_broken" /\ Die
  <2>1. Defective BY <1>1, <1>2 DEF Defective
  <2>2. phase # Running BY DEF Running
  <2> HIDE DEF StartInv
  <2> QED BY <1>2, <2>1, <2>2, DieStart
<1>3. CASE /\ config[Nth] = "ssl"
           /\ listeners' = Append(listeners, "ssl")
           /\ Go(phase) /\ UNCHANGED <<opened, workers, threads, accepting, next>>
  <2> USE DEF Go, files, clients
  <2>1. TypeOK' BY <1>1, <1>3 DEF TypeOK
  <2>2. Built' BY <1>1, <1>3 DEF Built
  <2>3. Progress' BY <1>1, <1>3 DEF Progress, Running, TypeOK
  <2>4. Taken' BY <1>3 DEF Taken
  <2>5. Cause' BY <1>3 DEF Cause, Dead
  <2>6. Alike' BY <1>3 DEF Alike
  <2> QED BY <2>1, <2>2, <2>3, <2>4, <2>5, <2>6
<1> QED BY <1>2, <1>3

(* The main thread goes from one phase to the next. *)
LEMMA PhaseStart ==
  ASSUME StartInv, ListenersBuilt \/ WorkersBuilt \/ WorkersStarted \/ StartThread
  PROVE  StartInv'
<1> USE DEF StartInv, ListenersBuilt, WorkersBuilt, WorkersStarted, StartThread,
            Go, files, clients
<1>1. TypeOK' BY DEF TypeOK, Starting
<1>2. Built' BY DEF Built
<1>3. Progress' BY DEF Progress, Running, Dead, TypeOK
<1>4. Taken' BY DEF Taken, Running
<1>5. Cause' BY DEF Cause, Running, Dead
<1>6. Alike' BY DEF Alike, Progress, Running
<1> QED BY <1>1, <1>2, <1>3, <1>4, <1>5, <1>6

LEMMA BuildWorkerStart ==
  ASSUME StartInv, BuildWorker
  PROVE  StartInv'
<1> USE DEF StartInv, BuildWorker
<1>1. /\ cores \in Nat /\ Gone = MaxEdits + 1 /\ MaxEdits \in Nat
      /\ workers \in Seq(0 .. MaxEdits) /\ Len(workers) \in Nat
      /\ DOMAIN workers = 1 .. Len(workers)
  BY ConstantTypes, MaxEditsAssumption DEF TypeOK, Gone
<1>2. CASE (users = Gone \/ ~hosts) /\ Die
  <2>1. Defective \/ (users = Gone /\ Len(workers) < cores)
    BY <1>1, <1>2 DEF Defective
  <2>2. phase # Running BY DEF Running
  <2> HIDE DEF StartInv
  <2> QED BY <1>2, <2>1, <2>2, DieStart
<1>3. CASE /\ users # Gone /\ hosts
           /\ workers' = Append(workers, users)
           /\ Go(phase) /\ UNCHANGED <<opened, listeners, threads, accepting, next>>
  <2> USE DEF Go, files, clients
  <2>0. users \in 0 .. MaxEdits BY <1>1, <1>3 DEF TypeOK
  <2>1. TypeOK' BY <1>1, <1>3, <2>0 DEF TypeOK
  <2>2. Built' BY <1>3 DEF Built
  <2>3. Progress' BY <1>1, <1>3 DEF Progress, Running
  <2>4. Taken' BY <1>3 DEF Taken
  <2>5. Cause' BY <1>3 DEF Cause, Dead
  <2>6. Alike'
    <3> SUFFICES ASSUME "workers" \notin edited
                 PROVE  \A i \in DOMAIN workers' : workers'[i] = users
      BY <1>3 DEF Alike
    <3>1. \A i \in DOMAIN workers : workers[i] = users BY DEF Alike
    <3> QED BY <1>1, <1>3, <2>0, <3>1
  <2> QED BY <2>1, <2>2, <2>3, <2>4, <2>5, <2>6
<1> QED BY <1>2, <1>3

LEMMA StartWorkerStart ==
  ASSUME StartInv, StartWorker
  PROVE  StartInv'
<1> USE DEF StartInv, StartWorker, Go, files, clients
<1>1. TypeOK' BY ConstantTypes DEF TypeOK
<1>2. Built' BY DEF Built
<1>3. Progress' BY DEF Progress, Running
<1>4. Taken' BY DEF Taken
<1>5. Cause' BY DEF Cause, Dead
<1>6. Alike' BY DEF Alike
<1> QED BY <1>1, <1>2, <1>3, <1>4, <1>5, <1>6

LEMMA StartAcceptStart ==
  ASSUME StartInv, StartAccept
  PROVE  StartInv'
<1> USE DEF StartInv, StartAccept
<1>1. PICK i \in Later :
          \/ listeners[i] = "null" /\ Die
          \/ /\ listeners[i] # "null"
             /\ accepting' = accepting \cup {i}
             /\ Go(phase)
             /\ UNCHANGED <<opened, listeners, workers, threads, next>>
  OBVIOUS
<1>2. i \in DOMAIN listeners /\ i \in DOMAIN config
  BY ConstantTypes DEF Later, TypeOK
<1>3. CASE listeners[i] = "null" /\ Die
  <2>1. Defective BY <1>2, <1>3 DEF Defective, Built
  <2>2. phase # Running BY DEF Running
  <2> HIDE DEF StartInv
  <2> QED BY <1>3, <2>1, <2>2, DieStart
<1>4. CASE /\ listeners[i] # "null"
           /\ accepting' = accepting \cup {i}
           /\ Go(phase)
           /\ UNCHANGED <<opened, listeners, workers, threads, next>>
  <2> USE DEF Go, files, clients
  <2>1. TypeOK' BY <1>2, <1>4 DEF TypeOK
  <2>2. Built' BY <1>4 DEF Built
  <2>3. Progress' BY <1>4 DEF Progress, Running, Dead
  <2>4. Taken' BY <1>4 DEF Taken
  <2>5. Cause' BY <1>4 DEF Cause, Dead
  <2>6. Alike' BY <1>4 DEF Alike
  <2> QED BY <2>1, <2>2, <2>3, <2>4, <2>5, <2>6
<1> QED BY <1>1, <1>3, <1>4

LEMMA AcceptStart ==
  ASSUME StartInv, NEW k \in Clients, Accept(k)
  PROVE  StartInv'
<1> USE DEF StartInv, Accept, files
<1>1. cores \in Nat BY ConstantTypes DEF TypeOK
<1>2. CASE cores = 0 /\ Die
  <2> USE <1>2 DEF Die
  <2>1. TypeOK' BY DEF TypeOK, Places
  <2>2. Built' BY DEF Built
  <2>3. Progress' BY DEF Progress, Running, Dead
  <2>4. Taken' BY DEF Taken
  <2>5. Cause'
    <3>1. place'[k] = "reset" OBVIOUS
    <3> QED BY <3>1 DEF Cause
  <2>6. Alike' BY DEF Alike, Dead
  <2> QED BY <2>1, <2>2, <2>3, <2>4, <2>5, <2>6
<1>3. CASE /\ cores > 0
           /\ place' = [place EXCEPT ![k] = "posted"]
           /\ owner' = [owner EXCEPT ![k] = next]
           /\ next' = (next % cores) + 1
           /\ UNCHANGED <<files, users, edited, phase, opened, listeners,
                          workers, threads, accepting, failed, via>>
  <2>0. next \in Nat /\ next % cores \in 0 .. cores - 1
    BY <1>1, <1>3 DEF TypeOK
  <2>1. TypeOK' BY <1>1, <1>3, <2>0 DEF TypeOK, Places
  <2>2. Built' BY <1>3 DEF Built
  <2>3. Progress' BY <1>3 DEF Progress
  <2>4. Taken' BY <1>3 DEF Taken
  <2>5. Cause' BY <1>3 DEF Cause, Running, Dead
  <2>6. Alike' BY <1>3 DEF Alike
  <2> QED BY <2>1, <2>2, <2>3, <2>4, <2>5, <2>6
<1> QED BY <1>2, <1>3

LEMMA OthersStart ==
  ASSUME StartInv, NEW k \in Clients, Transfer(k) \/ HandshakeEnds(k) \/ Connect(k)
  PROVE  StartInv'
<1> USE DEF StartInv, Transfer, HandshakeEnds, Move, Connect, files
<1>1. TypeOK'
  <2>1. \A i \in opened : i \in Nat BY ConstantTypes DEF TypeOK
  <2> QED BY <2>1 DEF TypeOK, Places
<1>2. Built' BY DEF Built
<1>3. Progress' BY DEF Progress
<1>4. Taken' BY DEF Taken
<1>5. Cause' BY DEF Cause
<1>6. Alike' BY DEF Alike
<1> QED BY <1>1, <1>2, <1>3, <1>4, <1>5, <1>6

LEMMA AcceptFailsStart ==
  ASSUME StartInv, NEW i \in accepting, AcceptFails(i)
  PROVE  StartInv'
<1> USE DEF StartInv, AcceptFails, files, clients
<1>1. TypeOK' BY DEF TypeOK
<1>2. Built' BY DEF Built
<1>3. Progress' BY DEF Progress, Running, Dead
<1>4. Taken' BY DEF Taken
<1>5. Cause' BY DEF Cause, Running, Dead
<1>6. Alike' BY DEF Alike
<1> QED BY <1>1, <1>2, <1>3, <1>4, <1>5, <1>6

LEMMA EditStart ==
  ASSUME StartInv, Edit
  PROVE  StartInv'
<1> USE DEF StartInv, Edit, files, clients
<1>1. TypeOK' BY ConstantTypes DEF TypeOK
<1>2. Built' BY DEF Built
<1>3. Progress' BY DEF Progress
<1>4. Taken' BY DEF Taken
<1>5. Cause' BY DEF Cause
<1>6. Alike' BY DEF Alike
<1> QED BY <1>1, <1>2, <1>3, <1>4, <1>5, <1>6

(* The inductive invariant of the start (startup.cpp, server.cpp).         *)
THEOREM StartInvariance == Spec => []StartInv
<1>1. StartInv /\ [Next]_vars => StartInv'
  <2> SUFFICES ASSUME StartInv, [Next]_vars PROVE StartInv'
    OBVIOUS
  <2>1. CASE MainStep
    BY <2>1, OpenListenerStart, LoadContextStart, PhaseStart, BuildWorkerStart,
       StartWorkerStart, StartAcceptStart DEF MainStep
  <2>2. CASE \E k \in Clients : \/ Accept(k) \/ Transfer(k) \/ HandshakeEnds(k)
                               \/ Connect(k)
    BY <2>2, AcceptStart, OthersStart
  <2>3. CASE \E i \in accepting : AcceptFails(i) BY <2>3, AcceptFailsStart
  <2>4. CASE Edit BY <2>4, EditStart
  <2>5. CASE UNCHANGED vars
    BY <2>5 DEF vars, files, clients, StartInv, TypeOK, Built, Progress, Taken,
                Cause, Defective, Alike
  <2> QED BY <2>1, <2>2, <2>3, <2>4, <2>5 DEF Next
<1> QED BY <1>1, InitStart, PTL DEF Spec

(* Every variable of the start keeps its type (startup.cpp, server.cpp).   *)
THEOREM StartTyped == Spec => []TypeOK
<1>1. StartInv => TypeOK BY DEF StartInv
<1> QED BY <1>1, StartInvariance, PTL

(* A start that fails has served nobody: the thread that accepts is the    *)
(* last thing server::start makes (server.cpp:46-62).                      *)
THEOREM FailsUnservedSafe == Spec => []FailsUnserved
<1>1. StartInv => FailsUnserved
  BY DEF StartInv, Taken, FailsUnserved, Running, Dead
<1> QED BY <1>1, StartInvariance, PTL

(* What runs is what was configured, and what died had a cause             *)
(* (listener_factory.cpp:13-33, server.cpp:28).                            *)
THEOREM RunsAsConfiguredSafe == Spec => []RunsAsConfigured
<1>1. StartInv => RunsAsConfigured
  <2> SUFFICES ASSUME StartInv PROVE RunsAsConfigured
    OBVIOUS
  <2> USE DEF StartInv
  <2>1. phase = Dead => \/ Defective
                        \/ users = Gone /\ Len(workers) < cores
                        \/ cores = 0 /\ \E k \in Clients : place[k] = "reset"
    BY DEF Cause
  <2>2. ASSUME phase = Running
        PROVE  /\ ~Defective /\ accepting \cup failed = DOMAIN config
               /\ accepting \cap failed = {}
               /\ Len(workers) = cores /\ threads = cores
    <3>1. /\ DOMAIN config = 1 .. Len(config) /\ DOMAIN listeners = DOMAIN config
          /\ cores \in Nat
      BY <2>2, ConstantTypes DEF TypeOK, Progress
    <3>2. /\ accepting \cup failed = DOMAIN config /\ accepting \cap failed = {}
          /\ Len(workers) = cores /\ threads = cores
      BY <2>2, <3>1 DEF Progress
    <3>3. \A i \in DOMAIN config : config[i] \in {"tcp", "ssl"}
      BY <3>1, <3>2 DEF Built, Progress
    <3>4. cores > 0 => hosts
      <4>1. cores > 0 => workers # <<>> BY <3>1, <3>2
      <4> QED BY <4>1 DEF Progress
    <3> QED BY <3>2, <3>3, <3>4 DEF Defective
  <2> QED BY <2>1, <2>2 DEF RunsAsConfigured
<1> QED BY <1>1, StartInvariance, PTL

(* The workers know the same users unless the file was edited while they   *)
(* were built (resource.cpp:98-104).                                       *)
THEOREM SameUsersSafe == Spec => []SameUsers
<1>1. StartInv => SameUsers BY DEF StartInv, Alike, SameUsers
<1> QED BY <1>1, StartInvariance, PTL
=============================================================================
