------------------------------- MODULE Startup -------------------------------
(***************************************************************************)
(* The start of the process on its main thread (startup.cpp, server.cpp,   *)
(* listener_factory.cpp, the constructors of listeners, workers and        *)
(* resources), with the clients that connect and the administrator that    *)
(* edits the file of users meanwhile.  Server begins where this ends.      *)
(***************************************************************************)
EXTENDS Naturals, Sequences

CONSTANTS
    Configs,       \* bound: the configurations; each a sequence of elements
    Cores,         \* bound: values of hardware_concurrency, 0 if not known
    Clients,       \* bound: each connects once
    MaxEdits       \* bound on the edits of the file of users

(* What a <listener> of the configuration can be: well formed; of another  *)
(* type; without a type; with an address that cannot be bound; with a TLS  *)
(* version, key or certificate that cannot be used.                        *)
Elements == {"tcp", "ssl", "other", "untyped", "unbindable", "ssl_broken"}

ASSUME ConfigsAssumption == Configs \subseteq Seq(Elements)
ASSUME CoresAssumption == Cores \subseteq Nat
ASSUME MaxEditsAssumption == MaxEdits \in Nat

VARIABLES
    config,        \* the <listener> elements of the configuration file
    hosts,         \* its <host> elements can be used
    cores,         \* hardware_concurrency
    users,         \* the file of users: its edit, or Gone
    phase,         \* what the main thread does
    opened,        \* the listening sockets that are open
    listeners,     \* server::_listeners; a null pointer for a type not known
    workers,       \* server::_workers: the users each has read
    threads,       \* the number of worker threads that run
    accepting,     \* the listeners with an accept outstanding
    failed,        \* those whose accept failed: they never accept again
    next,          \* the worker in front
    place,         \* where the connection of each client is
    via,           \* the listener it connected to
    owner,         \* the worker it was given to
    edited         \* history: the file of users was edited by then

files == <<config, hosts, cores>>
clients == <<place, via, owner>>
vars == <<files, users, edited, phase, opened, listeners, workers, threads,
          accepting, failed, next, clients>>

Gone == MaxEdits + 1
Places == {"away", "backlog", "posted", "handshake", "session", "reset"}
Starting == {"listeners", "workers", "threads", "accepts"}
Running == "running"
Dead == "dead"

Init ==
    /\ config \in Configs /\ hosts \in BOOLEAN /\ cores \in Cores
    /\ users \in {0, Gone}
    /\ phase = "listeners" /\ edited = {}
    /\ opened = {} /\ listeners = <<>> /\ workers = <<>>
    /\ threads = 0 /\ accepting = {} /\ failed = {} /\ next = 1
    /\ place = [k \in Clients |-> "away"]
    /\ via = [k \in Clients |-> 0]
    /\ owner = [k \in Clients |-> 0]

(* An exception that leaves main, or a null pointer that is used: the      *)
(* operating system resets every connection.                               *)
Die ==
    /\ phase' = Dead
    /\ place' = [k \in Clients |-> IF place[k] = "away" THEN "away" ELSE "reset"]
    /\ UNCHANGED <<files, users, edited, opened, listeners, workers, threads,
                   accepting, failed, next, via, owner>>

Go(p) == phase' = p /\ UNCHANGED <<files, users, edited, failed, clients>>

-----------------------------------------------------------------------------
(* The main thread.                                                        *)

Nth == Len(listeners) + 1

(* listener_factory::create_listenr up to the constructor of tcp_listener, *)
(* which opens, binds and listens: from here on clients can connect.       *)
OpenListener ==
    /\ phase = "listeners" /\ Nth <= Len(config) /\ Nth \notin opened
    /\ \/ /\ config[Nth] \in {"untyped", "unbindable"}
          /\ Die
       \/ /\ config[Nth] = "other"
          /\ listeners' = Append(listeners, "null")
          /\ Go(phase) /\ UNCHANGED <<opened, workers, threads, accepting, next>>
       \/ /\ config[Nth] \in {"tcp", "ssl", "ssl_broken"}
          /\ opened' = opened \cup {Nth}
          /\ listeners' = IF config[Nth] = "tcp" THEN Append(listeners, "tcp")
                                                 ELSE listeners
          /\ Go(phase) /\ UNCHANGED <<workers, threads, accepting, next>>

(* The constructor of ssl_listener: without a version it knows its context *)
(* is a null pointer, and files it cannot read throw.                      *)
LoadContext ==
    /\ phase = "listeners" /\ Nth \in opened
    /\ \/ config[Nth] = "ssl_broken" /\ Die
       \/ /\ config[Nth] = "ssl"
          /\ listeners' = Append(listeners, "ssl")
          /\ Go(phase) /\ UNCHANGED <<opened, workers, threads, accepting, next>>

ListenersBuilt ==
    /\ phase = "listeners" /\ Len(listeners) = Len(config)
    /\ Go("workers")
    /\ UNCHANGED <<opened, listeners, workers, threads, accepting, next>>

(* One round of server::_init_workers: worker, manager and resource.  Each *)
(* worker reads the file of users for itself; without a root element there *)
(* is a null pointer, and hosts that cannot be used throw.                 *)
BuildWorker ==
    /\ phase = "workers" /\ Len(workers) < cores
    /\ \/ (users = Gone \/ ~hosts) /\ Die
       \/ /\ users # Gone /\ hosts
          /\ workers' = Append(workers, users)
          /\ Go(phase) /\ UNCHANGED <<opened, listeners, threads, accepting, next>>

WorkersBuilt ==
    /\ phase = "workers" /\ Len(workers) = cores
    /\ Go("threads")
    /\ UNCHANGED <<opened, listeners, workers, threads, accepting, next>>

(* Fault: the worker reads the users again when its thread starts. *)
StartWorkerReading ==
    /\ phase = "threads" /\ threads < cores
    /\ threads' = threads + 1
    /\ workers' = [workers EXCEPT ![threads + 1] = users]
    /\ Go(IF threads + 1 = cores THEN "accepts" ELSE phase)
    /\ UNCHANGED <<opened, listeners, accepting, next>>

(* server::start: worker::start of the next worker. *)
StartWorker ==
    /\ phase = "threads" /\ threads < cores
    /\ threads' = threads + 1
    /\ Go(phase)
    /\ UNCHANGED <<opened, listeners, workers, accepting, next>>

(* Fault: the last worker is not started. *)
WorkersStartedButOne ==
    /\ phase = "threads" /\ threads + 1 >= cores
    /\ Go("accepts")
    /\ UNCHANGED <<opened, listeners, workers, threads, accepting, next>>

WorkersStarted ==
    /\ phase = "threads" /\ threads = cores
    /\ Go("accepts")
    /\ UNCHANGED <<opened, listeners, workers, threads, accepting, next>>

Later == {i \in DOMAIN listeners : i \notin accepting
             /\ \A j \in 1 .. i - 1 : j \in accepting}

(* Fault: a listener that is not there is passed over. *)
StartAcceptSkipping ==
    /\ phase = "accepts"
    /\ \E i \in Later :
          /\ accepting' = accepting \cup {i}
          /\ Go(phase)
          /\ UNCHANGED <<opened, listeners, workers, threads, next>>

(* server::start: start_async_accept of the next listener.  Nothing runs   *)
(* its context yet.                                                        *)
StartAccept ==
    /\ phase = "accepts"
    /\ \E i \in Later :
          \/ listeners[i] = "null" /\ Die
          \/ /\ listeners[i] # "null"
             /\ accepting' = accepting \cup {i}
             /\ Go(phase)
             /\ UNCHANGED <<opened, listeners, workers, threads, next>>

(* server::start: the thread that accepts; main then waits for its end.    *)
StartThread ==
    /\ phase = "accepts" /\ accepting = DOMAIN listeners
    /\ Go(Running)
    /\ UNCHANGED <<opened, listeners, workers, threads, accepting, next>>

MainStep == \/ OpenListener \/ LoadContext \/ ListenersBuilt
            \/ BuildWorker \/ WorkersBuilt \/ StartWorker \/ WorkersStarted
            \/ StartAccept \/ StartThread

-----------------------------------------------------------------------------
(* The other threads, the clients and the administrator.                   *)

(* Fault: the server's thread runs while the listeners are started. *)
AcceptEarly(k) ==
    /\ phase \in {"accepts", Running} /\ place[k] = "backlog" /\ via[k] \in accepting
    /\ \/ cores = 0 /\ Die
       \/ /\ cores > 0
          /\ place' = [place EXCEPT ![k] = "posted"]
          /\ owner' = [owner EXCEPT ![k] = next]
          /\ next' = (next % cores) + 1
          /\ UNCHANGED <<files, users, edited, phase, opened, listeners,
                         workers, threads, accepting, failed, via>>

(* An accept completes on the server's thread: the connection goes to the  *)
(* worker in front, which is moved to the back.  Without workers the front *)
(* of an empty list is used.                                               *)
Accept(k) ==
    /\ phase = Running /\ place[k] = "backlog" /\ via[k] \in accepting
    /\ \/ cores = 0 /\ Die
       \/ /\ cores > 0
          /\ place' = [place EXCEPT ![k] = "posted"]
          /\ owner' = [owner EXCEPT ![k] = next]
          /\ next' = (next % cores) + 1
          /\ UNCHANGED <<files, users, edited, phase, opened, listeners,
                         workers, threads, accepting, failed, via>>

(* An accept fails, for instance for want of a descriptor: the handler     *)
(* does nothing, so that it was the last one of its listener.              *)
AcceptFails(i) ==
    /\ phase = Running /\ i \in accepting
    /\ accepting' = accepting \ {i}
    /\ failed' = failed \cup {i}
    /\ UNCHANGED <<files, users, edited, phase, opened, listeners, workers,
                   threads, next, clients>>

(* A connection moves on, and nothing else does.                           *)
Move(k, there) ==
    /\ place' = [place EXCEPT ![k] = there]
    /\ UNCHANGED <<files, users, edited, phase, opened, listeners, workers,
                   threads, accepting, failed, next, via, owner>>

(* The function posted to the worker runs once its thread does: a plain    *)
(* connection becomes a session, a secure one begins its handshake.        *)
Transfer(k) ==
    /\ phase # Dead /\ place[k] = "posted" /\ owner[k] <= threads
    /\ Move(k, IF listeners[via[k]] = "tcp" THEN "session" ELSE "handshake")

(* The handshake ends or fails; either way the connection becomes a        *)
(* session. It is the client that lets it end, or not.                     *)
HandshakeEnds(k) ==
    /\ phase # Dead /\ place[k] = "handshake"
    /\ Move(k, "session")

(* A client connects to a socket that listens, whoever accepts on it.      *)
Connect(k) ==
    /\ phase # Dead /\ place[k] = "away"
    /\ \E i \in opened : via' = [via EXCEPT ![k] = i]
    /\ place' = [place EXCEPT ![k] = "backlog"]
    /\ UNCHANGED <<files, users, edited, phase, opened, listeners, workers,
                   threads, accepting, failed, next, owner>>

(* The file of users is edited, or removed, while the process runs.        *)
Edit ==
    /\ phase # Dead /\ users < Gone
    /\ users' \in {users + 1, Gone}
    /\ edited' = edited \cup {phase}
    /\ UNCHANGED <<files, phase, opened, listeners, workers, threads,
                   accepting, failed, next, clients>>

Next == \/ MainStep
        \/ \E k \in Clients : \/ Accept(k) \/ Transfer(k) \/ HandshakeEnds(k)
                              \/ Connect(k)
        \/ \E i \in accepting : AcceptFails(i)
        \/ Edit

Spec == Init /\ [][Next]_vars

(* The operating system runs every thread, and the context of a thread     *)
(* hands out what has completed.  Nothing makes a handshake end.           *)
FairSpec ==
    /\ Spec
    /\ WF_vars(MainStep)
    /\ \A k \in Clients : WF_vars(Accept(k)) /\ WF_vars(Transfer(k))

-----------------------------------------------------------------------------

(* The configuration has a defect of its own. *)
Defective == \/ \E i \in DOMAIN config : config[i] \notin {"tcp", "ssl"}
             \/ ~hosts /\ cores > 0

(* Every variable has its type.                                            *)
TypeOK ==
    /\ config \in Configs /\ hosts \in BOOLEAN /\ cores \in Cores
    /\ users \in 0 .. Gone /\ phase \in Starting \cup {Running, Dead}
    /\ opened \subseteq DOMAIN config
    /\ accepting \subseteq DOMAIN listeners /\ failed \subseteq DOMAIN listeners
    /\ listeners \in Seq({"tcp", "ssl", "null"}) /\ Len(listeners) <= Len(config)
    /\ workers \in Seq(0 .. MaxEdits) /\ Len(workers) <= cores
    /\ threads \in 0 .. cores /\ next \in (1 .. cores) \cup {1}
    /\ place \in [Clients -> Places]
    /\ via \in [Clients -> Nat] /\ owner \in [Clients -> Nat]
    /\ edited \subseteq Starting \cup {Running}

(* A start that fails has taken no client: whatever is wrong with the      *)
(* configuration is found before the first connection is accepted, a       *)
(* listener of a type not known included, which is a null pointer until    *)
(* start uses it (server.cpp:46-62).                                       *)
FailsUnserved ==
    phase = Dead => \A k \in Clients : owner[k] = 0

(* The server runs only as it is configured: with a listener for every     *)
(* element, which accepts until an accept fails, and users for every       *)
(* worker; and its start dies only of a defect of the configuration, of    *)
(* the file of users, or of having no workers (listener_factory.cpp:13-33, *)
(* ssl_listener.cpp:27-46, tcp_listener.cpp:16, server.cpp:28).            *)
RunsAsConfigured ==
    /\ phase = Running => /\ ~Defective
                          /\ accepting \cup failed = DOMAIN config
                          /\ accepting \cap failed = {}
                          /\ Len(workers) = cores /\ threads = cores
    /\ phase = Dead => \/ Defective
                       \/ users = Gone /\ Len(workers) < cores
                       \/ cores = 0 /\ \E k \in Clients : place[k] = "reset"

(* Two workers let different users in only if the file was edited while    *)
(* the workers were built: no later edit reaches any of them               *)
(* (resource.cpp:98-104).                                                  *)
SameUsers ==
    (\E i, j \in DOMAIN workers : workers[i] # workers[j]) => "workers" \in edited

(* A client that connects while the server still starts, to a socket       *)
(* nobody accepts on yet, comes to its worker once the server runs: it has *)
(* a session or its handshake has begun, unless the process dies or an     *)
(* accept of its listener fails before its turn (tcp_listener.cpp:16-32,   *)
(* server.cpp:39-63).                                                      *)
EarlyServed ==
    \A k \in Clients :
        place[k] = "backlog" ~>
            \/ place[k] \in {"handshake", "session", "reset"}
            \/ place[k] = "backlog" /\ via[k] \in failed
=============================================================================
