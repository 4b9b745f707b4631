------------------------------- MODULE Service -------------------------------
(***************************************************************************)
(* The server's thread and one of its workers together: Server accepts the *)
(* connections and hands them over, and those it gives to the Observed     *)
(* worker get their sessions in HttpWorker.  The two meet where a session  *)
(* is created, in the function posted by worker::transfer_socket or at the *)
(* end of a handshake, and in the descriptors they share.                  *)
(***************************************************************************)
EXTENDS HttpWorker

CONSTANTS
    Listeners,
    SecureListeners,   \* those whose connections speak TLS
    Workers,
    NoWorker,
    Observed,          \* the worker whose sessions are modelled
    MaxOpen            \* connections the operating system gives descriptors

ASSUME ObservedAssumption == Observed \in Workers /\ IsFiniteSet(Workers)
ASSUME OpenAssumption     == MaxOpen \in Nat

VARIABLES order, accepting, via, place, worker, posted, given, failed

Distribution == INSTANCE Server WITH Clients <- Conns,
                                     Secure  <- SecureListeners

distribution == <<order, accepting, via, place, worker, posted, given, failed>>

(* A connection speaks TLS if its listener does.                           *)
ServiceInit ==
    /\ Init
    /\ Distribution!Init
    /\ \A c \in Conns : c \in Secure <=> via[c] \in SecureListeners

(* The descriptors in use: those of connections on their way to a worker,  *)
(* of the open sessions of the observed worker, and of all sessions of the *)
(* others, which are taken to stay.                                        *)
Sockets == {c \in Conns : \/ place[c] \in {"posted", "handshake"}
                          \/ place[c] = "session" /\ worker[c] # Observed}
               \cup Open

(* A connection needs a descriptor to be accepted; without one the accept  *)
(* fails, and the listener has seen its last.                              *)
AcceptOne(l) ==
    /\ Cardinality(Sockets) < MaxOpen
    /\ Distribution!Accept(l)
    /\ UNCHANGED vars

AcceptNone(l) ==
    /\ Cardinality(Sockets) = MaxOpen
    /\ \E c \in Conns : place[c] = "backlog" /\ via[c] = l
    /\ Distribution!AcceptFails(l)
    /\ UNCHANGED vars

(* Fault: a secure connection gets its session before its handshake. *)
TransferAtOnce(w) ==
    /\ Up
    /\ Distribution!Transfer(w)
    /\ IF w = Observed THEN CreatePolitely(Head(posted[w])) ELSE UNCHANGED vars

(* worker::transfer_socket's function: a plain connection gets its session *)
(* at once.                                                                *)
TransferOne(w) ==
    /\ Up
    /\ Distribution!Transfer(w)
    /\ IF w = Observed /\ via[Head(posted[w])] \notin SecureListeners
       THEN CreatePolitely(Head(posted[w]))
       ELSE UNCHANGED vars

(* The handshake ends, with an error or without (broken says which), and   *)
(* the session is created; its reads may have taken some of the first      *)
(* request already.                                                        *)
HandshakeDone(c) ==
    /\ Up
    /\ Distribution!HandshakeEnds(c)
    /\ IF worker[c] = Observed THEN CreatePolitely(c) ELSE UNCHANGED vars

(* The observed worker and its clients; only the server creates sessions.  *)
Worker(c) == /\ Handler(c) \/ Reactor(c) \/ DeliverPolitely(c)
             /\ UNCHANGED distribution

ServiceNext ==
    \/ \E c \in Conns : \/ Distribution!Connect(c) /\ UNCHANGED vars
                        \/ HandshakeDone(c)
                        \/ Worker(c)
    \/ \E l \in Listeners : AcceptOne(l) \/ AcceptNone(l)
    \/ \E w \in Workers : TransferOne(w)

(* Both threads run what is queued, the reactor reports what has happened, *)
(* and the clients are polite: they finish their handshakes, and send what *)
(* they have to send.                                                      *)
ServiceSpec ==
    /\ ServiceInit
    /\ [][ServiceNext]_<<vars, distribution>>
    /\ \A l \in Listeners : WF_<<vars, distribution>>(AcceptOne(l) \/ AcceptNone(l))
    /\ \A w \in Workers : WF_<<vars, distribution>>(TransferOne(w))
    /\ \A c \in Conns : /\ WF_<<vars, distribution>>(HandshakeDone(c))
                        /\ WF_<<vars, distribution>>(
                               (Handler(c) \/ Reactor(c)) /\ UNCHANGED distribution)
                        /\ WF_<<vars, distribution>>(
                               DeliverPolitely(c) /\ UNCHANGED distribution)

-----------------------------------------------------------------------------

(* The sessions of a worker are those of the connections it was given, and *)
(* a connection has its session only behind its handshake                  *)
(* (server.cpp:52, worker.cpp:17-33, ssl_connection.cpp:67-91), unless the *)
(* worker had no identifier left for it (manager.cpp:27).                  *)
OwnSessions ==
    \A c \in Conns :
        s[c].life # "new" \/ s[c].fault = "pool"
            <=> place[c] = "session" /\ worker[c] = Observed

(* From the listener to the answer: a polite client that connects has all  *)
(* its requests dispatched, unless its listener has failed, it was given   *)
(* to another worker, its handshake failed or read the first request, or   *)
(* its session ends or is never answered as PoliteServed says.             *)
EndToEnd ==
    \A c \in Conns :
        place[c] = "backlog" ~>
            \/ via[c] \in failed \/ worker[c] \notin {Observed, NoWorker}
            \/ place[c] = "session" /\ unsent[c] = <<>> /\ Consumed(c)
                  /\ s[c].asked > 0
            \/ Finished(s[c]) \/ broken[c]
            \/ s[c].out = "silent" \/ s[c].overlap
            \/ Overlooked(c) \/ ~Up
=============================================================================
