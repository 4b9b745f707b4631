------------------------------- MODULE Server -------------------------------
(***************************************************************************)
(* The server's thread, which accepts connections on every listener and    *)
(* gives them to the workers in turn (server.cpp, tcp_listener.cpp,        *)
(* ssl_listener.cpp), and the start of a connection's life on the thread   *)
(* of its worker (worker.cpp, the async_init of the connections).  What    *)
(* becomes of the session is HttpWorker's part.                            *)
(***************************************************************************)
EXTENDS Naturals, Sequences, FiniteSets

CONSTANTS
    Listeners,
    Secure,        \* the listeners whose connections begin with a handshake
    Workers,
    Clients,       \* bound: each connects once
    NoWorker

ASSUME ListenersAssumption == Secure \subseteq Listeners
ASSUME WorkersAssumption == /\ IsFiniteSet(Workers) /\ Workers # {}
                            /\ NoWorker \notin Workers

VARIABLES
    order,         \* server::_workers, the next worker in front
    accepting,     \* the listeners with an accept outstanding
    via,           \* the listener each client connects to
    place,         \* where the connection of each client is
    worker,        \* the worker it was given to
    posted,        \* each worker's queue of transferred connections
    given,         \* history: connections given to each worker
    failed         \* history: the listeners whose accept failed

vars == <<order, accepting, via, place, worker, posted, given, failed>>

Places == {"away", "backlog", "posted", "handshake", "session"}

(* The workers in some order, each once. *)
Orders == {q \in [1 .. Cardinality(Workers) -> Workers] :
              /\ \A i, j \in DOMAIN q : q[i] = q[j] => i = j
              /\ \A w \in Workers : \E i \in DOMAIN q : q[i] = w}

Init ==
    /\ order \in Orders
    /\ accepting = Listeners
    /\ via \in [Clients -> Listeners]
    /\ place = [k \in Clients |-> "away"]
    /\ worker = [k \in Clients |-> NoWorker]
    /\ posted = [w \in Workers |-> <<>>]
    /\ given = [w \in Workers |-> 0]
    /\ failed = {}

(* A client connects: its connection is in the listener's backlog. *)
Connect(k) ==
    /\ place[k] = "away"
    /\ place' = [place EXCEPT ![k] = "backlog"]
    /\ UNCHANGED <<order, accepting, via, worker, posted, given, failed>>

(* Fault: the worker is not moved to the back. *)
GiveToFirst(k) ==
    LET w == Head(order)
    IN /\ worker' = [worker EXCEPT ![k] = w]
       /\ posted' = [posted EXCEPT ![w] = Append(@, k)]
       /\ given' = [given EXCEPT ![w] = @ + 1]
       /\ UNCHANGED order

(* The acception handler of server::start and worker::transfer_socket. *)
Give(k) ==
    LET w == Head(order)
    IN /\ worker' = [worker EXCEPT ![k] = w]
       /\ posted' = [posted EXCEPT ![w] = Append(@, k)]
       /\ given' = [given EXCEPT ![w] = @ + 1]
       /\ order' = Append(Tail(order), w)

(* Fault: no other accept is started. *)
AcceptOnce(l) ==
    /\ l \in accepting
    /\ \E k \in Clients : /\ place[k] = "backlog" /\ via[k] = l
                          /\ place' = [place EXCEPT ![k] = "posted"]
                          /\ Give(k)
    /\ accepting' = accepting \ {l}
    /\ UNCHANGED <<via, failed>>

(* tcp_listener::_accept_handler without an error: the next accept is      *)
(* started and the connection handed on.                                   *)
Accept(l) ==
    /\ l \in accepting
    /\ \E k \in Clients : /\ place[k] = "backlog" /\ via[k] = l
                          /\ place' = [place EXCEPT ![k] = "posted"]
                          /\ Give(k)
    /\ UNCHANGED <<accepting, via, failed>>

(* tcp_listener::_accept_handler with an error: nothing is done, and       *)
(* nothing will accept on this listener again.                             *)
AcceptFails(l) ==
    /\ l \in accepting
    /\ accepting' = accepting \ {l}
    /\ failed' = failed \cup {l}
    /\ UNCHANGED <<order, via, place, worker, posted, given>>

(* Fault: the connection stays in the queue. *)
TransferKeeping(w) ==
    /\ posted[w] # <<>>
    /\ LET k == Head(posted[w])
       IN place' = [place EXCEPT ![k] = IF via[k] \in Secure
                                        THEN "handshake" ELSE "session"]
    /\ UNCHANGED <<order, accepting, via, worker, posted, given, failed>>

(* The function posted by worker::transfer_socket: async_init moves the    *)
(* socket to the worker's context; a plain connection then gets a session  *)
(* at once and a secure one begins its handshake.                          *)
Transfer(w) ==
    /\ posted[w] # <<>>
    /\ LET k == Head(posted[w])
       IN place' = [place EXCEPT ![k] = IF via[k] \in Secure
                                        THEN "handshake" ELSE "session"]
    /\ posted' = [posted EXCEPT ![w] = Tail(@)]
    /\ UNCHANGED <<order, accepting, via, worker, given, failed>>

(* The handshake ends; whether it failed is not looked at (worker.cpp:26). *)
HandshakeEnds(k) ==
    /\ place[k] = "handshake"
    /\ place' = [place EXCEPT ![k] = "session"]
    /\ UNCHANGED <<order, accepting, via, worker, posted, given, failed>>

Next == \/ \E k \in Clients : Connect(k) \/ HandshakeEnds(k)
        \/ \E l \in Listeners : Accept(l) \/ AcceptFails(l)
        \/ \E w \in Workers : Transfer(w)

Spec == Init /\ [][Next]_vars

-----------------------------------------------------------------------------

(* Every variable has its type; the workers stay in some order, each once. *)
TypeOK == /\ order \in Orders
          /\ accepting \subseteq Listeners
          /\ via \in [Clients -> Listeners]
          /\ place \in [Clients -> Places]
          /\ worker \in [Clients -> Workers \cup {NoWorker}]
          /\ posted \in [Workers -> Seq(Clients)]
          /\ given \in [Workers -> Nat]
          /\ failed \subseteq Listeners

(* No worker is ever given two connections more than another, whatever     *)
(* listeners they come from (server.cpp:52-54).                            *)
Balanced == \A v, w \in Workers : given[v] <= given[w] + 1

(* A connection is given to one worker, once, and it is in that worker's   *)
(* queue exactly until the worker's thread takes it.                       *)
OneOwner ==
    /\ \A k \in Clients, w \in Workers :
          (\E i \in DOMAIN posted[w] : posted[w][i] = k)
             <=> place[k] = "posted" /\ worker[k] = w
    /\ \A w \in Workers : \A i, j \in DOMAIN posted[w] :
          posted[w][i] = posted[w][j] => i = j
    /\ \A k \in Clients :
          worker[k] = NoWorker <=> place[k] \in {"away", "backlog"}

=============================================================================
