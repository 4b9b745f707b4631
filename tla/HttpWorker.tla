----------------------------- MODULE HttpWorker -----------------------------
(***************************************************************************)
(* A worker's HTTP service: the session manager (manager.cpp) with its     *)
(* identifier pool and its map of sessions, the sessions, the expiry of    *)
(* their timers, the reactor of the worker's io_context, and the clients.  *)
(*                                                                         *)
(* The worker has one thread.  Each action below is one handler run to its *)
(* end on that thread, one completion found by the reactor, or one step of *)
(* a client; the interleaving of these is what the code does not control.  *)
(***************************************************************************)
EXTENDS Session, FiniteSets, SequencesExt

CONSTANTS
    Conns,         \* connections transferred to the worker
    NoConn,        \* no session under an identifier
    Secure,        \* those of them that speak TLS
    Streams        \* what a client may send: the units of its requests

ASSUME ConnsAssumption  == NoConn \notin Conns /\ IsFiniteSet(Conns)
ASSUME SecureAssumption == Secure \subseteq Conns
ASSUME StreamAssumption == Streams \subseteq Seq(Units)

(* What is left of a stream between two requests. *)
Rests == {q \in UNION {Suffixes(stream) : stream \in Streams} :
             q = <<>> \/ Head(q) = Part}

(* A client sends one whole request after another. *)
ASSUME RestsAssumption ==
    /\ Streams \subseteq Rests
    /\ \A q \in Rests \ {<<>>} : \E r \in Requests, rest \in Rests :
          q = Wire(r) \o rest

VARIABLES
    s,             \* the session of each connection
    idPool,        \* manager::_id_pool, taken from and returned to the back
    sessions,      \* manager::_sessions
    unsent,        \* what each client still has to send
    sock,          \* what it sent and the server has not read
    held,          \* what the TLS engine read and the session has not
    peer,          \* whether its end of the connection is open
    broken         \* whether its TLS handshake failed

vars == <<s, idPool, sessions, unsent, sock, held, peer, broken>>

client == <<unsent, sock, held, peer, broken>>
registry == <<idPool, sessions>>

Init ==
    /\ s = [c \in Conns |-> Fresh]
    /\ idPool = [i \in 1 .. PoolSize |-> i - 1]
    /\ sessions = [i \in Ids |-> NoConn]
    /\ unsent \in [Conns -> Streams]
    /\ sock = [c \in Conns |-> <<>>]
    /\ held = [c \in Conns |-> <<>>]
    /\ peer = [c \in Conns |-> "open"]
    /\ broken \in {b \in [Conns -> BOOLEAN] :
                      \A c \in Conns : b[c] => c \in Secure}

(* A fault ends the process: an exception no one catches, or undefined     *)
(* behaviour, after which nothing is promised.                             *)
Up == \A c \in Conns : s[c].fault = "none"

Live(c) == s[c].life = "live"

Open == {c \in Conns : s[c].life \in {"live", "garbled"}}

-----------------------------------------------------------------------------
(* The manager. *)

(* Fault: the erased session's identifier is returned twice. *)
BecomeTwice(c, x) ==
    /\ s' = [s EXCEPT ![c] = x]
    /\ IF x.life = "gone"
       THEN /\ idPool' = idPool \o <<x.id, x.id>>
            /\ sessions' = [sessions EXCEPT ![x.id] = NoConn]
       ELSE UNCHANGED registry

(* The session of c becomes x.  If that erased it, the terminating handler *)
(* returned its identifier and removed it from the map.                    *)
Become(c, x) ==
    /\ s' = [s EXCEPT ![c] = x]
    /\ IF x.life = "gone"
       THEN /\ idPool' = Append(idPool, x.id)
            /\ sessions' = [sessions EXCEPT ![x.id] = NoConn]
       ELSE UNCHANGED registry

Drop(q, n) == SubSeq(q, n + 1, Len(q))

(* The reads of the handshake of c may have taken some of what the client  *)
(* sent behind its last message, and leave it to the TLS engine.           *)
ReadAhead(c) ==
    /\ \E n \in IF c \in Secure /\ ~broken[c] THEN 0 .. Len(unsent[c]) ELSE {0} :
          /\ held' = [held EXCEPT ![c] = @ \o SubSeq(unsent[c], 1, n)]
          /\ unsent' = [unsent EXCEPT ![c] = Drop(@, n)]
    /\ UNCHANGED <<sock, peer, broken>>

(* A session is created whether or not the handshake succeeded.  The pool  *)
(* is not checked for emptiness: without an identifier left, the behaviour *)
(* is undefined.                                                           *)
Create(c) ==
    /\ Up
    /\ s[c].life = "new"
    /\ IF idPool = <<>>
       THEN /\ s' = [s EXCEPT ![c].fault = "pool"]
            /\ UNCHANGED registry
       ELSE LET id == Last(idPool)
            IN /\ idPool' = Front(idPool)
               /\ sessions' = [sessions EXCEPT ![id] = c]
               /\ s' = [s EXCEPT ![c] = Start([s[c] EXCEPT !.id = id])]
    /\ ReadAhead(c)

-----------------------------------------------------------------------------
(* Completion handlers and the wheel. *)

HandleWait(c) ==
    /\ Up /\ Live(c) /\ s[c].wait \in Completed
    /\ Become(c, WaitHandler(s[c]))
    /\ UNCHANGED client

HandleHeader(c) ==
    /\ Up /\ Live(c) /\ s[c].header \in Completed
    /\ Become(c, HeaderHandler(s[c]))
    /\ UNCHANGED client

HandleBody(c) ==
    /\ Up /\ Live(c) /\ s[c].body \in Completed
    /\ Become(c, BodyHandler(s[c]))
    /\ UNCHANGED client

HandleSend(c) ==
    /\ Up /\ Live(c) /\ s[c].send \in Completed
    /\ Become(c, SendHandler(s[c]))
    /\ UNCHANGED client

(* boost::asio::async_read starts its next read. *)
ContinueBody(c) ==
    /\ Up /\ Live(c) /\ s[c].body = "more"
    /\ s' = [s EXCEPT ![c].body = "pending"]
    /\ UNCHANGED <<registry, client>>

Outstanding(x) == {x.wait, x.header, x.body, x.send} # {"idle"}

(* A handler that refers to an erased session runs. *)
RunDangling(c) ==
    /\ Up /\ s[c].life = "gone" /\ Outstanding(s[c])
    /\ s' = [s EXCEPT ![c].fault = "dangling"]
    /\ UNCHANGED <<registry, client>>

(* Fault: the handlers of every slot run. *)
TickedEarly(x) == IF x.timer = 0 THEN x ELSE Expire(x)

(* A second passes: every timer comes one slot nearer, and the handlers of *)
(* the first slot run.                                                     *)
Ticked(x) == IF x.timer = 0
             THEN x
             ELSE IF x.timer = 1 THEN Expire(x)
                                 ELSE [x EXCEPT !.timer = @ - 1]

Tick ==
    /\ Up
    /\ \E c \in Conns : s[c].timer > 0
    /\ s' = [c \in Conns |-> Ticked(s[c])]
    /\ LET erased == {c \in Conns : Live(c) /\ s'[c].life = "gone"}
       IN /\ idPool' = idPool \o SetToSeq({s[c].id : c \in erased})
          /\ sessions' = [i \in Ids |-> IF sessions[i] \in erased
                                        THEN NoConn ELSE sessions[i]]
    /\ UNCHANGED client

-----------------------------------------------------------------------------
(* The reactor. *)

(* A wait is for the socket: what the TLS engine holds is not seen. *)
Readable(c) == sock[c] # <<>> \/ peer[c] = "closed"

(* What the next read of the connection begins with. *)
Source(c) == IF held[c] = <<>> THEN sock[c] ELSE held[c]

(* n units go to the session.  The TLS engine returns what it holds before *)
(* it reads the socket, and reads as much of that as it likes.             *)
Take(c, n) ==
    IF held[c] # <<>>
    THEN /\ held' = [held EXCEPT ![c] = Drop(@, n)]
         /\ UNCHANGED sock
    ELSE \E m \in IF c \in Secure THEN n .. Len(sock[c]) ELSE {n} :
            /\ sock' = [sock EXCEPT ![c] = Drop(@, m)]
            /\ held' = [held EXCEPT ![c] = SubSeq(sock[c], n + 1, m)]

(* A read fails at the end of the stream, or where there is no TLS stream  *)
(* to read.                                                                *)
Unreadable(c) == broken[c] \/ (Source(c) = <<>> /\ peer[c] = "closed")

CompleteWait(c) ==
    /\ Up /\ Live(c) /\ s[c].wait = "pending" /\ Readable(c)
    /\ \E result \in IF peer[c] = "closed" THEN Completed ELSE {"ok"} :
          s' = [s EXCEPT ![c].wait = result]
    /\ UNCHANGED <<registry, client>>

CompleteHeader(c) ==
    /\ Up /\ Live(c) /\ s[c].header = "pending"
    /\ \/ \E n \in 1 .. Len(Source(c)) :
             /\ ~broken[c] /\ n <= Capacity(s[c])
             /\ s' = [s EXCEPT ![c].header = "ok",
                               ![c].got = SubSeq(Source(c), 1, n)]
             /\ Take(c, n)
       \/ /\ Unreadable(c)
          /\ s' = [s EXCEPT ![c].header = "err"]
          /\ UNCHANGED <<sock, held>>
    /\ UNCHANGED <<registry, unsent, peer, broken>>

(* One readiness event completes a read and a wait that are both waiting   *)
(* for it, even if the read leaves nothing in the socket.                  *)
WokenToo(op) == IF op = "pending" THEN {"pending", "ok"} ELSE {op}

(* The composed read of a body goes on until it has all of it. *)
BodyRead(x, n, w) ==
    [x EXCEPT !.body = IF n = x.lack THEN "ok" ELSE "more",
              !.lack = @ - n, !.wait = w]

CompleteBody(c) ==
    /\ Up /\ Live(c) /\ s[c].body = "pending"
    /\ \/ \E n \in 1 .. Len(Source(c)),
             w \in IF held[c] = <<>> THEN WokenToo(s[c].wait)
                                   ELSE {s[c].wait} :
             /\ ~broken[c] /\ n <= s[c].lack
             /\ s' = [s EXCEPT ![c] = BodyRead(s[c], n, w)]
             /\ Take(c, n)
       \/ /\ Unreadable(c)
          /\ s' = [s EXCEPT ![c].body = "err"]
          /\ UNCHANGED <<sock, held>>
    /\ UNCHANGED <<registry, unsent, peer, broken>>

(* A client may have closed only its sending side, and then receives. *)
CompleteSend(c) ==
    /\ Up /\ Live(c) /\ s[c].send = "pending"
    /\ \E result \in IF peer[c] = "closed" THEN Completed ELSE {"ok"} :
          s' = [s EXCEPT ![c].send = result]
    /\ UNCHANGED <<registry, client>>

-----------------------------------------------------------------------------
(* The clients. *)

(* The next unit of the client's requests arrives. *)
Deliver(c) ==
    /\ Up /\ Live(c) /\ peer[c] = "open" /\ unsent[c] # <<>>
    /\ sock' = [sock EXCEPT ![c] = Append(@, Head(unsent[c]))]
    /\ unsent' = [unsent EXCEPT ![c] = Tail(@)]
    /\ UNCHANGED <<s, registry, held, peer, broken>>

(* The client closes or resets the connection, or the network does. *)
Disconnect(c) ==
    /\ Up /\ Live(c) /\ peer[c] = "open"
    /\ peer' = [peer EXCEPT ![c] = "closed"]
    /\ \E kept \in {sock[c], <<>>} : sock' = [sock EXCEPT ![c] = kept]
    /\ UNCHANGED <<s, registry, unsent, held, broken>>

-----------------------------------------------------------------------------

Handler(c) == \/ HandleWait(c) \/ HandleHeader(c) \/ HandleBody(c)
              \/ HandleSend(c) \/ ContinueBody(c) \/ RunDangling(c)

Reactor(c) == \/ CompleteWait(c) \/ CompleteHeader(c)
              \/ CompleteBody(c) \/ CompleteSend(c)

Client(c) == Deliver(c) \/ Disconnect(c)

Next == \/ Tick
        \/ \E c \in Conns : Create(c) \/ Handler(c) \/ Reactor(c) \/ Client(c)

Spec == Init /\ [][Next]_vars

(* The thread of the worker runs every queued handler. *)
HandlerFairness ==
    \A c \in Conns : /\ WF_vars(HandleWait(c))
                     /\ WF_vars(HandleHeader(c))
                     /\ WF_vars(HandleBody(c))
                     /\ WF_vars(HandleSend(c))
                     /\ WF_vars(ContinueBody(c))

(* And the wheel's timer goes off again and again. *)
WorkerFairness == WF_vars(Tick) /\ HandlerFairness

(* The reactor reports what has happened on a socket. *)
ReactorFairness ==
    \A c \in Conns : /\ WF_vars(CompleteWait(c))
                     /\ WF_vars(CompleteHeader(c))
                     /\ WF_vars(CompleteBody(c))
                     /\ WF_vars(CompleteSend(c))

FairSpec == Spec /\ WorkerFairness /\ ReactorFairness

(* Clients do not stay for ever. *)
ClientFairness == \A c \in Conns : WF_vars(Disconnect(c))

(* The last part of the last response is on its way. *)
Answered(x) ==
    /\ x.asked = x.answered /\ x.reader = "none"
    /\ \/ x.send = "idle"
       \/ x.send = "ok" /\ (x.part = "content" \/ x.reply \in {"bare", "empty"})

(* All that the client has sent was taken for requests or their bodies. *)
Consumed(c) ==
    s[c].buf \o s[c].got \o held[c] \o sock[c] = <<>> /\ s[c].lack = 0

(* A polite client begins a request when it has the answer to the one      *)
(* before: it does not pipeline.                                           *)
DeliverPolitely(c) ==
    /\ Deliver(c)
    /\ Head(unsent[c]) = Part => Consumed(c) /\ Answered(s[c])

CreatePolitely(c) ==
    /\ Create(c)
    /\ \A k \in 2 .. Len(held'[c]) : held'[c][k] # Part

(* A worker whose clients are polite and stay, and whose wheel stands      *)
(* still: no timer is there to end a session that does not get on.         *)
PoliteNext == \E c \in Conns : \/ CreatePolitely(c) \/ Handler(c) \/ Reactor(c)
                               \/ DeliverPolitely(c)

PoliteSpec == /\ Init /\ [][PoliteNext]_vars
              /\ HandlerFairness /\ ReactorFairness
              /\ \A c \in Conns : WF_vars(DeliverPolitely(c))

-----------------------------------------------------------------------------
(* Safety. *)

(* Every variable has its type. *)
TypeOK ==
    /\ s \in [Conns -> SessionType]
    /\ idPool \in Seq(Ids)
    /\ sessions \in [Ids -> Conns \cup {NoConn}]
    /\ unsent \in [Conns -> Seq(Units)]
    /\ sock \in [Conns -> Seq(Units)]
    /\ held \in [Conns -> Seq(Units)]
    /\ peer \in [Conns -> {"open", "closed"}]
    /\ broken \in [Conns -> BOOLEAN]

(* The keep-alive timer runs exactly while the session waits for a request *)
(* and has not been terminated: it is never set twice, never canceled when *)
(* its node is gone (session.cpp:12 cancels it without a look), and never  *)
(* left behind by an erased session, whose memory its handler refers to.   *)
TimerWhileWaiting ==
    \A c \in Conns :
        /\ s[c].fault # "timer"
        /\ s[c].timer > 0 <=> Live(c) /\ s[c].wbusy /\ ~s[c].canceled

(* The chain of callbacks of a session never forks: it waits, reads a      *)
(* header, sends, or is called back by the body, one of these at a time.   *)
OneControl ==
    \A c \in Conns : Live(c) =>
        LET x == s[c]
        IN  /\ x.wait # "idle" => /\ x.header = "idle" /\ x.send = "idle"
                                 /\ x.reader = "none"
            /\ x.header # "idle" => x.send = "idle" /\ x.reader = "none"
            /\ x.send # "idle" => x.reader = "none"

(* As long as no header was read while a body was outstanding, the busy    *)
(* flags are set whenever an operation is outstanding, so that a session   *)
(* is never erased under an operation whose handler refers to it.          *)
NoDangling ==
    \A c \in Conns : ~s[c].overlap =>
        /\ Live(c) => /\ s[c].wait # "idle" => s[c].wbusy
                      /\ s[c].send # "idle" => s[c].sbusy
                      /\ s[c].header # "idle" \/ s[c].body # "idle"
                            => s[c].rbusy
        /\ s[c].life = "gone" => ~Outstanding(s[c])
        /\ s[c].fault # "dangling"

(* _header_receiving_handler is the one completion that does not look at   *)
(* _canceled: a session is never terminated while it reads a header, so    *)
(* none is parsed and served on behalf of a terminated session.            *)
CancelSparesHeader ==
    \A c \in Conns : Live(c) /\ s[c].canceled => s[c].header = "idle"

(* Every identifier is either in the pool, once, or that of one session.   *)
Partition ==
    /\ \A i, j \in DOMAIN idPool : idPool[i] = idPool[j] => i = j
    /\ \A i \in Ids : sessions[i] = NoConn <=> \E k \in DOMAIN idPool :
                                                  idPool[k] = i
    /\ \A c \in Conns, i \in Ids :
          sessions[i] = c <=> c \in Open /\ s[c].id = i

(* The identifier pool and the map of sessions partition the identifiers:  *)
(* none is lost, returned twice, or shared by two sessions; and a          *)
(* connection finds none left (manager.cpp:27) only when every one of them *)
(* is an open session's.                                                   *)
Registry ==
    /\ Partition
    /\ \A c \in Conns :
          s[c].fault = "pool" => Ids \subseteq {s[d].id : d \in Open}

(* A request is answered, and only once, before the next one is waited for *)
(* or read: responses leave in the order of their requests.                *)
AnsweredInOrder ==
    \A c \in Conns :
        /\ s[c].answered <= s[c].asked /\ s[c].asked <= s[c].answered + 1
        /\ Live(c) /\ (s[c].timer > 0 \/ s[c].header # "idle")
              => s[c].asked = s[c].answered

(* async_receive searches only the first block of the header buffer and    *)
(* _header_receiving_handler only what it has just read; still, no request *)
(* is in the buffer unnoticed while the session reads on (transceiver.cpp  *)
(* says "No full header has detected" there), and outside of that the      *)
(* buffered data is in one block.                                          *)
HeaderDetected ==
    \A c \in Conns : Live(c) =>
        IF s[c].header = "idle"
        THEN s[c].off + Len(s[c].buf) <= BlockSize
        ELSE Ends(s[c].buf) = {}

(* What the session has not consumed of a connection is the rest of the    *)
(* body it is receiving and then whole requests: no byte is lost, repeated *)
(* or taken for what it is not, unless a header read stole the rest of a   *)
(* body, or a header was not one to go by.                                 *)
Framing ==
    \A c \in Conns :
        /\ s[c].life = "garbled" => s[c].overlap
        /\ Live(c) /\ peer[c] = "open" /\ ~s[c].overlap /\ s[c].sound
           => \E q \in Rests :
                 s[c].buf \o s[c].got \o held[c] \o sock[c] \o unsent[c]
                     = [i \in 1 .. s[c].lack |-> Body] \o q

(* A session nothing will ever call again: no operation, timer or reader.  *)
Stuck(c) == /\ Live(c) /\ s[c].fault = "none"
            /\ s[c].timer = 0 /\ s[c].reader = "none"
            /\ ~Outstanding(s[c])

(* The ways a session comes to be stuck, and its identifier, its socket    *)
(* and its memory leak: a resource that never answers, a termination that  *)
(* waits for a receiving flag set for a header already in the buffer, and  *)
(* an echo whose request was cut short.  There are no others.              *)
OnlyKnownLeaks ==
    \A c \in Conns : Stuck(c) =>
        \/ s[c].out = "silent" /\ s[c].asked > s[c].answered
        \/ s[c].canceled /\ s[c].rbusy /\ ~s[c].sbusy /\ ~s[c].wbusy
        \/ s[c].reply = "echo" /\ s[c].sbusy

(* What brings the process down: a body whose read fails although the      *)
(* request went to a resource that does not read it, so that the handler   *)
(* called was never set (transmitting_content.cpp:28); an exception, from  *)
(* a header that cannot be decoded or a content-length that is none, or    *)
(* out of a resource, which is what becomes of every application called    *)
(* with a body (wsgi_rnode.cpp:99); the identifiers used up; or a header   *)
(* read while a body was outstanding.                                      *)
NoFault ==
    \A c \in Conns : s[c].fault # "none" =>
        \/ s[c].overlap
        \/ s[c].fault = "bad_call" /\ s[c].node # "app"
        \/ s[c].fault = "thrown" /\ (~s[c].sound \/ s[c].out = "throws")
        \/ s[c].fault = "pool" /\ idPool = <<>>

-----------------------------------------------------------------------------
(* Action properties. *)

Started(x, y) == \E k \in {"wait", "header", "body", "send"} :
                    x[k] = "idle" /\ y[k] # "idle"

(* A terminated session starts nothing: no read, write, wait or timer.     *)
(* Late completions of what it had outstanding are only counted off.       *)
CancelIsFinal ==
    [][\A c \in Conns : s[c].canceled =>
          /\ s'[c].canceled
          /\ ~Started(s[c], s'[c])
          /\ s'[c].timer = 0 \/ s'[c].timer < s[c].timer
          /\ s'[c].answered = s[c].answered]_vars

-----------------------------------------------------------------------------
(* Liveness. *)

(* A terminated session is erased once its operations are aborted, unless  *)
(* a flag is set that no completion will clear, or the body's read escaped *)
(* the cancellation and waits for the client.                              *)
TerminationCompletes ==
    \A c \in Conns :
        Live(c) /\ s[c].canceled ~>
            \/ s[c].life = "gone" \/ Stuck(c) \/ ~Up
            \/ s[c].body = "pending"

(* The first request went to the handshake's reads, and the client waits   *)
(* for its answer: nothing on the socket announces what the TLS engine has *)
(* (ssl_connection.cpp:29), and the session waits until its timer.         *)
Overlooked(c) ==
    /\ s[c].asked = 0 /\ s[c].wait = "pending"
    /\ held[c] # <<>> /\ sock[c] = <<>>
    /\ unsent[c] # <<>> => Head(unsent[c]) = Part

(* The session has ended itself: a response without keep-alive, or one     *)
(* without content, which counts as an error (transceiver.cpp:327).        *)
Finished(x) == /\ x.canceled \/ x.life = "gone"
               /\ x.asked > 0 /\ (~x.keep \/ x.reply = "bare")

(* Every request of a polite client is dispatched, without the help of any *)
(* timer, unless the session ends before as it says, one is never          *)
(* answered, one brings the process down, or the first was overlooked.     *)
PoliteServed ==
    \A c \in Conns :
        Live(c) ~> \/ unsent[c] = <<>> /\ Consumed(c)
                   \/ Finished(s[c]) \/ broken[c]
                   \/ s[c].out = "silent" \/ s[c].overlap
                   \/ Overlooked(c) \/ ~Up

(* Whatever its client does, a session that waits for a request waits no   *)
(* longer than its timer; and clients that leave in the end leave no       *)
(* session behind, but the leaks.                                          *)
SessionsEnd ==
    /\ \A c \in Conns : s[c].timer > 0 ~> s[c].timer = 0 \/ ~Up
    /\ ClientFairness =>
          \A c \in Conns :
              Live(c) ~> s[c].life \in {"gone", "garbled"} \/ Stuck(c) \/ ~Up

-----------------------------------------------------------------------------
(* The abstract specification: what the session does is one exchange after *)
(* another. *)

PhaseOf(x) ==
    CASE x.fault # "none" \/ x.life = "garbled" -> "broken"
      [] x.fault = "none" /\ x.life = "new"     -> "new"
      [] x.fault = "none" /\ x.life = "gone"    -> "closed"
      [] x.fault = "none" /\ x.life = "live" ->
           CASE x.canceled -> "closing"
             [] ~x.canceled /\ x.timer > 0 -> "waiting"
             [] ~x.canceled /\ x.timer = 0 /\ x.header # "idle" -> "reading"
             [] ~x.canceled /\ x.timer = 0 /\ x.header = "idle" ->
                  IF x.asked > x.answered THEN "serving" ELSE "replying"

Promise == INSTANCE Exchange WITH
               phase    <- [c \in Conns |-> PhaseOf(s[c])],
               asked    <- [c \in Conns |-> s[c].asked],
               answered <- [c \in Conns |-> s[c].answered]

(* Every connection is served as Exchange says (session.cpp's callbacks,   *)
(* from start to the terminating handler, implement it).                   *)
KeepsPromise == Promise!Spec

Clock == INSTANCE Timeouts WITH
             Owners <- Conns,
             left   <- [c \in Conns |-> s[c].timer]

(* The sessions use their timers as the owners of a timing wheel may: one  *)
(* set or cancel at a time, of a timer that is not set or is, and nothing  *)
(* but the wheel's tick makes the time of any session pass.                *)
KeepsTime == Clock!Spec
=============================================================================
