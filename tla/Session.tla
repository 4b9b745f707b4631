------------------------------ MODULE Session ------------------------------
(***************************************************************************)
(* One HTTP session of a worker: the session object (session.cpp), the     *)
(* transceiver that frames messages on its connection (transceiver.cpp)    *)
(* and the buffer of a request body (transmitting_content.cpp).            *)
(*                                                                         *)
(* All code of a worker runs on one thread and every handler runs to its   *)
(* end, so a handler is a function from the session before it to the       *)
(* session after it.  This module defines those functions; HttpWorker      *)
(* turns them into actions and adds the manager, the timing wheel, the     *)
(* reactor and the clients.                                                *)
(*                                                                         *)
(* The bytes of a connection are abstracted to units.  A request is sent   *)
(* as one unit Part (the beginning of its header), one unit that is the    *)
(* request itself (it ends with the blank line that ends the header) and   *)
(* r.body units Body.                                                      *)
(*                                                                         *)
(* A definition marked "Fault:" is not the code's.  It is what the one     *)
(* after it would be with a plausible mistake; the runs check that their   *)
(* properties notice it.                                                   *)
(***************************************************************************)
EXTENDS Integers, Sequences

CONSTANTS
    PoolSize,      \* identifiers in the manager's pool (2 << 16 in the code)
    Slots,         \* slots of the timing wheel (120 in the code)
    BlockSize,     \* units in a block of the header buffer (1024 bytes)
    Requests,      \* the requests a client may send
    Part, Body     \* the other two units of a byte stream

Ids  == 0 .. PoolSize - 1
NoId == -1

Units == Requests \cup {Part, Body}

(***************************************************************************)
(* node: the resource that serves the request: "plain" (the handler        *)
(*   answers at once and never reads the body), "trace" (the response's    *)
(*   content is the request's) or "app" (reads the whole body first).      *)
(* out: the answer it gives: with content, with a content of length zero,  *)
(*   without content (304, OPTIONS, HEAD), none at all (PUT, DELETE,       *)
(*   CONNECT, an unknown method, an exception of the application), or an   *)
(*   exception that leaves it, as Resource!AnswersAll lists them.          *)
(* body: the content-length its header states, 0 if it states none.        *)
(* sound: the header can be decoded, and its content-length is a number of *)
(*   bytes for which there is memory; if not, std::stoll, a string_view or *)
(*   the body's buffer throws (message.hpp:97, transceiver.cpp:77, 348).   *)
(***************************************************************************)
RequestType == [node  : {"plain", "trace", "app"},
                out   : {"content", "empty", "bare", "silent", "throws"},
                body  : Nat,
                keep  : BOOLEAN,
                sound : BOOLEAN]

ASSUME PoolAssumption  == PoolSize \in Nat \ {0}
ASSUME SlotsAssumption == Slots \in Nat \ {0}
ASSUME BlockAssumption == BlockSize \in Nat \ {0}
ASSUME RequestAssumption ==
    /\ Requests \subseteq RequestType
    /\ Part \notin Requests /\ Body \notin Requests /\ Part # Body

(* What a client sends for the request r. *)
Wire(r) == <<Part, r>> \o [i \in 1 .. r.body |-> Body]

(***************************************************************************)
(* An asynchronous operation on the connection: not started, outstanding,  *)
(* between two reads of a composed operation, or completed with its        *)
(* handler in the worker's queue.                                          *)
(***************************************************************************)
Op == {"idle", "pending", "more", "ok", "err"}

Completed == {"ok", "err"}

Replies == {"content", "empty", "bare", "echo"}

SessionType ==
    [life     : {"new", "live", "gone", "garbled"},
     fault    : {"none", "bad_call", "dangling", "timer", "thrown", "pool"},
     id       : Ids \cup {NoId},
     timer    : 0 .. Slots,              \* ticks left; 0: no timer is set
     keep     : BOOLEAN,                 \* _keep_alive
     rbusy    : BOOLEAN,                 \* _receiving_busy
     sbusy    : BOOLEAN,                 \* _sending_busy
     wbusy    : BOOLEAN,                 \* _waiting_busy
     canceled : BOOLEAN,                 \* _canceled
     wait     : Op,                      \* async_wait
     header   : Op,                      \* async_read_some of a header
     body     : Op,                      \* async_read of a body
     send     : Op,                      \* async_write of a response
     part     : {"header", "content"},   \* what that write transmits
     reply    : Replies,                 \* the response being sent
     reader   : {"none", "app", "echo"}, \* _read_handler of the body
     out      : {"content", "empty", "bare", "silent", "throws"},
     lack     : Nat,                     \* body units not yet received
     buf      : Seq(Units),              \* _header_receive_buffer
     off      : 0 .. BlockSize - 1,      \* its offset in the first block
     got      : Seq(Units),              \* read but not yet committed
     node     : {"none", "plain", "trace", "app"}, \* history: the resource
     asked    : Nat,                     \* history: requests dispatched
     sound    : BOOLEAN,                 \* history: the header was
     answered : Nat,                     \* history: responses started
     overlap  : BOOLEAN]                 \* history: a header was read while
                                         \* a body was outstanding

Fresh ==
    [life |-> "new", fault |-> "none", id |-> NoId, timer |-> 0,
     keep |-> FALSE, rbusy |-> FALSE, sbusy |-> FALSE, wbusy |-> FALSE,
     canceled |-> FALSE, wait |-> "idle", header |-> "idle",
     body |-> "idle", send |-> "idle", part |-> "header",
     reply |-> "bare", reader |-> "none", out |-> "bare", lack |-> 0,
     buf |-> <<>>, off |-> 0, got |-> <<>>, node |-> "none", asked |-> 0,
     sound |-> TRUE, answered |-> 0, overlap |-> FALSE]

-----------------------------------------------------------------------------
(* Cancellation and termination. *)

Busy(x) == x.rbusy \/ x.sbusy \/ x.wbusy

(* socket.cancel(): an outstanding operation completes with an error.  One *)
(* that is between two reads is not outstanding and escapes.               *)
Aborted(op) == IF op = "pending" THEN "err" ELSE op

Abort(x) == [x EXCEPT !.wait   = Aborted(@), !.header = Aborted(@),
                      !.body   = Aborted(@), !.send   = Aborted(@)]

(* The terminating handler erases the session and so closes its socket.    *)
Erase(x) == [Abort(x) EXCEPT !.life = "gone"]

(* Fault: the outstanding operations are not aborted. *)
CancelOnlyMarks(x) ==
    IF Busy(x) THEN [x EXCEPT !.canceled = TRUE] ELSE Erase(x)

(* session::_terminate, transceiver::cancel *)
Cancel(x) ==
    IF Busy(x) THEN [Abort(x) EXCEPT !.canceled = TRUE] ELSE Erase(x)

(* Fault: the last completion does not erase the session. *)
SettleForgets(x) == x

(* What every completion does first once the transceiver is canceled. *)
Settle(x) == IF Busy(x) THEN x ELSE Erase(x)

-----------------------------------------------------------------------------
(* The keep-alive timer.  A second set would lose the node of the first,   *)
(* and a cancel without a node deletes a dangling pointer: both faults.    *)

SetTimer(x) ==
    IF x.timer = 0 THEN [x EXCEPT !.timer = Slots]
                   ELSE [x EXCEPT !.fault = "timer"]

CancelTimer(x) ==
    IF x.timer = 0 THEN [x EXCEPT !.fault = "timer"]
                   ELSE [x EXCEPT !.timer = 0]

(* The wheel reaches the node: its handler is session::_terminate, and the *)
(* node is deleted.                                                        *)
Expire(x) == [Cancel(x) EXCEPT !.timer = 0]

-----------------------------------------------------------------------------
(* Waiting for a request. *)

AsyncWait(x) == [x EXCEPT !.wbusy = TRUE, !.wait = "pending"]

AwaitRequest(x) == AsyncWait(SetTimer(x))

NextRequest(x) == IF x.keep THEN AwaitRequest(x) ELSE Cancel(x)

Start(x) == AwaitRequest([x EXCEPT !.life = "live"])

-----------------------------------------------------------------------------
(* The request's body. *)

(* The whole body is in its buffer and the read has been handled. *)
Whole(x) == x.body = "idle" /\ x.lack = 0

(* An exception leaves the handler, and io_context::run of the worker.     *)
Throw(x) == [x EXCEPT !.fault = "thrown"]

Reply(x, out) ==
    [x EXCEPT !.sbusy = TRUE, !.send = "pending", !.part = "header",
              !.reply = out, !.answered = @ + 1]

(* Fault: a request without an answer is passed over. *)
RespondSkips(x, out) ==
    CASE out = "silent" -> NextRequest(x)
      [] out = "throws" -> Throw(x)
      [] out \in Replies -> Reply(x, out)

(* What the resource's handler does: it answers, or never, or throws.      *)
Respond(x, out) ==
    CASE out = "silent" -> x
      [] out = "throws" -> Throw(x)
      [] out \in Replies -> Reply(x, out)

(* Fault: the sending flag is not set again for the content. *)
SendContentUnmarked(x) == [x EXCEPT !.send = "pending", !.part = "content"]

SendContent(x) == [x EXCEPT !.sbusy = TRUE, !.send = "pending",
                            !.part = "content"]

(* Fault: the reader stays registered. *)
CallReaderKept(x) ==
    CASE x.reader = "none" -> x
      [] x.reader = "app"  -> Respond(x, x.out)
      [] x.reader = "echo" -> SendContent(x)

(* transmitting_content::commit: the reader is called once it has it all. *)
CallReader(x) ==
    LET y == [x EXCEPT !.reader = "none"]
    IN CASE x.reader = "none" -> x
         [] x.reader = "app"  -> Respond(y, x.out)
         [] x.reader = "echo" -> SendContent(y)

(* transmitting_content::cancel: it calls a handler nobody may have set.   *)
(* The application is called on an error as well; the echo drops it.       *)
FailReader(x) ==
    LET y == [x EXCEPT !.reader = "none"]
    IN CASE x.reader = "none" -> [x EXCEPT !.fault = "bad_call"]
         [] x.reader = "app"  -> Respond(y, x.out)
         [] x.reader = "echo" -> y

(* transceiver::_content_receiving_handler after the given result *)
ContentReceived(x, result) ==
    LET y == [x EXCEPT !.rbusy = FALSE, !.body = "idle"]
    IN CASE x.canceled -> Settle(y)
         [] ~x.canceled /\ result = "err" -> FailReader(y)
         [] ~x.canceled /\ result = "ok" ->
              IF y.lack > 0
              THEN [y EXCEPT !.rbusy = TRUE, !.body = "pending"]
              ELSE CallReader(y)

(* Fault: the offset is counted from the first block there ever was. *)
ConsumeOnward(x, n) == [x EXCEPT !.buf = SubSeq(@, n + 1, Len(@)),
                                 !.off = @ + n]

(* linked_buffer::take_data and consume *)
Consume(x, n) == [x EXCEPT !.buf = SubSeq(@, n + 1, Len(@)),
                           !.off = (@ + n) % BlockSize]

(* Fault: what was in the header's buffer already is read once more. *)
ReceiveContentUncounted(x, n) ==
    IF n = 0
    THEN x
    ELSE LET take == IF Len(x.buf) < n THEN Len(x.buf) ELSE n
         IN ContentReceived([Consume(x, take) EXCEPT
                                !.sbusy = TRUE, !.lack = n], "ok")

(* transceiver::_receive_content: it is the sending flag that it sets. *)
ReceiveContent(x, n) ==
    IF n = 0
    THEN x
    ELSE LET take == IF Len(x.buf) < n THEN Len(x.buf) ELSE n
         IN ContentReceived([Consume(x, take) EXCEPT
                                !.sbusy = TRUE, !.lack = n - take], "ok")

-----------------------------------------------------------------------------
(* Receiving a request. *)

(* What becomes of a request at its resource.  An application that is      *)
(* called with a body throws: it is made a bytearray out of a text, which  *)
(* Python refuses, before the try block (wsgi_rnode.cpp:99).               *)
Outcome(r) == IF r.node = "app" /\ r.body > 0 THEN "throws" ELSE r.out

(* Fault: an application answers before it has the body. *)
ServeEarly(x, r) ==
    Respond([x EXCEPT !.keep = r.keep, !.node = r.node, !.asked = @ + 1,
                      !.out = r.out], r.out)

(* session::_receive_handler, resource::async_request and the resource. *)
Serve(x, r) ==
    LET y == [x EXCEPT !.keep = r.keep, !.node = r.node, !.asked = @ + 1,
                       !.out = Outcome(r)]
    IN CASE r.node = "plain" -> Respond(y, r.out)
         [] r.node = "trace" -> Respond(y, IF r.body > 0 THEN "echo"
                                                         ELSE "bare")
         [] r.node = "app"   -> IF r.body = 0 \/ Whole(y)
                                THEN Respond(y, Outcome(r))
                                ELSE [y EXCEPT !.reader = "app"]

IsFirst(n, S) == n \in S /\ \A m \in S : n <= m

(* Positions of q at which a header ends. *)
Ends(q) == {n \in DOMAIN q : q[n] \in Requests}

(* The first n units of the buffer are taken for a header.  If they are    *)
(* not the header of one request, what the session does next is up to a    *)
(* string of bytes no client sent as a request: it is not followed.        *)
Dispatch(x, n) ==
    LET r == x.buf[n]
        y == Consume(x, n)
    IN CASE ~(n \in Ends(x.buf) /\ SubSeq(x.buf, 1, n) = <<Part, r>>) ->
              [x EXCEPT !.life = "garbled"]
         [] n \in Ends(x.buf) /\ SubSeq(x.buf, 1, n) = <<Part, r>> ->
              IF r.sound THEN Serve(ReceiveContent(y, r.body), r)
                         ELSE Throw([y EXCEPT !.sound = FALSE])

ReadHeader(x) == [x EXCEPT !.rbusy = TRUE, !.header = "pending"]

(* Fault: what is buffered already is not searched. *)
AsyncReceiveMore(x) ==
    ReadHeader([x EXCEPT !.overlap = @ \/ x.body # "idle"])

(* transceiver::async_receive: what is buffered already is searched, but   *)
(* only as far as the first block of the buffer goes.                      *)
AsyncReceive(x) ==
    LET y    == [x EXCEPT !.rbusy = TRUE, !.overlap = @ \/ x.body # "idle"]
        ends == {n \in Ends(x.buf) : n <= BlockSize - x.off}
    IN IF ends = {}
       THEN ReadHeader(y)
       ELSE Dispatch(y, CHOOSE n \in ends : IsFirst(n, ends))

(* linked_buffer::get_available_block: the size of a read. *)
Capacity(x) == BlockSize - ((x.off + Len(x.buf)) % BlockSize)

-----------------------------------------------------------------------------
(* The completion handlers. *)

(* Fault: the timer of a wait that failed is left running. *)
WaitHandlerLeavesTimer(x) ==
    LET y == [x EXCEPT !.wbusy = FALSE, !.wait = "idle"]
    IN CASE x.canceled -> Settle(y)
         [] ~x.canceled /\ x.wait = "ok"  -> AsyncReceive(CancelTimer(y))
         [] ~x.canceled /\ x.wait = "err" -> Cancel(y)

(* Fault: a wait that completed before the cancellation is handled.  *)
WaitHandlerLate(x) ==
    LET y == [x EXCEPT !.wbusy = FALSE, !.wait = "idle"]
    IN CASE x.wait = "ok" -> AsyncReceive([y EXCEPT !.timer = 0])
         [] x.wait = "err" /\ x.canceled  -> Settle(y)
         [] x.wait = "err" /\ ~x.canceled -> Cancel(CancelTimer(y))

(* transceiver::async_wait's handler and session::_wait_handler *)
WaitHandler(x) ==
    LET y == [x EXCEPT !.wbusy = FALSE, !.wait = "idle"]
    IN CASE x.canceled -> Settle(y)
         [] ~x.canceled /\ x.wait = "ok"  -> AsyncReceive(CancelTimer(y))
         [] ~x.canceled /\ x.wait = "err" -> Cancel(CancelTimer(y))

(* Fault: after a failed read the session waits for another request. *)
HeaderHandlerRetries(x) ==
    LET y    == [x EXCEPT !.rbusy = FALSE, !.header = "idle", !.got = <<>>]
        z    == [y EXCEPT !.buf = @ \o x.got]
        ends == Ends(x.got)
    IN CASE x.header = "err" -> AwaitRequest(y)
         [] x.header = "ok" /\ ends = {} -> ReadHeader(z)
         [] x.header = "ok" /\ ends # {} ->
              Dispatch(z, Len(x.buf) + CHOOSE n \in ends : IsFirst(n, ends))

(* Fault: after a read without the end of a header nothing is read on. *)
HeaderHandlerStops(x) ==
    LET y    == [x EXCEPT !.rbusy = FALSE, !.header = "idle", !.got = <<>>]
        z    == [y EXCEPT !.buf = @ \o x.got]
        ends == Ends(x.got)
    IN CASE x.header = "err" -> Cancel(y)
         [] x.header = "ok" /\ ends = {} -> z
         [] x.header = "ok" /\ ends # {} ->
              Dispatch(z, Len(x.buf) + CHOOSE n \in ends : IsFirst(n, ends))

(* transceiver::_header_receiving_handler: only the new data is searched,  *)
(* and whether the transceiver is canceled is not looked at.               *)
HeaderHandler(x) ==
    LET y    == [x EXCEPT !.rbusy = FALSE, !.header = "idle", !.got = <<>>]
        z    == [y EXCEPT !.buf = @ \o x.got]
        ends == Ends(x.got)
    IN CASE x.header = "err" -> Cancel(y)
         [] x.header = "ok" /\ ends = {} -> ReadHeader(z)
         [] x.header = "ok" /\ ends # {} ->
              Dispatch(z, Len(x.buf) + CHOOSE n \in ends : IsFirst(n, ends))

BodyHandler(x) == ContentReceived(x, x.body)

(* The completion of transceiver::async_send and                           *)
(* transceiver::_content_sending_handler.  A response without content      *)
(* counts as an error, one whose content is the request's own waits for    *)
(* the rest of it.                                                         *)
SendHandler(x) ==
    LET y == [x EXCEPT !.sbusy = FALSE, !.send = "idle"]
    IN CASE x.canceled -> Settle(y)
         [] ~x.canceled /\ x.send = "err" -> Cancel(y)
         [] ~x.canceled /\ x.send = "ok" /\ x.part = "content" ->
              NextRequest(y)
         [] ~x.canceled /\ x.send = "ok" /\ x.part = "header" ->
              CASE x.reply = "bare"    -> Cancel(y)
                [] x.reply = "empty"   -> NextRequest(y)
                [] x.reply = "content" -> SendContent(y)
                [] x.reply = "echo"    ->
                     IF Whole(y) THEN SendContent(y)
                                 ELSE [y EXCEPT !.sbusy = TRUE,
                                                !.reader = "echo"]
=============================================================================
