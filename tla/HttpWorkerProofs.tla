-------------------------- MODULE HttpWorkerProofs --------------------------
(***************************************************************************)
(* The worker's safety for every number of connections and every value of  *)
(* the other constants.                                                    *)
(*                                                                         *)
(* First the sessions: every handler of a session, applied to a session    *)
(* that satisfies SafeSession, gives one that does.  Inside a handler,     *)
(* between the flag it clears and the operation it starts, the session     *)
(* satisfies the weaker Running; the lemmas named ...Runs go from there back *)
(* to SafeSession.                                                         *)
(*                                                                         *)
(* Then the worker: IInv is inductive and implies the invariants.  What it *)
(* adds to SafeSession is the pool of identifiers and the map of sessions, *)
(* which constrain one another.                                            *)
(*                                                                         *)
(* Third the byte streams, for all ways a stream is cut into reads.  The   *)
(* invariant FrameInv says of every session that its buffer, what it has   *)
(* just read, what it has not read and what its client is still to send    *)
(* make the rest of a body and then whole requests (FrameOK), and that the *)
(* two searches for the end of a header, each of a part of the buffer, see *)
(* together all of it (HeaderOK).  Most steps leave the data alone         *)
(* (Leaves); those that do not take a prefix of a sequence, and the lemmas *)
(* about sequences say what remains.                                       *)
(*                                                                         *)
(* Then what a worker promises: it keeps the promise of Exchange to every  *)
(* connection, a terminated session does nothing more, and the list of     *)
(* what brings a worker down or leaks a session is complete.  All of it is *)
(* about one step of one session.                                          *)
(*                                                                         *)
(* The lemmas named ...Leads say in which phase each operator of Session   *)
(* leaves a session and what it adds to the counts, those named ...Kept that *)
(* each handler makes a step of Exchange of it.                            *)
(*                                                                         *)
(* EndOK is what has to be added to the invariant of a session for the     *)
(* faults and leaks: something drives every session on, or one of the known *)
(* leaks has happened; and an application is the reader of any body that is *)
(* still outstanding.  The lemmas named ...Ends show it of the operators of *)
(* Session, and with it what they do to the timer, which is all that       *)
(* Timeouts asks about.                                                    *)
(*                                                                         *)
(* Last, the server's thread and a worker together keep what each of them  *)
(* keeps alone: every behaviour of Service is one of HttpWorker and, seen  *)
(* from the server, one of Server, so that what is proved of those holds   *)
(* of it.  And connections and sessions belong together as OwnSessions     *)
(* says.                                                                   *)
(***************************************************************************)
EXTENDS Service, SequenceTheorems, FiniteSetTheorems, WellFoundedInduction,
        TLAPS

(* What an answer can be.                                                  *)
Outs == {"content", "empty", "bare", "silent", "throws"}

(* Nothing is outstanding.                                                 *)
Idle(x) == x.wait = "idle" /\ x.header = "idle" /\ x.body = "idle" /\ x.send = "idle"

(* A timer runs exactly while the session waits and is not terminated; a   *)
(* session goes on only behind headers that can be decoded, and has started *)
(* only under an identifier.                                               *)
TimerOK(x) ==
    /\ x.fault # "timer"
    /\ x.fault = "none" => x.sound
    /\ x.fault = "pool" => x.life = "new"
    /\ x.timer > 0 <=> x.life = "live" /\ x.wbusy /\ ~x.canceled

(* The wait, the header read, the write and the reader exclude each other, *)
(* and the flags of the wait and of the write cover them.                  *)
ChainOK(x) == x.life = "live" =>
    /\ x.wbusy <=> x.wait # "idle"
    /\ x.wbusy => /\ x.header = "idle" /\ x.send = "idle"
                  /\ x.reader = "none"
    /\ x.header # "idle" => /\ x.send = "idle" /\ x.reader = "none"
                            /\ ~x.canceled
    /\ x.send # "idle" => x.sbusy /\ x.reader = "none"

(* The receiving flag covers the header and the body, as long as the two   *)
(* did not overlap.                                                        *)
CoverOK(x) == ~x.overlap =>
    /\ x.life = "live" =>
          /\ x.header # "idle" \/ x.body # "idle" => x.rbusy
          /\ x.header # "idle" => x.body = "idle"
    /\ x.life = "gone" => Idle(x)
    /\ x.fault # "dangling"

(* Whether an answer is owed is known from what is outstanding.            *)
CountOK(x) ==
    /\ x.asked = x.answered \/ x.asked = x.answered + 1
    /\ x.life = "live" =>
          /\ x.wbusy \/ x.header # "idle" \/ x.send # "idle"
                \/ x.reader = "echo" => x.asked = x.answered
          /\ x.reader = "app" => x.asked = x.answered + 1

(* The invariant of one session.                                           *)
SafeSession(x) ==
    /\ x \in SessionType
    /\ TimerOK(x)
    /\ ChainOK(x)
    /\ CoverOK(x)
    /\ CountOK(x)

(* What a handler makes of the session x: still safe, under the same       *)
(* identifier, and not new.                                                *)
After(x, y) == /\ SafeSession(y)
               /\ y.id = x.id
               /\ y.life \in {"live", "gone", "garbled"}

(* A session in the middle of a handler: nothing of the chain is           *)
(* outstanding, and it is neither terminated nor faulty.                   *)
Running(x) ==
    /\ x \in SessionType
    /\ x.life = "live" /\ x.fault = "none" /\ x.sound
    /\ ~x.canceled /\ x.timer = 0 /\ ~x.wbusy
    /\ x.wait = "idle" /\ x.header = "idle" /\ x.send = "idle"
    /\ x.reader = "none"
    /\ ~x.overlap => (x.body # "idle" => x.rbusy)

(* AwaitRequest finds no timer set, so it sets one and waits               *)
(* (session::_set_timer and _wait_request).                                *)
LEMMA SetTimerRuns ==
  ASSUME NEW x, Running(x), x.asked = x.answered
  PROVE  After(x, AwaitRequest(x))
<1> DEFINE y == AwaitRequest(x)
<1>1. y = [x EXCEPT !.timer = Slots, !.wbusy = TRUE, !.wait = "pending"]
  BY DEF Running, AwaitRequest, AsyncWait, SetTimer, SessionType
<1>2. "pending" \in Op /\ Slots \in 0 .. Slots /\ Slots > 0
  BY SlotsAssumption DEF Op
<1>a. x \in SessionType BY DEF Running
<1>3. y \in SessionType
  <2>1. [x EXCEPT !.timer = Slots, !.wbusy = TRUE, !.wait = "pending"]
          \in SessionType
    BY <1>a, <1>2 DEF SessionType
  <2> QED BY <1>1, <2>1
<1>4. TimerOK(y) /\ ChainOK(y)
  BY <1>1, <1>2 DEF Running, SessionType, TimerOK, ChainOK
<1>5. CoverOK(y) /\ CountOK(y)
  BY <1>1, <1>2 DEF Running, SessionType, CoverOK, CountOK
<1>6. y.id = x.id /\ y.life = "live" BY <1>1 DEF Running, SessionType
<1> QED BY <1>3, <1>4, <1>5, <1>6 DEF After, SafeSession

(* Aborting the operations of a session gives a session.                   *)
LEMMA AbortType ==
  ASSUME NEW x \in SessionType
  PROVE  Abort(x) \in SessionType
<1>1. \A op \in Op : Aborted(op) \in Op BY DEF Op, Aborted
<1>2. x.wait \in Op /\ x.header \in Op /\ x.body \in Op /\ x.send \in Op
  BY DEF SessionType
<1> QED BY <1>1, <1>2 DEF Abort, SessionType

(* A running session may be terminated: it is erased if nothing is         *)
(* outstanding, and otherwise marked canceled (transceiver::cancel).       *)
LEMMA CancelRuns ==
  ASSUME NEW x, Running(x), x.asked = x.answered
  PROVE  After(x, Cancel(x))
<1> DEFINE y == Cancel(x)
<1>1. CASE Busy(x)
  <2>1. y = [Abort(x) EXCEPT !.canceled = TRUE] BY <1>1 DEF Cancel
  <2>a. Abort(x) \in SessionType BY AbortType DEF Running
  <2>2. y \in SessionType
    <3>1. [Abort(x) EXCEPT !.canceled = TRUE] \in SessionType
      BY <2>a DEF SessionType
    <3> QED BY <2>1, <3>1
  <2>4. /\ TimerOK(y) /\ ChainOK(y) 
    BY <2>1 DEF Abort, Aborted, Running, SessionType, TimerOK, ChainOK
  <2>5. CoverOK(y) /\ CountOK(y)
    BY <2>1 DEF Abort, Aborted, Running, SessionType, CoverOK, CountOK
  <2>6. y.id = x.id /\ y.life = "live" BY <2>1 DEF Abort, Aborted, Running, SessionType
  <2> QED BY <2>2, <2>4, <2>5, <2>6 DEF After, SafeSession
<1>2. CASE ~Busy(x)
  <2>1. y = [Abort(x) EXCEPT !.life = "gone"] BY <1>2 DEF Cancel, Erase
  <2>a. Abort(x) \in SessionType BY AbortType DEF Running
  <2>2. y \in SessionType
    <3>1. [Abort(x) EXCEPT !.life = "gone"] \in SessionType
      BY <2>a DEF SessionType
    <3> QED BY <2>1, <3>1
  <2>4. TimerOK(y) /\ ChainOK(y) 
    BY <2>1 DEF Abort, Aborted, Running, SessionType, TimerOK, ChainOK
  <2>5. CoverOK(y) /\ CountOK(y)
    BY <1>2, <2>1 DEF Abort, Aborted, Running, SessionType, CoverOK, CountOK, Idle, Busy
  <2>6. y.id = x.id /\ y.life = "gone" BY <2>1 DEF Abort, Aborted, Running, SessionType
  <2> QED BY <2>2, <2>4, <2>5, <2>6 DEF After, SafeSession
<1> QED BY <1>1, <1>2

(* An exception leaves the session as it is, in a process that is down.    *)
LEMMA ThrowRuns ==
  ASSUME NEW x, Running(x), x.asked = x.answered \/ x.asked = x.answered + 1,
         NEW sound \in BOOLEAN
  PROVE  /\ After(x, Throw(x))
         /\ After(x, Throw([x EXCEPT !.sound = sound]))
<1>a. x \in SessionType BY DEF Running
<1>1. ASSUME NEW b \in BOOLEAN
      PROVE  After(x, [x EXCEPT !.sound = b, !.fault = "thrown"])
  <2> DEFINE y == [x EXCEPT !.sound = b, !.fault = "thrown"]
  <2>1. y \in SessionType BY <1>a DEF SessionType
  <2>2. TimerOK(y) /\ ChainOK(y)
    BY <1>a DEF Running, SessionType, TimerOK, ChainOK
  <2>3. CoverOK(y) /\ CountOK(y)
    BY <1>a DEF Running, SessionType, CoverOK, CountOK
  <2>4. y.id = x.id /\ y.life = "live" BY <1>a DEF Running, SessionType
  <2> QED BY <2>1, <2>2, <2>3, <2>4 DEF After, SafeSession
<1>2. Throw(x) = [x EXCEPT !.sound = x.sound, !.fault = "thrown"]
      /\ x.sound \in BOOLEAN
  BY <1>a DEF Throw, SessionType
<1>3. Throw([x EXCEPT !.sound = sound])
        = [x EXCEPT !.sound = sound, !.fault = "thrown"]
  BY <1>a DEF Throw, SessionType
<1> QED BY <1>1, <1>2, <1>3

(* A running session that owes an answer may start a response, or never    *)
(* answer (transceiver::async_send).                                       *)
LEMMA RespondRuns ==
  ASSUME NEW x, Running(x), x.asked = x.answered + 1,
         NEW out \in {"content", "empty", "bare", "silent", "throws", "echo"}
  PROVE  After(x, Respond(x, out))
<1> DEFINE y == Respond(x, out)
<1>0. CASE out = "throws"
  <2>1. y = Throw(x) BY <1>0 DEF Respond, Replies
  <2> QED BY <2>1, ThrowRuns
<1>1. CASE out = "silent"
  <2>1. y = x BY <1>1 DEF Respond, Replies
  <2> QED BY <2>1 DEF After, Running, SafeSession, TimerOK, ChainOK, CoverOK, CountOK, SessionType
<1>2. CASE out \in Replies
  <2>1. y = [x EXCEPT !.sbusy = TRUE, !.send = "pending", !.part = "header",
                   !.reply = out, !.answered = @ + 1]
    BY <1>2 DEF Respond, Reply, Replies
  <2>2. "pending" \in Op /\ out \in Replies BY <1>2 DEF Op, Replies
  <2>3. x.answered + 1 \in Nat BY DEF Running, SessionType
  <2>a. x \in SessionType BY DEF Running
  <2>4. y \in SessionType
    <3>1. [x EXCEPT !.sbusy = TRUE, !.send = "pending", !.part = "header",
                    !.reply = out, !.answered = @ + 1] \in SessionType
      BY <2>a, <2>2, <2>3 DEF SessionType
    <3> QED BY <2>1, <3>1
  <2>5. TimerOK(y) /\ ChainOK(y) 
    BY <2>1 DEF Running, SessionType, TimerOK, ChainOK
  <2>6. CoverOK(y) /\ CountOK(y)
    BY <2>1 DEF Running, SessionType, CoverOK, CountOK
  <2>7. y.id = x.id /\ y.life = "live" BY <2>1 DEF Running, SessionType
  <2> QED BY <2>4, <2>5, <2>6, <2>7 DEF After, SafeSession
<1> QED BY <1>0, <1>1, <1>2 DEF Replies

(* The content of a response may follow its header                         *)
(* (transceiver::_send_content).                                           *)
LEMMA SendRuns ==
  ASSUME NEW x, Running(x), x.asked = x.answered
  PROVE  After(x, SendContent(x))
<1> DEFINE y == SendContent(x)
<1>a. x \in SessionType BY DEF Running
<1>1. "pending" \in Op BY DEF Op
<1>2. y \in SessionType BY <1>a, <1>1 DEF SendContent, SessionType
<1>3. TimerOK(y) /\ ChainOK(y)
  BY DEF SendContent, Running, SessionType, TimerOK, ChainOK
<1>4. CoverOK(y) /\ CountOK(y)
  BY DEF SendContent, Running, SessionType, CoverOK, CountOK
<1>5. y.id = x.id /\ y.life = "live" BY DEF SendContent, Running, SessionType
<1> QED BY <1>2, <1>3, <1>4, <1>5 DEF After, SafeSession

(* After a response the session waits again or is terminated               *)
(* (session::_next_request).                                               *)
LEMMA NextRequestRuns ==
  ASSUME NEW x, Running(x), x.asked = x.answered
  PROVE  After(x, NextRequest(x))
BY SetTimerRuns, CancelRuns DEF NextRequest

(* A late completion of a terminated session is counted off; the last one  *)
(* erases the session.                                                     *)
LEMMA SettleSafe ==
  ASSUME NEW x, SafeSession(x), x.life = "live", x.canceled, x.header = "idle"
  PROVE  After(x, Settle(x))
<1> DEFINE y == Settle(x)
<1>1. CASE Busy(x)
  <2>1. y = x BY <1>1 DEF Settle
  <2> QED BY <2>1 DEF After
<1>2. CASE ~Busy(x)
  <2>1. y = [Abort(x) EXCEPT !.life = "gone"] BY <1>2 DEF Settle, Erase
  <2>a. Abort(x) \in SessionType BY AbortType DEF SafeSession
  <2>2. y \in SessionType
    <3> DEFINE a == Abort(x)
    <3> HIDE DEF a
    <3>1. [a EXCEPT !.life = "gone"] \in SessionType
      BY <2>a DEF SessionType, a
    <3> QED BY <2>1, <3>1 DEF a
  <2>b. x \in SessionType BY DEF SafeSession
  <2>3. TimerOK(x) /\ ChainOK(x) /\ CoverOK(x) /\ CountOK(x)
    BY DEF SafeSession
  <2>4. TimerOK(y) /\ ChainOK(y)
    BY <1>2, <2>1, <2>b, <2>3
    DEF Abort, Aborted, Busy, SessionType, TimerOK, ChainOK
  <2>5. CoverOK(y)
    BY <1>2, <2>1, <2>b, <2>3
    DEF Abort, Aborted, Busy, SessionType, ChainOK, CoverOK, Idle
  <2>6. CountOK(y)
    BY <1>2, <2>1, <2>b, <2>3 DEF Abort, SessionType, CountOK
  <2>7. y.id = x.id /\ y.life = "gone" BY <2>1, <2>b DEF Abort, SessionType
  <2> QED BY <2>2, <2>4, <2>5, <2>6, <2>7 DEF After, SafeSession
<1> QED BY <1>1, <1>2

(* Taking n units out of the header buffer leaves a session.               *)
LEMMA ConsumeType ==
  ASSUME NEW x \in SessionType, NEW n \in 0 .. Len(x.buf)
  PROVE  Consume(x, n) \in SessionType
<1>1. SubSeq(x.buf, n + 1, Len(x.buf)) \in Seq(Units)
  <2>1. x.buf \in Seq(Units) BY DEF SessionType
  <2>2. \A i \in n + 1 .. Len(x.buf) : x.buf[i] \in Units BY <2>1
  <2> QED BY <2>1, <2>2, SubSeqProperties
<1>2. x.off + n \in Nat BY BlockAssumption DEF SessionType
<1>3. (x.off + n) % BlockSize \in 0 .. BlockSize - 1
  BY <1>2, BlockAssumption
<1> QED BY <1>1, <1>3 DEF Consume, SessionType

(* Taking units out of the header buffer changes nothing the invariant is  *)
(* about.                                                                  *)
LEMMA ConsumeRuns ==
  ASSUME NEW x, Running(x), NEW n \in 0 .. Len(x.buf)
  PROVE  LET y == Consume(x, n)
         IN  /\ Running(y)
             /\ y.body = x.body /\ y.overlap = x.overlap /\ y.id = x.id
             /\ y.asked = x.asked /\ y.answered = x.answered
<1> DEFINE y == Consume(x, n)
<1>1. x \in SessionType BY DEF Running
<1>2. y \in SessionType BY <1>1, ConsumeType
<1>3. Running(y)
  BY <1>1, <1>2 DEF Running, Consume, SessionType
<1> QED BY <1>1, <1>3 DEF Consume, SessionType

(* Starting to receive a body is safe when no body is outstanding: the     *)
(* part already buffered is taken and a read covers the rest               *)
(* (transceiver::_receive_content).                                        *)
LEMMA ReceiveContentRuns ==
  ASSUME NEW x, Running(x), ~x.overlap => x.body = "idle", NEW n \in Nat
  PROVE  LET y == ReceiveContent(x, n)
         IN  /\ Running(y) /\ y.id = x.id
             /\ y.asked = x.asked /\ y.answered = x.answered
             /\ y.overlap = x.overlap /\ (n = 0 => y.body = x.body)
<1> DEFINE y == ReceiveContent(x, n)
<1>1. CASE n = 0
  BY <1>1 DEF ReceiveContent
<1>2. CASE n # 0
  <2> DEFINE take == IF Len(x.buf) < n THEN Len(x.buf) ELSE n
             z == Consume(x, take)
             w == [z EXCEPT !.sbusy = TRUE, !.lack = n - take]
             v == [w EXCEPT !.rbusy = FALSE, !.body = "idle"]
  <2>1. Len(x.buf) \in Nat BY DEF Running, SessionType
  <2>2. take \in 0 .. Len(x.buf) /\ n - take \in Nat BY <2>1
  <2>3. /\ Running(z)
        /\ z.body = x.body /\ z.overlap = x.overlap /\ z.id = x.id
        /\ z.asked = x.asked /\ z.answered = x.answered
    BY <2>2, ConsumeRuns
  <2> HIDE DEF z, take
  <2>4. z \in SessionType BY <2>3 DEF Running
  <2>5. w \in SessionType BY <2>2, <2>4 DEF SessionType
  <2>6. /\ Running(w)
        /\ w.body = x.body /\ w.overlap = x.overlap /\ w.id = x.id
        /\ w.asked = x.asked /\ w.answered = x.answered
    BY <2>3, <2>4, <2>5 DEF Running, SessionType
  <2> HIDE DEF w
  <2>7. "pending" \in Op /\ "idle" \in Op BY DEF Op
  <2>8. v \in SessionType BY <2>5, <2>7 DEF SessionType
  <2>9. y = ContentReceived(w, "ok") BY <1>2 DEF ReceiveContent, w, z, take
  <2>10. y = IF v.lack > 0 THEN [v EXCEPT !.rbusy = TRUE, !.body = "pending"]
                           ELSE v
    BY <2>6, <2>9, <2>5 DEF ContentReceived, CallReader, Running, SessionType
  <2>11. y \in SessionType
    <3>1. [v EXCEPT !.rbusy = TRUE, !.body = "pending"] \in SessionType
      BY <2>7, <2>8 DEF SessionType
    <3> QED BY <2>8, <2>10, <3>1
  <2>12. Running(y)
    BY <2>5, <2>6, <2>8, <2>10, <2>11 DEF Running, SessionType
  <2>13. y.id = v.id /\ y.asked = v.asked /\ y.answered = v.answered
         /\ y.overlap = v.overlap
    BY <2>8, <2>10 DEF SessionType
  <2>14. v.id = w.id /\ v.asked = w.asked /\ v.answered = w.answered
         /\ v.overlap = w.overlap
    BY <2>5 DEF SessionType
  <2> HIDE DEF v
  <2> QED BY <1>2, <2>6, <2>12, <2>13, <2>14
<1> QED BY <1>1, <1>2

(* The session with the title of the request r taken over                  *)
(* (session::_receive_handler).                                            *)
Titled(x, r) == [x EXCEPT !.keep = r.keep, !.node = r.node, !.asked = @ + 1,
                          !.out = Outcome(r)]

(* A resource and an outcome may be noted in any session.                  *)
LEMMA TitleType ==
  ASSUME NEW z \in SessionType
  PROVE  /\ \A node \in {"plain", "trace", "app"} :
               [z EXCEPT !.node = node] \in SessionType
         /\ \A out \in Outs : [z EXCEPT !.out = out] \in SessionType
<1>1. ASSUME NEW node \in {"plain", "trace", "app"}
      PROVE  [z EXCEPT !.node = node] \in SessionType
  <2>1. node \in {"none", "plain", "trace", "app"} OBVIOUS
  <2> QED BY <2>1, SMTT(30) DEF SessionType
<1>2. ASSUME NEW out \in Outs PROVE [z EXCEPT !.out = out] \in SessionType
  BY SMTT(30) DEF SessionType, Outs
<1> QED BY <1>1, <1>2

(* A session that has taken over a title owes its answer. *)
LEMMA TitledRuns ==
  ASSUME NEW x, Running(x), x.asked = x.answered, NEW r \in RequestType
  PROVE  LET y == Titled(x, r)
         IN  /\ Running(y) /\ y.id = x.id
             /\ y.asked = x.asked + 1 /\ y.answered = x.answered
             /\ y.out = Outcome(r) /\ y.node = r.node
             /\ y.body = x.body /\ y.lack = x.lack
             /\ y.overlap = x.overlap
<1> DEFINE y == Titled(x, r)
<1>1. x \in SessionType BY DEF Running
<1>2. /\ r.keep \in BOOLEAN /\ Outcome(r) \in Outs
      /\ r.node \in {"plain", "trace", "app"}
  BY DEF RequestType, Outs, Outcome
<1>3. x.asked + 1 \in Nat BY <1>1 DEF SessionType
<1> DEFINE z0 == [x EXCEPT !.keep = r.keep]
           z1 == [z0 EXCEPT !.node = r.node]
           z2 == [z1 EXCEPT !.asked = x.asked + 1]
           z3 == [z2 EXCEPT !.out = Outcome(r)]
<1>4. y \in SessionType
  <2>0. z0 \in SessionType BY <1>1, <1>2 DEF SessionType
  <2>1. z1 \in SessionType
    <3> HIDE DEF z0
    <3> QED BY <2>0, <1>2, TitleType
  <2>2. z2 \in SessionType
    <3> HIDE DEF z1
    <3> QED BY <2>1, <1>3 DEF SessionType
  <2>3. z3 \in SessionType
    <3> HIDE DEF z2
    <3> QED BY <2>2, <1>2, TitleType
  <2>4. y = z3 BY <1>1 DEF SessionType, Titled
  <2> HIDE DEF y, z3
  <2> QED BY <2>3, <2>4
<1>5. Running(y) /\ y.id = x.id
  BY <1>1, <1>4 DEF Running, SessionType, Titled
<1> QED BY <1>1, <1>5 DEF SessionType, Titled

(* What serving a request can come to: an answer, now or never, or a       *)
(* reader for its body.                                                    *)
LEMMA ServeCases ==
  ASSUME NEW x, NEW r \in RequestType
  PROVE  LET y == Titled(x, r)
         IN  \/ Serve(x, r) = Respond(y, Outcome(r))
                /\ (r.node = "app" => r.body = 0 \/ Whole(y))
             \/ Serve(x, r) \in {Respond(y, "echo"), Respond(y, "bare")}
                /\ r.node # "app"
             \/ Serve(x, r) = [y EXCEPT !.reader = "app"]
BY DEF Serve, Titled, RequestType, Outcome

(* Serving a request either answers it or registers the application as the *)
(* reader of its body (session::_receive_handler, _request_resource).      *)
LEMMA ServeRuns ==
  ASSUME NEW x, Running(x), x.asked = x.answered, NEW r \in RequestType
  PROVE  After(x, Serve(x, r))
<1> DEFINE y == Titled(x, r)
           z == [y EXCEPT !.reader = "app"]
<1>1. Running(y) /\ y.id = x.id /\ y.asked = y.answered + 1
  BY TitledRuns
<1>2. y \in SessionType BY <1>1 DEF Running
<1> HIDE DEF y
<1>3. Outcome(r) \in Outs BY DEF RequestType, Outs, Outcome
<1>4. \A out \in Outs \cup {"echo"} : After(x, Respond(y, out))
  <2> TAKE out \in Outs \cup {"echo"}
  <2>1. After(y, Respond(y, out)) BY <1>1, RespondRuns DEF Outs
  <2> QED BY <1>1, <2>1 DEF After
<1>5. After(x, z)
  <2>1. z \in SessionType BY <1>2 DEF SessionType
  <2>2. TimerOK(z) /\ ChainOK(z)
    BY <1>1, <1>2 DEF Running, SessionType, TimerOK, ChainOK
  <2>3. CoverOK(z) /\ CountOK(z)
    BY <1>1, <1>2 DEF Running, SessionType, CoverOK, CountOK
  <2>4. z.id = x.id /\ z.life = "live"
    BY <1>1, <1>2 DEF Running, SessionType
  <2> QED BY <2>1, <2>2, <2>3, <2>4 DEF After, SafeSession
<1> HIDE DEF z
<1>6. Serve(x, r) \in {Respond(y, Outcome(r)), Respond(y, "echo"),
                       Respond(y, "bare"), z}
  BY ServeCases DEF y, z
<1> QED BY <1>3, <1>4, <1>5, <1>6 DEF Outs

(* A complete header is handed over safely, whatever bytes it is made of.  *)
LEMMA DispatchRuns ==
  ASSUME NEW x, Running(x), x.asked = x.answered,
         ~x.overlap => x.body = "idle", NEW n
  PROVE  After(x, Dispatch(x, n))
<1> DEFINE r == x.buf[n]
<1>a. x \in SessionType BY DEF Running
<1>b. x.buf \in Seq(Units) BY <1>a DEF SessionType
<1>1. CASE n \in Ends(x.buf) /\ SubSeq(x.buf, 1, n) = <<Part, r>>
  <2>1. n \in 0 .. Len(x.buf) /\ r \in Requests BY <1>1, <1>b DEF Ends
  <2>2. r \in RequestType /\ r.body \in Nat
    BY <2>1, RequestAssumption DEF RequestType
  <2> DEFINE y == Consume(x, n)
             z == ReceiveContent(y, r.body)
  <2>3. /\ Running(y)
        /\ y.body = x.body /\ y.overlap = x.overlap /\ y.id = x.id
        /\ y.asked = x.asked /\ y.answered = x.answered
    BY <2>1, ConsumeRuns
  <2> HIDE DEF y
  <2>4. /\ Running(z) /\ z.id = y.id
        /\ z.asked = y.asked /\ z.answered = y.answered
    BY <2>2, <2>3, ReceiveContentRuns
  <2> HIDE DEF z
  <2>5. CASE r.sound
    <3>1. After(z, Serve(z, r)) BY <2>2, <2>3, <2>4, ServeRuns
    <3>2. Dispatch(x, n) = Serve(z, r) BY <1>1, <2>5 DEF Dispatch, z, y
    <3> QED BY <2>3, <2>4, <3>1, <3>2 DEF After
  <2>6. CASE ~r.sound
    <3>1. Dispatch(x, n) = Throw([y EXCEPT !.sound = FALSE])
      BY <1>1, <2>6 DEF Dispatch, y
    <3>2. After(y, Throw([y EXCEPT !.sound = FALSE])) BY <2>3, ThrowRuns
    <3> QED BY <2>3, <3>1, <3>2 DEF After
  <2> QED BY <2>5, <2>6
<1>2. CASE ~(n \in Ends(x.buf) /\ SubSeq(x.buf, 1, n) = <<Part, r>>)
  <2> DEFINE y == [x EXCEPT !.life = "garbled"]
  <2>1. Dispatch(x, n) = y BY <1>2 DEF Dispatch
  <2>2. y \in SessionType BY <1>a DEF SessionType
  <2>3. TimerOK(y) /\ ChainOK(y)
    BY <1>a DEF Running, SessionType, TimerOK, ChainOK
  <2>4. CoverOK(y) /\ CountOK(y)
    BY <1>a DEF Running, SessionType, CoverOK, CountOK
  <2>5. y.id = x.id /\ y.life = "garbled" BY <1>a DEF SessionType
  <2> QED BY <2>1, <2>2, <2>3, <2>4, <2>5 DEF After, SafeSession
<1> QED BY <1>1, <1>2

(* A header read may be started by a running session.                      *)
LEMMA ReadHeaderRuns ==
  ASSUME NEW x, Running(x), x.asked = x.answered,
         ~x.overlap => x.body = "idle"
  PROVE  After(x, ReadHeader(x))
<1> DEFINE y == ReadHeader(x)
<1>1. x \in SessionType BY DEF Running
<1>2. "pending" \in Op BY DEF Op
<1>3. y \in SessionType BY <1>1, <1>2 DEF SessionType, ReadHeader
<1>4. TimerOK(y) /\ ChainOK(y)
  BY <1>1 DEF Running, SessionType, TimerOK, ChainOK, ReadHeader
<1>5. CoverOK(y) /\ CountOK(y)
  BY <1>1 DEF Running, SessionType, CoverOK, CountOK, ReadHeader
<1>6. y.id = x.id /\ y.life = "live"
  BY <1>1 DEF Running, SessionType, ReadHeader
<1> QED BY <1>3, <1>4, <1>5, <1>6 DEF After, SafeSession

(* transceiver::async_receive is safe, for a header already in the buffer  *)
(* and for one still to be read; the ghost overlap records a body that is  *)
(* still outstanding.                                                      *)
LEMMA AsyncReceiveRuns ==
  ASSUME NEW x, Running(x), x.asked = x.answered
  PROVE  After(x, AsyncReceive(x))
<1> DEFINE y == [x EXCEPT !.rbusy = TRUE, !.overlap = @ \/ x.body # "idle"]
           ends == {n \in Ends(x.buf) : n <= BlockSize - x.off}
<1>1. x \in SessionType BY DEF Running
<1>2. y \in SessionType BY <1>1, ZenonT(60) DEF SessionType
<1>3. /\ Running(y) /\ y.id = x.id /\ y.asked = y.answered
      /\ ~y.overlap => y.body = "idle"
  BY <1>1, <1>2 DEF Running, SessionType
<1> HIDE DEF y
<1>4. After(y, ReadHeader(y))
  BY <1>3, ReadHeaderRuns
<1>5. \A n : After(y, Dispatch(y, n)) BY <1>3, DispatchRuns
<1>6. AsyncReceive(x) = IF ends = {}
                        THEN ReadHeader(y)
                        ELSE Dispatch(y, CHOOSE n \in ends : IsFirst(n, ends))
  BY DEF AsyncReceive, y
<1> QED BY <1>3, <1>4, <1>5, <1>6 DEF After

(* session::_wait_handler: its timer is still there to be canceled.        *)
LEMMA WaitHandlerSafe ==
  ASSUME NEW x, SafeSession(x), x.life = "live", x.fault = "none",
         x.wait \in Completed
  PROVE  After(x, WaitHandler(x))
<1> DEFINE y == [x EXCEPT !.wbusy = FALSE, !.wait = "idle"]
<1>a. x \in SessionType /\ TimerOK(x) /\ ChainOK(x) /\ CoverOK(x) /\ CountOK(x)
  BY DEF SafeSession
<1>b. "idle" \in Op BY DEF Op
<1>1. y \in SessionType BY <1>a, <1>b DEF SessionType
<1>2. x.wbusy /\ x.header = "idle" /\ x.send = "idle" /\ x.reader = "none"
      /\ x.asked = x.answered
  BY <1>a DEF ChainOK, CountOK, Completed
<1>3. y.id = x.id BY <1>a DEF SessionType
<1>4. CASE x.canceled
  <2>1. TimerOK(y) /\ ChainOK(y)
    BY <1>a, <1>2, <1>4 DEF SessionType, TimerOK, ChainOK
  <2>2. CoverOK(y) /\ CountOK(y)
    BY <1>a, <1>2, <1>4 DEF SessionType, CoverOK, CountOK
  <2>3. y.life = "live" /\ y.canceled /\ y.header = "idle"
    BY <1>a, <1>2, <1>4 DEF SessionType
  <2>4. After(y, Settle(y))
    BY <1>1, <2>1, <2>2, <2>3, SettleSafe DEF SafeSession
  <2> QED BY <1>3, <1>4, <2>4 DEF WaitHandler, After
<1>5. CASE ~x.canceled
  <2> DEFINE z == CancelTimer(y)
  <2>1. x.timer > 0 BY <1>a, <1>2, <1>5 DEF TimerOK
  <2>2. z = [y EXCEPT !.timer = 0] BY <1>a, <2>1 DEF CancelTimer, SessionType
  <2>3. 0 \in 0 .. Slots BY SlotsAssumption
  <2>a. /\ y.life = "live" /\ y.fault = "none" /\ ~y.canceled /\ ~y.wbusy
        /\ y.wait = "idle" /\ y.header = "idle" /\ y.send = "idle"
        /\ y.reader = "none" /\ y.id = x.id /\ y.asked = y.answered
        /\ ~y.overlap => (y.body # "idle" => y.rbusy)
        /\ y.sound
    BY <1>a, <1>2, <1>5 DEF SessionType, CoverOK, TimerOK
  <2> HIDE DEF y
  <2>4. z \in SessionType
    <3>1. [y EXCEPT !.timer = 0] \in SessionType
      BY <1>1, <2>3 DEF SessionType
    <3> QED BY <2>2, <3>1
  <2>5. Running(z) /\ z.id = x.id /\ z.asked = z.answered
    BY <1>1, <2>a, <2>2, <2>4 DEF SessionType, Running
  <2> HIDE DEF z
  <2>6. After(z, AsyncReceive(z)) /\ After(z, Cancel(z))
    BY <2>5, AsyncReceiveRuns, CancelRuns
  <2>7. WaitHandler(x) \in {AsyncReceive(z), Cancel(z)}
    BY <1>5 DEF WaitHandler, Completed, y, z
  <2> QED BY <2>5, <2>6, <2>7 DEF After
<1> QED BY <1>a, <1>4, <1>5 DEF SessionType

(* transceiver::_header_receiving_handler, which does not look at          *)
(* _canceled: the invariant says that it need not.                         *)
LEMMA HeaderHandlerSafe ==
  ASSUME NEW x, SafeSession(x), x.life = "live", x.fault = "none",
         x.header \in Completed
  PROVE  After(x, HeaderHandler(x))
<1> DEFINE y == [x EXCEPT !.rbusy = FALSE, !.header = "idle", !.got = <<>>]
           z == [y EXCEPT !.buf = @ \o x.got]
           ends == Ends(x.got)
<1>a. x \in SessionType /\ TimerOK(x) /\ ChainOK(x) /\ CoverOK(x) /\ CountOK(x)
  BY DEF SafeSession
<1>b. "idle" \in Op BY DEF Op
<1>c. <<>> \in Seq(Units) OBVIOUS
<1>1. y \in SessionType BY <1>a, <1>b, <1>c DEF SessionType
<1>2. /\ x.header # "idle" /\ ~x.wbusy /\ x.wait = "idle" /\ x.send = "idle"
      /\ x.reader = "none" /\ ~x.canceled /\ x.timer = 0
      /\ x.asked = x.answered /\ x.sound
      /\ ~x.overlap => x.body = "idle"
  BY <1>a
  DEF TimerOK, ChainOK, CoverOK, CountOK, Completed, SessionType
<1>3. /\ Running(y) /\ y.id = x.id /\ y.asked = y.answered
      /\ ~y.overlap => y.body = "idle"
  BY <1>a, <1>1, <1>2 DEF Running, SessionType
<1>4. x.buf \o x.got \in Seq(Units)
  BY <1>a, ConcatProperties DEF SessionType
<1>5. y.buf = x.buf BY <1>a DEF SessionType
<1> HIDE DEF y
<1>6. z \in SessionType BY <1>1, <1>4, <1>5 DEF SessionType
<1>7. /\ Running(z) /\ z.id = x.id /\ z.asked = z.answered
      /\ ~z.overlap => z.body = "idle"
  BY <1>1, <1>3, <1>6 DEF Running, SessionType
<1> HIDE DEF z
<1>10. After(z, ReadHeader(z)) BY <1>7, ReadHeaderRuns
<1>11. \A n : After(z, Dispatch(z, n)) BY <1>7, DispatchRuns
<1>12. After(y, Cancel(y)) BY <1>3, CancelRuns
<1>13. HeaderHandler(x) =
         CASE x.header = "err" -> Cancel(y)
           [] x.header = "ok" /\ ends = {} -> ReadHeader(z)
           [] x.header = "ok" /\ ends # {} ->
                Dispatch(z, Len(x.buf) + CHOOSE n \in ends : IsFirst(n, ends))
  BY DEF HeaderHandler, y, z
<1>14. CASE x.header = "err"
  BY <1>3, <1>12, <1>13, <1>14 DEF After
<1>15. CASE x.header = "ok" /\ ends = {}
  BY <1>7, <1>10, <1>13, <1>15 DEF After
<1>16. CASE x.header = "ok" /\ ends # {}
  BY <1>7, <1>11, <1>13, <1>16 DEF After
<1> QED BY <1>14, <1>15, <1>16 DEF Completed

(* transceiver::_content_receiving_handler, with and without a reader.     *)
LEMMA BodyHandlerSafe ==
  ASSUME NEW x, SafeSession(x), x.life = "live", x.fault = "none",
         x.body \in Completed
  PROVE  After(x, BodyHandler(x))
<1> DEFINE y == [x EXCEPT !.rbusy = FALSE, !.body = "idle"]
           z == [y EXCEPT !.reader = "none"]
<1>a. x \in SessionType /\ TimerOK(x) /\ ChainOK(x) /\ CoverOK(x) /\ CountOK(x)
  BY DEF SafeSession
<1>b. "idle" \in Op /\ "pending" \in Op BY DEF Op
<1>1. y \in SessionType BY <1>a, <1>b DEF SessionType
<1>2. TimerOK(y) /\ ChainOK(y)
  BY <1>a DEF SessionType, TimerOK, ChainOK
<1>3. CoverOK(y) /\ CountOK(y)
  BY <1>a DEF SessionType, CoverOK, CountOK, Completed
<1>4. y.id = x.id /\ y.life = "live" /\ y.fault = "none"
      /\ y.canceled = x.canceled /\ y.reader = x.reader /\ y.body = "idle"
      /\ y.header = x.header /\ (~y.overlap => y.header = "idle")
  BY <1>a DEF SessionType, CoverOK, Completed
<1> HIDE DEF y
<1>5. BodyHandler(x) =
        CASE x.canceled -> Settle(y)
          [] ~x.canceled /\ x.body = "err" -> FailReader(y)
          [] ~x.canceled /\ x.body = "ok" ->
               IF y.lack > 0
               THEN [y EXCEPT !.rbusy = TRUE, !.body = "pending"]
               ELSE CallReader(y)
  BY DEF BodyHandler, ContentReceived, y
<1>6. CASE x.canceled
  <2>1. After(y, Settle(y))
    BY <1>1, <1>2, <1>3, <1>4, <1>6, <1>a, SettleSafe
    DEF SafeSession, ChainOK, SessionType
  <2> QED BY <1>4, <1>5, <1>6, <2>1 DEF After
<1>7. CASE ~x.canceled
  <2>1. After(y, y) BY <1>1, <1>2, <1>3, <1>4 DEF After, SafeSession
  <2>2. After(y, [y EXCEPT !.rbusy = TRUE, !.body = "pending"])
    <3> DEFINE w == [y EXCEPT !.rbusy = TRUE, !.body = "pending"]
    <3>1. w \in SessionType BY <1>b, <1>1 DEF SessionType
    <3>2. TimerOK(w) /\ ChainOK(w)
      BY <1>1, <1>2 DEF SessionType, TimerOK, ChainOK
    <3>3. CoverOK(w) /\ CountOK(w)
      BY <1>1, <1>3, <1>4 DEF SessionType, CoverOK, CountOK
    <3>4. w.id = y.id /\ w.life = "live" BY <1>1, <1>4 DEF SessionType
    <3> QED BY <3>1, <3>2, <3>3, <3>4 DEF After, SafeSession
  <2>3. After(y, [y EXCEPT !.fault = "bad_call"])
    <3> DEFINE w == [y EXCEPT !.fault = "bad_call"]
    <3>1. w \in SessionType BY <1>1 DEF SessionType
    <3>2. TimerOK(w) /\ ChainOK(w)
      BY <1>1, <1>2 DEF SessionType, TimerOK, ChainOK
    <3>3. CoverOK(w) /\ CountOK(w)
      BY <1>1, <1>3, <1>4 DEF SessionType, CoverOK, CountOK
    <3>4. w.id = y.id /\ w.life = "live" BY <1>1, <1>4 DEF SessionType
    <3> QED BY <3>1, <3>2, <3>3, <3>4 DEF After, SafeSession
  <2>4. CASE y.reader # "none"
    <3>1. /\ ~y.wbusy /\ y.wait = "idle" /\ y.header = "idle"
          /\ y.send = "idle" /\ y.timer = 0
      BY <1>1, <1>2, <1>4, <2>4 DEF TimerOK, ChainOK, SessionType
    <3>2. z \in SessionType BY <1>1 DEF SessionType
    <3>3. Running(z) /\ z.id = y.id
      BY <1>1, <1>2, <1>4, <1>7, <3>1, <3>2 DEF Running, SessionType, TimerOK
    <3>4. z.asked = y.asked /\ z.answered = y.answered BY <1>1 DEF SessionType
    <3>5. y.out \in {"content", "empty", "bare", "silent", "throws"}
      BY <1>1 DEF SessionType
    <3> HIDE DEF z
    <3>6. CASE y.reader = "app"
      <4>1. z.asked = z.answered + 1
        BY <1>3, <1>4, <3>4, <3>6 DEF CountOK
      <4>2. After(z, Respond(z, y.out)) BY <3>3, <3>5, <4>1, RespondRuns
      <4>3. CallReader(y) = Respond(z, y.out) /\ FailReader(y) = Respond(z, y.out)
        BY <3>6 DEF CallReader, FailReader, z
      <4> QED
        BY <1>4, <1>5, <1>7, <2>2, <3>3, <4>2, <4>3 DEF After, Completed
    <3>7. CASE y.reader = "echo"
      <4>1. z.asked = z.answered
        BY <1>3, <1>4, <3>4, <3>7 DEF CountOK
      <4>2. After(z, SendContent(z)) BY <3>3, <4>1, SendRuns
      <4>3. After(z, z)
        BY <3>3, <4>1
        DEF After, Running, SafeSession, TimerOK, ChainOK, CoverOK, CountOK,
            SessionType
      <4>4. CallReader(y) = SendContent(z) /\ FailReader(y) = z
        BY <3>7 DEF CallReader, FailReader, z
      <4> QED
        BY <1>4, <1>5, <1>7, <2>2, <3>3, <4>2, <4>3, <4>4 DEF After, Completed
    <3> QED BY <1>1, <2>4, <3>6, <3>7 DEF SessionType
  <2>5. CASE y.reader = "none"
    <3>1. CallReader(y) = y /\ FailReader(y) = [y EXCEPT !.fault = "bad_call"]
      BY <2>5 DEF CallReader, FailReader
    <3> QED BY <1>4, <1>5, <1>7, <2>1, <2>2, <2>3, <3>1 DEF After, Completed
  <2> QED BY <2>4, <2>5
<1> QED BY <1>a, <1>6, <1>7 DEF SessionType

(* The completions of transceiver::async_send and its content handler.     *)
LEMMA SendHandlerSafe ==
  ASSUME NEW x, SafeSession(x), x.life = "live", x.fault = "none",
         x.send \in Completed
  PROVE  After(x, SendHandler(x))
<1> DEFINE y == [x EXCEPT !.sbusy = FALSE, !.send = "idle"]
           z == [y EXCEPT !.sbusy = TRUE, !.reader = "echo"]
<1>a. x \in SessionType /\ TimerOK(x) /\ ChainOK(x) /\ CoverOK(x) /\ CountOK(x)
  BY DEF SafeSession
<1>b. "idle" \in Op BY DEF Op
<1>1. y \in SessionType BY <1>a, <1>b DEF SessionType
<1>2. /\ x.send # "idle" /\ ~x.wbusy /\ x.wait = "idle" /\ x.header = "idle"
      /\ x.reader = "none" /\ x.timer = 0 /\ x.asked = x.answered
  BY <1>a DEF TimerOK, ChainOK, CountOK, Completed, SessionType
<1>3. TimerOK(y) /\ ChainOK(y)
  BY <1>a, <1>2 DEF SessionType, TimerOK, ChainOK
<1>4. CoverOK(y) /\ CountOK(y)
  BY <1>a, <1>2 DEF SessionType, CoverOK, CountOK
<1>5. /\ y.id = x.id /\ y.life = "live" /\ y.canceled = x.canceled
      /\ y.header = "idle" /\ y.asked = y.answered
  BY <1>a, <1>2 DEF SessionType
<1>6. CASE x.canceled
  <2>1. After(y, Settle(y))
    BY <1>1, <1>3, <1>4, <1>5, <1>6, SettleSafe DEF SafeSession
  <2> QED BY <1>5, <1>6, <2>1 DEF After, SendHandler
<1>7. CASE ~x.canceled
  <2>1. Running(y)
    BY <1>a, <1>1, <1>2, <1>7 DEF Running, SessionType, CoverOK, TimerOK
  <2> HIDE DEF y
  <2>2. After(y, Cancel(y)) /\ After(y, NextRequest(y))
        /\ After(y, SendContent(y))
    BY <1>5, <2>1, CancelRuns, NextRequestRuns, SendRuns
  <2>3. After(y, z)
    <3>1. z \in SessionType BY <1>1 DEF SessionType
    <3>2. TimerOK(z) /\ ChainOK(z)
      BY <1>1, <2>1 DEF SessionType, Running, TimerOK, ChainOK
    <3>3. CoverOK(z) /\ CountOK(z)
      BY <1>1, <1>5, <2>1 DEF SessionType, Running, CoverOK, CountOK
    <3>4. z.id = y.id /\ z.life = "live" BY <1>1, <1>5 DEF SessionType
    <3> QED BY <3>1, <3>2, <3>3, <3>4 DEF After, SafeSession
  <2> HIDE DEF z
  <2>4. x.part \in {"header", "content"} /\ x.reply \in Replies
    BY <1>a DEF SessionType
  <2>5. SendHandler(x) \in {Cancel(y), NextRequest(y), SendContent(y), z}
    BY <1>7, <2>4 DEF SendHandler, Replies, Completed, y, z
  <2> QED BY <1>5, <2>2, <2>3, <2>5 DEF After
<1> QED BY <1>a, <1>6, <1>7 DEF SessionType

(* The timer handler terminates a session that waits; the wait it aborts   *)
(* keeps it from being erased at once.                                     *)
LEMMA ExpireSafe ==
  ASSUME NEW x, SafeSession(x), x.timer > 0
  PROVE  After(x, Expire(x)) /\ Expire(x).life = "live"
<1> DEFINE y == Expire(x)
<1>a. x \in SessionType /\ TimerOK(x) /\ ChainOK(x) /\ CoverOK(x) /\ CountOK(x)
  BY DEF SafeSession
<1>1. x.life = "live" /\ x.wbusy /\ ~x.canceled
      /\ x.header = "idle" /\ x.send = "idle" /\ x.reader = "none"
  BY <1>a DEF TimerOK, ChainOK
<1>2. y = [[Abort(x) EXCEPT !.canceled = TRUE] EXCEPT !.timer = 0]
  BY <1>1 DEF Expire, Cancel, Busy
<1>3. Abort(x) \in SessionType BY <1>a, AbortType
<1>4. 0 \in 0 .. Slots BY SlotsAssumption
<1>5. y \in SessionType
  <2>1. [Abort(x) EXCEPT !.canceled = TRUE] \in SessionType
    BY <1>3 DEF SessionType
  <2>2. [[Abort(x) EXCEPT !.canceled = TRUE] EXCEPT !.timer = 0] \in SessionType
    BY <1>4, <2>1 DEF SessionType
  <2> QED BY <1>2, <2>2
<1>6. TimerOK(y) /\ ChainOK(y)
  BY <1>a, <1>1, <1>2 DEF Abort, Aborted, SessionType, TimerOK, ChainOK
<1>7. CoverOK(y) /\ CountOK(y)
  BY <1>a, <1>1, <1>2 DEF Abort, Aborted, SessionType, CoverOK, CountOK
<1>8. y.id = x.id /\ y.life = "live" BY <1>a, <1>1, <1>2 DEF Abort, SessionType
<1> QED BY <1>5, <1>6, <1>7, <1>8 DEF After, SafeSession

(* A session that is not created yet satisfies the invariant.              *)
LEMMA FreshSafe == SafeSession(Fresh)
<1>1. Fresh \in SessionType
  <2>1. "idle" \in Op /\ "bare" \in Replies /\ <<>> \in Seq(Units)
    BY DEF Op, Replies
  <2>2. 0 \in 0 .. Slots /\ 0 \in 0 .. BlockSize - 1
    BY SlotsAssumption, BlockAssumption
  <2> QED BY <2>1, <2>2 DEF Fresh, SessionType
<1>2. TimerOK(Fresh) /\ ChainOK(Fresh) BY DEF Fresh, TimerOK, ChainOK
<1>3. CoverOK(Fresh) /\ CountOK(Fresh) BY DEF Fresh, CoverOK, CountOK
<1> QED BY <1>1, <1>2, <1>3 DEF SafeSession

(* manager::create_session and session::start give a session that waits    *)
(* for its first request with a timer set.                                 *)
LEMMA StartSafe ==
  ASSUME NEW id \in Ids
  PROVE  LET x == [Fresh EXCEPT !.id = id]
         IN  /\ SafeSession(Start(x))
             /\ Start(x).id = id /\ Start(x).life = "live"
<1> DEFINE x == [Fresh EXCEPT !.id = id]
           y == [x EXCEPT !.life = "live"]
<1>1. Fresh \in SessionType BY FreshSafe DEF SafeSession
<1>2. y \in SessionType BY <1>1 DEF SessionType
<1>3. Running(y) /\ y.id = id /\ y.asked = y.answered
  BY <1>2 DEF Running, Fresh
<1>4. After(y, AwaitRequest(y)) BY <1>3, SetTimerRuns
<1>5. AwaitRequest(y).life = "live"
  BY <1>2, <1>3 DEF AwaitRequest, AsyncWait, SetTimer, Running, SessionType
<1> QED BY <1>3, <1>4, <1>5 DEF Start, After

(* Completions the reactor finds, and the next read of a composed one. *)
LEMMA CompletionSafe ==
  ASSUME NEW x, SafeSession(x), x.life = "live",
         NEW result \in Completed
  PROVE  /\ x.wait = "pending" => After(x, [x EXCEPT !.wait = result])
         /\ x.send = "pending" => After(x, [x EXCEPT !.send = result])
         /\ x.header = "pending" =>
               /\ After(x, [x EXCEPT !.header = result])
               /\ \A got \in Seq(Units) :
                     After(x, [x EXCEPT !.header = result, !.got = got])
<1>a. x \in SessionType /\ TimerOK(x) /\ ChainOK(x) /\ CoverOK(x) /\ CountOK(x)
  BY DEF SafeSession
<1>b. result \in Op /\ result # "idle" BY DEF Op, Completed
<1>1. ASSUME x.wait = "pending" PROVE After(x, [x EXCEPT !.wait = result])
  <2> DEFINE y == [x EXCEPT !.wait = result]
  <2>1. y \in SessionType BY <1>a, <1>b DEF SessionType
  <2>2. TimerOK(y) /\ ChainOK(y)
    BY <1>a, <1>b, <1>1 DEF SessionType, TimerOK, ChainOK
  <2>3. CoverOK(y) /\ CountOK(y)
    BY <1>a, <1>b, <1>1 DEF SessionType, CoverOK, CountOK
  <2>4. y.id = x.id /\ y.life = "live" BY <1>a DEF SessionType
  <2> QED BY <2>1, <2>2, <2>3, <2>4 DEF After, SafeSession
<1>2. ASSUME x.send = "pending" PROVE After(x, [x EXCEPT !.send = result])
  <2> DEFINE y == [x EXCEPT !.send = result]
  <2>1. y \in SessionType BY <1>a, <1>b DEF SessionType
  <2>2. TimerOK(y) /\ ChainOK(y)
    BY <1>a, <1>b, <1>2 DEF SessionType, TimerOK, ChainOK
  <2>3. CoverOK(y) /\ CountOK(y)
    BY <1>a, <1>b, <1>2 DEF SessionType, CoverOK, CountOK
  <2>4. y.id = x.id /\ y.life = "live" BY <1>a DEF SessionType
  <2> QED BY <2>1, <2>2, <2>3, <2>4 DEF After, SafeSession
<1>3. ASSUME x.header = "pending" PROVE After(x, [x EXCEPT !.header = result])
  <2> DEFINE y == [x EXCEPT !.header = result]
  <2>1. y \in SessionType BY <1>a, <1>b DEF SessionType
  <2>2. TimerOK(y) /\ ChainOK(y)
    BY <1>a, <1>b, <1>3 DEF SessionType, TimerOK, ChainOK
  <2>3. CoverOK(y) /\ CountOK(y)
    BY <1>a, <1>b, <1>3 DEF SessionType, CoverOK, CountOK
  <2>4. y.id = x.id /\ y.life = "live" BY <1>a DEF SessionType
  <2> QED BY <2>1, <2>2, <2>3, <2>4 DEF After, SafeSession
<1>4. ASSUME x.header = "pending", NEW got \in Seq(Units)
      PROVE  After(x, [x EXCEPT !.header = result, !.got = got])
  <2> DEFINE y == [x EXCEPT !.header = result, !.got = got]
  <2>1. y \in SessionType BY <1>a, <1>b DEF SessionType
  <2>2. TimerOK(y) /\ ChainOK(y)
    BY <1>a, <1>b, <1>4 DEF SessionType, TimerOK, ChainOK
  <2>3. CoverOK(y) /\ CountOK(y)
    BY <1>a, <1>b, <1>4 DEF SessionType, CoverOK, CountOK
  <2>4. y.id = x.id /\ y.life = "live" BY <1>a DEF SessionType
  <2> QED BY <2>1, <2>2, <2>3, <2>4 DEF After, SafeSession
<1> QED BY <1>1, <1>2, <1>3, <1>4

(* The read of a body fails, or goes on with its next part.                *)
LEMMA BodySafe ==
  ASSUME NEW x, SafeSession(x), x.life = "live", x.body \in {"pending", "more"},
         NEW op \in Op \ {"idle"}
  PROVE  After(x, [x EXCEPT !.body = op])
<1>a. x \in SessionType /\ TimerOK(x) /\ ChainOK(x) /\ CoverOK(x) /\ CountOK(x)
  BY DEF SafeSession
<1> DEFINE y == [x EXCEPT !.body = op]
<1>1. y \in SessionType BY <1>a, ZenonT(60) DEF SessionType
<1>2. TimerOK(y) /\ ChainOK(y)
  BY <1>a DEF SessionType, TimerOK, ChainOK
<1>3. CoverOK(y) /\ CountOK(y)
  BY <1>a DEF SessionType, CoverOK, CountOK
<1>4. y.id = x.id /\ y.life = "live" BY <1>a DEF SessionType
<1> QED BY <1>1, <1>2, <1>3, <1>4 DEF After, SafeSession

(* The read of a body takes a part of it, waking the wait as well.         *)
LEMMA BodyProgressSafe ==
  ASSUME NEW x, SafeSession(x), x.life = "live", x.body \in {"pending", "more"},
         NEW op \in Op \ {"idle"}, NEW lack \in Nat,
         NEW wait, wait = x.wait \/ (x.wait = "pending" /\ wait = "ok")
  PROVE  After(x, [x EXCEPT !.body = op, !.lack = lack, !.wait = wait])
<1>a. x \in SessionType /\ TimerOK(x) /\ ChainOK(x) /\ CoverOK(x) /\ CountOK(x)
  BY DEF SafeSession
<1> DEFINE y == [x EXCEPT !.body = op, !.lack = lack, !.wait = wait]
<1>b. wait \in Op BY <1>a DEF SessionType, Op
<1>1. y \in SessionType BY <1>a, <1>b, ZenonT(60) DEF SessionType
<1>2. TimerOK(y) /\ ChainOK(y)
  BY <1>a DEF SessionType, TimerOK, ChainOK
<1>3. CoverOK(y) /\ CountOK(y)
  BY <1>a DEF SessionType, CoverOK, CountOK
<1>4. y.id = x.id /\ y.life = "live" BY <1>a DEF SessionType
<1> QED BY <1>1, <1>2, <1>3, <1>4 DEF After, SafeSession

-----------------------------------------------------------------------------
(* The worker.                                                             *)


(* A session that was not started: all there is to it is whether there was *)
(* an identifier for it.                                                   *)
NewBorn(fault) == [Fresh EXCEPT !.fault = fault]

(* A session without a fault is as its constructor made it.                *)
LEMMA NewBornFresh == NewBorn("none") = Fresh
<1>1. Fresh.fault = "none" BY DEF Fresh
<1>2. Fresh = [f \in DOMAIN Fresh |-> Fresh[f]] BY DEF Fresh
<1> QED BY <1>1, <1>2, Zenon DEF NewBorn

(* Only an empty pool keeps a session from being started.                  *)
UsedUp == \A c \in Conns : s[c].fault = "pool" => idPool = <<>>

(* Nothing comes over a connection whose session is not started yet.       *)
Unreached == \A c \in Conns : s[c].life = "new" => /\ sock[c] = <<>>
                                                  /\ peer[c] = "open"

(* The inductive invariant.                                                *)
IInv ==
    /\ TypeOK
    /\ \A c \in Conns : SafeSession(s[c])
    /\ \A c \in Conns : s[c].life = "new" => s[c] = NewBorn(s[c].fault)
    /\ \A c \in Conns : c \in Open => s[c].id \in Ids
    /\ Partition
    /\ UsedUp
    /\ Unreached

(* While the process is up, a new session is as the constructor made it.   *)
LEMMA BornFresh ==
  ASSUME IInv, Up, NEW c \in Conns, s[c].life = "new"
  PROVE  s[c] = Fresh
BY NewBornFresh DEF IInv, Up

(* The clients' variables have their types after the step, and nothing     *)
(* came over a connection whose session was not started.                   *)
ClientsTyped == /\ unsent' \in [Conns -> Seq(Units)]
                /\ sock' \in [Conns -> Seq(Units)]
                /\ held' \in [Conns -> Seq(Units)]
                /\ peer' \in [Conns -> {"open", "closed"}]
                /\ broken' \in [Conns -> BOOLEAN]
                /\ \A c \in Conns : s[c].life = "new" =>
                      sock'[c] = sock[c] /\ peer'[c] = peer[c]

(* A step that leaves the clients alone leaves their types alone.          *)
LEMMA ClientsStay ==
  ASSUME TypeOK, UNCHANGED client
  PROVE  ClientsTyped
BY DEF TypeOK, client, ClientsTyped

(* A session changes without being created or erased: the pool and the map *)
(* stay right.                                                             *)
LEMMA KeepLife ==
  ASSUME IInv, ClientsTyped, NEW c \in Conns, NEW x, SafeSession(x),
         x.id = s[c].id, x.life # "new",
         x.life \in {"live", "garbled"} <=> c \in Open,
         s' = [s EXCEPT ![c] = x], UNCHANGED registry
  PROVE  IInv'
<1>1. x \in SessionType /\ TimerOK(x) BY DEF SafeSession
<1>2. s \in [Conns -> SessionType] BY DEF IInv, TypeOK
<1>3. TypeOK' BY <1>1, <1>2 DEF IInv, TypeOK, ClientsTyped, registry
<1>4. \A d \in Conns : s'[d] = IF d = c THEN x ELSE s[d] BY <1>2
<1>5. (\A d \in Conns : SafeSession(s[d]))' BY <1>4 DEF IInv
<1>6. (\A d \in Conns : s[d].life = "new" => s[d] = NewBorn(s[d].fault))'
  BY <1>4 DEF IInv
<1>7. Open' = Open /\ \A d \in Conns : s'[d].id = s[d].id
  BY <1>4 DEF Open
<1>8. (\A d \in Conns : d \in Open => s[d].id \in Ids)' BY <1>7 DEF IInv
<1>9. Partition' BY <1>7 DEF IInv, Partition, registry
<1>10. UsedUp' BY <1>1, <1>4 DEF IInv, UsedUp, registry, TimerOK
<1>11. Unreached'
  <2>1. \A d \in Conns : s'[d].life = "new" => s[d].life = "new" BY <1>4
  <2> QED BY <2>1 DEF IInv, Unreached, ClientsTyped
<1> QED BY <1>3, <1>5, <1>6, <1>8, <1>9, <1>10, <1>11 DEF IInv

(* A handler changed one session, and if it erased it, its identifier went *)
(* back to the pool exactly once (the terminating handler of               *)
(* manager::create_session).                                               *)
LEMMA BecomeInv ==
  ASSUME IInv, Up, NEW c \in Conns, Live(c), NEW x, After(s[c], x),
         Become(c, x), UNCHANGED client
  PROVE  IInv'
<1>0. ClientsTyped BY ClientsStay DEF IInv
<1>a. c \in Open /\ s[c].id \in Ids BY DEF Live, Open, IInv
<1>1. CASE x.life # "gone"
  <2>1. s' = [s EXCEPT ![c] = x] /\ UNCHANGED registry
    BY <1>1 DEF Become
  <2> QED BY <1>0, <1>1, <1>a, <2>1, KeepLife DEF After
<1>2. CASE x.life = "gone"
  <2> DEFINE i == s[c].id
  <2>1. /\ s' = [s EXCEPT ![c] = x]
        /\ idPool' = Append(idPool, i)
        /\ sessions' = [sessions EXCEPT ![i] = NoConn]
    BY <1>2 DEF Become, After
  <2>2. s \in [Conns -> SessionType] /\ idPool \in Seq(Ids)
        /\ sessions \in [Ids -> Conns \cup {NoConn}]
    BY DEF IInv, TypeOK
  <2>3. x \in SessionType /\ SafeSession(x) /\ TimerOK(x)
    BY DEF After, SafeSession
  <2>4. \A d \in Conns : s'[d] = IF d = c THEN x ELSE s[d] BY <2>1, <2>2
  <2>5. idPool' \in Seq(Ids) BY <1>a, <2>1, <2>2
  <2>6. sessions' \in [Ids -> Conns \cup {NoConn}] BY <2>1, <2>2
  <2>7. TypeOK' BY <1>0, <2>1, <2>2, <2>3, <2>5, <2>6 DEF TypeOK, ClientsTyped
  <2>8. (\A d \in Conns : SafeSession(s[d]))' BY <2>3, <2>4 DEF IInv
  <2>9. (\A d \in Conns : s[d].life = "new" => s[d] = NewBorn(s[d].fault))'
    BY <1>2, <2>4 DEF IInv
  <2>10. Open' = Open \ {c} BY <1>2, <2>4 DEF Open
  <2>11. (\A d \in Conns : d \in Open => s[d].id \in Ids)'
    BY <2>4, <2>10 DEF IInv
  <2>12. sessions[i] = c BY <1>a DEF IInv, Partition
  <2>13. \A k \in DOMAIN idPool : idPool[k] # i
    BY <1>a, <2>12, ConnsAssumption DEF IInv, Partition
  <2>14. /\ DOMAIN idPool = 1 .. Len(idPool) /\ Len(idPool) \in Nat
         /\ DOMAIN idPool' = 1 .. Len(idPool) + 1
         /\ \A k \in DOMAIN idPool : idPool'[k] = idPool[k]
         /\ idPool'[Len(idPool) + 1] = i
    BY <1>a, <2>1, <2>2
  <2>15. \A k, l \in DOMAIN idPool' : idPool'[k] = idPool'[l] => k = l
    BY <2>13, <2>14 DEF IInv, Partition
  <2>16. \A j \in Ids : sessions'[j] = IF j = i THEN NoConn ELSE sessions[j]
    BY <2>1, <2>2
  <2>17. \A j \in Ids : sessions'[j] = NoConn <=> \E k \in DOMAIN idPool' :
                                                     idPool'[k] = j
    <3> SUFFICES ASSUME NEW j \in Ids
                 PROVE  sessions'[j] = NoConn <=> \E k \in DOMAIN idPool' :
                                                     idPool'[k] = j
      OBVIOUS
    <3>1. CASE j = i BY <2>14, <2>16, <3>1
    <3>2. CASE j # i
      <4>1. sessions'[j] = NoConn <=> \E k \in DOMAIN idPool : idPool[k] = j
        BY <2>16, <3>2 DEF IInv, Partition
      <4>2. (\E k \in DOMAIN idPool : idPool[k] = j)
              <=> \E k \in DOMAIN idPool' : idPool'[k] = j
        BY <2>14, <3>2
      <4> QED BY <4>1, <4>2
    <3> QED BY <3>1, <3>2
  <2>18. \A d \in Conns, j \in Ids :
            sessions'[j] = d <=> d \in Open' /\ s'[d].id = j
    <3> SUFFICES ASSUME NEW d \in Conns, NEW j \in Ids
                 PROVE  sessions'[j] = d <=> d \in Open' /\ s'[d].id = j
      OBVIOUS
    <3>1. sessions[j] = d <=> d \in Open /\ s[d].id = j
      BY DEF IInv, Partition
    <3> QED BY <1>a, <2>4, <2>10, <2>12, <2>16, <3>1, ConnsAssumption
  <2>19. Partition' BY <2>15, <2>17, <2>18 DEF Partition
  <2>20. UsedUp' BY <1>2, <2>3, <2>4 DEF Up, UsedUp, TimerOK
  <2>21. Unreached' BY <1>0, <1>2, <2>4 DEF IInv, Unreached, ClientsTyped
  <2> QED BY <2>7, <2>8, <2>9, <2>11, <2>19, <2>20, <2>21 DEF IInv
<1> QED BY <1>1, <1>2

(* When the pool is empty, every identifier is an open session's.          *)
LEMMA AllTaken ==
  ASSUME IInv, idPool = <<>>
  PROVE  \A i \in Ids : sessions[i] \in Open /\ s[sessions[i]].id = i
<1>1. \A i \in Ids : sessions[i] # NoConn
  BY DEF IInv, Partition
<1>2. sessions \in [Ids -> Conns \cup {NoConn}] BY DEF IInv, TypeOK
<1> SUFFICES ASSUME NEW i \in Ids
             PROVE  sessions[i] \in Open /\ s[sessions[i]].id = i
  OBVIOUS
<1>3. sessions[i] \in Conns BY <1>1, <1>2
<1> QED BY <1>3 DEF IInv, Partition

(* An identifier is left while fewer sessions are open than there are      *)
(* identifiers.                                                            *)
LEMMA PoolNotEmpty ==
  ASSUME IInv, Cardinality(Open) < PoolSize
  PROVE  idPool # <<>>
<1> SUFFICES ASSUME idPool = <<>> PROVE FALSE OBVIOUS
<1>2. sessions \in [Ids -> Conns \cup {NoConn}] BY DEF IInv, TypeOK
<1>3. \A i \in Ids : sessions[i] \in Open /\ s[sessions[i]].id = i
  BY AllTaken
<1>4. sessions \in [Ids -> Open] BY <1>2, <1>3
<1>5. IsInjective(sessions) BY <1>2, <1>3 DEF IsInjective
<1>6. sessions \in Injection(Ids, Open) BY <1>4, <1>5 DEF Injection
<1>7. IsFiniteSet(Open)
  BY ConnsAssumption, FS_Subset DEF Open
<1>8. Cardinality(Ids) <= Cardinality(Open) BY <1>6, <1>7, FS_Injection
<1>9. Cardinality(Ids) = PoolSize
  <2>1. PoolSize - 1 \in Int /\ 0 \in Int BY PoolAssumption
  <2>2. Cardinality(0 .. PoolSize - 1)
          = IF 0 > PoolSize - 1 THEN 0 ELSE (PoolSize - 1) - 0 + 1
    BY <2>1, FS_Interval
  <2> QED BY <2>2, PoolAssumption DEF Ids
<1>10. Cardinality(Open) \in Nat BY <1>7, FS_CardinalityType
<1> QED BY <1>8, <1>9, <1>10, PoolAssumption

(* A part of a sequence of units is one.                                   *)
LEMMA PartType ==
  ASSUME NEW q \in Seq(Units), NEW i \in Nat \ {0}, NEW j \in 0 .. Len(q)
  PROVE  SubSeq(q, i, j) \in Seq(Units)
<1>1. \A k \in i .. j : q[k] \in Units OBVIOUS
<1> QED BY <1>1, SubSeqProperties

(* What the handshake has read ahead are units like all others.            *)
LEMMA AheadType ==
  ASSUME IInv, NEW c \in Conns, ReadAhead(c)
  PROVE  ClientsTyped
<1>1. unsent \in [Conns -> Seq(Units)] /\ held \in [Conns -> Seq(Units)]
  BY DEF IInv, TypeOK
<1>2. unsent[c] \in Seq(Units) /\ held[c] \in Seq(Units)
      /\ Len(unsent[c]) \in Nat
  BY <1>1
<1>3. PICK n \in 0 .. Len(unsent[c]) :
        /\ held' = [held EXCEPT ![c] = @ \o SubSeq(unsent[c], 1, n)]
        /\ unsent' = [unsent EXCEPT ![c] = Drop(@, n)]
  <2>1. {0} \subseteq 0 .. Len(unsent[c]) BY <1>2
  <2> QED BY <2>1 DEF ReadAhead
<1>4. SubSeq(unsent[c], 1, n) \in Seq(Units) BY <1>2, PartType
<1>5. Drop(unsent[c], n) \in Seq(Units)
  <2>1. n + 1 \in Nat \ {0} /\ Len(unsent[c]) \in 0 .. Len(unsent[c])
    BY <1>2
  <2> QED BY <1>2, <2>1, PartType DEF Drop
<1>6. held[c] \o SubSeq(unsent[c], 1, n) \in Seq(Units)
  BY <1>2, <1>4, ConcatProperties
<1>7. held' \in [Conns -> Seq(Units)] BY <1>1, <1>3, <1>6
<1>8. unsent' \in [Conns -> Seq(Units)] BY <1>1, <1>3, <1>5
<1> QED BY <1>7, <1>8 DEF ReadAhead, IInv, TypeOK, ClientsTyped

(* Without an identifier the session is not started.                       *)
LEMMA CreateNone ==
  ASSUME IInv, NEW c \in Conns, Create(c), idPool = <<>>
  PROVE  /\ s[c] = Fresh
         /\ s' = [s EXCEPT ![c] = NewBorn("pool")] /\ UNCHANGED registry
         /\ SafeSession(NewBorn("pool"))
<1>1. s[c] = Fresh BY BornFresh DEF Create
<1>2. s' = [s EXCEPT ![c] = NewBorn("pool")] /\ UNCHANGED registry
  BY <1>1 DEF Create, NewBorn
<1>3. NewBorn("pool") \in SessionType
  BY FreshSafe DEF SafeSession, SessionType, NewBorn
<1>4. SafeSession(NewBorn("pool"))
  BY <1>3 DEF NewBorn, Fresh, SafeSession, TimerOK, ChainOK, CoverOK, CountOK,
              Idle
<1> QED BY <1>1, <1>2, <1>4

(* With an identifier from the pool the session is started.                *)
LEMMA CreateOne ==
  ASSUME IInv, NEW c \in Conns, Create(c), ClientsTyped, idPool # <<>>
  PROVE  IInv'
<1> DEFINE i == Last(idPool)
           x == Start([Fresh EXCEPT !.id = i])
<1>0. ClientsTyped OBVIOUS
<1>1. s \in [Conns -> SessionType] /\ idPool \in Seq(Ids)
      /\ sessions \in [Ids -> Conns \cup {NoConn}]
  BY DEF IInv, TypeOK
<1>3. Len(idPool) \in Nat \ {0} /\ DOMAIN idPool = 1 .. Len(idPool)
      /\ i = idPool[Len(idPool)] /\ i \in Ids
  BY <1>1 DEF Last
<1>4. idPool' = SubSeq(idPool, 1, Len(idPool) - 1) BY DEF Create, Front
<1>5. idPool' \in Seq(Ids) /\ Len(idPool') = Len(idPool) - 1
      /\ DOMAIN idPool' = 1 .. Len(idPool) - 1
      /\ \A k \in 1 .. Len(idPool) - 1 : idPool'[k] = idPool[k]
  <2>1. \A k \in 1 .. Len(idPool) - 1 : idPool[k] \in Ids BY <1>1, <1>3
  <2>2. 1 \in Int /\ Len(idPool) - 1 \in Int BY <1>3
  <2>3. /\ SubSeq(idPool, 1, Len(idPool) - 1) \in Seq(Ids)
        /\ Len(SubSeq(idPool, 1, Len(idPool) - 1))
              = IF 1 <= Len(idPool) - 1 THEN (Len(idPool) - 1) - 1 + 1 ELSE 0
        /\ \A k \in 1 .. (Len(idPool) - 1) - 1 + 1 :
              SubSeq(idPool, 1, Len(idPool) - 1)[k] = idPool[1 + k - 1]
    BY <2>1, <2>2, SubSeqProperties
  <2> QED BY <1>3, <1>4, <2>3
<1>6. s[c] = Fresh /\ c \notin Open BY BornFresh DEF Create, Open
<1>7. SafeSession(x) /\ x.id = i /\ x.life = "live" BY <1>3, StartSafe
<1>8. sessions' = [sessions EXCEPT ![i] = c] BY DEF Create
<1>9. s' = [s EXCEPT ![c] = x] BY <1>6 DEF Create
<1> HIDE DEF x, i
<1>10. \A d \in Conns : s'[d] = IF d = c THEN x ELSE s[d] BY <1>1, <1>9
<1>11. \A j \in Ids : sessions'[j] = IF j = i THEN c ELSE sessions[j]
  BY <1>1, <1>8
<1>12. x \in SessionType BY <1>7 DEF SafeSession
<1>13. sessions' \in [Ids -> Conns \cup {NoConn}] BY <1>1, <1>8
<1>14. TypeOK' BY <1>0, <1>1, <1>5, <1>9, <1>12, <1>13 DEF TypeOK, ClientsTyped
<1>15. (\A d \in Conns : SafeSession(s[d]))' BY <1>7, <1>10 DEF IInv
<1>16. (\A d \in Conns : s[d].life = "new" => s[d] = NewBorn(s[d].fault))'
  BY <1>7, <1>10 DEF IInv
<1>17. Open' = Open \cup {c} BY <1>7, <1>10 DEF Open
<1>18. (\A d \in Conns : d \in Open => s[d].id \in Ids)'
  BY <1>3, <1>7, <1>10, <1>17 DEF IInv
<1>19. sessions[i] = NoConn BY <1>3 DEF IInv, Partition
<1>20. \A k, l \in DOMAIN idPool' : idPool'[k] = idPool'[l] => k = l
  BY <1>3, <1>5 DEF IInv, Partition
<1>21. \A k \in DOMAIN idPool' : idPool'[k] # i
  BY <1>3, <1>5 DEF IInv, Partition
<1>22. \A j \in Ids : sessions'[j] = NoConn <=> \E k \in DOMAIN idPool' :
                                                   idPool'[k] = j
  <2> SUFFICES ASSUME NEW j \in Ids
               PROVE  sessions'[j] = NoConn <=> \E k \in DOMAIN idPool' :
                                                   idPool'[k] = j
    OBVIOUS
  <2>1. CASE j = i BY <1>11, <1>21, <2>1, ConnsAssumption
  <2>2. CASE j # i
    <3>1. sessions'[j] = NoConn <=> \E k \in DOMAIN idPool : idPool[k] = j
      BY <1>11, <2>2 DEF IInv, Partition
    <3>2. (\E k \in DOMAIN idPool : idPool[k] = j)
             <=> \E k \in DOMAIN idPool' : idPool'[k] = j
      BY <1>3, <1>5, <2>2
    <3> QED BY <3>1, <3>2
  <2> QED BY <2>1, <2>2
<1>23. \A d \in Conns, j \in Ids :
          sessions'[j] = d <=> d \in Open' /\ s'[d].id = j
  <2> SUFFICES ASSUME NEW d \in Conns, NEW j \in Ids
               PROVE  sessions'[j] = d <=> d \in Open' /\ s'[d].id = j
    OBVIOUS
  <2>1. sessions[j] = d <=> d \in Open /\ s[d].id = j
    BY DEF IInv, Partition
  <2> QED BY <1>6, <1>7, <1>10, <1>11, <1>17, <1>19, <2>1, ConnsAssumption
<1>24. Partition' BY <1>20, <1>22, <1>23 DEF Partition
<1>25. UsedUp'
  <2>1. x.fault # "pool" BY <1>7 DEF SafeSession, TimerOK
  <2> QED BY <1>10, <2>1 DEF UsedUp, Create, Up
<1>26. Unreached' BY <1>0, <1>7, <1>10 DEF IInv, Unreached, ClientsTyped
<1> QED BY <1>14, <1>15, <1>16, <1>18, <1>24, <1>25, <1>26 DEF IInv

(* manager::create_session keeps the invariant.                            *)
LEMMA CreateInv ==
  ASSUME IInv, NEW c \in Conns, Create(c)
  PROVE  IInv'
<1>0. ClientsTyped BY AheadType DEF Create
<1>a. CASE idPool = <<>>
  <2> DEFINE x == NewBorn("pool")
  <2>1. /\ s[c] = Fresh /\ s' = [s EXCEPT ![c] = x] /\ UNCHANGED registry
        /\ SafeSession(x)
    BY <1>a, CreateNone
  <2>2. x.life = "new" /\ x = NewBorn(x.fault) /\ Fresh.life = "new"
    BY DEF NewBorn, Fresh
  <2> HIDE DEF x
  <2>3. x \in SessionType BY <2>1 DEF SafeSession
  <2>4. s \in [Conns -> SessionType] BY DEF IInv, TypeOK
  <2>5. \A d \in Conns : s'[d] = IF d = c THEN x ELSE s[d] BY <2>1, <2>4
  <2>6. TypeOK' BY <1>0, <2>1, <2>3, <2>4 DEF IInv, TypeOK, ClientsTyped, registry
  <2>7. (\A d \in Conns : SafeSession(s[d]))' BY <2>1, <2>5 DEF IInv
  <2>8. (\A d \in Conns : s[d].life = "new" => s[d] = NewBorn(s[d].fault))'
    BY <2>2, <2>5 DEF IInv
  <2>9. Open' = Open BY <2>1, <2>2, <2>5 DEF Open
  <2>10. c \notin Open BY <2>1, <2>2 DEF Open
  <2>11. (\A d \in Conns : d \in Open => s[d].id \in Ids)'
    BY <2>5, <2>9, <2>10 DEF IInv
  <2>12. Partition' BY <2>1, <2>5, <2>9, <2>10 DEF IInv, Partition, registry
  <2>13. UsedUp' BY <1>a, <2>1 DEF UsedUp, registry
  <2>14. Unreached'
    <3>1. \A d \in Conns : s'[d].life = "new" => s[d].life = "new"
      BY <2>1, <2>2, <2>5
    <3> QED BY <1>0, <3>1 DEF IInv, Unreached, ClientsTyped
  <2> QED BY <2>6, <2>7, <2>8, <2>11, <2>12, <2>13, <2>14 DEF IInv
<1>b. CASE idPool # <<>>
  BY <1>0, <1>b, CreateOne
<1> QED BY <1>a, <1>b

(* No session erased, no identifier returned.                              *)
LEMMA NothingToReturn ==
  ASSUME NEW S, NEW q \in Seq(S)
  PROVE  q \o SetToSeq({}) = q
<1>1. Cardinality({}) = 0 BY FS_EmptySet
<1>2. <<>> \in [1 .. 0 -> {}] /\ IsInjective(<<>>) BY DEF IsInjective
<1>3. SetToSeq({}) \in [1 .. 0 -> {}]
  BY <1>1, <1>2 DEF SetToSeq
<1>4. SetToSeq({}) = <<>> BY <1>3
<1> QED BY <1>4, ConcatEmptySeq

(* What a tick does to a session, by cases of its timer.                   *)
LEMMA TickedCases ==
  ASSUME NEW x
  PROVE  /\ x.timer = 0 => Ticked(x) = x
         /\ x.timer = 1 => Ticked(x) = Expire(x)
         /\ x.timer > 1 => Ticked(x) = [x EXCEPT !.timer = @ - 1]
BY DEF Ticked

(* A tick keeps the invariant; it erases no session at once, because a     *)
(* session whose timer runs has its wait outstanding.                      *)
LEMMA TickInv ==
  ASSUME IInv, Tick
  PROVE  IInv'
<1>0. ClientsTyped BY ClientsStay DEF IInv, Tick
<1>1. s \in [Conns -> SessionType] /\ idPool \in Seq(Ids)
      /\ sessions \in [Ids -> Conns \cup {NoConn}]
  BY DEF IInv, TypeOK
<1>2. \A c \in Conns : s'[c] = Ticked(s[c]) BY DEF Tick
<1>3. ASSUME NEW c \in Conns
      PROVE  /\ SafeSession(s'[c]) /\ s'[c].id = s[c].id
             /\ s'[c].life = s[c].life
             /\ s[c].timer = 0 => s'[c] = s[c]
             /\ s[c].timer > 0 => s[c].life = "live"
  <2>1. SafeSession(s[c]) BY DEF IInv
  <2>2. s[c] \in SessionType /\ TimerOK(s[c]) /\ s[c].timer \in 0 .. Slots
    BY <2>1 DEF SafeSession, SessionType
  <2>3. s[c].timer > 0 => s[c].life = "live" BY <2>2 DEF TimerOK
  <2>a. /\ s[c].timer = 0 => s'[c] = s[c]
        /\ s[c].timer = 1 => s'[c] = Expire(s[c])
        /\ s[c].timer > 1 => s'[c] = [s[c] EXCEPT !.timer = @ - 1]
    BY <1>2, TickedCases
  <2>4. CASE s[c].timer = 0 BY <2>1, <2>2, <2>4, <2>a
  <2>5. CASE s[c].timer = 1
    <3>1. s'[c] = Expire(s[c]) BY <2>5, <2>a
    <3>2. After(s[c], Expire(s[c])) /\ Expire(s[c]).life = "live"
      BY <2>1, <2>5, ExpireSafe
    <3> QED BY <2>3, <2>5, <3>1, <3>2 DEF After
  <2>6. CASE s[c].timer > 1
    <3> DEFINE x == s[c]
               y == [x EXCEPT !.timer = @ - 1]
    <3>1. s'[c] = y BY <2>6, <2>a
    <3>2. x.timer - 1 \in 0 .. Slots /\ x.timer - 1 > 0
      BY <2>2, <2>6, SlotsAssumption
    <3> HIDE DEF x
    <3>3. x \in SessionType /\ TimerOK(x) /\ ChainOK(x) /\ CoverOK(x)
          /\ CountOK(x) /\ x.timer > 1
      BY <2>1, <2>6 DEF SafeSession, x
    <3>4. y \in SessionType BY <3>2, <3>3 DEF SessionType
    <3>5. TimerOK(y) /\ ChainOK(y)
      BY <3>2, <3>3 DEF SessionType, TimerOK, ChainOK
    <3>6. CoverOK(y) /\ CountOK(y)
      BY <3>3 DEF SessionType, CoverOK, CountOK, Idle
    <3>7. y.id = x.id /\ y.life = x.life BY <3>3 DEF SessionType
    <3> QED BY <2>3, <2>6, <3>1, <3>4, <3>5, <3>6, <3>7 DEF SafeSession, x
  <2> QED BY <2>2, <2>4, <2>5, <2>6
<1>4. {c \in Conns : Live(c) /\ s'[c].life = "gone"} = {}
  BY <1>3 DEF Live
<1>5. idPool' = idPool \o SetToSeq({})
  <2>1. {s[c].id : c \in {}} = {} OBVIOUS
  <2> QED BY <1>4, <2>1 DEF Tick
<1>6. idPool' = idPool BY <1>1, <1>5, NothingToReturn
<1>7. sessions' = sessions
  <2>1. sessions' = [i \in Ids |-> IF sessions[i] \in {} THEN NoConn
                                                         ELSE sessions[i]]
    BY <1>4 DEF Tick
  <2> QED BY <1>1, <2>1
<1>8. s' \in [Conns -> SessionType]
  BY <1>3 DEF Tick, SafeSession
<1>9. TypeOK' BY <1>0, <1>1, <1>6, <1>7, <1>8 DEF TypeOK, ClientsTyped
<1>10. (\A c \in Conns : SafeSession(s[c]))' BY <1>3
<1>11. (\A c \in Conns : s[c].life = "new" => s[c] = NewBorn(s[c].fault))'
  <2> SUFFICES ASSUME NEW c \in Conns, s'[c].life = "new"
               PROVE  s'[c] = NewBorn(s'[c].fault)
    OBVIOUS
  <2>1. s[c].life = "new" /\ s[c] = NewBorn(s[c].fault) BY <1>3 DEF IInv
  <2>2. s[c].timer = 0
    <3>1. s[c].timer # 0 => s[c].timer > 0
      BY <1>1, SlotsAssumption DEF SessionType
    <3> QED BY <1>3, <2>1, <3>1
  <2> QED BY <1>3, <2>1, <2>2
<1>12. Open' = Open BY <1>3 DEF Open
<1>13. (\A c \in Conns : c \in Open => s[c].id \in Ids)'
  BY <1>3, <1>12 DEF IInv
<1>14. Partition' BY <1>3, <1>6, <1>7, <1>12 DEF IInv, Partition
<1>15. UsedUp'
  <2> SUFFICES ASSUME NEW c \in Conns PROVE s'[c].fault # "pool"
    BY DEF UsedUp
  <2>1. TimerOK(s'[c]) /\ (s'[c] = s[c] \/ s'[c].life = "live")
    <3>1. s[c].timer # 0 => s[c].timer > 0
      BY <1>1, SlotsAssumption DEF SessionType
    <3> QED BY <1>3, <3>1 DEF SafeSession
  <2> QED BY <2>1 DEF Tick, Up, TimerOK
<1>16. Unreached' BY <1>0, <1>3 DEF IInv, Unreached, ClientsTyped
<1> QED BY <1>9, <1>10, <1>11, <1>13, <1>14, <1>15, <1>16 DEF IInv

(* The invariant holds at the start (manager::_init_id_pool).              *)
LEMMA InitInv == Init => IInv
<1> SUFFICES ASSUME Init PROVE IInv OBVIOUS
<1>1. Fresh \in SessionType BY FreshSafe DEF SafeSession
<1>2. \A c \in Conns : s[c] = Fresh BY DEF Init
<1>3. idPool \in Seq(Ids) /\ Len(idPool) = PoolSize
      /\ DOMAIN idPool = 1 .. PoolSize
      /\ \A i \in 1 .. PoolSize : idPool[i] = i - 1
  <2>1. \A i \in 1 .. PoolSize : i - 1 \in Ids BY PoolAssumption DEF Ids
  <2> QED BY <2>1, PoolAssumption DEF Init
<1>4. TypeOK
  <2>1. <<>> \in Seq(Units) OBVIOUS
  <2> QED BY <1>1, <1>3, <2>1, StreamAssumption DEF TypeOK, Init
<1>5. \A c \in Conns : SafeSession(s[c]) BY <1>2, FreshSafe
<1>6. Open = {} BY <1>2 DEF Open, Fresh
<1>7. Partition
  <2>1. \A i, j \in DOMAIN idPool : idPool[i] = idPool[j] => i = j
    BY <1>3, PoolAssumption
  <2>2. \A i \in Ids : \E k \in DOMAIN idPool : idPool[k] = i
    <3> TAKE i \in Ids
    <3>1. i + 1 \in 1 .. PoolSize /\ (i + 1) - 1 = i
      BY PoolAssumption DEF Ids
    <3> QED BY <1>3, <3>1
  <2>3. \A i \in Ids : sessions[i] = NoConn BY DEF Init
  <2> QED BY <1>6, <2>1, <2>2, <2>3, ConnsAssumption DEF Partition
<1>8. \A c \in Conns : s[c].life = "new" /\ s[c] = NewBorn(s[c].fault)
                         /\ s[c].fault = "none"
  <2>1. Fresh.life = "new" /\ Fresh.fault = "none" BY DEF Fresh
  <2> QED BY <1>2, <2>1, NewBornFresh
<1>9. Unreached BY DEF Unreached, Init
<1> QED BY <1>4, <1>5, <1>6, <1>7, <1>8, <1>9 DEF IInv, UsedUp

(* Every completion handler keeps the invariant.                           *)
LEMMA HandlerInv ==
  ASSUME IInv, NEW c \in Conns, Handler(c)
  PROVE  IInv'
<1> DEFINE x == s[c]
<1>1. SafeSession(x) BY DEF IInv
<1>2. Up => x.fault = "none" BY DEF Up
<1>3. CASE HandleWait(c)
  <2>1. After(x, WaitHandler(x))
    BY <1>1, <1>2, <1>3, WaitHandlerSafe DEF HandleWait, Live
  <2> QED BY <1>3, <2>1, BecomeInv DEF HandleWait
<1>4. CASE HandleHeader(c)
  <2>1. After(x, HeaderHandler(x))
    BY <1>1, <1>2, <1>4, HeaderHandlerSafe DEF HandleHeader, Live
  <2> QED BY <1>4, <2>1, BecomeInv DEF HandleHeader
<1>5. CASE HandleBody(c)
  <2>1. After(x, BodyHandler(x))
    BY <1>1, <1>2, <1>5, BodyHandlerSafe DEF HandleBody, Live
  <2> QED BY <1>5, <2>1, BecomeInv DEF HandleBody
<1>6. CASE HandleSend(c)
  <2>1. After(x, SendHandler(x))
    BY <1>1, <1>2, <1>6, SendHandlerSafe DEF HandleSend, Live
  <2> QED BY <1>6, <2>1, BecomeInv DEF HandleSend
<1>7. CASE ContinueBody(c)
  <2> DEFINE y == [x EXCEPT !.body = "pending"]
  <2>1. x.life = "live" /\ x.body = "more" BY <1>7 DEF ContinueBody, Live
  <2>2. "pending" \in Op \ {"idle"} BY DEF Op
  <2>3. x \in SessionType BY <1>1 DEF SafeSession
  <2>6. After(x, y) /\ y.life = "live"
    BY <1>1, <2>1, <2>2, <2>3, BodySafe DEF SessionType
  <2>7. s' = [s EXCEPT ![c] = y] BY <1>7 DEF ContinueBody
  <2>8. Become(c, y) BY <1>7, <2>6, <2>7 DEF Become, ContinueBody
  <2> QED BY <1>7, <2>6, <2>8, BecomeInv DEF ContinueBody
<1>8. CASE RunDangling(c)
  <2> DEFINE y == [x EXCEPT !.fault = "dangling"]
  <2>1. x.life = "gone" /\ Outstanding(x) BY <1>8 DEF RunDangling
  <2>2. x \in SessionType /\ TimerOK(x) /\ ChainOK(x) /\ CoverOK(x) /\ CountOK(x)
    BY <1>1 DEF SafeSession
  <2>3. x.overlap BY <2>1, <2>2 DEF CoverOK, Outstanding, Idle
  <2>4. y \in SessionType BY <2>2 DEF SessionType
  <2>5. TimerOK(y) /\ ChainOK(y)
    BY <2>1, <2>2 DEF SessionType, TimerOK, ChainOK
  <2>6. CoverOK(y) /\ CountOK(y)
    BY <2>1, <2>2, <2>3 DEF SessionType, CoverOK, CountOK
  <2>7. y.id = x.id /\ y.life = "gone" BY <2>1, <2>2 DEF SessionType
  <2>8. SafeSession(y) BY <2>4, <2>5, <2>6 DEF SafeSession
  <2>9. c \notin Open BY <2>1 DEF Open
  <2>10. s' = [s EXCEPT ![c] = y] /\ UNCHANGED registry /\ UNCHANGED client
    BY <1>8 DEF RunDangling
  <2>11. ClientsTyped BY <2>10, ClientsStay DEF IInv
  <2> QED BY <2>7, <2>8, <2>9, <2>10, <2>11, KeepLife
<1> QED BY <1>3, <1>4, <1>5, <1>6, <1>7, <1>8 DEF Handler

(* Reading, from the socket or from what the TLS engine holds, splits a    *)
(* sequence of units.                                                      *)
LEMMA TakeType ==
  ASSUME IInv, NEW c \in Conns, NEW n \in 1 .. Len(Source(c)), Take(c, n),
         Live(c), UNCHANGED <<unsent, peer, broken>>
  PROVE  ClientsTyped /\ SubSeq(Source(c), 1, n) \in Seq(Units)
<1>1. sock \in [Conns -> Seq(Units)] /\ held \in [Conns -> Seq(Units)]
  BY DEF IInv, TypeOK
<1>2. sock[c] \in Seq(Units) /\ held[c] \in Seq(Units)
      /\ Source(c) \in Seq(Units) /\ Len(Source(c)) \in Nat
  BY <1>1 DEF Source
<1>3. SubSeq(Source(c), 1, n) \in Seq(Units) BY <1>2, PartType
<1>4. sock' \in [Conns -> Seq(Units)] /\ held' \in [Conns -> Seq(Units)]
  <2>1. CASE held[c] # <<>>
    <3>1. Source(c) = held[c] BY <2>1 DEF Source
    <3>2. Drop(held[c], n) \in Seq(Units)
      BY <1>2, <3>1, PartType DEF Drop
    <3>3. held' = [held EXCEPT ![c] = Drop(held[c], n)] /\ sock' = sock
      BY <2>1 DEF Take
    <3> QED BY <1>1, <3>2, <3>3
  <2>2. CASE held[c] = <<>>
    <3>1. Source(c) = sock[c] BY <2>2 DEF Source
    <3>2. PICK m \in IF c \in Secure THEN n .. Len(sock[c]) ELSE {n} :
             /\ sock' = [sock EXCEPT ![c] = Drop(sock[c], m)]
             /\ held' = [held EXCEPT ![c] = SubSeq(sock[c], n + 1, m)]
      BY <2>2 DEF Take
    <3>3. m \in n .. Len(sock[c]) BY <1>2, <3>1, <3>2
    <3>4. Drop(sock[c], m) \in Seq(Units)
      <4>1. m + 1 \in Nat \ {0} /\ Len(sock[c]) \in 0 .. Len(sock[c])
        BY <1>2, <3>3
      <4> QED BY <1>2, <4>1, PartType DEF Drop
    <3>5. SubSeq(sock[c], n + 1, m) \in Seq(Units)
      <4>1. n + 1 \in Nat \ {0} /\ m \in 0 .. Len(sock[c]) BY <1>2, <3>3
      <4> QED BY <1>2, <4>1, PartType
    <3> QED BY <1>1, <3>2, <3>4, <3>5
  <2> QED BY <2>1, <2>2
<1>5. \A d \in Conns : d # c => sock'[d] = sock[d] BY <1>1 DEF Take
<1> QED BY <1>3, <1>4, <1>5 DEF IInv, TypeOK, ClientsTyped, Live

(* A step of a session that stays live keeps the invariant.                *)
LEMMA LiveStays ==
  ASSUME IInv, ClientsTyped, NEW c \in Conns, Live(c), NEW y,
         After(s[c], y), y.life = "live",
         s' = [s EXCEPT ![c] = y], UNCHANGED registry
  PROVE  IInv'
BY KeepLife DEF After, Live, Open

(* Every completion the reactor finds keeps the invariant.                 *)
LEMMA ReactorInv ==
  ASSUME IInv, NEW c \in Conns, Reactor(c)
  PROVE  IInv'
<1> DEFINE x == s[c]
<1>1. SafeSession(x) BY DEF IInv
<1>2. x \in SessionType BY <1>1 DEF SafeSession
<1>3. UNCHANGED client => ClientsTyped BY ClientsStay DEF IInv
<1>4. CASE CompleteWait(c)
  <2>1. PICK result \in Completed : s' = [s EXCEPT ![c].wait = result]
    BY <1>4 DEF CompleteWait, Completed
  <2> DEFINE y == [x EXCEPT !.wait = result]
  <2>2. Live(c) /\ x.life = "live" /\ x.wait = "pending"
    BY <1>4 DEF CompleteWait, Live
  <2>3. After(x, y) BY <1>1, <2>2, CompletionSafe
  <2>4. y.life = "live" BY <1>2, <2>2 DEF SessionType
  <2>5. s' = [s EXCEPT ![c] = y] BY <2>1
  <2> QED BY <1>3, <1>4, <2>2, <2>3, <2>4, <2>5, LiveStays DEF CompleteWait
<1>5. CASE CompleteSend(c)
  <2>1. PICK result \in Completed : s' = [s EXCEPT ![c].send = result]
    BY <1>5 DEF CompleteSend, Completed
  <2> DEFINE y == [x EXCEPT !.send = result]
  <2>2. Live(c) /\ x.life = "live" /\ x.send = "pending"
    BY <1>5 DEF CompleteSend, Live
  <2>3. After(x, y) BY <1>1, <2>2, CompletionSafe
  <2>4. y.life = "live" BY <1>2, <2>2 DEF SessionType
  <2>5. s' = [s EXCEPT ![c] = y] BY <2>1
  <2> QED BY <1>3, <1>5, <2>2, <2>3, <2>4, <2>5, LiveStays DEF CompleteSend
<1>6. CASE CompleteHeader(c)
  <2>1. Live(c) /\ x.life = "live" /\ x.header = "pending"
        /\ UNCHANGED registry /\ UNCHANGED <<unsent, peer, broken>>
    BY <1>6 DEF CompleteHeader, Live
  <2>2. "ok" \in Completed /\ "err" \in Completed BY DEF Completed
  <2>3. ASSUME NEW n \in 1 .. Len(Source(c)), Take(c, n),
               s' = [s EXCEPT ![c].header = "ok",
                              ![c].got = SubSeq(Source(c), 1, n)]
        PROVE  IInv'
    <3> DEFINE got == SubSeq(Source(c), 1, n)
               y == [x EXCEPT !.header = "ok", !.got = got]
    <3>1. ClientsTyped /\ got \in Seq(Units) BY <2>1, <2>3, TakeType
    <3> HIDE DEF got
    <3>2. After(x, y) BY <1>1, <2>1, <2>2, <3>1, CompletionSafe
    <3>3. y.life = "live" BY <1>2, <2>1 DEF SessionType
    <3>4. s' = [s EXCEPT ![c] = y] BY <2>3 DEF got
    <3> QED BY <2>1, <3>1, <3>2, <3>3, <3>4, LiveStays
  <2>4. ASSUME s' = [s EXCEPT ![c].header = "err"],
               UNCHANGED <<sock, held>>
        PROVE  IInv'
    <3> DEFINE y == [x EXCEPT !.header = "err"]
    <3>1. ClientsTyped BY <1>3, <2>1, <2>4 DEF client
    <3>2. After(x, y) BY <1>1, <2>1, <2>2, CompletionSafe
    <3>3. y.life = "live" BY <1>2, <2>1 DEF SessionType
    <3>4. s' = [s EXCEPT ![c] = y] BY <2>4
    <3> QED BY <2>1, <3>1, <3>2, <3>3, <3>4, LiveStays
  <2> QED BY <1>6, <2>3, <2>4 DEF CompleteHeader
<1>7. CASE CompleteBody(c)
  <2>1. Live(c) /\ x.life = "live" /\ x.body = "pending"
        /\ UNCHANGED registry /\ UNCHANGED <<unsent, peer, broken>>
    BY <1>7 DEF CompleteBody, Live
  <2>2. ASSUME NEW n \in 1 .. Len(Source(c)),
               NEW w \in WokenToo(x.wait) \cup {x.wait}, n <= x.lack, Take(c, n),
               s' = [s EXCEPT ![c] = BodyRead(x, n, w)]
        PROVE  IInv'
    <3> DEFINE op == IF n = x.lack THEN "ok" ELSE "more"
               lack == x.lack - n
               y == [x EXCEPT !.body = op, !.lack = lack, !.wait = w]
    <3>1. ClientsTyped BY <2>1, <2>2, TakeType
    <3>2. op \in Op \ {"idle"} BY DEF Op
    <3>3. lack \in Nat
      <4>1. x.lack \in Nat BY <1>2 DEF SessionType
      <4>2. Source(c) \in Seq(Units) BY DEF IInv, TypeOK, Source
      <4> QED BY <2>2, <4>1, <4>2
    <3>4. w = x.wait \/ (x.wait = "pending" /\ w = "ok")
      <4>1. CASE x.wait = "pending" BY <2>2, <4>1 DEF WokenToo
      <4>2. CASE x.wait # "pending" BY <2>2, <4>2 DEF WokenToo
      <4> QED BY <4>1, <4>2
    <3>5. s' = [s EXCEPT ![c] = y] BY <2>2 DEF BodyRead
    <3> HIDE DEF op, lack
    <3>6. After(x, y) BY <1>1, <2>1, <3>2, <3>3, <3>4, BodyProgressSafe
    <3>7. y.life = "live" BY <1>2, <2>1 DEF SessionType
    <3> QED BY <2>1, <3>1, <3>5, <3>6, <3>7, LiveStays
  <2>3. ASSUME s' = [s EXCEPT ![c].body = "err"], UNCHANGED <<sock, held>>
        PROVE  IInv'
    <3> DEFINE y == [x EXCEPT !.body = "err"]
    <3>1. ClientsTyped BY <1>3, <2>1, <2>3 DEF client
    <3>2. After(x, y) BY <1>1, <2>1, BodySafe DEF Op
    <3>3. y.life = "live" BY <1>2, <2>1 DEF SessionType
    <3>4. s' = [s EXCEPT ![c] = y] BY <2>3
    <3> QED BY <2>1, <3>1, <3>2, <3>3, <3>4, LiveStays
  <2> QED BY <1>7, <2>2, <2>3 DEF CompleteBody
<1> QED BY <1>4, <1>5, <1>6, <1>7 DEF Reactor

(* Nothing a client does can break the invariant.                          *)
LEMMA ClientInv ==
  ASSUME IInv, NEW c \in Conns, Client(c)
  PROVE  IInv'
<1>1. UNCHANGED <<s, registry>> BY DEF Client, Deliver, Disconnect
<1>2. /\ unsent \in [Conns -> Seq(Units)] /\ sock \in [Conns -> Seq(Units)]
      /\ peer \in [Conns -> {"open", "closed"}]
      /\ held \in [Conns -> Seq(Units)] /\ broken \in [Conns -> BOOLEAN]
  BY DEF IInv, TypeOK
<1>3. ClientsTyped
  <2>1. CASE Deliver(c)
    <3>1. Head(unsent[c]) \in Units /\ Tail(unsent[c]) \in Seq(Units)
      BY <1>2, <2>1, HeadTailProperties DEF Deliver
    <3>2. Append(sock[c], Head(unsent[c])) \in Seq(Units) BY <1>2, <3>1
    <3> QED BY <1>2, <2>1, <3>1, <3>2 DEF Deliver, ClientsTyped, Live
  <2>2. CASE Disconnect(c)
    <3>1. PICK kept \in {sock[c], <<>>} : sock' = [sock EXCEPT ![c] = kept]
      BY <2>2 DEF Disconnect
    <3>2. kept \in Seq(Units)
      <4>1. <<>> \in Seq(Units) OBVIOUS
      <4> QED BY <1>2, <3>1, <4>1
    <3>3. sock' \in [Conns -> Seq(Units)] BY <1>2, <3>1, <3>2
    <3>4. peer' \in [Conns -> {"open", "closed"}] BY <1>2, <2>2 DEF Disconnect
    <3> QED BY <1>2, <2>2, <3>3, <3>4 DEF Disconnect, ClientsTyped, Live
  <2> QED BY <2>1, <2>2 DEF Client
<1>4. TypeOK' BY <1>1, <1>3 DEF IInv, TypeOK, ClientsTyped, registry
<1>5. Unreached' BY <1>1, <1>3 DEF IInv, Unreached, ClientsTyped
<1> QED BY <1>1, <1>4, <1>5 DEF IInv, Partition, UsedUp, Open, registry

(* Every step of the worker keeps the invariant.                           *)
LEMMA StepInv ==
  ASSUME IInv, [Next]_vars
  PROVE  IInv'
<1>1. CASE Tick BY <1>1, TickInv
<1>2. ASSUME NEW c \in Conns, Create(c) PROVE IInv' BY <1>2, CreateInv
<1>3. ASSUME NEW c \in Conns, Handler(c) PROVE IInv' BY <1>3, HandlerInv
<1>4. ASSUME NEW c \in Conns, Reactor(c) PROVE IInv' BY <1>4, ReactorInv
<1>5. ASSUME NEW c \in Conns, Client(c) PROVE IInv' BY <1>5, ClientInv
<1>6. CASE UNCHANGED vars
  BY <1>6 DEF vars, IInv, TypeOK, Partition, UsedUp, Unreached, Open
<1> QED BY <1>1, <1>2, <1>3, <1>4, <1>5, <1>6 DEF Next

(* The inductive invariant: for any number of connections, any pool, any   *)
(* wheel, any block size and any streams of requests.                      *)
THEOREM Invariance == Spec => []IInv
BY InitInv, StepInv, PTL DEF Spec

(* Every variable of the worker has its type.                              *)
THEOREM TypeCorrect == Spec => []TypeOK
<1>1. IInv => TypeOK BY DEF IInv
<1> QED BY <1>1, Invariance, PTL

(* The keep-alive timer of a session is set exactly while the session      *)
(* waits for a request and is not terminated: session.cpp:12 never cancels *)
(* a timer that is gone, and no timer outlives its session.                *)
THEOREM TimerSafe == Spec => []TimerWhileWaiting
<1>1. IInv => TimerWhileWaiting
  BY DEF IInv, SafeSession, TimerOK, TimerWhileWaiting, Live
<1> QED BY <1>1, Invariance, PTL

(* A session does one thing at a time: its callbacks (session.cpp) form a  *)
(* single chain.                                                           *)
THEOREM ControlSafe == Spec => []OneControl
<1>1. IInv => OneControl
  BY DEF IInv, SafeSession, ChainOK, OneControl, Live
<1> QED BY <1>1, Invariance, PTL

(* No operation outlives its session, and the busy flags of the            *)
(* transceiver cover what is outstanding, unless a header was read while a *)
(* body was (transceiver.cpp:246 shares _receiving_busy between the two).  *)
THEOREM DanglingSafe == Spec => []NoDangling
<1>1. IInv => NoDangling
  BY DEF IInv, SafeSession, ChainOK, CoverOK, NoDangling, Live, Outstanding, Idle
<1> QED BY <1>1, Invariance, PTL

(* A terminated session is not reading a header, which is why              *)
(* _header_receiving_handler may do without a check of _canceled.          *)
THEOREM CancelSafe == Spec => []CancelSparesHeader
<1>1. IInv => CancelSparesHeader
  BY DEF IInv, SafeSession, ChainOK, CancelSparesHeader, Live
<1> QED BY <1>1, Invariance, PTL

(* The pool of identifiers and the map of sessions (manager.cpp) partition *)
(* the identifiers: none is lost, duplicated or shared.                    *)
THEOREM RegistrySafe == Spec => []Registry
<1>1. IInv => Registry
  <2> SUFFICES ASSUME IInv, NEW c \in Conns, s[c].fault = "pool"
               PROVE  Ids \subseteq {s[d].id : d \in Open}
    BY DEF IInv, Registry
  <2>1. idPool = <<>> BY DEF IInv, UsedUp
  <2> QED BY <2>1, AllTaken
<1> QED BY <1>1, Invariance, PTL

(* An identifier is left while fewer sessions are open than there are.     *)
Spare == Cardinality(Open) < PoolSize => idPool # <<>>

(* However many sessions there were before, and however they ended, none   *)
(* of their identifiers is lost: the pool that manager.cpp:27 pops without *)
(* a look is empty only while as many sessions are open as there are       *)
(* identifiers.  That fewer are open is nothing the code sees to.          *)
THEOREM PoolSuffices == Spec => []Spare
<1>1. IInv => Spare BY PoolNotEmpty DEF Spare
<1> QED BY <1>1, Invariance, PTL

(* Requests of a connection are answered at most once and in their order.  *)
THEOREM OrderSafe == Spec => []AnsweredInOrder
<1>1. IInv => AnsweredInOrder
  <2> SUFFICES ASSUME IInv, NEW c \in Conns
               PROVE  /\ s[c].answered <= s[c].asked
                      /\ s[c].asked <= s[c].answered + 1
                      /\ Live(c) /\ (s[c].timer > 0 \/ s[c].header # "idle")
                            => s[c].asked = s[c].answered
    BY DEF AnsweredInOrder
  <2>1. s[c] \in SessionType /\ TimerOK(s[c]) /\ CountOK(s[c])
    BY DEF IInv, SafeSession
  <2>2. s[c].asked \in Nat /\ s[c].answered \in Nat BY <2>1 DEF SessionType
  <2> QED BY <2>1, <2>2 DEF TimerOK, CountOK, Live
<1> QED BY <1>1, Invariance, PTL

-----------------------------------------------------------------------------
(* The byte streams: what a step does to the data of one session.          *)

(* The sending flag is not set while the session waits or reads a header.  *)
Quiet(x) == x.wait # "idle" \/ x.header # "idle" => ~x.sbusy

(* What the search for the end of a header relies on: between two headers  *)
(* the buffered data is in one block; while one is read, its end is not in *)
(* the buffer, and what is read goes into one block.                       *)
HeaderOK(x) == x.life = "live" =>
    /\ Quiet(x)
    /\ x.header # "ok" => x.got = <<>>
    /\ x.header = "idle" => x.off + Len(x.buf) <= BlockSize
    /\ x.header # "idle" =>
          /\ Ends(x.buf) = {}
          /\ ((x.off + Len(x.buf)) % BlockSize) + Len(x.got) <= BlockSize

(* From x to y nothing happens to what was received, except that reads are *)
(* aborted or counted off.                                                 *)
Leaves(x, y) ==
    /\ y.buf = x.buf /\ y.off = x.off /\ y.got = x.got
    /\ y.lack = x.lack /\ y.overlap = x.overlap /\ y.sound = x.sound
    /\ y.life \in {x.life, "gone"}
    /\ y.header \in {x.header, Aborted(x.header)}
    /\ y.life # "gone" /\ ~x.overlap =>
          /\ x.canceled => y.canceled
          /\ \/ y.canceled
             \/ y.body = x.body
             \/ x.body \in Completed /\ y.body = "idle"
          /\ y.body = "ok" => x.body = "ok"

(* Whoever leaves the data alone keeps HeaderOK.                           *)
LEMMA LeavesHeader ==
  ASSUME NEW x, HeaderOK(x), NEW y, Leaves(x, y), Quiet(y)
  PROVE  HeaderOK(y)
BY DEF HeaderOK, Leaves, Aborted

(* Cancel and Settle leave the data alone.                                 *)
LEMMA CancelLeaves ==
  ASSUME NEW x \in SessionType, x.life = "live"
  PROVE  /\ Leaves(x, Cancel(x)) /\ (Quiet(x) => Quiet(Cancel(x)))
         /\ Leaves(x, Settle(x)) /\ (Quiet(x) => Quiet(Settle(x)))
<1> DEFINE a == Abort(x)
<1>1. /\ a.buf = x.buf /\ a.off = x.off /\ a.got = x.got /\ a.lack = x.lack
      /\ a.overlap = x.overlap /\ a.life = x.life /\ a.sbusy = x.sbusy
      /\ a.sound = x.sound
      /\ a.wait = Aborted(x.wait) /\ a.header = Aborted(x.header)
      /\ a.body = Aborted(x.body)
  BY DEF Abort, SessionType
<1>2. a \in SessionType BY AbortType
<1> HIDE DEF a
<1>3. /\ Cancel(x) \in {[a EXCEPT !.canceled = TRUE], [a EXCEPT !.life = "gone"]}
      /\ Settle(x) \in {x, [a EXCEPT !.life = "gone"]}
  BY DEF Cancel, Settle, Erase, a
<1>4. /\ Leaves(x, [a EXCEPT !.canceled = TRUE])
      /\ Quiet(x) => Quiet([a EXCEPT !.canceled = TRUE])
  BY <1>1, <1>2 DEF Leaves, Quiet, Aborted, SessionType
<1>5. /\ Leaves(x, [a EXCEPT !.life = "gone"])
      /\ Quiet(x) => Quiet([a EXCEPT !.life = "gone"])
  BY <1>1, <1>2 DEF Leaves, Quiet, Aborted, SessionType
<1>6. Leaves(x, x) BY DEF Leaves
<1> QED BY <1>3, <1>4, <1>5, <1>6

(* Waiting for the next request, or terminating instead.                   *)
LEMMA AwaitLeaves ==
  ASSUME NEW x, Running(x), ~x.sbusy
  PROVE  /\ Leaves(x, AwaitRequest(x)) /\ Quiet(AwaitRequest(x))
         /\ Leaves(x, NextRequest(x)) /\ Quiet(NextRequest(x))
<1>1. AwaitRequest(x)
        = [x EXCEPT !.timer = Slots, !.wbusy = TRUE, !.wait = "pending"]
  BY DEF Running, AwaitRequest, AsyncWait, SetTimer, SessionType
<1>2. Leaves(x, AwaitRequest(x)) /\ Quiet(AwaitRequest(x))
  <2> DEFINE y == [x EXCEPT !.timer = Slots, !.wbusy = TRUE,
                            !.wait = "pending"]
  <2>1. /\ y.buf = x.buf /\ y.off = x.off /\ y.got = x.got /\ y.lack = x.lack
        /\ y.overlap = x.overlap /\ y.sound = x.sound /\ y.life = x.life
        /\ y.header = x.header /\ y.body = x.body
        /\ y.canceled = x.canceled /\ y.sbusy = x.sbusy
    BY DEF Running, SessionType
  <2> HIDE DEF y
  <2>2. Leaves(x, y) /\ Quiet(y) BY <2>1 DEF Leaves, Quiet
  <2> QED BY <1>1, <2>2 DEF y
<1>3. Leaves(x, Cancel(x)) /\ Quiet(Cancel(x))
  BY CancelLeaves DEF Running, Quiet
<1> QED BY <1>2, <1>3 DEF NextRequest

(* Starting to send leaves the data alone.                                 *)
LEMMA SendLeaves ==
  ASSUME NEW x \in SessionType, x.wait = "idle", x.header = "idle",
         x.life = "live"
  PROVE  /\ \A out \in Outs \cup {"echo"} :
               Leaves(x, Respond(x, out)) /\ Quiet(Respond(x, out))
         /\ Leaves(x, SendContent(x)) /\ Quiet(SendContent(x))
<1>1. ASSUME NEW out \in Outs \cup {"echo"}
      PROVE  Leaves(x, Respond(x, out)) /\ Quiet(Respond(x, out))
  <2>1. CASE out = "silent"
    <3>1. Respond(x, out) = x BY <2>1 DEF Respond, Replies
    <3> QED BY <3>1 DEF Leaves, Quiet
  <2>2. CASE out = "throws"
    <3>1. Respond(x, out) = [x EXCEPT !.fault = "thrown"]
      BY <2>2 DEF Respond, Throw, Replies
    <3> QED BY <3>1 DEF SessionType, Leaves, Quiet
  <2>3. CASE out \in Replies
    <3>1. Respond(x, out) = Reply(x, out)
      BY <2>3 DEF Respond, Replies
    <3> QED BY <3>1 DEF Reply, SessionType, Leaves, Quiet
  <2> QED BY <2>1, <2>2, <2>3 DEF Outs, Replies
<1>2. Leaves(x, SendContent(x)) /\ Quiet(SendContent(x))
  BY DEF SendContent, SessionType, Leaves, Quiet
<1> QED BY <1>1, <1>2

(* So does calling the body's reader, if there is one only while the       *)
(* session neither waits nor reads a header.                               *)
LEMMA ReaderLeaves ==
  ASSUME NEW x \in SessionType, x.life = "live", Quiet(x),
         x.reader # "none" => x.wait = "idle" /\ x.header = "idle"
  PROVE  /\ Leaves(x, CallReader(x)) /\ Quiet(CallReader(x))
         /\ Leaves(x, FailReader(x)) /\ Quiet(FailReader(x))
<1> DEFINE y == [x EXCEPT !.reader = "none"]
           b == [x EXCEPT !.fault = "bad_call"]
<1>1. y \in SessionType BY DEF SessionType
<1>2. /\ y.buf = x.buf /\ y.off = x.off /\ y.got = x.got /\ y.lack = x.lack
      /\ y.overlap = x.overlap /\ y.life = x.life /\ y.sbusy = x.sbusy
      /\ y.wait = x.wait /\ y.header = x.header /\ y.body = x.body
      /\ y.canceled = x.canceled /\ y.sound = x.sound
  BY DEF SessionType
<1>3. Leaves(x, b) /\ Quiet(b) BY DEF SessionType, Leaves, Quiet
<1>4. Leaves(x, y) /\ Quiet(y) BY <1>2 DEF Leaves, Quiet
<1>5. Leaves(x, x) BY DEF Leaves
<1> HIDE DEF y, b
<1>6. ASSUME x.reader # "none", NEW z, Leaves(y, z) PROVE Leaves(x, z)
  BY <1>2, <1>6 DEF Leaves
<1>7. ASSUME x.reader # "none"
      PROVE  /\ Leaves(x, Respond(y, x.out)) /\ Quiet(Respond(y, x.out))
             /\ Leaves(x, SendContent(y)) /\ Quiet(SendContent(y))
  <2>1. x.out \in Outs \cup {"echo"} BY DEF SessionType, Outs
  <2> QED BY <1>1, <1>2, <1>6, <1>7, <2>1, SendLeaves
<1>8. CallReader(x) \in {x, Respond(y, x.out), SendContent(y)}
      /\ (CallReader(x) # x => x.reader # "none")
  BY DEF CallReader, SessionType, y
<1>9. FailReader(x) \in {b, Respond(y, x.out), y}
      /\ (FailReader(x) \notin {b, y} => x.reader # "none")
  BY DEF FailReader, SessionType, y, b
<1> QED BY <1>3, <1>4, <1>5, <1>7, <1>8, <1>9

(* What is still to come of a body. *)
Bodies(n) == [i \in 1 .. n |-> Body]

(* What is buffered and not read of a connection is the rest of a body and *)
(* then whole requests.                                                    *)
Fits(x, rest) ==
    \E q \in Rests : (x.buf \o x.got) \o rest = Bodies(x.lack) \o q

(* What one session contributes to Framing: rest is what it has not read,  *)
(* dry says that there is nothing and will be nothing, mute that nothing   *)
(* can ever be read.                                                       *)
FrameOK(x, rest, dry, mute) ==
    /\ x.life = "garbled" => x.overlap
    /\ x.life \in {"new", "live"} /\ ~x.overlap /\ x.sound =>
          /\ Fits(x, rest)
          /\ x.lack > 0 => x.buf = <<>> /\ x.got = <<>>
          /\ x.body = "ok" => x.lack = 0
          /\ x.lack > 0 /\ ~x.canceled /\ x.body \in {"idle", "err"} => dry
          /\ mute => x.lack = 0 /\ x.buf = <<>> /\ x.got = <<>>

StreamOK(x, rest, dry, mute) == HeaderOK(x) /\ FrameOK(x, rest, dry, mute)

(* Whoever leaves the data alone keeps both.                               *)
LEMMA LeavesStream ==
  ASSUME NEW rest, NEW dry \in BOOLEAN, NEW mute \in BOOLEAN,
         NEW x, x.life = "live", StreamOK(x, rest, dry, mute),
         NEW y, Leaves(x, y), Quiet(y)
  PROVE  StreamOK(y, rest, dry, mute)
<1>1. HeaderOK(y) BY LeavesHeader DEF StreamOK
<1>2. Fits(x, rest) => Fits(y, rest) BY DEF Fits, Leaves
<1>3. FrameOK(y, rest, dry, mute)
  BY <1>2 DEF StreamOK, FrameOK, Leaves, Completed
<1> QED BY <1>1, <1>3 DEF StreamOK

(* A remainder grows at most by what is added.                             *)
LEMMA ModAdd ==
  ASSUME NEW k \in Nat, NEW j \in Nat, NEW m \in Nat \ {0}
  PROVE  (k + j) % m <= (k % m) + j
<1> DEFINE q == k \div m
           r == k % m
           t == (k + j) \div m
           u == (k + j) % m
<1>1. /\ k = m * q + r /\ r \in 0 .. m - 1 /\ q \in Int
      /\ k + j = m * t + u /\ u \in 0 .. m - 1 /\ t \in Int
  OBVIOUS
<1> HIDE DEF q, r, t, u
<1>2. m * (t - q) = r + j - u BY <1>1
<1>3. CASE t - q >= 0
  <2>1. m * (t - q) >= 0 BY <1>1, <1>3
  <2> QED BY <1>1, <1>2, <2>1 DEF u, r
<1>4. CASE t - q <= -1
  <2>1. m * (t - q) <= -m BY <1>1, <1>4
  <2> QED BY <1>1, <1>2, <2>1
<1> QED BY <1>1, <1>3, <1>4

(* A remainder is below its divisor and not above its dividend.            *)
LEMMA ModBound ==
  \A k \in Nat, m \in Nat \ {0} : k % m \in 0 .. m - 1 /\ k % m <= k
<1>1. \A k \in Nat, m \in Nat \ {0} : k % m \in 0 .. m - 1 OBVIOUS
<1>2. \A k \in Nat, m \in Nat \ {0} : k % m <= k OBVIOUS
<1> QED BY <1>1, <1>2

(* A timer that runs out.                                                  *)
LEMMA ExpireLeaves ==
  ASSUME NEW x, SafeSession(x), x.timer > 0, Quiet(x)
  PROVE  Leaves(x, Expire(x)) /\ Quiet(Expire(x))
<1>1. x \in SessionType /\ x.life = "live"
  BY DEF SafeSession, TimerOK
<1>2. Leaves(x, Cancel(x)) /\ Quiet(Cancel(x)) BY <1>1, CancelLeaves
<1>3. Cancel(x) \in SessionType
  <2>1. Abort(x) \in SessionType BY <1>1, AbortType
  <2> DEFINE a == Abort(x)
  <2> HIDE DEF a
  <2>2. /\ [a EXCEPT !.canceled = TRUE] \in SessionType
        /\ [a EXCEPT !.life = "gone"] \in SessionType
    BY <2>1 DEF a, SessionType
  <2> QED BY <2>2 DEF Cancel, Erase, a
<1> DEFINE c == Cancel(x)
<1> HIDE DEF c
<1>4. Leaves(x, [c EXCEPT !.timer = 0]) /\ Quiet([c EXCEPT !.timer = 0])
  BY <1>2, <1>3 DEF c, Leaves, Quiet, SessionType
<1> QED BY <1>4 DEF Expire, c

(* transceiver::async_send and its content handler leave what was received *)
(* alone.                                                                  *)
LEMMA SendHandlerLeaves ==
  ASSUME NEW x, SafeSession(x), x.life = "live", x.fault = "none",
         x.send \in Completed
  PROVE  Leaves(x, SendHandler(x)) /\ Quiet(SendHandler(x))
<1> DEFINE y == [x EXCEPT !.sbusy = FALSE, !.send = "idle"]
           z == [y EXCEPT !.sbusy = TRUE, !.reader = "echo"]
<1>a. x \in SessionType /\ TimerOK(x) /\ ChainOK(x) /\ CoverOK(x) /\ CountOK(x)
  BY DEF SafeSession
<1>b. "idle" \in Op BY DEF Op
<1>1. y \in SessionType BY <1>a, <1>b DEF SessionType
<1>2. /\ ~x.wbusy /\ x.wait = "idle" /\ x.header = "idle"
      /\ x.reader = "none" /\ x.timer = 0
  BY <1>a DEF TimerOK, ChainOK, Completed, SessionType
<1>3. /\ y.buf = x.buf /\ y.off = x.off /\ y.got = x.got /\ y.lack = x.lack
      /\ y.overlap = x.overlap /\ y.life = x.life /\ ~y.sbusy
      /\ y.wait = "idle" /\ y.header = "idle" /\ y.body = x.body
      /\ y.canceled = x.canceled /\ y.sound = x.sound
  BY <1>a, <1>2 DEF SessionType
<1>4. ~x.canceled => Running(y)
  BY <1>a, <1>1, <1>2 DEF Running, SessionType, CoverOK, TimerOK
<1> HIDE DEF y
<1>5. Leaves(y, z) /\ Quiet(z) BY <1>1, <1>3 DEF Leaves, Quiet, SessionType
<1> HIDE DEF z
<1>6. SendHandler(x) \in {Settle(y), Cancel(y), NextRequest(y),
                          SendContent(y), z}
      /\ (SendHandler(x) # Settle(y) => ~x.canceled)
  BY <1>a DEF SendHandler, SessionType, Replies, Completed, y, z
<1>7. Quiet(y) BY <1>3 DEF Quiet
<1>8. \A w : Leaves(y, w) => Leaves(x, w) BY <1>2, <1>3 DEF Leaves
<1> QED
  BY <1>1, <1>3, <1>4, <1>5, <1>6, <1>7, <1>8, CancelLeaves, AwaitLeaves,
     SendLeaves

(* transceiver::_content_receiving_handler, when the read has ended with   *)
(* the whole body or without it.                                           *)
LEMMA BodyHandlerLeaves ==
  ASSUME NEW x, SafeSession(x), x.life = "live", Quiet(x),
         x.body \in Completed, x.body = "ok" /\ ~x.overlap => x.lack = 0
  PROVE  Leaves(x, BodyHandler(x)) /\ Quiet(BodyHandler(x))
<1> DEFINE y == [x EXCEPT !.rbusy = FALSE, !.body = "idle"]
           z == [y EXCEPT !.rbusy = TRUE, !.body = "pending"]
<1>a. x \in SessionType /\ ChainOK(x) BY DEF SafeSession
<1>b. "idle" \in Op BY DEF Op
<1>1. y \in SessionType BY <1>a, <1>b DEF SessionType
<1>2. /\ y.buf = x.buf /\ y.off = x.off /\ y.got = x.got /\ y.lack = x.lack
      /\ y.overlap = x.overlap /\ y.life = x.life /\ y.sbusy = x.sbusy
      /\ y.wait = x.wait /\ y.header = x.header /\ y.body = "idle"
      /\ y.canceled = x.canceled /\ y.reader = x.reader
      /\ y.sound = x.sound
  BY <1>a DEF SessionType
<1>3. Quiet(y) BY <1>2 DEF Quiet
<1>4. y.reader # "none" => y.wait = "idle" /\ y.header = "idle"
  BY <1>a, <1>2 DEF ChainOK, SessionType
<1> HIDE DEF y
<1>5. /\ z.buf = y.buf /\ z.off = y.off /\ z.got = y.got /\ z.lack = y.lack
      /\ z.overlap = y.overlap /\ z.life = y.life /\ z.sbusy = y.sbusy
      /\ z.wait = y.wait /\ z.header = y.header /\ z.canceled = y.canceled
      /\ z.sound = y.sound
  BY <1>1 DEF SessionType
<1> HIDE DEF z
<1>6. \/ BodyHandler(x) \in {Settle(y), FailReader(y), CallReader(y)}
      \/ BodyHandler(x) = z /\ x.overlap
  BY <1>a, <1>2 DEF BodyHandler, ContentReceived, Completed, SessionType, y, z
<1>7. \A w : Leaves(y, w) => Leaves(x, w)
  BY <1>2 DEF Leaves, Completed
<1>8. x.overlap => Leaves(x, z) /\ Quiet(z)
  BY <1>2, <1>3, <1>5 DEF Leaves, Quiet
<1>9. Leaves(y, Settle(y)) /\ Quiet(Settle(y)) BY <1>1, <1>2, <1>3, CancelLeaves
<1>10. /\ Leaves(y, CallReader(y)) /\ Quiet(CallReader(y))
       /\ Leaves(y, FailReader(y)) /\ Quiet(FailReader(y))
  BY <1>1, <1>2, <1>3, <1>4, ReaderLeaves
<1> QED BY <1>6, <1>7, <1>8, <1>9, <1>10

-----------------------------------------------------------------------------
(* Streams.                                                                *)

(* Sequences of units are joined in any order.                             *)
LEMMA Joins ==
  \A a, b, c \in Seq(Units) : (a \o b) \o c = a \o (b \o c)
BY ConcatAssociative

(* Dropping the front of the first of two sequences.                       *)
LEMMA DropFront ==
  ASSUME NEW S, NEW a \in Seq(S), NEW b \in Seq(S), NEW k \in 0 .. Len(a)
  PROVE  /\ SubSeq(a, k + 1, Len(a)) \in Seq(S)
         /\ SubSeq(a, k + 1, Len(a)) \o b = SubSeq(a \o b, k + 1, Len(a \o b))
<1> DEFINE d == SubSeq(a, k + 1, Len(a))
           c == a \o b
           e == SubSeq(c, k + 1, Len(c))
<1>1. /\ d \in Seq(S) /\ Len(d) = Len(a) - k
      /\ \A i \in 1 .. Len(d) : d[i] = a[k + i]
  <2>1. \A i \in k + 1 .. Len(a) : a[i] \in S OBVIOUS
  <2>2. /\ d \in Seq(S)
        /\ Len(d) = IF k + 1 <= Len(a) THEN Len(a) - (k + 1) + 1 ELSE 0
        /\ \A i \in 1 .. Len(a) - (k + 1) + 1 : d[i] = a[k + 1 + i - 1]
    BY <2>1, SubSeqProperties
  <2> QED BY <2>2
<1>2. /\ c \in Seq(S) /\ Len(c) = Len(a) + Len(b)
      /\ \A i \in 1 .. Len(c) :
            c[i] = IF i <= Len(a) THEN a[i] ELSE b[i - Len(a)]
  BY ConcatProperties
<1> HIDE DEF c
<1>3. /\ e \in Seq(S) /\ Len(e) = Len(c) - k
      /\ \A i \in 1 .. Len(e) : e[i] = c[k + i]
  <2>1. \A i \in k + 1 .. Len(c) : c[i] \in S BY <1>2
  <2>2. /\ e \in Seq(S)
        /\ Len(e) = IF k + 1 <= Len(c) THEN Len(c) - (k + 1) + 1 ELSE 0
        /\ \A i \in 1 .. Len(c) - (k + 1) + 1 : e[i] = c[k + 1 + i - 1]
    BY <1>2, <2>1, SubSeqProperties
  <2> QED BY <1>2, <2>2
<1> HIDE DEF d, e
<1>4. /\ d \o b \in Seq(S) /\ Len(d \o b) = Len(d) + Len(b)
      /\ \A i \in 1 .. Len(d) + Len(b) :
            (d \o b)[i] = IF i <= Len(d) THEN d[i] ELSE b[i - Len(d)]
  BY <1>1, ConcatProperties
<1>5. Len(d \o b) = Len(e) BY <1>1, <1>2, <1>3, <1>4
<1>6. ASSUME NEW i \in 1 .. Len(d \o b) PROVE (d \o b)[i] = e[i]
  <2>1. i \in 1 .. Len(e) /\ k + i \in 1 .. Len(c) /\ e[i] = c[k + i]
    BY <1>1, <1>2, <1>3, <1>4
  <2>2. c[k + i] = IF k + i <= Len(a) THEN a[k + i] ELSE b[k + i - Len(a)]
    BY <1>2, <2>1
  <2>3. (d \o b)[i] = IF i <= Len(d) THEN d[i] ELSE b[i - Len(d)] BY <1>4
  <2>4. CASE i <= Len(d) BY <1>1, <2>1, <2>2, <2>3, <2>4
  <2>5. CASE i > Len(d)
    <3>1. i - Len(d) = k + i - Len(a) BY <1>1
    <3> QED BY <1>1, <2>1, <2>2, <2>3, <2>5, <3>1
  <2> QED BY <1>1, <2>1, <2>4, <2>5
<1>7. d \o b = e BY <1>3, <1>4, <1>5, <1>6, SeqEqual
<1> QED BY <1>1, <1>7 DEF c, d, e

(* The same, for sequences of units.                                       *)
LEMMA DropUnits ==
  \A a, b \in Seq(Units) : \A k \in 0 .. Len(a) :
     /\ SubSeq(a, k + 1, Len(a)) \in Seq(Units)
     /\ SubSeq(a, k + 1, Len(a)) \o b = SubSeq(a \o b, k + 1, Len(a \o b))
BY DropFront

(* A body is a sequence of units; what is left of it is one, too.          *)
LEMMA BodiesType ==
  ASSUME NEW n \in Nat
  PROVE  /\ Bodies(n) \in Seq(Units) /\ Len(Bodies(n)) = n
         /\ \A k \in 0 .. n : SubSeq(Bodies(n), k + 1, n) = Bodies(n - k)
<1>1. Bodies(n) \in Seq(Units) /\ Len(Bodies(n)) = n
  BY DEF Bodies, Units
<1>2. \A i \in 1 .. n : Bodies(n)[i] = Body BY DEF Bodies
<1>3. ASSUME NEW k \in 0 .. n
      PROVE  SubSeq(Bodies(n), k + 1, n) = Bodies(n - k)
  <2> DEFINE d == SubSeq(Bodies(n), k + 1, n)
  <2>1. \A i \in k + 1 .. n : Bodies(n)[i] \in Units BY <1>2 DEF Units
  <2>2. /\ d \in Seq(Units)
        /\ Len(d) = IF k + 1 <= n THEN n - (k + 1) + 1 ELSE 0
        /\ \A i \in 1 .. n - (k + 1) + 1 : d[i] = Bodies(n)[k + 1 + i - 1]
    BY <2>1, SubSeqProperties
  <2>3. Len(d) = n - k /\ \A i \in 1 .. n - k : d[i] = Body BY <1>2, <2>2
  <2>4. /\ Bodies(n - k) \in Seq(Units) /\ Len(Bodies(n - k)) = n - k
        /\ \A i \in 1 .. n - k : Bodies(n - k)[i] = Body
    BY DEF Bodies, Units
  <2> HIDE DEF d
  <2>5. d = Bodies(n - k) BY <2>2, <2>3, <2>4, SeqEqual
  <2> QED BY <2>5 DEF d
<1> QED BY <1>1, <1>3

(* What is left of a stream is a sequence of units.                        *)
LEMMA RestsType == Rests \subseteq Seq(Units)
<1> SUFFICES ASSUME NEW q \in Rests PROVE q \in Seq(Units)
  OBVIOUS
<1>1. PICK stream \in Streams : q \in Suffixes(stream) BY DEF Rests
<1>2. stream \in Seq(Units) BY StreamAssumption
<1>3. CASE q = <<>> BY <1>3
<1>4. ASSUME NEW l \in 1 .. Len(stream), q = SubSeq(stream, l, Len(stream))
      PROVE  q \in Seq(Units)
  <2>1. \A i \in l .. Len(stream) : stream[i] \in Units BY <1>2
  <2>2. Len(stream) \in Int BY <1>2
  <2> QED BY <1>4, <2>1, <2>2, SubSeqProperties
<1> QED BY <1>1, <1>3, <1>4 DEF Suffixes

(* If the buffered data is what is left of a stream and a header ends in   *)
(* it, the first header is that of a whole request, and its body and whole *)
(* requests follow.                                                        *)
LEMMA Begins ==
  ASSUME NEW buf \in Seq(Units), NEW rest \in Seq(Units), buf \o rest \in Rests,
         NEW n \in Ends(buf), \A m \in Ends(buf) : n <= m
  PROVE  /\ n = 2 /\ Len(buf) >= 2 /\ SubSeq(buf, 1, 2) = <<Part, buf[2]>>
         /\ buf[2] \in Requests
         /\ SubSeq(buf, 3, Len(buf)) \in Seq(Units)
         /\ \E more \in Rests :
               SubSeq(buf, 3, Len(buf)) \o rest = Bodies(buf[2].body) \o more
<1> DEFINE q == buf \o rest
<1>1. /\ q \in Seq(Units) /\ Len(q) = Len(buf) + Len(rest)
      /\ \A i \in 1 .. Len(buf) : q[i] = buf[i]
  BY ConcatProperties
<1>2. n \in 1 .. Len(buf) /\ buf[n] \in Requests BY DEF Ends
<1>3. q # <<>> BY <1>1, <1>2
<1>4. PICK r \in Requests, more \in Rests : q = Wire(r) \o more
  BY <1>3, RestsAssumption
<1>5. r.body \in Nat /\ r \in Units /\ Part \in Units
  BY RequestAssumption DEF RequestType, Units
<1>6. more \in Seq(Units) BY RestsType
<1> DEFINE head == <<Part, r>>
           body == Bodies(r.body)
<1>7. Wire(r) = head \o body BY DEF Wire, Bodies
<1>8. head \in Seq(Units) /\ Len(head) = 2 /\ head[1] = Part /\ head[2] = r
  BY <1>5
<1>9. body \in Seq(Units) BY <1>5, BodiesType
<1> HIDE DEF head, body, q
<1>10. q = head \o (body \o more)
  <2>a. head \in Seq(Units) BY <1>8
  <2>b. body \in Seq(Units) BY <1>9
  <2>c. more \in Seq(Units) BY <1>6
  <2>1. (head \o body) \o more = head \o (body \o more)
    BY <2>a, <2>b, <2>c, Joins, SMTT(30)
  <2> QED BY <1>4, <1>7, <2>1
<1>11. body \o more \in Seq(Units) BY <1>6, <1>9, ConcatProperties
<1>12. q[1] = Part /\ q[2] = r /\ Len(q) >= 2
  <2> DEFINE tail == body \o more
  <2> HIDE DEF tail
  <2>1. tail \in Seq(Units) BY <1>11 DEF tail
  <2>2. /\ Len(head \o tail) = Len(head) + Len(tail)
        /\ \A i \in 1 .. Len(head) + Len(tail) :
              (head \o tail)[i] = IF i <= Len(head) THEN head[i]
                                                  ELSE tail[i - Len(head)]
    BY <1>8, <2>1, ConcatProperties
  <2>3. q = head \o tail /\ Len(tail) \in Nat BY <1>10, <2>1 DEF tail
  <2> QED BY <1>8, <2>2, <2>3
<1>13. n # 1
  <2>1. SUFFICES ASSUME n = 1 PROVE FALSE OBVIOUS
  <2>2. buf[1] = Part BY <1>1, <1>2, <1>12, <2>1
  <2> QED BY <1>2, <2>1, <2>2, RequestAssumption
<1>14. Len(buf) >= 2 /\ buf[1] = Part /\ buf[2] = r
  BY <1>1, <1>2, <1>12, <1>13
<1>15. n = 2
  <2>1. 2 \in Ends(buf) BY <1>14 DEF Ends
  <2> QED BY <1>2, <1>13, <2>1
<1>16. SubSeq(buf, 1, 2) = <<Part, buf[2]>>
  <2> DEFINE d == SubSeq(buf, 1, 2)
  <2>1. \A i \in 1 .. 2 : buf[i] \in Units BY <1>5, <1>14
  <2>2. d \in Seq(Units) /\ Len(d) = 2 /\ \A i \in 1 .. 2 : d[i] = buf[i]
    BY <2>1, SubSeqProperties
  <2> HIDE DEF d
  <2>3. d[1] = head[1] /\ d[2] = head[2] BY <1>8, <1>14, <2>2
  <2>4. \A i \in 1 .. Len(d) : d[i] = head[i] BY <2>2, <2>3
  <2>5. d = head BY <1>8, <2>2, <2>4, SeqEqual
  <2> QED BY <1>14, <2>5 DEF d, head
<1>17. /\ SubSeq(buf, 3, Len(buf)) \in Seq(Units)
       /\ SubSeq(buf, 3, Len(buf)) \o rest = SubSeq(q, 3, Len(q))
  <2>1. PICK k \in 0 .. Len(buf) : k = 2 BY <1>14
  <2>2. /\ SubSeq(buf, k + 1, Len(buf)) \in Seq(Units)
        /\ SubSeq(buf, k + 1, Len(buf)) \o rest
              = SubSeq(buf \o rest, k + 1, Len(buf \o rest))
    BY DropUnits
  <2>3. k + 1 = 3 BY <2>1
  <2> QED BY <2>2, <2>3 DEF q
<1>18. SubSeq(q, 3, Len(q)) = SubSeq(head, 3, Len(head)) \o (body \o more)
  <2>1. PICK k \in 0 .. Len(head) : k = 2 BY <1>8
  <2> DEFINE tail == body \o more
  <2> HIDE DEF tail
  <2>2. tail \in Seq(Units) BY <1>11 DEF tail
  <2>3. SubSeq(head, k + 1, Len(head)) \o tail
          = SubSeq(head \o tail, k + 1, Len(head \o tail))
    BY <1>8, <2>2, DropUnits
  <2>4. k + 1 = 3 BY <2>1
  <2> QED BY <1>10, <2>3, <2>4 DEF tail
<1>19. SubSeq(head, 3, Len(head)) = <<>> BY <1>8, SubSeqEmpty
<1>20. SubSeq(q, 3, Len(q)) = body \o more
  BY <1>11, <1>18, <1>19, ConcatEmptySeq
<1> QED BY <1>14, <1>15, <1>16, <1>17, <1>20 DEF body

(* What is read of a body comes off what is lacking.                       *)
LEMMA Shorter ==
  ASSUME NEW a \in Seq(Units), NEW rest \in Seq(Units), NEW n \in Nat,
         NEW k \in 0 .. Len(a), k <= n, NEW q \in Rests,
         a \o rest = Bodies(n) \o q
  PROVE  SubSeq(a, k + 1, Len(a)) \o rest = Bodies(n - k) \o q
<1> DEFINE b == Bodies(n)
<1>1. b \in Seq(Units) /\ Len(b) = n /\ SubSeq(b, k + 1, n) = Bodies(n - k)
  <2>1. k \in 0 .. n OBVIOUS
  <2>2. /\ Bodies(n) \in Seq(Units) /\ Len(Bodies(n)) = n
        /\ \A j \in 0 .. n : SubSeq(Bodies(n), j + 1, n) = Bodies(n - j)
    BY BodiesType
  <2> QED BY <2>1, <2>2
<1>2. q \in Seq(Units) BY RestsType
<1> HIDE DEF b
<1>3. SubSeq(a, k + 1, Len(a)) \o rest
        = SubSeq(a \o rest, k + 1, Len(a \o rest))
  BY DropFront
<1>4. SubSeq(b, k + 1, Len(b)) \o q = SubSeq(b \o q, k + 1, Len(b \o q))
  <2>1. k \in 0 .. Len(b) BY <1>1
  <2> QED BY <1>1, <1>2, <2>1, DropFront
<1> QED BY <1>1, <1>3, <1>4 DEF b

(* Some element of a set of numbers is the least.                          *)
LEMMA LeastOf ==
  ASSUME NEW S, S \subseteq Nat, S # {}
  PROVE  \E n \in S : \A m \in S : n <= m
<1> DEFINE R == OpToRel(<, Nat)
<1>1. IsWellFoundedOn(R, Nat) BY NatLessThanWellFounded
<1>2. PICK n \in S : \A m \in S : <<m, n>> \notin R
  BY <1>1, WFMin, Zenon
<1>3. \A m \in S : ~(m < n) BY <1>2 DEF OpToRel
<1> QED BY <1>3

-----------------------------------------------------------------------------
(* A header is complete.                                                   *)

(* What transceiver::_receive_content makes of the received data.          *)
LEMMA ReceiveContentData ==
  ASSUME NEW x, Running(x), NEW n \in Nat
  PROVE  LET z    == ReceiveContent(x, n)
             take == IF Len(x.buf) < n THEN Len(x.buf) ELSE n
         IN  /\ take \in 0 .. Len(x.buf) /\ take <= n
             /\ z.buf = SubSeq(x.buf, take + 1, Len(x.buf))
             /\ z.off <= x.off + take
             /\ z.lack = IF n = 0 THEN x.lack ELSE n - take
             /\ z.body = IF n = 0 THEN x.body
                         ELSE IF n > take THEN "pending" ELSE "idle"
             /\ z.got = x.got /\ z.overlap = x.overlap /\ z.sound = x.sound
<1> DEFINE z == ReceiveContent(x, n)
           take == IF Len(x.buf) < n THEN Len(x.buf) ELSE n
<1>1. /\ x \in SessionType /\ x.buf \in Seq(Units) /\ Len(x.buf) \in Nat
      /\ x.off \in Nat /\ BlockSize \in Nat \ {0}
  BY BlockAssumption DEF Running, SessionType
<1>2. take \in 0 .. Len(x.buf) /\ take <= n /\ take \in Nat BY <1>1
<1>3. CASE n = 0
  <2>1. z = x /\ take = 0 BY <1>1, <1>3 DEF ReceiveContent
  <2> HIDE DEF take
  <2>2. SubSeq(x.buf, take + 1, Len(x.buf)) = x.buf
    <3>1. SubSeq(x.buf, 1, Len(x.buf)) = x.buf BY <1>1, SubSeqFull
    <3>2. take + 1 = 1 BY <2>1
    <3> QED BY <3>1, <3>2
  <2>3. /\ take \in 0 .. Len(x.buf) /\ take <= n
        /\ z.buf = SubSeq(x.buf, take + 1, Len(x.buf))
        /\ z.off <= x.off + take
        /\ z.lack = x.lack /\ z.body = x.body
        /\ z.got = x.got /\ z.overlap = x.overlap /\ z.sound = x.sound
    BY <1>1, <1>2, <2>1, <2>2
  <2> QED BY <1>3, <2>3 DEF take
<1>4. CASE n # 0
  <2> DEFINE w == [Consume(x, take) EXCEPT !.sbusy = TRUE, !.lack = n - take]
             v == [w EXCEPT !.rbusy = FALSE, !.body = "idle"]
  <2> HIDE DEF take
  <2>1. /\ w.buf = SubSeq(x.buf, take + 1, Len(x.buf))
        /\ w.off = (x.off + take) % BlockSize
        /\ w.got = x.got /\ w.overlap = x.overlap /\ w.lack = n - take
        /\ w.canceled = x.canceled /\ w.reader = x.reader
        /\ w.sound = x.sound
    BY <1>1 DEF Consume, SessionType
  <2>2. w = [x EXCEPT !.buf = SubSeq(x.buf, take + 1, Len(x.buf)),
                      !.off = (x.off + take) % BlockSize,
                      !.sbusy = TRUE, !.lack = n - take]
    BY <1>1 DEF Consume, SessionType
  <2>3. /\ v.buf = w.buf /\ v.off = w.off /\ v.got = w.got /\ v.lack = w.lack
        /\ v.overlap = w.overlap /\ v.body = "idle" /\ v.reader = w.reader
        /\ v.sound = w.sound
        /\ [v EXCEPT !.rbusy = TRUE, !.body = "pending"].body = "pending"
        /\ \A f \in {"buf", "off", "got", "lack", "overlap", "sound"} :
              [v EXCEPT !.rbusy = TRUE, !.body = "pending"][f] = v[f]
    BY <1>1, <2>2 DEF SessionType
  <2>4. z = ContentReceived(w, "ok")
    BY <1>4 DEF ReceiveContent, take
  <2>5. ~w.canceled /\ w.reader = "none" BY <2>1 DEF Running
  <2> HIDE DEF w
  <2>6. z = IF v.lack > 0 THEN [v EXCEPT !.rbusy = TRUE, !.body = "pending"]
                          ELSE v
    BY <2>3, <2>4, <2>5 DEF ContentReceived, CallReader
  <2> HIDE DEF v, z
  <2>7. (x.off + take) % BlockSize <= x.off + take
    <3>1. x.off + take \in Nat BY <1>1, <1>2
    <3> QED BY <1>1, <3>1
  <2>8. /\ z.buf = v.buf /\ z.off = v.off /\ z.got = v.got /\ z.lack = v.lack
        /\ z.overlap = v.overlap /\ z.sound = v.sound
        /\ z.body = IF v.lack > 0 THEN "pending" ELSE "idle"
    BY <2>3, <2>6
  <2>9. v.lack > 0 <=> n > take BY <1>2, <2>1, <2>3
  <2> QED BY <1>2, <1>4, <2>1, <2>3, <2>7, <2>8, <2>9 DEF z, take
<1> QED BY <1>3, <1>4

(* Serving a request leaves the data alone.                                *)
LEMMA ServeLeaves ==
  ASSUME NEW x, Running(x), x.asked = x.answered, NEW r \in RequestType
  PROVE  Leaves(x, Serve(x, r)) /\ Quiet(Serve(x, r))
<1> DEFINE y == Titled(x, r)
           z == [y EXCEPT !.reader = "app"]
<1>1. x \in SessionType /\ x.asked \in Nat BY DEF Running, SessionType
<1>2. y \in SessionType BY TitledRuns DEF Running
<1>3. /\ y.buf = x.buf /\ y.off = x.off /\ y.got = x.got /\ y.lack = x.lack
      /\ y.overlap = x.overlap /\ y.life = "live" /\ y.sbusy = x.sbusy
      /\ y.wait = "idle" /\ y.header = "idle" /\ y.body = x.body
      /\ y.canceled = x.canceled /\ x.life = "live" /\ x.header = "idle"
      /\ y.sound = x.sound
  <2>1. x.life = "live" /\ x.wait = "idle" /\ x.header = "idle"
    BY DEF Running
  <2> QED BY <1>1, <2>1 DEF Titled, SessionType
<1> HIDE DEF y
<1>4. Leaves(y, z) /\ Quiet(z) BY <1>2, <1>3 DEF Leaves, Quiet, SessionType
<1> HIDE DEF z
<1>5. \A out \in Outs \cup {"echo"} :
         Leaves(y, Respond(y, out)) /\ Quiet(Respond(y, out))
  BY <1>2, <1>3, SendLeaves
<1>8. {Outcome(r), "echo", "bare"} \subseteq Outs \cup {"echo"}
  BY DEF Outcome, RequestType, Outs
<1>6. Serve(x, r) \in {Respond(y, Outcome(r)), Respond(y, "echo"),
                       Respond(y, "bare"), z}
  BY ServeCases DEF y, z
<1>7. \A w : Leaves(y, w) => Leaves(x, w) BY <1>3 DEF Leaves
<1> QED BY <1>4, <1>5, <1>6, <1>7, <1>8

(* A header that is complete is that of a whole request, what is in the    *)
(* buffer of its body is taken, and what is left fits.                     *)
LEMMA DispatchStream ==
  ASSUME NEW rest \in Seq(Units), NEW dry \in BOOLEAN, NEW mute \in BOOLEAN,
         NEW x, Running(x), x.asked = x.answered, FrameOK(x, rest, dry, mute),
         x.got = <<>>, ~x.overlap => x.body = "idle",
         NEW n \in Ends(x.buf), \A m \in Ends(x.buf) : n <= m,
         ((x.off + n) % BlockSize) + (Len(x.buf) - n) <= BlockSize
  PROVE  StreamOK(Dispatch(x, n), rest, dry, mute)
<1> DEFINE r == x.buf[n]
           more == SubSeq(x.buf, n + 1, Len(x.buf))
           whole == SubSeq(x.buf, 1, n) = <<Part, r>>
<1>1. /\ x \in SessionType /\ x.buf \in Seq(Units) /\ x.off \in Nat
      /\ x.lack \in Nat /\ x.life = "live" /\ ~x.canceled /\ x.sound
      /\ Len(x.buf) \in Nat /\ BlockSize \in Nat \ {0}
  BY BlockAssumption DEF Running, SessionType
<1>2. n \in 1 .. Len(x.buf) /\ r \in Requests BY <1>1 DEF Ends
<1>3. r \in RequestType /\ r.body \in Nat
  BY <1>2, RequestAssumption DEF RequestType
<1>4. ~x.overlap =>
        /\ x.lack = 0 /\ ~mute /\ whole
        /\ \E q \in Rests : more \o rest = Bodies(r.body) \o q
  <2> SUFFICES ASSUME ~x.overlap
               PROVE  /\ x.lack = 0 /\ ~mute /\ whole
                      /\ \E q \in Rests : more \o rest = Bodies(r.body) \o q
    OBVIOUS
  <2>1. x.buf # <<>> BY <1>1, <1>2
  <2>2. x.lack = 0 /\ ~mute BY <1>1, <2>1 DEF FrameOK
  <2>3. PICK q \in Rests : (x.buf \o <<>>) \o rest = Bodies(0) \o q
    BY <1>1, <2>2 DEF FrameOK, Fits
  <2>4. x.buf \o rest \in Rests
    <3>1. x.buf \o <<>> = x.buf BY <1>1, ConcatEmptySeq
    <3>2. Bodies(0) \o q = q
      <4>1. Bodies(0) = <<>> BY DEF Bodies
      <4>2. q \in Seq(Units) BY RestsType
      <4> QED BY <4>1, <4>2, ConcatEmptySeq
    <3> QED BY <2>3, <3>1, <3>2
  <2> DEFINE buf == x.buf
  <2> HIDE DEF buf
  <2>5. /\ n = 2 /\ SubSeq(buf, 1, 2) = <<Part, buf[2]>>
        /\ \E m \in Rests :
              SubSeq(buf, 3, Len(buf)) \o rest = Bodies(buf[2].body) \o m
    <3>1. /\ buf \in Seq(Units) /\ buf \o rest \in Rests
          /\ n \in Ends(buf) /\ \A m \in Ends(buf) : n <= m
      BY <1>1, <2>4 DEF buf
    <3> QED BY <3>1, Begins
  <2>6. n + 1 = 3 BY <2>5
  <2> QED BY <2>2, <2>5, <2>6 DEF buf
<1>5. CASE ~whole
  <2>1. Dispatch(x, n) = [x EXCEPT !.life = "garbled"] BY <1>5 DEF Dispatch
  <2>2. x.overlap BY <1>4, <1>5
  <2>3. /\ Dispatch(x, n).life = "garbled"
        /\ Dispatch(x, n).overlap = x.overlap
    BY <1>1, <2>1 DEF SessionType
  <2> QED BY <2>2, <2>3 DEF StreamOK, HeaderOK, FrameOK
<1>8. more \in Seq(Units) /\ Len(more) = Len(x.buf) - n
  <2>1. \A i \in n + 1 .. Len(x.buf) : x.buf[i] \in Units BY <1>1, <1>2
  <2>2. n + 1 \in Int /\ Len(x.buf) \in Int BY <1>1, <1>2
  <2>3. /\ more \in Seq(Units)
        /\ Len(more) = IF n + 1 <= Len(x.buf)
                       THEN Len(x.buf) - (n + 1) + 1 ELSE 0
    BY <2>1, <2>2, SubSeqProperties
  <2> QED BY <1>1, <1>2, <2>3
<1>7. CASE whole /\ ~r.sound
  <2> DEFINE y == Consume(x, n)
             z == Throw([y EXCEPT !.sound = FALSE])
  <2>1. Dispatch(x, n) = z BY <1>7 DEF Dispatch
  <2>2. y \in SessionType BY <1>1, <1>2, ConsumeRuns DEF Running
  <2>3. /\ y.buf = more /\ y.off = (x.off + n) % BlockSize
        /\ y.got = <<>> /\ y.life = "live"
        /\ y.wait = x.wait /\ y.header = x.header
    BY <1>1 DEF Consume, SessionType
  <2> HIDE DEF y
  <2>4. /\ z.buf = more /\ z.off = (x.off + n) % BlockSize
        /\ z.got = <<>> /\ z.life = "live" /\ ~z.sound
        /\ z.wait = "idle" /\ z.header = "idle"
    BY <2>2, <2>3 DEF Throw, SessionType, Running
  <2> HIDE DEF z
  <2>5. z.off + Len(z.buf) <= BlockSize BY <2>4, <1>8
  <2> QED BY <2>1, <2>4, <2>5 DEF StreamOK, HeaderOK, FrameOK, Quiet
<1>6. CASE whole /\ r.sound
  <2> DEFINE y == Consume(x, n)
             z == ReceiveContent(y, r.body)
  <2>1. Dispatch(x, n) = Serve(z, r) BY <1>6 DEF Dispatch
  <2>2. /\ y.buf = more /\ y.off = (x.off + n) % BlockSize
        /\ y.got = <<>> /\ y.lack = x.lack
    BY <1>1 DEF Consume, SessionType
  <2>3. /\ Running(y) /\ y.asked = y.answered
        /\ y.body = x.body /\ y.overlap = x.overlap
    BY <1>1, <1>2, ConsumeRuns
  <2> HIDE DEF y
  <2> DEFINE take == IF Len(y.buf) < r.body THEN Len(y.buf) ELSE r.body
  <2>4. /\ Running(z) /\ z.asked = z.answered
    BY <1>3, <2>3, ReceiveContentRuns
  <2>5. /\ take \in 0 .. Len(y.buf) /\ take <= r.body
        /\ z.buf = SubSeq(y.buf, take + 1, Len(y.buf))
        /\ z.off <= y.off + take
        /\ z.lack = IF r.body = 0 THEN y.lack ELSE r.body - take
        /\ z.body = IF r.body = 0 THEN y.body
                    ELSE IF r.body > take THEN "pending" ELSE "idle"
        /\ z.got = y.got /\ z.overlap = y.overlap
    BY <1>3, <2>3, ReceiveContentData
  <2>6. Leaves(z, Serve(z, r)) /\ Quiet(Serve(z, r))
    BY <1>3, <2>4, ServeLeaves
  <2>7. z \in SessionType /\ z.life = "live" /\ z.wait = "idle" /\ z.header = "idle"
    BY <2>4 DEF Running
  <2> HIDE DEF z
  <2>9. HeaderOK(z)
    <3>1. Len(z.buf) = Len(y.buf) - take
      <4> HIDE DEF take, more
      <4>1. \A i \in take + 1 .. Len(y.buf) : y.buf[i] \in Units
        BY <2>2, <2>5, <1>8
      <4>2. take + 1 \in Int /\ Len(y.buf) \in Int BY <2>2, <2>5, <1>8
      <4>3. Len(z.buf) = IF take + 1 <= Len(y.buf)
                         THEN Len(y.buf) - (take + 1) + 1 ELSE 0
        BY <2>5, <4>1, <4>2, SubSeqProperties
      <4> QED BY <2>2, <2>5, <1>8, <4>3
    <3>2. z.off \in Nat /\ y.off \in Nat
      BY <2>3, <2>7 DEF Running, SessionType
    <3>3. z.off + Len(z.buf) <= BlockSize
      <4> HIDE DEF take, more
      <4>1. y.off + Len(y.buf) <= BlockSize BY <2>2, <1>8
      <4>2. Len(y.buf) \in Nat /\ take \in Nat BY <2>2, <2>5, <1>8
      <4>3. \A a, b, d, e \in Nat :
               a <= b + e /\ b + d <= BlockSize => a + (d - e) <= BlockSize
        BY <1>1
      <4>4. z.off <= y.off + take BY <2>5
      <4> QED BY <3>1, <3>2, <4>1, <4>2, <4>3, <4>4
    <3> QED BY <2>2, <2>5, <2>7, <3>3 DEF HeaderOK, Quiet
  <2>10. FrameOK(z, rest, dry, mute)
    <3> SUFFICES ASSUME ~x.overlap
                 PROVE  FrameOK(z, rest, dry, mute)
      BY <2>3, <2>5, <2>7 DEF FrameOK
    <3>1. PICK q \in Rests : more \o rest = Bodies(r.body) \o q BY <1>4
    <3> HIDE DEF take, r, more
    <3>2. SubSeq(more, take + 1, Len(more)) \o rest = Bodies(r.body - take) \o q
      <4>1. take \in 0 .. Len(more) /\ take <= r.body BY <2>2, <2>5
      <4> QED BY <1>3, <1>8, <3>1, <4>1, Shorter
    <3>3. z.lack = r.body - take /\ x.lack = 0
      BY <1>3, <1>4, <2>2, <2>5, <1>8
    <3>4. z.buf \in Seq(Units) /\ z.buf \o <<>> = z.buf
      BY <2>7, ConcatEmptySeq DEF SessionType
    <3>5. Fits(z, rest) BY <2>2, <2>5, <3>2, <3>3, <3>4 DEF Fits
    <3>6. z.lack > 0 => z.buf = <<>>
      <4>1. SUFFICES ASSUME z.lack > 0 PROVE z.buf = <<>> OBVIOUS
      <4>2. take = Len(y.buf) BY <1>3, <2>2, <1>8, <3>3, <4>1 DEF take
      <4>3. Len(y.buf) \in Int /\ Len(y.buf) < take + 1 BY <2>2, <1>8, <4>2
      <4> QED BY <2>5, <4>2, <4>3, SubSeqEmpty
    <3>7. z.lack > 0 => z.body = "pending"
      BY <1>3, <2>2, <2>5, <1>8, <3>3
    <3>8. z.body # "ok" BY <2>3, <2>5
    <3> QED BY <1>4, <2>2, <2>5, <2>7, <3>5, <3>6, <3>7, <3>8 DEF FrameOK
  <2> QED BY <2>1, <2>6, <2>7, <2>9, <2>10, LeavesStream DEF StreamOK
<1> QED BY <1>5, <1>6, <1>7

(* transceiver::async_receive: the whole buffer is searched although only  *)
(* its first block is.                                                     *)
LEMMA AsyncReceiveStream ==
  ASSUME NEW rest \in Seq(Units), NEW dry \in BOOLEAN, NEW mute \in BOOLEAN,
         NEW x, Running(x), x.asked = x.answered, ~x.sbusy,
         StreamOK(x, rest, dry, mute)
  PROVE  StreamOK(AsyncReceive(x), rest, dry, mute)
<1> DEFINE y    == [x EXCEPT !.rbusy = TRUE, !.overlap = @ \/ x.body # "idle"]
           ends == {n \in Ends(x.buf) : n <= BlockSize - x.off}
           z    == ReadHeader(y)
<1>1. /\ x \in SessionType /\ x.buf \in Seq(Units) /\ x.off \in Nat
      /\ x.life = "live" /\ x.header = "idle" /\ x.wait = "idle"
      /\ Len(x.buf) \in Nat /\ BlockSize \in Nat \ {0}
  BY BlockAssumption DEF Running, SessionType
<1>2. y \in SessionType BY <1>1, ZenonT(60) DEF SessionType
<1>3. /\ Running(y) /\ y.asked = y.answered
      /\ ~y.overlap => y.body = "idle" /\ ~x.overlap
  BY <1>1, <1>2, SMTT(30) DEF Running, SessionType
<1>4. /\ y.buf = x.buf /\ y.off = x.off /\ y.got = x.got /\ y.lack = x.lack
      /\ y.body = x.body /\ y.sbusy = x.sbusy /\ y.canceled = x.canceled
      /\ y.life = "live" /\ y.sound = x.sound
  BY <1>1 DEF SessionType
<1> HIDE DEF y
<1>5. x.got = <<>> /\ x.off + Len(x.buf) <= BlockSize
  BY <1>1 DEF StreamOK, HeaderOK
<1>6. FrameOK(y, rest, dry, mute)
  BY <1>1, <1>3, <1>4 DEF StreamOK, FrameOK, Fits
<1>7. ends = Ends(x.buf) BY <1>1, <1>5 DEF Ends
<1>8. AsyncReceive(x) = IF ends = {}
                        THEN z
                        ELSE Dispatch(y, CHOOSE n \in ends : IsFirst(n, ends))
  BY DEF AsyncReceive, y
<1>9. CASE ends = {}
  <2>1. /\ z.buf = y.buf /\ z.off = y.off /\ z.got = y.got /\ z.lack = y.lack
        /\ z.body = y.body /\ z.sbusy = y.sbusy /\ z.canceled = y.canceled
        /\ z.life = y.life /\ z.overlap = y.overlap /\ z.header = "pending"
        /\ z.sound = y.sound
    BY <1>2 DEF ReadHeader, SessionType
  <2> HIDE DEF z
  <2>2. FrameOK(z, rest, dry, mute) BY <1>4, <1>6, <2>1 DEF FrameOK, Fits
  <2>3. (x.off + Len(x.buf)) % BlockSize \in 0 .. BlockSize - 1
    <3>1. x.off + Len(x.buf) \in Nat BY <1>1
    <3> QED BY <1>1, <3>1
  <2>4. HeaderOK(z)
    <3>1. Len(z.got) = 0 BY <1>4, <1>5, <2>1
    <3> QED BY <1>1, <1>4, <1>5, <1>7, <1>9, <2>1, <2>3, <3>1 DEF HeaderOK, Quiet
  <2> QED BY <1>8, <1>9, <2>2, <2>4 DEF StreamOK
<1>10. CASE ends # {}
  <2>1. ends \subseteq Nat BY <1>1, <1>7 DEF Ends
  <2>2. PICK n \in ends : n = CHOOSE k \in ends : IsFirst(k, ends)
    <3>1. \E k \in ends : IsFirst(k, ends) BY <1>10, <2>1, LeastOf DEF IsFirst
    <3> QED BY <3>1
  <2>3. IsFirst(n, ends)
    <3>1. \E k \in ends : IsFirst(k, ends) BY <1>10, <2>1, LeastOf DEF IsFirst
    <3> QED BY <2>2, <3>1
  <2>4. n \in Ends(y.buf) /\ \A m \in Ends(y.buf) : n <= m
    BY <1>4, <1>7, <2>3 DEF IsFirst
  <2>5. ((y.off + n) % BlockSize) + (Len(y.buf) - n) <= BlockSize
    <3>1. n \in 1 .. Len(x.buf) BY <1>1, <1>4, <2>4 DEF Ends
    <3>2. PICK k \in Nat : k = x.off + n BY <1>1, <3>1
    <3>3. k % BlockSize <= k /\ k % BlockSize \in Nat
      <4>1. k % BlockSize \in 0 .. BlockSize - 1 /\ k % BlockSize <= k
        BY <1>1, ModBound
      <4> QED BY <1>1, <4>1
    <3> DEFINE u == k % BlockSize
    <3> HIDE DEF u
    <3>4. u <= k /\ u \in Nat BY <3>3 DEF u
    <3>5. u + (Len(x.buf) - n) <= BlockSize
      BY <1>1, <1>5, <3>1, <3>2, <3>4
    <3> QED BY <1>4, <3>2, <3>5 DEF u
  <2>6. StreamOK(Dispatch(y, n), rest, dry, mute)
    BY <1>3, <1>4, <1>5, <1>6, <2>4, <2>5, DispatchStream
  <2> QED BY <1>8, <1>10, <2>2, <2>6
<1> QED BY <1>9, <1>10

(* session::_wait_handler.                                                 *)
LEMMA WaitHandlerStream ==
  ASSUME NEW rest \in Seq(Units), NEW dry \in BOOLEAN, NEW mute \in BOOLEAN,
         NEW x, SafeSession(x), x.life = "live", x.fault = "none",
         x.wait \in Completed, StreamOK(x, rest, dry, mute)
  PROVE  StreamOK(WaitHandler(x), rest, dry, mute)
<1> DEFINE y == [x EXCEPT !.wbusy = FALSE, !.wait = "idle"]
           z == CancelTimer(y)
<1>a. x \in SessionType /\ TimerOK(x) /\ ChainOK(x) /\ CoverOK(x) /\ CountOK(x)
  BY DEF SafeSession
<1>b. "idle" \in Op BY DEF Op
<1>1. y \in SessionType BY <1>a, <1>b DEF SessionType
<1>2. x.wbusy /\ x.header = "idle" /\ x.send = "idle" /\ x.reader = "none"
      /\ x.asked = x.answered
  BY <1>a DEF ChainOK, CountOK, Completed
<1>3. ~x.sbusy BY DEF StreamOK, HeaderOK, Quiet, Completed
<1>4. /\ y.buf = x.buf /\ y.off = x.off /\ y.got = x.got /\ y.lack = x.lack
      /\ y.overlap = x.overlap /\ y.life = "live" /\ ~y.sbusy
      /\ y.wait = "idle" /\ y.header = "idle" /\ y.body = x.body
      /\ y.canceled = x.canceled /\ y.sound = x.sound /\ x.sound
  BY <1>a, <1>2, <1>3 DEF SessionType, TimerOK
<1>5. /\ y.life = "live" /\ y.fault = "none" /\ ~y.wbusy
      /\ y.send = "idle" /\ y.timer = x.timer
      /\ y.reader = "none" /\ y.asked = y.answered
      /\ ~y.overlap => (y.body # "idle" => y.rbusy)
  BY <1>a, <1>2 DEF SessionType, CoverOK
<1> HIDE DEF y
<1>6. StreamOK(y, rest, dry, mute)
  <2>1. Leaves(x, y) /\ Quiet(y) BY <1>2, <1>4 DEF Leaves, Quiet
  <2> QED BY <2>1, LeavesStream
<1>7. CASE x.canceled
  <2>1. WaitHandler(x) = Settle(y) BY <1>7 DEF WaitHandler, y
  <2>2. Leaves(y, Settle(y)) /\ Quiet(Settle(y))
    BY <1>1, <1>4, CancelLeaves DEF Quiet
  <2> QED BY <1>4, <1>6, <2>1, <2>2, LeavesStream
<1>8. CASE ~x.canceled
  <2>1. x.timer > 0 BY <1>a, <1>2, <1>8 DEF TimerOK
  <2>2. z = [y EXCEPT !.timer = 0] BY <1>5, <1>a, <2>1 DEF CancelTimer, SessionType
  <2>3. 0 \in 0 .. Slots BY SlotsAssumption
  <2>4. z \in SessionType
    <3>1. [y EXCEPT !.timer = 0] \in SessionType
      BY <1>1, <2>3 DEF SessionType
    <3> QED BY <2>2, <3>1
  <2>a. /\ z.buf = y.buf /\ z.off = y.off /\ z.got = y.got
        /\ z.lack = y.lack /\ z.overlap = y.overlap /\ z.life = "live"
        /\ z.sbusy = y.sbusy /\ z.wait = "idle" /\ z.header = "idle"
        /\ z.body = y.body /\ z.canceled = y.canceled
        /\ z.sound = y.sound /\ z.fault = "none" /\ ~z.wbusy
        /\ z.send = "idle" /\ z.timer = 0 /\ z.reader = "none"
        /\ z.asked = z.answered /\ z.rbusy = y.rbusy
    <3> DEFINE v == [y EXCEPT !.timer = 0]
    <3>1. /\ v.buf = y.buf /\ v.off = y.off /\ v.got = y.got
          /\ v.lack = y.lack /\ v.overlap = y.overlap /\ v.life = y.life
          /\ v.sbusy = y.sbusy /\ v.wait = y.wait /\ v.header = y.header
          /\ v.body = y.body /\ v.canceled = y.canceled
          /\ v.sound = y.sound /\ v.fault = y.fault /\ v.wbusy = y.wbusy
          /\ v.send = y.send /\ v.timer = 0 /\ v.reader = y.reader
          /\ v.asked = y.asked /\ v.answered = y.answered
          /\ v.rbusy = y.rbusy
      BY <1>1 DEF SessionType
    <3> HIDE DEF v, z
    <3>2. z = v BY <2>2 DEF v
    <3> QED BY <1>4, <1>5, <3>1, <3>2
  <2>5. Running(z) /\ z.asked = z.answered /\ ~z.sbusy
    BY <1>4, <1>5, <1>8, <2>4, <2>a DEF Running
  <2>6. Leaves(y, z) /\ Quiet(z)
    BY <1>4, <2>a DEF Leaves, Quiet
  <2> HIDE DEF z
  <2>7. StreamOK(z, rest, dry, mute) BY <1>4, <1>6, <2>6, LeavesStream
  <2>8. StreamOK(AsyncReceive(z), rest, dry, mute)
    BY <2>5, <2>7, AsyncReceiveStream
  <2>9. StreamOK(Cancel(z), rest, dry, mute)
    <3>1. z \in SessionType /\ z.life = "live" BY <2>5 DEF Running
    <3>2. Leaves(z, Cancel(z)) /\ Quiet(Cancel(z)) BY <2>6, <3>1, CancelLeaves
    <3> QED BY <2>7, <3>1, <3>2, LeavesStream
  <2>10. WaitHandler(x) \in {AsyncReceive(z), Cancel(z)}
    BY <1>8 DEF WaitHandler, Completed, y, z
  <2> QED BY <2>8, <2>9, <2>10
<1> QED BY <1>a, <1>7, <1>8 DEF SessionType

(* The headers that end in a and then in b.                                *)
LEMMA EndsJoin ==
  ASSUME NEW a \in Seq(Units), NEW b \in Seq(Units), Ends(a) = {}
  PROVE  /\ Ends(a \o b) = {Len(a) + n : n \in Ends(b)}
         /\ Ends(b) \subseteq 1 .. Len(b)
<1>1. /\ a \o b \in Seq(Units) /\ Len(a \o b) = Len(a) + Len(b)
      /\ \A i \in 1 .. Len(a) + Len(b) :
            (a \o b)[i] = IF i <= Len(a) THEN a[i] ELSE b[i - Len(a)]
  BY ConcatProperties
<1>2. /\ Len(a) \in Nat /\ Len(b) \in Nat /\ DOMAIN a = 1 .. Len(a)
      /\ DOMAIN b = 1 .. Len(b) /\ DOMAIN (a \o b) = 1 .. Len(a) + Len(b)
  BY <1>1
<1>3. \A i \in 1 .. Len(a) : a[i] \notin Requests BY <1>2 DEF Ends
<1> DEFINE c == a \o b
<1>4. ASSUME NEW m \in Ends(c) PROVE \E n \in Ends(b) : m = Len(a) + n
  <2>1. m \in 1 .. Len(a) + Len(b) /\ c[m] \in Requests BY <1>2, <1>4 DEF Ends
  <2>2. m > Len(a) BY <1>1, <1>2, <1>3, <2>1
  <2>3. m - Len(a) \in 1 .. Len(b) /\ b[m - Len(a)] \in Requests
    BY <1>1, <1>2, <2>1, <2>2
  <2>4. m - Len(a) \in Ends(b) BY <1>2, <2>3 DEF Ends
  <2>5. m = Len(a) + (m - Len(a)) BY <1>2, <2>1
  <2> QED BY <2>4, <2>5
<1>5. ASSUME NEW n \in Ends(b) PROVE Len(a) + n \in Ends(c)
  <2>1. n \in 1 .. Len(b) /\ b[n] \in Requests BY <1>2, <1>5 DEF Ends
  <2>2. /\ Len(a) + n \in 1 .. Len(a) + Len(b) /\ ~(Len(a) + n <= Len(a))
        /\ (Len(a) + n) - Len(a) = n
    BY <1>2, <2>1
  <2>3. c[Len(a) + n] = b[n] BY <1>1, <2>2
  <2> QED BY <1>2, <2>1, <2>2, <2>3 DEF Ends
<1>6. Ends(b) \subseteq 1 .. Len(b) BY <1>2 DEF Ends
<1> HIDE DEF c
<1>7. Ends(c) = {Len(a) + n : n \in Ends(b)} BY <1>4, <1>5
<1> QED BY <1>6, <1>7 DEF c

(* transceiver::_header_receiving_handler: only what was read is searched, *)
(* and that is enough, because the end of no header was buffered before.   *)
LEMMA HeaderHandlerStream ==
  ASSUME NEW rest \in Seq(Units), NEW dry \in BOOLEAN, NEW mute \in BOOLEAN,
         NEW x, SafeSession(x), x.life = "live", x.fault = "none",
         x.header \in Completed, StreamOK(x, rest, dry, mute)
  PROVE  StreamOK(HeaderHandler(x), rest, dry, mute)
<1> DEFINE y == [x EXCEPT !.rbusy = FALSE, !.header = "idle", !.got = <<>>]
           z == [y EXCEPT !.buf = @ \o x.got]
           ends == Ends(x.got)
           n == Len(x.buf) + CHOOSE k \in ends : IsFirst(k, ends)
<1>a. x \in SessionType /\ TimerOK(x) /\ ChainOK(x) /\ CoverOK(x) /\ CountOK(x)
  BY DEF SafeSession
<1>b. "idle" \in Op BY DEF Op
<1>c. <<>> \in Seq(Units) OBVIOUS
<1>d. /\ x.buf \in Seq(Units) /\ x.got \in Seq(Units) /\ x.off \in Nat
      /\ Len(x.buf) \in Nat /\ Len(x.got) \in Nat /\ BlockSize \in Nat \ {0}
  BY <1>a, BlockAssumption DEF SessionType
<1>1. y \in SessionType BY <1>a, <1>b, <1>c DEF SessionType
<1>2. /\ x.header # "idle" /\ ~x.wbusy /\ x.wait = "idle" /\ x.send = "idle"
      /\ x.reader = "none" /\ ~x.canceled /\ x.timer = 0
      /\ x.asked = x.answered /\ x.sound
      /\ ~x.overlap => x.body = "idle"
  BY <1>a
  DEF TimerOK, ChainOK, CoverOK, CountOK, Completed, SessionType
<1>3. /\ Running(y) /\ y.asked = y.answered
      /\ ~y.overlap => y.body = "idle"
  BY <1>a, <1>1, <1>2 DEF Running, SessionType
<1>4. x.buf \o x.got \in Seq(Units)
      /\ Len(x.buf \o x.got) = Len(x.buf) + Len(x.got)
  BY <1>d, ConcatProperties
<1>5. /\ ~x.sbusy /\ Ends(x.buf) = {} /\ (x.header = "err" => x.got = <<>>)
      /\ ((x.off + Len(x.buf)) % BlockSize) + Len(x.got) <= BlockSize
  BY <1>2 DEF StreamOK, HeaderOK, Quiet
<1>6. /\ y.buf = x.buf /\ y.off = x.off /\ y.got = <<>> /\ y.lack = x.lack
      /\ y.overlap = x.overlap /\ y.life = "live" /\ ~y.sbusy /\ ~y.rbusy
      /\ y.wait = "idle" /\ y.header = "idle" /\ y.body = x.body
      /\ y.canceled = x.canceled /\ ~y.wbusy /\ y.sound = x.sound
  <2>1. /\ y.buf = x.buf /\ y.off = x.off /\ y.got = <<>> /\ y.lack = x.lack
        /\ y.overlap = x.overlap /\ y.life = x.life /\ y.sbusy = x.sbusy
        /\ y.rbusy = FALSE /\ y.wait = x.wait /\ y.header = "idle"
        /\ y.body = x.body /\ y.canceled = x.canceled
        /\ y.wbusy = x.wbusy /\ y.sound = x.sound
    BY <1>a DEF SessionType
  <2> HIDE DEF y
  <2> QED BY <1>2, <1>5, <2>1
<1> HIDE DEF y
<1>7. CASE x.header = "err"
  <2>1. HeaderHandler(x) = Cancel(y) BY <1>7 DEF HeaderHandler, y
  <2>2. Cancel(y) = [Abort(y) EXCEPT !.life = "gone"]
    BY <1>6 DEF Cancel, Busy, Erase
  <2>3. Abort(y) \in SessionType BY <1>1, AbortType
  <2>4. Cancel(y).life = "gone" BY <2>2, <2>3 DEF SessionType
  <2> QED BY <2>1, <2>4 DEF StreamOK, HeaderOK, FrameOK
<1>8. z \in SessionType BY <1>1, <1>4, <1>6 DEF SessionType
<1>9. /\ z.buf = x.buf \o x.got /\ z.off = x.off /\ z.got = <<>>
      /\ z.lack = x.lack /\ z.overlap = x.overlap /\ z.life = "live"
      /\ ~z.sbusy /\ z.wait = "idle" /\ z.body = x.body
      /\ z.canceled = x.canceled /\ z.sound = x.sound
  BY <1>1, <1>6 DEF SessionType
<1>10. /\ Running(z) /\ z.asked = z.answered
       /\ ~z.overlap => z.body = "idle"
  BY <1>1, <1>3, <1>8 DEF Running, SessionType
<1> HIDE DEF z
<1>11. FrameOK(z, rest, dry, mute)
  <2>1. z.buf \o z.got = x.buf \o x.got BY <1>4, <1>9, ConcatEmptySeq
  <2>2. Fits(x, rest) => Fits(z, rest) BY <1>9, <2>1 DEF Fits
  <2>3. x.buf = <<>> /\ x.got = <<>> => z.buf = <<>>
    BY <1>9, <1>c, ConcatEmptySeq
  <2> QED BY <1>9, <2>2, <2>3 DEF StreamOK, FrameOK
<1>12. /\ Ends(z.buf) = {Len(x.buf) + k : k \in ends}
       /\ ends \subseteq 1 .. Len(x.got)
  BY <1>5, <1>9, <1>d, EndsJoin
<1>13. PICK k \in Nat : k = x.off + Len(x.buf) BY <1>d
<1>14. CASE x.header = "ok" /\ ends = {}
  <2> DEFINE w == ReadHeader(z)
  <2>1. HeaderHandler(x) = w BY <1>14 DEF HeaderHandler, y, z
  <2>2. /\ w.buf = z.buf /\ w.off = z.off /\ w.got = z.got /\ w.lack = z.lack
        /\ w.body = z.body /\ w.sbusy = z.sbusy /\ w.canceled = z.canceled
        /\ w.life = z.life /\ w.overlap = z.overlap /\ w.header = "pending"
        /\ w.sound = z.sound
    BY <1>8 DEF ReadHeader, SessionType
  <2> HIDE DEF w
  <2>3. FrameOK(w, rest, dry, mute) BY <1>11, <2>2 DEF FrameOK, Fits
  <2>4. Ends(w.buf) = {} BY <1>12, <1>14, <2>2
  <2>5. ((w.off + Len(w.buf)) % BlockSize) + Len(w.got) <= BlockSize
    <3>a. w.off \in Nat BY <1>9, <1>d, <2>2
    <3>b. w.buf \in Seq(Units) BY <1>4, <1>9, <2>2
    <3>0. Len(w.buf) \in Nat /\ w.off \in Nat BY <3>a, <3>b
    <3>1. PICK m \in Nat : m = w.off + Len(w.buf) BY <3>0
    <3>2. m % BlockSize \in 0 .. BlockSize - 1 BY <1>d, ModBound
    <3>3. Len(w.got) = 0 BY <1>9, <2>2
    <3> DEFINE u == m % BlockSize
    <3> HIDE DEF u
    <3>4. u + 0 <= BlockSize BY <1>d, <3>2 DEF u
    <3> QED BY <3>1, <3>3, <3>4 DEF u
  <2>6. HeaderOK(w) BY <1>9, <2>2, <2>4, <2>5 DEF HeaderOK, Quiet
  <2> QED BY <2>1, <2>3, <2>6 DEF StreamOK
<1>15. CASE x.header = "ok" /\ ends # {}
  <2>1. HeaderHandler(x) = Dispatch(z, n)
    BY <1>15 DEF HeaderHandler, y, z
  <2>2. ends \subseteq Nat BY <1>12
  <2>3. PICK f \in ends : f = CHOOSE j \in ends : IsFirst(j, ends)
    <3>1. \E j \in ends : IsFirst(j, ends) BY <1>15, <2>2, LeastOf DEF IsFirst
    <3> QED BY <3>1
  <2>4. IsFirst(f, ends)
    <3>1. \E j \in ends : IsFirst(j, ends) BY <1>15, <2>2, LeastOf DEF IsFirst
    <3> QED BY <2>3, <3>1
  <2>5. f \in 1 .. Len(x.got) /\ n = Len(x.buf) + f BY <1>12, <2>3
  <2> HIDE DEF n
  <2>6. n \in Ends(z.buf) BY <1>12, <2>3, <2>5
  <2>7. \A m \in Ends(z.buf) : n <= m
    <3> SUFFICES ASSUME NEW m \in Ends(z.buf) PROVE n <= m OBVIOUS
    <3>1. PICK j \in ends : m = Len(x.buf) + j BY <1>12
    <3>2. f <= j BY <2>4 DEF IsFirst
    <3>3. j \in Nat /\ f \in Nat BY <2>2, <2>3
    <3> QED BY <1>d, <2>5, <3>1, <3>2, <3>3
  <2>8. ((z.off + n) % BlockSize) + (Len(z.buf) - n) <= BlockSize
    <3>1. f \in Nat BY <2>2
    <3>2. (k + f) % BlockSize <= (k % BlockSize) + f BY <1>d, <3>1, ModAdd
    <3>3. k + f \in Nat BY <3>1
    <3>4. (k + f) % BlockSize \in 0 .. BlockSize - 1 BY <1>d, <3>3, ModBound
    <3>5. k % BlockSize \in 0 .. BlockSize - 1 BY <1>d, ModBound
    <3> DEFINE u == (k + f) % BlockSize
               v == k % BlockSize
    <3>6. z.off + n = k + f BY <1>9, <1>13, <1>d, <2>5, <3>1
    <3>7. Len(z.buf) - n = Len(x.got) - f
      <4>1. Len(z.buf) = Len(x.buf) + Len(x.got) BY <1>4, <1>9
      <4> QED BY <1>d, <2>5, <3>1, <4>1
    <3>8. v + Len(x.got) <= BlockSize BY <1>5, <1>13
    <3> HIDE DEF u, v
    <3>9. u <= v + f /\ u \in Nat /\ v \in Nat
      <4>1. u <= v + f BY <3>2 DEF u, v
      <4>2. u \in Nat BY <1>d, <3>4 DEF u
      <4>3. v \in Nat BY <1>d, <3>5 DEF v
      <4> QED BY <4>1, <4>2, <4>3
    <3>10. u + (Len(x.got) - f) <= BlockSize
      BY <1>d, <2>5, <3>1, <3>8, <3>9
    <3> QED BY <3>6, <3>7, <3>10 DEF u
  <2> QED BY <1>9, <1>10, <1>11, <2>1, <2>6, <2>7, <2>8, DispatchStream
<1> QED BY <1>7, <1>14, <1>15 DEF Completed

-----------------------------------------------------------------------------
(* The worker.                                                             *)

(* What a session has not read, if its client is still to send u.          *)
Coming(c, u) == (held[c] \o sock[c]) \o u

(* There is nothing to read, and there will be nothing.                    *)
Dry(c) == Source(c) = <<>> /\ peer[c] = "closed"

(* The inductive invariant: every session's data and what it has not read  *)
(* make whole requests, with what the client will send or, if it has left, *)
(* with what it would have sent.                                           *)
FrameInv ==
    \A c \in Conns : \E u \in Seq(Units) :
        /\ peer[c] = "open" => u = unsent[c]
        /\ StreamOK(s[c], Coming(c, u), Dry(c), broken[c])

(* The types of what StreamOK is about.                                    *)
LEMMA ComingType ==
  ASSUME TypeOK, NEW c \in Conns
  PROVE  /\ held[c] \in Seq(Units) /\ sock[c] \in Seq(Units)
         /\ unsent[c] \in Seq(Units) /\ Source(c) \in Seq(Units)
         /\ held[c] \o sock[c] \in Seq(Units)
         /\ \A u \in Seq(Units) : Coming(c, u) \in Seq(Units)
         /\ Dry(c) \in BOOLEAN /\ broken[c] \in BOOLEAN
<1>1. /\ held[c] \in Seq(Units) /\ sock[c] \in Seq(Units)
      /\ unsent[c] \in Seq(Units) /\ broken[c] \in BOOLEAN
  BY DEF TypeOK
<1>2. held[c] \o sock[c] \in Seq(Units) BY <1>1, ConcatProperties
<1>3. \A u \in Seq(Units) : Coming(c, u) \in Seq(Units)
  BY <1>2, ConcatProperties DEF Coming
<1>4. Dry(c) \in BOOLEAN BY DEF Dry
<1> QED BY <1>1, <1>2, <1>3, <1>4 DEF Source

(* A step of one session, which reads nothing.                             *)
LEMMA LocalStep ==
  ASSUME TypeOK, FrameInv, UNCHANGED client, NEW c \in Conns, NEW x,
         s' = [s EXCEPT ![c] = x],
         \A rest \in Seq(Units) :
            StreamOK(s[c], rest, Dry(c), broken[c])
               => StreamOK(x, rest, Dry(c), broken[c])
  PROVE  FrameInv'
<1> SUFFICES ASSUME NEW d \in Conns
             PROVE  (\E u \in Seq(Units) :
                        /\ peer[d] = "open" => u = unsent[d]
                        /\ StreamOK(s[d], Coming(d, u), Dry(d), broken[d]))'
  BY DEF FrameInv
<1>1. PICK u \in Seq(Units) :
         /\ peer[d] = "open" => u = unsent[d]
         /\ StreamOK(s[d], Coming(d, u), Dry(d), broken[d])
  BY DEF FrameInv
<1>2. s'[d] = IF d = c THEN x ELSE s[d] BY DEF TypeOK
<1>3. /\ peer'[d] = peer[d] /\ unsent'[d] = unsent[d]
      /\ broken'[d] = broken[d]
      /\ Coming(d, u)' = Coming(d, u) /\ Dry(d)' = Dry(d)
  BY DEF client, Coming, Dry, Source
<1>4. StreamOK(s'[d], Coming(d, u), Dry(d), broken[d])
  <2>1. CASE d = c
    <3>1. Coming(c, u) \in Seq(Units) BY ComingType
    <3> QED BY <1>1, <1>2, <2>1, <3>1
  <2>2. CASE d # c BY <1>1, <1>2, <2>2
  <2> QED BY <2>1, <2>2
<1>5. StreamOK(s'[d], Coming(d, u)', Dry(d)', broken'[d]) BY <1>3, <1>4
<1>6. peer'[d] = "open" => u = unsent'[d] BY <1>1, <1>3
<1> QED BY <1>5, <1>6

(* A step of one session, or of its client, which may read or send.        *)
LEMMA ReadStep ==
  ASSUME TypeOK, FrameInv, NEW c \in Conns, NEW x,
         s' = [s EXCEPT ![c] = x],
         \A d \in Conns \ {c} :
            /\ held'[d] = held[d] /\ sock'[d] = sock[d]
            /\ unsent'[d] = unsent[d] /\ peer'[d] = peer[d],
         broken' = broken,
         \A u \in Seq(Units) :
            /\ peer[c] = "open" => u = unsent[c]
            /\ StreamOK(s[c], Coming(c, u), Dry(c), broken[c])
            => \E v \in Seq(Units) :
                  /\ peer'[c] = "open" => v = unsent'[c]
                  /\ StreamOK(x, Coming(c, v)', Dry(c)', broken[c])
  PROVE  FrameInv'
<1> SUFFICES ASSUME NEW d \in Conns
             PROVE  (\E u \in Seq(Units) :
                        /\ peer[d] = "open" => u = unsent[d]
                        /\ StreamOK(s[d], Coming(d, u), Dry(d), broken[d]))'
  BY DEF FrameInv
<1>1. PICK u \in Seq(Units) :
         /\ peer[d] = "open" => u = unsent[d]
         /\ StreamOK(s[d], Coming(d, u), Dry(d), broken[d])
  BY DEF FrameInv
<1>2. s'[d] = IF d = c THEN x ELSE s[d] BY DEF TypeOK
<1>3. CASE d = c
  <2>1. PICK v \in Seq(Units) :
           /\ peer'[c] = "open" => v = unsent'[c]
           /\ StreamOK(x, Coming(c, v)', Dry(c)', broken[c])
    BY <1>1, <1>3
  <2>2. StreamOK(s'[d], Coming(d, v)', Dry(d)', broken'[d])
    BY <1>2, <1>3, <2>1
  <2> QED BY <1>3, <2>1, <2>2
<1>4. CASE d # c
  <2>1. /\ peer'[d] = peer[d] /\ unsent'[d] = unsent[d]
        /\ broken'[d] = broken[d] /\ s'[d] = s[d]
        /\ Coming(d, u)' = Coming(d, u) /\ Dry(d)' = Dry(d)
    BY <1>2, <1>4 DEF Coming, Dry, Source
  <2>2. StreamOK(s'[d], Coming(d, u)', Dry(d)', broken'[d]) BY <1>1, <2>1
  <2>3. peer'[d] = "open" => u = unsent'[d] BY <1>1, <2>1
  <2> QED BY <2>2, <2>3
<1> QED BY <1>3, <1>4

(* At the start, every client has yet to send all its requests.            *)
LEMMA InitFrame == Init => FrameInv
<1> SUFFICES ASSUME Init, NEW c \in Conns
             PROVE  /\ unsent[c] \in Seq(Units)
                    /\ StreamOK(s[c], Coming(c, unsent[c]), Dry(c), broken[c])
  BY DEF FrameInv
<1> DEFINE u == unsent[c]
<1>1. u \in Streams /\ s[c] = Fresh /\ held[c] = <<>> /\ sock[c] = <<>>
  BY DEF Init
<1>2. peer[c] = "open" BY DEF Init
<1>3. u \in Rests /\ u \in Seq(Units)
  BY <1>1, StreamAssumption, RestsAssumption
<1> HIDE DEF u
<1>4. Coming(c, u) = u
  <2>1. <<>> \o <<>> = <<>> OBVIOUS
  <2>2. <<>> \o u = u BY <1>3, ConcatEmptySeq
  <2> QED BY <1>1, <2>1, <2>2 DEF Coming
<1>5. Fits(Fresh, u)
  <2>1. <<>> \o <<>> = <<>> OBVIOUS
  <2>2. Bodies(0) = <<>> BY DEF Bodies
  <2> QED BY <1>3, <2>1, <2>2 DEF Fits, Fresh
<1>6. FrameOK(Fresh, u, Dry(c), broken[c]) BY <1>5 DEF FrameOK, Fresh
<1>7. HeaderOK(Fresh) BY DEF HeaderOK, Fresh
<1> QED BY <1>1, <1>3, <1>4, <1>6, <1>7 DEF StreamOK, u

(* Two parts of a sequence make the sequence.                              *)
LEMMA Split ==
  \A q \in Seq(Units) : \A k \in 0 .. Len(q) :
     SubSeq(q, 1, k) \o SubSeq(q, k + 1, Len(q)) = q
<1> SUFFICES ASSUME NEW q \in Seq(Units), NEW k \in 0 .. Len(q)
             PROVE  SubSeq(q, 1, k) \o SubSeq(q, k + 1, Len(q)) = q
  OBVIOUS
<1> DEFINE a == SubSeq(q, 1, k)
           b == SubSeq(q, k + 1, Len(q))
<1>1. /\ a \in Seq(Units) /\ Len(a) = k
      /\ \A i \in 1 .. k : a[i] = q[i]
  <2>1. \A i \in 1 .. k : q[i] \in Units OBVIOUS
  <2>2. 1 \in Int /\ k \in Int OBVIOUS
  <2>3. /\ a \in Seq(Units)
        /\ Len(a) = IF 1 <= k THEN k - 1 + 1 ELSE 0
        /\ \A i \in 1 .. k - 1 + 1 : a[i] = q[1 + i - 1]
    BY <2>1, <2>2, SubSeqProperties
  <2> QED BY <2>3
<1>2. /\ b \in Seq(Units) /\ Len(b) = Len(q) - k
      /\ \A i \in 1 .. Len(q) - k : b[i] = q[k + i]
  <2>1. \A i \in k + 1 .. Len(q) : q[i] \in Units OBVIOUS
  <2>2. k + 1 \in Int /\ Len(q) \in Int OBVIOUS
  <2>3. /\ b \in Seq(Units)
        /\ Len(b) = IF k + 1 <= Len(q) THEN Len(q) - (k + 1) + 1 ELSE 0
        /\ \A i \in 1 .. Len(q) - (k + 1) + 1 : b[i] = q[k + 1 + i - 1]
    BY <2>1, <2>2, SubSeqProperties
  <2> QED BY <2>3
<1> HIDE DEF a, b
<1>3. /\ a \o b \in Seq(Units) /\ Len(a \o b) = Len(a) + Len(b)
      /\ \A i \in 1 .. Len(a) + Len(b) :
            (a \o b)[i] = IF i <= Len(a) THEN a[i] ELSE b[i - Len(a)]
  BY <1>1, <1>2, ConcatProperties
<1>4. Len(a \o b) = Len(q) BY <1>1, <1>2, <1>3
<1>5. ASSUME NEW i \in 1 .. Len(a \o b) PROVE (a \o b)[i] = q[i]
  <2>1. i \in 1 .. Len(q) /\ i \in 1 .. Len(a) + Len(b)
    BY <1>3, <1>4
  <2>2. CASE i <= k BY <1>1, <1>3, <2>1, <2>2
  <2>3. CASE i > k
    <3>1. i - k \in 1 .. Len(q) - k /\ k + (i - k) = i BY <2>1, <2>3
    <3>2. b[i - k] = q[i] BY <1>2, <3>1
    <3> QED BY <1>1, <1>3, <2>1, <2>3, <3>2
  <2> QED BY <2>1, <2>2, <2>3
<1>6. a \o b = q BY <1>3, <1>4, <1>5, SeqEqual
<1> QED BY <1>6 DEF a, b

(* What the handshake took from the client's first requests was the next   *)
(* of them.                                                                *)
LEMMA AheadComing ==
  ASSUME IInv, NEW c \in Conns, ReadAhead(c), s[c].life = "new"
  PROVE  /\ Coming(c, unsent[c])' = Coming(c, unsent[c])
         /\ unsent'[c] \in Seq(Units)
         /\ broken' = broken /\ peer' = peer
         /\ \A d \in Conns \ {c} : /\ held'[d] = held[d]
                                   /\ sock'[d] = sock[d]
                                   /\ unsent'[d] = unsent[d]
<1> DEFINE u == unsent[c]
           h == held[c]
<1>1. unsent \in [Conns -> Seq(Units)] /\ held \in [Conns -> Seq(Units)]
  BY DEF IInv, TypeOK
<1>2. u \in Seq(Units) /\ h \in Seq(Units) /\ Len(u) \in Nat
  BY <1>1
<1>3. PICK n \in 0 .. Len(u) :
        /\ held' = [held EXCEPT ![c] = h \o SubSeq(u, 1, n)]
        /\ unsent' = [unsent EXCEPT ![c] = Drop(u, n)]
  <2>1. {0} \subseteq 0 .. Len(u) BY <1>2
  <2> QED BY <2>1 DEF ReadAhead
<1> DEFINE a == SubSeq(u, 1, n)
           b == SubSeq(u, n + 1, Len(u))
<1>4. a \in Seq(Units) /\ b \in Seq(Units) /\ h \o a \in Seq(Units)
  <2>1. a \in Seq(Units) BY <1>2, PartType
  <2>2. n + 1 \in Nat \ {0} /\ Len(u) \in 0 .. Len(u) BY <1>2
  <2>3. b \in Seq(Units) BY <1>2, <2>2, PartType
  <2> QED BY <1>2, <2>1, <2>3, ConcatProperties
<1>5. a \o b = u BY <1>2, Split
<1>6. sock[c] = <<>> /\ sock' = sock /\ peer' = peer /\ broken' = broken
  BY DEF IInv, Unreached, ReadAhead
<1>7. held'[c] = h \o a /\ unsent'[c] = b BY <1>1, <1>3 DEF Drop
<1> HIDE DEF a, b, u, h
<1>8. (h \o a) \o b = h \o (a \o b) BY <1>2, <1>4, Joins
<1>9. (h \o a) \o <<>> = h \o a /\ h \o <<>> = h
  BY <1>2, <1>4, ConcatEmptySeq
<1>10. Coming(c, unsent[c])' = (held'[c] \o sock'[c]) \o unsent'[c]
  BY DEF Coming
<1>11. Coming(c, unsent[c])' = (h \o a) \o b
  BY <1>6, <1>7, <1>9, <1>10
<1>12. Coming(c, unsent[c]) = h \o u BY <1>6, <1>9 DEF Coming, h, u
<1>13. unsent'[c] \in Seq(Units) BY <1>4, <1>7
<1>14. \A d \in Conns \ {c} : /\ held'[d] = held[d] /\ sock'[d] = sock[d]
                               /\ unsent'[d] = unsent[d]
  BY <1>1, <1>3, <1>6
<1> QED BY <1>5, <1>6, <1>8, <1>11, <1>12, <1>13, <1>14

(* manager::create_session: nothing was received yet.                      *)
LEMMA CreateFrame ==
  ASSUME IInv, FrameInv, NEW c \in Conns, Create(c)
  PROVE  FrameInv'
<1> DEFINE x == s'[c]
<1>1. s[c] = Fresh /\ s[c].life = "new" BY BornFresh DEF Create
<1>2. /\ Fresh.buf = <<>> /\ Fresh.got = <<>> /\ Fresh.lack = 0
      /\ ~Fresh.overlap /\ Fresh.sound /\ Fresh.life = "new"
  BY DEF Fresh
<1>3. TypeOK /\ peer[c] = "open" BY <1>1 DEF IInv, Unreached
<1>4. ASSUME NEW rest \in Seq(Units), NEW dry \in BOOLEAN,
             StreamOK(Fresh, rest, Dry(c), broken[c])
      PROVE  StreamOK(x, rest, dry, broken[c])
  <2>1. Fits(Fresh, rest) BY <1>2, <1>4 DEF StreamOK, FrameOK
  <2>2. broken[c] \in BOOLEAN BY <1>3, ComingType
  <2>3. CASE idPool = <<>>
    <3> DEFINE n == NewBorn("pool")
    <3>1. s' = [s EXCEPT ![c] = n] BY <2>3, CreateNone
    <3>2. x = n BY <1>3, <3>1 DEF TypeOK
    <3>3. /\ n.buf = <<>> /\ n.got = <<>> /\ n.lack = 0 /\ n.body = "idle"
          /\ n.life = "new"
      BY DEF NewBorn, Fresh
    <3> HIDE DEF n, x
    <3>4. Fits(n, rest) BY <1>2, <2>1, <3>3 DEF Fits
    <3> QED BY <3>2, <3>3, <3>4 DEF StreamOK, HeaderOK, FrameOK
  <2>4. CASE idPool # <<>>
    <3> DEFINE id == Last(idPool)
               z == [Fresh EXCEPT !.id = id]
               y == [z EXCEPT !.life = "live"]
    <3>1. s' = [s EXCEPT ![c] = Start(z)] BY <1>1, <2>4 DEF Create
    <3>2. x = AwaitRequest(y) BY <1>3, <3>1 DEF TypeOK, Start
    <3>3. id \in Ids
      <4>1. idPool \in Seq(Ids) BY DEF IInv, TypeOK
      <4> QED BY <2>4, <4>1 DEF Last
    <3>4. Fresh \in SessionType BY FreshSafe DEF SafeSession
    <3> HIDE DEF id
    <3>5. y \in SessionType BY <3>3, <3>4 DEF SessionType
    <3>6. Running(y) /\ ~y.sbusy BY <3>5 DEF Running, Fresh
    <3>7. /\ y.buf = <<>> /\ y.off = 0 /\ y.got = <<>> /\ y.lack = 0
          /\ y.overlap = FALSE /\ y.life = "live" /\ y.body = "idle"
          /\ y.canceled = FALSE /\ y.wait = "idle" /\ y.header = "idle"
      BY DEF Fresh
    <3> HIDE DEF z, y, x
    <3>8. Fits(y, rest) BY <1>2, <2>1, <3>7 DEF Fits
    <3>9. FrameOK(y, rest, dry, broken[c]) BY <3>7, <3>8 DEF FrameOK
    <3>10. Len(y.buf) = 0 BY <3>7
    <3>11. HeaderOK(y)
      BY <3>6, <3>7, <3>10, BlockAssumption DEF HeaderOK, Quiet
    <3>12. Leaves(y, AwaitRequest(y)) /\ Quiet(AwaitRequest(y))
      BY <3>6, AwaitLeaves
    <3> QED
      BY <2>2, <3>2, <3>7, <3>9, <3>11, <3>12, LeavesStream DEF StreamOK
  <2> QED BY <2>3, <2>4
<1>5. s' = [s EXCEPT ![c] = x]
  <2>1. CASE idPool = <<>> BY <1>3, <2>1, CreateNone DEF TypeOK
  <2>2. CASE idPool # <<>> BY <1>3, <2>2 DEF Create, TypeOK
  <2> QED BY <2>1, <2>2
<1>6. ReadAhead(c) BY DEF Create
<1>7. /\ Coming(c, unsent[c])' = Coming(c, unsent[c])
      /\ unsent'[c] \in Seq(Units) /\ broken' = broken /\ peer' = peer
      /\ \A d \in Conns \ {c} : /\ held'[d] = held[d] /\ sock'[d] = sock[d]
                                /\ unsent'[d] = unsent[d]
  BY <1>1, <1>6, AheadComing
<1>8. Coming(c, unsent[c]) \in Seq(Units) BY <1>3, ComingType
<1>9. Dry(c)' \in BOOLEAN BY DEF Dry
<1> HIDE DEF x
<1>10. \A u \in Seq(Units) :
          /\ peer[c] = "open" => u = unsent[c]
          /\ StreamOK(s[c], Coming(c, u), Dry(c), broken[c])
          => \E v \in Seq(Units) :
                /\ peer'[c] = "open" => v = unsent'[c]
                /\ StreamOK(x, Coming(c, v)', Dry(c)', broken[c])
  <2> SUFFICES ASSUME StreamOK(s[c], Coming(c, unsent[c]), Dry(c), broken[c])
               PROVE  StreamOK(x, Coming(c, unsent[c])', Dry(c)', broken[c])
    BY <1>3, <1>7 DEF Coming
  <2> QED BY <1>1, <1>4, <1>7, <1>8, <1>9
<1> QED BY <1>3, <1>5, <1>7, <1>10, ReadStep

(* Every completion handler.                                               *)
LEMMA HandlerFrame ==
  ASSUME IInv, FrameInv, NEW c \in Conns, Handler(c)
  PROVE  FrameInv'
<1> DEFINE x == s[c]
           OK(y, rest) == StreamOK(y, rest, Dry(c), broken[c])
<1>1. SafeSession(x) /\ x \in SessionType /\ TypeOK BY DEF IInv, SafeSession
<1>2. Up => x.fault = "none" /\ x.sound
  BY <1>1 DEF Up, SafeSession, TimerOK
<1>3. Dry(c) \in BOOLEAN /\ broken[c] \in BOOLEAN BY <1>1, ComingType
<1>4. CASE HandleWait(c)
  <2>1. x.life = "live" /\ x.fault = "none" /\ x.wait \in Completed
    BY <1>2, <1>4 DEF HandleWait, Live
  <2>2. \A rest \in Seq(Units) : OK(x, rest) => OK(WaitHandler(x), rest)
    BY <1>1, <1>3, <2>1, WaitHandlerStream
  <2>3. s' = [s EXCEPT ![c] = WaitHandler(x)] /\ UNCHANGED client
    BY <1>4 DEF HandleWait, Become
  <2> QED BY <1>1, <2>2, <2>3, LocalStep
<1>5. CASE HandleHeader(c)
  <2>1. x.life = "live" /\ x.fault = "none" /\ x.header \in Completed
    BY <1>2, <1>5 DEF HandleHeader, Live
  <2>2. \A rest \in Seq(Units) : OK(x, rest) => OK(HeaderHandler(x), rest)
    BY <1>1, <1>3, <2>1, HeaderHandlerStream
  <2>3. s' = [s EXCEPT ![c] = HeaderHandler(x)] /\ UNCHANGED client
    BY <1>5 DEF HandleHeader, Become
  <2> QED BY <1>1, <2>2, <2>3, LocalStep
<1>6. CASE HandleBody(c)
  <2>1. /\ x.life = "live" /\ x.fault = "none" /\ x.sound
        /\ x.body \in Completed
    BY <1>2, <1>6 DEF HandleBody, Live
  <2>2. ASSUME NEW rest \in Seq(Units), OK(x, rest)
        PROVE  OK(BodyHandler(x), rest)
    <3>1. Quiet(x) BY <2>1, <2>2 DEF StreamOK, HeaderOK
    <3>2. x.body = "ok" /\ ~x.overlap => x.lack = 0
      BY <2>1, <2>2 DEF StreamOK, FrameOK
    <3>3. Leaves(x, BodyHandler(x)) /\ Quiet(BodyHandler(x))
      BY <1>1, <2>1, <3>1, <3>2, BodyHandlerLeaves
    <3> QED BY <1>3, <2>1, <2>2, <3>3, LeavesStream
  <2>3. s' = [s EXCEPT ![c] = BodyHandler(x)] /\ UNCHANGED client
    BY <1>6 DEF HandleBody, Become
  <2> QED BY <1>1, <2>2, <2>3, LocalStep
<1>7. CASE HandleSend(c)
  <2>1. x.life = "live" /\ x.fault = "none" /\ x.send \in Completed
    BY <1>2, <1>7 DEF HandleSend, Live
  <2>2. ASSUME NEW rest \in Seq(Units), OK(x, rest)
        PROVE  OK(SendHandler(x), rest)
    <3>1. Leaves(x, SendHandler(x)) /\ Quiet(SendHandler(x))
      BY <1>1, <2>1, SendHandlerLeaves
    <3> QED BY <1>3, <2>1, <2>2, <3>1, LeavesStream
  <2>3. s' = [s EXCEPT ![c] = SendHandler(x)] /\ UNCHANGED client
    BY <1>7 DEF HandleSend, Become
  <2> QED BY <1>1, <2>2, <2>3, LocalStep
<1>8. CASE ContinueBody(c)
  <2> DEFINE y == [x EXCEPT !.body = "pending"]
  <2>1. /\ x.life = "live" /\ x.body = "more" /\ UNCHANGED client
        /\ s' = [s EXCEPT ![c] = y]
    BY <1>8 DEF ContinueBody, Live
  <2>2. /\ y.buf = x.buf /\ y.off = x.off /\ y.got = x.got /\ y.lack = x.lack
        /\ y.overlap = x.overlap /\ y.life = x.life /\ y.sbusy = x.sbusy
        /\ y.wait = x.wait /\ y.header = x.header /\ y.body = "pending"
        /\ y.canceled = x.canceled /\ y.sound = x.sound
    BY <1>1 DEF SessionType
  <2> HIDE DEF y
  <2>3. ASSUME NEW rest \in Seq(Units), OK(x, rest) PROVE OK(y, rest)
    <3>1. HeaderOK(y) BY <2>2, <2>3 DEF StreamOK, HeaderOK, Quiet
    <3>2. FrameOK(y, rest, Dry(c), broken[c])
      BY <2>2, <2>3 DEF StreamOK, FrameOK, Fits
    <3> QED BY <3>1, <3>2 DEF StreamOK
  <2> QED BY <1>1, <2>1, <2>3, LocalStep
<1>9. CASE RunDangling(c)
  <2> DEFINE y == [x EXCEPT !.fault = "dangling"]
  <2>1. x.life = "gone" /\ UNCHANGED client /\ s' = [s EXCEPT ![c] = y]
    BY <1>9 DEF RunDangling
  <2>2. y.life = "gone" BY <1>1, <2>1 DEF SessionType
  <2>3. \A rest \in Seq(Units) : OK(y, rest)
    BY <2>2 DEF StreamOK, HeaderOK, FrameOK
  <2> QED BY <1>1, <2>1, <2>3, LocalStep
<1> QED BY <1>4, <1>5, <1>6, <1>7, <1>8, <1>9 DEF Handler

(* A tick reads nothing.                                                   *)
LEMMA TickFrame ==
  ASSUME IInv, FrameInv, Tick
  PROVE  FrameInv'
<1> SUFFICES ASSUME NEW c \in Conns
             PROVE  (\E u \in Seq(Units) :
                        /\ peer[c] = "open" => u = unsent[c]
                        /\ StreamOK(s[c], Coming(c, u), Dry(c), broken[c]))'
  BY DEF FrameInv
<1> DEFINE x == s[c]
           y == Ticked(x)
<1>1. PICK u \in Seq(Units) :
         /\ peer[c] = "open" => u = unsent[c]
         /\ StreamOK(x, Coming(c, u), Dry(c), broken[c])
  BY DEF FrameInv
<1>2. s'[c] = y BY DEF Tick
<1>3. SafeSession(x) /\ x \in SessionType /\ x.timer \in Nat /\ TypeOK
  BY SlotsAssumption DEF IInv, SafeSession, SessionType
<1>4. Coming(c, u) \in Seq(Units) /\ Dry(c) \in BOOLEAN /\ broken[c] \in BOOLEAN
  BY <1>3, ComingType
<1>5. StreamOK(y, Coming(c, u), Dry(c), broken[c])
  <2>1. CASE x.timer = 0 BY <1>1, <2>1, TickedCases
  <2>2. CASE x.timer # 0
    <3>1. x.life = "live" BY <1>3, <2>2 DEF SafeSession, TimerOK
    <3>2. Quiet(x) BY <1>1, <3>1 DEF StreamOK, HeaderOK
    <3>3. Leaves(x, Expire(x)) /\ Quiet(Expire(x))
      BY <1>3, <2>2, <3>2, ExpireLeaves
    <3> DEFINE z == [x EXCEPT !.timer = @ - 1]
    <3>4. Leaves(x, z) /\ Quiet(z)
      BY <1>3, <3>2 DEF SessionType, Leaves, Quiet
    <3>5. y \in {Expire(x), z} BY <1>3, <2>2 DEF Ticked
    <3> HIDE DEF y, z
    <3> QED BY <1>1, <1>4, <3>1, <3>3, <3>4, <3>5, LeavesStream
  <2> QED BY <2>1, <2>2
<1>6. UNCHANGED client BY DEF Tick
<1>7. /\ peer'[c] = peer[c] /\ unsent'[c] = unsent[c]
      /\ broken'[c] = broken[c]
      /\ Coming(c, u)' = Coming(c, u) /\ Dry(c)' = Dry(c)
  BY <1>6 DEF client, Coming, Dry, Source
<1>8. StreamOK(s'[c], Coming(c, u)', Dry(c)', broken'[c])
  BY <1>2, <1>5, <1>7
<1> QED BY <1>1, <1>7, <1>8

(* Whatever the TLS engine reads ahead, a read takes the first units of    *)
(* what the connection holds and leaves the others.                        *)
LEMMA TakeSplits ==
  ASSUME TypeOK, NEW c \in Conns, NEW n \in 1 .. Len(Source(c)), Take(c, n)
  PROVE  LET whole == held[c] \o sock[c]
             left  == held'[c] \o sock'[c]
         IN  /\ whole = SubSeq(Source(c), 1, n) \o left
             /\ SubSeq(Source(c), 1, n) \in Seq(Units)
             /\ left \in Seq(Units)
             /\ n \in 0 .. Len(whole)
             /\ left = SubSeq(whole, n + 1, Len(whole))
             /\ \A d \in Conns \ {c} : held'[d] = held[d] /\ sock'[d] = sock[d]
<1> DEFINE a == held[c]
           b == sock[c]
           got == SubSeq(Source(c), 1, n)
<1>1. sock \in [Conns -> Seq(Units)] /\ held \in [Conns -> Seq(Units)]
  BY DEF TypeOK
<1>2. a \in Seq(Units) /\ b \in Seq(Units) BY <1>1
<1>3. CASE a # <<>>
  <2>1. Source(c) = a BY <1>3 DEF Source
  <2>2. held' = [held EXCEPT ![c] = Drop(a, n)] /\ sock' = sock
    BY <1>3 DEF Take
  <2> DEFINE e == SubSeq(a, n + 1, Len(a))
             whole == a \o b
  <2>3. held'[c] = e /\ sock'[c] = b
        /\ \A d \in Conns \ {c} : held'[d] = held[d] /\ sock'[d] = sock[d]
    BY <1>1, <2>2 DEF Drop
  <2> HIDE DEF a, b
  <2>4. n \in 0 .. Len(a) /\ n \in 0 .. Len(whole)
    <3>1. Len(whole) = Len(a) + Len(b) BY <1>2, ConcatProperties
    <3>2. Len(a) \in Nat /\ Len(b) \in Nat BY <1>2
    <3> HIDE DEF whole
    <3> QED BY <2>1, <3>1, <3>2
  <2>5. got \o e = a BY <1>2, <2>1, <2>4, Split
  <2>6. got \in Seq(Units) BY <1>2, <2>1, <2>4, PartType
  <2>7. e \in Seq(Units) /\ e \o b = SubSeq(whole, n + 1, Len(whole))
    BY <1>2, <2>4, DropUnits
  <2> HIDE DEF e, got
  <2>8. (got \o e) \o b = got \o (e \o b) BY <1>2, <2>6, <2>7, Joins
  <2>9. e \o b \in Seq(Units) BY <1>2, <2>7, ConcatProperties
  <2> QED BY <2>3, <2>4, <2>5, <2>6, <2>7, <2>8, <2>9 DEF a, b, got
<1>4. CASE a = <<>>
  <2>1. Source(c) = b BY <1>4 DEF Source
  <2>2. PICK m \in IF c \in Secure THEN n .. Len(b) ELSE {n} :
           /\ sock' = [sock EXCEPT ![c] = Drop(b, m)]
           /\ held' = [held EXCEPT ![c] = SubSeq(b, n + 1, m)]
    BY <1>4 DEF Take
  <2> DEFINE e == SubSeq(b, n + 1, m)
             f == SubSeq(b, m + 1, Len(b))
             g == SubSeq(b, 1, m)
  <2>3. held'[c] = e /\ sock'[c] = f
        /\ \A d \in Conns \ {c} : held'[d] = held[d] /\ sock'[d] = sock[d]
    BY <1>1, <2>2 DEF Drop
  <2>4. <<>> \o b = b BY <1>2, ConcatEmptySeq
  <2> HIDE DEF a, b
  <2>5. /\ n \in 0 .. Len(b) /\ n \in 0 .. m /\ m \in 0 .. Len(b)
        /\ Len(b) \in Nat /\ m \in Nat /\ n \in Nat
    BY <1>2, <2>1, <2>2
  <2>6. got \in Seq(Units) /\ f \in Seq(Units) /\ e \in Seq(Units)
    <3>1. got \in Seq(Units) BY <1>2, <2>1, <2>5, PartType
    <3>2. f \in Seq(Units) BY <1>2, <2>5, DropUnits
    <3>3. e \in Seq(Units)
      <4>1. n + 1 \in Nat \ {0} BY <2>5
      <4> QED BY <1>2, <2>5, <4>1, PartType
    <3> QED BY <3>1, <3>2, <3>3
  <2>7. g \in Seq(Units) /\ Len(g) = m /\ g \o f = b
    <3>1. \A i \in 1 .. m : b[i] \in Units BY <1>2, <2>5
    <3>2. 1 \in Int /\ m \in Int BY <2>5
    <3>3. g \in Seq(Units) /\ Len(g) = IF 1 <= m THEN m - 1 + 1 ELSE 0
      BY <3>1, <3>2, SubSeqProperties
    <3>4. g \o f = b BY <1>2, <2>5, Split
    <3> HIDE DEF g, f
    <3>5. Len(g) = m BY <2>5, <3>3
    <3> QED BY <3>3, <3>4, <3>5
  <2>8. e = SubSeq(g, n + 1, Len(g))
    <3>1. \A i \in n + 1 .. m : b[i] \in Units BY <1>2, <2>5
    <3>2. \A i \in n + 1 .. m : g[i] = b[i]
      <4>1. \A i \in 1 .. m : b[i] \in Units BY <1>2, <2>5
      <4>2. \A i \in 1 .. m : g[i] = b[i] BY <2>5 DEF g
      <4> QED BY <2>5, <4>2
    <3>3. n + 1 \in Int /\ m \in Int BY <2>5
    <3> DEFINE h == SubSeq(g, n + 1, m)
    <3>4. /\ e \in Seq(Units)
          /\ Len(e) = IF n + 1 <= m THEN m - (n + 1) + 1 ELSE 0
          /\ \A i \in 1 .. m - (n + 1) + 1 : e[i] = b[n + 1 + i - 1]
      BY <3>1, <3>3, SubSeqProperties
    <3>5. \A i \in n + 1 .. m : g[i] \in Units BY <3>1, <3>2
    <3> HIDE DEF e, g
    <3>6. /\ h \in Seq(Units)
          /\ Len(h) = IF n + 1 <= m THEN m - (n + 1) + 1 ELSE 0
          /\ \A i \in 1 .. m - (n + 1) + 1 : h[i] = g[n + 1 + i - 1]
      BY <3>3, <3>5, SubSeqProperties
    <3> HIDE DEF h
    <3>7. \A i \in 1 .. m - (n + 1) + 1 : n + 1 + i - 1 \in n + 1 .. m
      BY <2>5
    <3>8. Len(e) = Len(h) /\ \A i \in 1 .. Len(e) : e[i] = h[i]
      <4>1. CASE n + 1 <= m
        <5>1. Len(e) = m - (n + 1) + 1 BY <3>4, <4>1
        <5> QED BY <3>2, <3>4, <3>6, <3>7, <4>1, <5>1
      <4>2. CASE ~(n + 1 <= m) BY <3>4, <3>6, <4>2
      <4> QED BY <4>1, <4>2
    <3>9. e = h BY <3>4, <3>6, <3>8, SeqEqual
    <3> QED BY <2>7, <3>9 DEF h
  <2> DEFINE h == SubSeq(b, n + 1, Len(b))
  <2>9. e \o f = h
    <3>1. n \in 0 .. Len(g) BY <2>5, <2>7
    <3> HIDE DEF e, f, g
    <3>2. SubSeq(g, n + 1, Len(g)) \o f
            = SubSeq(g \o f, n + 1, Len(g \o f))
      BY <2>6, <2>7, <3>1, DropUnits
    <3> QED BY <2>7, <2>8, <3>2
  <2>10. got \o h = b BY <1>2, <2>1, <2>5, Split
  <2>11. h \in Seq(Units) BY <1>2, <2>5, DropUnits
  <2> HIDE DEF e, f, g, h, got
  <2>12. held'[c] \o sock'[c] = h /\ held[c] \o sock[c] = b
    BY <1>4, <2>3, <2>4, <2>9 DEF a, b
  <2> QED BY <2>3, <2>5, <2>6, <2>10, <2>11, <2>12 DEF got, h
<1> QED BY <1>3, <1>4

(* Every completion the reactor finds, and every read.                     *)
LEMMA ReactorFrame ==
  ASSUME IInv, FrameInv, NEW c \in Conns, Reactor(c)
  PROVE  FrameInv'
<1> DEFINE x == s[c]
           OK(y, rest) == StreamOK(y, rest, Dry(c), broken[c])
           Holds(u) == /\ peer[c] = "open" => u = unsent[c]
                       /\ OK(x, Coming(c, u))
<1>1. /\ SafeSession(x) /\ x \in SessionType /\ TypeOK
      /\ ChainOK(x) /\ CoverOK(x)
  BY DEF IInv, SafeSession
<1>2. x.lack \in Nat /\ x.off \in Nat /\ x.buf \in Seq(Units)
      /\ Len(x.buf) \in Nat /\ BlockSize \in Nat \ {0} /\ x.sound
  <2>1. x.fault = "none"
    BY DEF Reactor, CompleteWait, CompleteHeader, CompleteBody, CompleteSend, Up
  <2> QED BY <1>1, <2>1, BlockAssumption DEF SessionType, SafeSession, TimerOK
<1>3. ASSUME NEW y, s' = [s EXCEPT ![c] = y], UNCHANGED client,
             Leaves(x, y), Quiet(x) => Quiet(y), x.life = "live"
      PROVE  FrameInv'
  <2>1. Dry(c) \in BOOLEAN /\ broken[c] \in BOOLEAN BY <1>1, ComingType
  <2>2. ASSUME NEW rest \in Seq(Units), OK(x, rest) PROVE OK(y, rest)
    <3>1. Quiet(x) BY <1>3, <2>2 DEF StreamOK, HeaderOK
    <3> QED BY <1>3, <2>1, <2>2, <3>1, LeavesStream
  <2> QED BY <1>1, <1>3, <2>2, LocalStep
<1>4. CASE CompleteWait(c)
  <2>1. PICK result \in Completed : s' = [s EXCEPT ![c].wait = result]
    BY <1>4 DEF CompleteWait, Completed
  <2> DEFINE y == [x EXCEPT !.wait = result]
  <2>2. x.life = "live" /\ x.wait = "pending" /\ UNCHANGED client
        /\ s' = [s EXCEPT ![c] = y]
    BY <1>4, <2>1 DEF CompleteWait, Live
  <2>3. Leaves(x, y) /\ (Quiet(x) => Quiet(y))
    BY <1>1, <2>2 DEF SessionType, Leaves, Quiet
  <2> QED BY <1>3, <2>2, <2>3
<1>5. CASE CompleteSend(c)
  <2>1. PICK result \in Completed : s' = [s EXCEPT ![c].send = result]
    BY <1>5 DEF CompleteSend, Completed
  <2> DEFINE y == [x EXCEPT !.send = result]
  <2>2. x.life = "live" /\ UNCHANGED client /\ s' = [s EXCEPT ![c] = y]
    BY <1>5, <2>1 DEF CompleteSend, Live
  <2>3. Leaves(x, y) /\ (Quiet(x) => Quiet(y))
    BY <1>1, <2>2 DEF SessionType, Leaves, Quiet
  <2> QED BY <1>3, <2>2, <2>3
<1>6. CASE CompleteHeader(c)
  <2>1. /\ x.life = "live" /\ x.header = "pending" /\ ~x.canceled
        /\ ~x.overlap => x.body = "idle"
        /\ UNCHANGED <<unsent, peer, broken>>
    BY <1>1, <1>6 DEF CompleteHeader, Live, ChainOK, CoverOK
  <2>2. ASSUME NEW n \in 1 .. Len(Source(c)), Take(c, n), ~broken[c],
               n <= Capacity(x),
               s' = [s EXCEPT ![c].header = "ok",
                              ![c].got = SubSeq(Source(c), 1, n)]
        PROVE  FrameInv'
    <3> DEFINE got  == SubSeq(Source(c), 1, n)
               y    == [x EXCEPT !.header = "ok", !.got = got]
               whole == held[c] \o sock[c]
               left == held'[c] \o sock'[c]
    <3>1. /\ whole = got \o left /\ got \in Seq(Units) /\ left \in Seq(Units)
          /\ \A d \in Conns \ {c} : held'[d] = held[d] /\ sock'[d] = sock[d]
      BY <1>1, <2>2, TakeSplits
    <3>2. Source(c) \in Seq(Units) /\ Source(c) # <<>> /\ n \in Nat /\ ~Dry(c)
      <4>1. Source(c) \in Seq(Units) BY <1>1, ComingType
      <4>2. Source(c) # <<>> BY <2>2, <4>1
      <4> QED BY <2>2, <4>1, <4>2 DEF Dry
    <3>3. Len(got) = n
      <4>1. \A i \in 1 .. n : Source(c)[i] \in Units BY <2>2, <3>2
      <4>2. 1 \in Int /\ n \in Int BY <3>2
      <4>3. Len(got) = IF 1 <= n THEN n - 1 + 1 ELSE 0
        BY <4>1, <4>2, SubSeqProperties
      <4> HIDE DEF got
      <4> QED BY <2>2, <4>3
    <3> HIDE DEF got
    <3>4. /\ y.buf = x.buf /\ y.off = x.off /\ y.got = got /\ y.lack = x.lack
          /\ y.overlap = x.overlap /\ y.life = x.life /\ y.sbusy = x.sbusy
          /\ y.wait = x.wait /\ y.header = "ok" /\ y.body = x.body
          /\ y.canceled = x.canceled /\ y.sound = x.sound
      BY <1>1 DEF SessionType
    <3>5. s' = [s EXCEPT ![c] = y] BY <2>2 DEF got
    <3> HIDE DEF y
    <3>6. ASSUME NEW u \in Seq(Units), Holds(u)
          PROVE  StreamOK(y, left \o u, Dry(c)', broken[c])
      <4>1. x.got = <<>> /\ Ends(x.buf) = {} /\ Quiet(x)
        BY <2>1, <3>6 DEF StreamOK, HeaderOK
      <4>2. ~x.overlap => x.lack = 0
        BY <1>2, <2>1, <3>2, <3>6 DEF StreamOK, FrameOK
      <4>3. HeaderOK(y)
        <5>1. PICK m \in Nat : m = x.off + Len(x.buf) BY <1>2
        <5>2. m % BlockSize \in 0 .. BlockSize - 1 BY <1>2, ModBound
        <5> DEFINE v == m % BlockSize
        <5>3. n <= BlockSize - v BY <2>2, <5>1 DEF Capacity
        <5>4. v \in Nat BY <1>2, <5>2
        <5> HIDE DEF v
        <5>5. v + n <= BlockSize BY <1>2, <3>2, <5>3, <5>4
        <5>6. ((x.off + Len(x.buf)) % BlockSize) + Len(got) <= BlockSize
          BY <3>3, <5>1, <5>5 DEF v
        <5> QED BY <2>1, <3>4, <4>1, <5>6 DEF HeaderOK, Quiet
      <4>4. (x.buf \o <<>>) \o Coming(c, u) = (x.buf \o got) \o (left \o u)
        <5> DEFINE b == x.buf
                   h == left
        <5>1. b \in Seq(Units) /\ h \in Seq(Units) /\ got \in Seq(Units)
          BY <1>2, <3>1
        <5>2. Coming(c, u) = (got \o h) \o u BY <3>1 DEF Coming
        <5> HIDE DEF b, h
        <5>3. (got \o h) \o u = got \o (h \o u) BY <5>1, Joins
        <5> DEFINE r == h \o u
        <5>4. r \in Seq(Units) BY <5>1, ConcatProperties
        <5> HIDE DEF r
        <5>5. (b \o got) \o r = b \o (got \o r) BY <5>1, <5>4, Joins, SMTT(60)
        <5>6. b \o <<>> = b BY <5>1, ConcatEmptySeq
        <5> QED BY <5>2, <5>3, <5>5, <5>6 DEF b, h, r
      <4>5. Fits(x, Coming(c, u)) => Fits(y, left \o u)
        BY <3>4, <4>1, <4>4 DEF Fits
      <4>6. FrameOK(y, left \o u, Dry(c)', broken[c])
        BY <2>1, <2>2, <3>4, <3>6, <4>2, <4>5 DEF StreamOK, FrameOK
      <4> QED BY <4>3, <4>6 DEF StreamOK
    <3>7. ASSUME NEW u \in Seq(Units), Holds(u)
          PROVE  /\ peer'[c] = "open" => u = unsent'[c]
                 /\ StreamOK(y, Coming(c, u)', Dry(c)', broken[c])
      BY <2>1, <3>6, <3>7 DEF Coming
    <3> QED BY <1>1, <2>1, <3>1, <3>5, <3>7, ReadStep
  <2>3. ASSUME s' = [s EXCEPT ![c].header = "err"],
               UNCHANGED <<sock, held>>
        PROVE  FrameInv'
    <3> DEFINE y == [x EXCEPT !.header = "err"]
    <3>1. UNCHANGED client /\ s' = [s EXCEPT ![c] = y]
      BY <2>1, <2>3 DEF client
    <3>2. Leaves(x, y) /\ (Quiet(x) => Quiet(y))
      BY <1>1, <2>1 DEF SessionType, Leaves, Quiet, Aborted
    <3> QED BY <1>3, <2>1, <3>1, <3>2
  <2> QED BY <1>6, <2>2, <2>3 DEF CompleteHeader
<1>7. CASE CompleteBody(c)
  <2>1. /\ x.life = "live" /\ x.body = "pending"
        /\ UNCHANGED <<unsent, peer, broken>>
    BY <1>7 DEF CompleteBody, Live
  <2>2. ASSUME NEW n \in 1 .. Len(Source(c)),
               NEW w \in WokenToo(x.wait) \cup {x.wait}, n <= x.lack,
               Take(c, n), ~broken[c],
               s' = [s EXCEPT ![c] = BodyRead(x, n, w)]
        PROVE  FrameInv'
    <3> DEFINE y     == BodyRead(x, n, w)
               whole == held[c] \o sock[c]
               left  == held'[c] \o sock'[c]
    <3>1. /\ left = SubSeq(whole, n + 1, Len(whole)) /\ n \in 0 .. Len(whole)
          /\ left \in Seq(Units)
          /\ \A d \in Conns \ {c} : held'[d] = held[d] /\ sock'[d] = sock[d]
      BY <1>1, <2>2, TakeSplits
    <3>2. n \in Nat /\ n > 0 /\ whole \in Seq(Units)
      <4>1. Source(c) \in Seq(Units) /\ whole \in Seq(Units)
        BY <1>1, ComingType
      <4> QED BY <2>2, <4>1
    <3>3. /\ y.buf = x.buf /\ y.off = x.off /\ y.got = x.got
          /\ y.lack = x.lack - n
          /\ y.overlap = x.overlap /\ y.life = x.life /\ y.sbusy = x.sbusy
          /\ y.wait = w /\ y.header = x.header
          /\ y.body = IF n = x.lack THEN "ok" ELSE "more"
          /\ y.canceled = x.canceled /\ y.sound = x.sound
      BY <1>1 DEF SessionType, BodyRead
    <3>4. w # "idle" => x.wait # "idle" BY <2>2 DEF WokenToo
    <3> HIDE DEF y, left, whole
    <3>5. ASSUME NEW u \in Seq(Units), Holds(u)
          PROVE  StreamOK(y, left \o u, Dry(c)', broken[c])
      <4>1. HeaderOK(y) BY <3>3, <3>4, <3>5 DEF StreamOK, HeaderOK, Quiet
      <4>2. ASSUME ~x.overlap
            PROVE  /\ x.buf = <<>> /\ x.got = <<>>
                   /\ Fits(y, left \o u)
        <5>1. x.lack > 0 BY <1>2, <2>2, <3>2
        <5>2. x.buf = <<>> /\ x.got = <<>> /\ Fits(x, Coming(c, u))
          BY <1>2, <2>1, <3>5, <4>2, <5>1 DEF StreamOK, FrameOK
        <5>3. PICK q \in Rests :
                 (<<>> \o <<>>) \o Coming(c, u) = Bodies(x.lack) \o q
          BY <5>2 DEF Fits
        <5>4. whole \o u = Bodies(x.lack) \o q
          <6>1. whole \o u \in Seq(Units) BY <3>2, ConcatProperties
          <6>2. <<>> \o <<>> = <<>> OBVIOUS
          <6>3. Coming(c, u) = whole \o u BY DEF Coming, whole
          <6>4. <<>> \o (whole \o u) = whole \o u BY <6>1, ConcatEmptySeq
          <6> QED BY <5>3, <6>2, <6>3, <6>4
        <5>5. left \o u = Bodies(x.lack - n) \o q
          <6>1. x.lack \in Nat /\ n <= x.lack /\ n \in 0 .. Len(whole)
            BY <1>2, <2>2, <3>1
          <6> DEFINE lack == x.lack
          <6> HIDE DEF lack
          <6>2. SubSeq(whole, n + 1, Len(whole)) \o u = Bodies(lack - n) \o q
            BY <3>2, <5>4, <6>1, Shorter DEF lack
          <6> QED BY <3>1, <6>2 DEF lack
        <5>6. left \o u \in Seq(Units) BY <3>1, ConcatProperties
        <5>7. (<<>> \o <<>>) \o (left \o u) = left \o u
          <6>1. <<>> \o <<>> = <<>> OBVIOUS
          <6>2. <<>> \o (left \o u) = left \o u BY <5>6, ConcatEmptySeq
          <6> QED BY <6>1, <6>2
        <5>8. Fits(y, left \o u) BY <3>3, <5>2, <5>5, <5>7 DEF Fits
        <5> QED BY <5>2, <5>8
      <4>3. y.body = "ok" => y.lack = 0 BY <1>2, <3>3
      <4>4. y.body \notin {"idle", "err"} BY <3>3
      <4>5. FrameOK(y, left \o u, Dry(c)', broken[c])
        BY <2>1, <2>2, <3>3, <4>2, <4>3, <4>4 DEF FrameOK
      <4> QED BY <4>1, <4>5 DEF StreamOK
    <3>6. ASSUME NEW u \in Seq(Units), Holds(u)
          PROVE  /\ peer'[c] = "open" => u = unsent'[c]
                 /\ StreamOK(y, Coming(c, u)', Dry(c)', broken[c])
      BY <2>1, <3>5, <3>6 DEF Coming, left
    <3>7. s' = [s EXCEPT ![c] = y] BY <2>2 DEF y
    <3> QED BY <1>1, <2>1, <3>1, <3>6, <3>7, ReadStep
  <2>3. ASSUME s' = [s EXCEPT ![c].body = "err"], UNCHANGED <<sock, held>>,
               Unreadable(c)
        PROVE  FrameInv'
    <3> DEFINE y == [x EXCEPT !.body = "err"]
    <3>1. UNCHANGED client /\ s' = [s EXCEPT ![c] = y]
      BY <2>1, <2>3 DEF client
    <3>2. /\ y.buf = x.buf /\ y.off = x.off /\ y.got = x.got /\ y.lack = x.lack
          /\ y.overlap = x.overlap /\ y.life = x.life /\ y.sbusy = x.sbusy
          /\ y.wait = x.wait /\ y.header = x.header /\ y.body = "err"
          /\ y.canceled = x.canceled /\ y.sound = x.sound
      BY <1>1 DEF SessionType
    <3> HIDE DEF y
    <3>3. broken[c] \/ Dry(c) BY <2>3 DEF Unreadable, Dry
    <3>4. ASSUME NEW rest \in Seq(Units), OK(x, rest) PROVE OK(y, rest)
      <4>1. HeaderOK(y) BY <3>2, <3>4 DEF StreamOK, HeaderOK, Quiet
      <4>2. Fits(x, rest) => Fits(y, rest) BY <3>2 DEF Fits
      <4>3. FrameOK(y, rest, Dry(c), broken[c])
        BY <1>2, <2>1, <3>2, <3>3, <3>4, <4>2 DEF StreamOK, FrameOK
      <4> QED BY <4>1, <4>3 DEF StreamOK
    <3> QED BY <1>1, <3>1, <3>4, LocalStep
  <2> QED BY <1>7, <2>2, <2>3 DEF CompleteBody
<1> QED BY <1>4, <1>5, <1>6, <1>7 DEF Reactor

(* What a client sends or gives up sending is still accounted for.         *)
LEMMA ClientFrame ==
  ASSUME IInv, FrameInv, NEW c \in Conns, Client(c)
  PROVE  FrameInv'
<1> DEFINE x == s[c]
           h == held[c]
           b == sock[c]
           u == unsent[c]
<1>1. TypeOK BY DEF IInv
<1>2. /\ s' = [s EXCEPT ![c] = x] /\ broken' = broken /\ held' = held
      /\ peer[c] = "open"
      /\ \A d \in Conns \ {c} :
            /\ held'[d] = held[d] /\ sock'[d] = sock[d]
            /\ unsent'[d] = unsent[d] /\ peer'[d] = peer[d]
  BY <1>1 DEF Client, Deliver, Disconnect, TypeOK
<1>3. h \in Seq(Units) /\ b \in Seq(Units) /\ u \in Seq(Units)
      /\ sock \in [Conns -> Seq(Units)] /\ unsent \in [Conns -> Seq(Units)]
      /\ peer \in [Conns -> {"open", "closed"}]
  BY <1>1 DEF TypeOK
<1>4. ASSUME NEW rest, StreamOK(x, rest, Dry(c), broken[c])
      PROVE  StreamOK(x, rest, Dry(c)', broken[c])
  BY <1>2, <1>4 DEF StreamOK, FrameOK, Dry
<1>5. CASE Deliver(c)
  <2>0. PICK e, t : e = Head(u) /\ t = Tail(u) OBVIOUS
  <2>1. /\ u # <<>> /\ sock'[c] = Append(b, e) /\ unsent'[c] = t
        /\ held'[c] = h /\ peer'[c] = peer[c]
    BY <1>3, <1>5, <2>0 DEF Deliver
  <2>2. e \in Units /\ t \in Seq(Units)
    BY <1>3, <2>0, <2>1, HeadTailProperties
  <2>3. Coming(c, t)' = Coming(c, u)
    <3> HIDE DEF h, b, u
    <3>1. (h \o Append(b, e)) \o t = (h \o b) \o u
      <4>1. u = <<e>> \o t
        <5>1. <<e>> \in Seq(Units) /\ Len(<<e>>) = 1 /\ <<e>>[1] = e
          BY <2>2
        <5>2. /\ t \in Seq(Units) /\ Len(t) = Len(u) - 1
              /\ \A i \in 1 .. Len(t) : t[i] = u[i + 1]
          BY <1>3, <2>0, <2>1, HeadTailProperties
        <5>3. e = u[1] /\ Len(u) \in Nat \ {0} BY <1>3, <2>0, <2>1
        <5> DEFINE v == <<e>>
        <5> HIDE DEF v
        <5>4. /\ v \o t \in Seq(Units) /\ Len(v \o t) = Len(v) + Len(t)
              /\ \A i \in 1 .. Len(v) + Len(t) :
                    (v \o t)[i] = IF i <= Len(v) THEN v[i] ELSE t[i - Len(v)]
          BY <5>1, <5>2, ConcatProperties DEF v
        <5>5. Len(v \o t) = Len(u) BY <5>1, <5>2, <5>3, <5>4 DEF v
        <5>6. ASSUME NEW i \in 1 .. Len(v \o t) PROVE (v \o t)[i] = u[i]
          <6>1. i \in 1 .. Len(u) /\ Len(v) = 1 /\ v[1] = u[1]
            BY <5>1, <5>3, <5>5 DEF v
          <6>2. (v \o t)[i] = IF i <= 1 THEN v[i] ELSE t[i - 1]
            BY <5>4, <6>1
          <6>3. CASE i = 1 BY <6>1, <6>2, <6>3
          <6>4. CASE i # 1
            <7>1. i - 1 \in 1 .. Len(t) /\ (i - 1) + 1 = i
              BY <5>2, <5>3, <6>1, <6>4
            <7>2. ~(i <= 1) BY <6>1, <6>4
            <7> QED BY <5>2, <6>2, <7>1, <7>2
          <6> QED BY <6>3, <6>4
        <5>7. v \o t = u BY <1>3, <5>4, <5>5, <5>6, SeqEqual
        <5> QED BY <5>7 DEF v
      <4> DEFINE v == <<e>>
      <4>2. v \in Seq(Units) BY <2>2
      <4>3. Append(b, e) = b \o v BY <1>3, <2>2, AppendIsConcat
      <4> HIDE DEF v
      <4>4. h \o b \in Seq(Units) BY <1>3, ConcatProperties
      <4>5. h \o (b \o v) = (h \o b) \o v BY <1>3, <4>2, Joins
      <4> DEFINE k == h \o b
      <4> HIDE DEF k
      <4>6. (k \o v) \o t = k \o (v \o t) BY <2>2, <4>2, <4>4, Joins DEF k
      <4> QED BY <4>1, <4>3, <4>5, <4>6 DEF k, v
    <3> QED BY <2>1, <3>1 DEF Coming, h, b
  <2>4. ASSUME NEW w \in Seq(Units), peer[c] = "open" => w = u,
               StreamOK(x, Coming(c, w), Dry(c), broken[c])
        PROVE  /\ peer'[c] = "open" => t = unsent'[c]
               /\ StreamOK(x, Coming(c, t)', Dry(c)', broken[c])
    BY <1>2, <1>4, <2>1, <2>3, <2>4
  <2> HIDE DEF x
  <2>5. \A w \in Seq(Units) :
           /\ peer[c] = "open" => w = unsent[c]
           /\ StreamOK(x, Coming(c, w), Dry(c), broken[c])
           => \E v \in Seq(Units) :
                 /\ peer'[c] = "open" => v = unsent'[c]
                 /\ StreamOK(x, Coming(c, v)', Dry(c)', broken[c])
    BY <2>2, <2>4
  <2> QED BY <1>1, <1>2, <2>5, ReadStep DEF x
<1>6. CASE Disconnect(c)
  <2>1. PICK kept \in {b, <<>>} : sock'[c] = kept
    BY <1>3, <1>6 DEF Disconnect
  <2>2. held'[c] = h /\ peer'[c] = "closed"
    BY <1>3, <1>6 DEF Disconnect
  <2>3. \E v \in Seq(Units) : (h \o kept) \o v = (h \o b) \o u
    <3> HIDE DEF h, b, u
    <3>1. CASE kept = b BY <1>3, <3>1
    <3>2. CASE kept = <<>>
      <4>1. h \o <<>> = h BY <1>3, ConcatEmptySeq
      <4>2. (h \o b) \o u = h \o (b \o u) BY <1>3, Joins
      <4>3. b \o u \in Seq(Units) BY <1>3, ConcatProperties
      <4> QED BY <3>2, <4>1, <4>2, <4>3
    <3> QED BY <2>1, <3>1, <3>2
  <2>4. PICK v \in Seq(Units) : (h \o kept) \o v = (h \o b) \o u BY <2>3
  <2>5. Coming(c, v)' = Coming(c, u) BY <2>1, <2>2, <2>4 DEF Coming
  <2>6. ASSUME NEW w \in Seq(Units), peer[c] = "open" => w = u,
               StreamOK(x, Coming(c, w), Dry(c), broken[c])
        PROVE  /\ peer'[c] = "open" => v = unsent'[c]
               /\ StreamOK(x, Coming(c, v)', Dry(c)', broken[c])
    BY <1>2, <1>4, <2>2, <2>5, <2>6
  <2> HIDE DEF x
  <2> QED BY <1>1, <1>2, <2>6, ReadStep DEF x
<1> QED BY <1>5, <1>6 DEF Client

(* Every step of the worker keeps the invariant.                           *)
LEMMA StepFrame ==
  ASSUME IInv, FrameInv, [Next]_vars
  PROVE  FrameInv'
<1>1. CASE Tick BY <1>1, TickFrame
<1>2. ASSUME NEW c \in Conns, Create(c) PROVE FrameInv' BY <1>2, CreateFrame
<1>3. ASSUME NEW c \in Conns, Handler(c) PROVE FrameInv' BY <1>3, HandlerFrame
<1>4. ASSUME NEW c \in Conns, Reactor(c) PROVE FrameInv' BY <1>4, ReactorFrame
<1>5. ASSUME NEW c \in Conns, Client(c) PROVE FrameInv' BY <1>5, ClientFrame
<1>6. CASE UNCHANGED vars
  BY <1>6 DEF vars, FrameInv, Coming, Dry, Source
<1> QED BY <1>1, <1>2, <1>3, <1>4, <1>5, <1>6 DEF Next

(* The invariant of the byte streams, for any streams of requests, any     *)
(* block size and however the reads cut the streams.                       *)
THEOREM FrameInvariance == Spec => []FrameInv
BY InitFrame, StepFrame, Invariance, PTL DEF Spec

(* No header is in the buffer while the session reads on for one           *)
(* (transceiver.cpp's two searches, of which each sees only a part of the  *)
(* buffer, miss none), and between headers the buffer is one block.        *)
THEOREM HeaderSafe == Spec => []HeaderDetected
<1>1. FrameInv => HeaderDetected
  BY DEF FrameInv, StreamOK, HeaderOK, HeaderDetected, Live
<1> QED BY <1>1, FrameInvariance, PTL

(* What a session has not consumed of its connection is the rest of a body *)
(* and then whole requests: transceiver::_receive_content and the two      *)
(* searches for a header neither lose, repeat nor misplace a unit, unless  *)
(* a header was read while a body was outstanding.                         *)
THEOREM FramingSafe == Spec => []Framing
<1>1. IInv /\ FrameInv => Framing
  <2> SUFFICES ASSUME IInv, FrameInv, NEW c \in Conns
               PROVE  /\ s[c].life = "garbled" => s[c].overlap
                      /\ Live(c) /\ peer[c] = "open" /\ ~s[c].overlap
                            /\ s[c].sound
                         => \E q \in Rests :
                               s[c].buf \o s[c].got \o held[c] \o sock[c]
                                     \o unsent[c]
                                  = Bodies(s[c].lack) \o q
    BY DEF Framing, Bodies
  <2>1. PICK w \in Seq(Units) :
           /\ peer[c] = "open" => w = unsent[c]
           /\ StreamOK(s[c], Coming(c, w), Dry(c), broken[c])
    BY DEF FrameInv
  <2>2. s[c].life = "garbled" => s[c].overlap BY <2>1 DEF StreamOK, FrameOK
  <2>3. ASSUME Live(c), peer[c] = "open", ~s[c].overlap, s[c].sound
        PROVE  \E q \in Rests :
                  s[c].buf \o s[c].got \o held[c] \o sock[c] \o unsent[c]
                     = Bodies(s[c].lack) \o q
    <3> DEFINE a == s[c].buf \o s[c].got
               h == held[c]
               b == sock[c]
               u == unsent[c]
    <3>1. PICK q \in Rests : a \o ((h \o b) \o u) = Bodies(s[c].lack) \o q
      BY <2>1, <2>3 DEF StreamOK, FrameOK, Fits, Coming, Live
    <3>2. /\ a \in Seq(Units) /\ h \in Seq(Units) /\ b \in Seq(Units)
          /\ u \in Seq(Units)
      <4>1. s[c].buf \in Seq(Units) /\ s[c].got \in Seq(Units)
        BY DEF IInv, TypeOK, SessionType
      <4>2. a \in Seq(Units) BY <4>1, ConcatProperties
      <4> QED BY <4>2 DEF IInv, TypeOK
    <3> HIDE DEF a, h, b, u
    <3>3. a \o h \in Seq(Units) /\ h \o b \in Seq(Units)
      BY <3>2, ConcatProperties
    <3>4. (a \o h) \o b = a \o (h \o b) BY <3>2, Joins, SMTT(60)
    <3> DEFINE k == h \o b
    <3>a. k \in Seq(Units) BY <3>3
    <3> HIDE DEF k
    <3>5. (a \o k) \o u = a \o (k \o u) BY <3>2, <3>a, Joins, SMTT(60)
    <3>6. ((a \o h) \o b) \o u = Bodies(s[c].lack) \o q
      BY <3>1, <3>4, <3>5 DEF k
    <3> QED BY <3>6 DEF a, h, b, u
  <2> QED BY <2>2, <2>3
<1> QED BY <1>1, Invariance, FrameInvariance, PTL

-----------------------------------------------------------------------------
(* The promise.                                                            *)

(* From x, y is in one of the given phases, with the given counts more.    *)
Leads(x, y, phases, more, replies) ==
    /\ PhaseOf(y) \in phases
    /\ y.asked = x.asked + more
    /\ y.answered = x.answered + replies

(* The changes of one session that Exchange!Step allows.                   *)
Kept(x, y) ==
    \/ PhaseOf(x) = "new" /\ Leads(x, y, {"waiting"}, 0, 0)
    \/ PhaseOf(x) = "waiting" /\ Leads(x, y, {"reading"}, 0, 0)
    \/ PhaseOf(x) \in {"waiting", "reading"}
          /\ (Leads(x, y, {"serving"}, 1, 0) \/ Leads(x, y, {"replying"}, 1, 1))
    \/ PhaseOf(x) = "serving" /\ Leads(x, y, {"replying"}, 0, 1)
    \/ PhaseOf(x) = "replying" /\ Leads(x, y, {"waiting"}, 0, 0)
    \/ PhaseOf(x) \in {"waiting", "reading", "replying", "closing"}
          /\ Leads(x, y, {"closing", "closed"}, 0, 0)
    \/ Leads(x, y, {"broken", PhaseOf(x)}, 0, 0)
    \/ Leads(x, y, {"broken"}, 1, 0)

(* What a completed header leads to.                                       *)
Asks(x, y) == \/ Leads(x, y, {"serving"}, 1, 0)
              \/ Leads(x, y, {"replying"}, 1, 1)
              \/ Leads(x, y, {"broken"}, 0, 0)
              \/ Leads(x, y, {"broken"}, 1, 0)

(* The phase of a session is one of those Exchange names.                  *)
LEMMA PhaseType ==
  ASSUME NEW x \in SessionType
  PROVE  PhaseOf(x) \in {"new", "waiting", "reading", "serving", "replying",
                         "closing", "closed", "broken"}
<1>1. /\ x.life \in {"new", "live", "gone", "garbled"}
      /\ x.canceled \in BOOLEAN
      /\ x.timer \in 0 .. Slots
  BY DEF SessionType
<1>2. x.timer > 0 \/ x.timer = 0 BY <1>1, SlotsAssumption
<1> QED BY <1>1, <1>2 DEF PhaseOf

(* Waiting for a request again (session::_wait_request).                   *)
LEMMA AwaitLeads ==
  ASSUME NEW x, Running(x)
  PROVE  Leads(x, AwaitRequest(x), {"waiting"}, 0, 0)
<1>1. AwaitRequest(x)
        = [x EXCEPT !.timer = Slots, !.wbusy = TRUE, !.wait = "pending"]
  BY DEF Running, AwaitRequest, AsyncWait, SetTimer, SessionType
<1> QED BY <1>1, SlotsAssumption DEF Running, SessionType, Leads, PhaseOf

(* Terminating (transceiver::cancel).                                      *)
LEMMA CancelLeads ==
  ASSUME NEW x, Running(x)
  PROVE  Leads(x, Cancel(x), {"closing", "closed"}, 0, 0)
<1>1. CASE Busy(x)
  <2>1. Cancel(x) = [Abort(x) EXCEPT !.canceled = TRUE] BY <1>1 DEF Cancel
  <2> QED BY <2>1 DEF Abort, Running, SessionType, Leads, PhaseOf
<1>2. CASE ~Busy(x)
  <2>1. Cancel(x) = [Abort(x) EXCEPT !.life = "gone"]
    BY <1>2 DEF Cancel, Erase
  <2> QED BY <2>1 DEF Abort, Running, SessionType, Leads, PhaseOf
<1> QED BY <1>1, <1>2

(* The next request, or none (session::_next_request).                     *)
LEMMA NextRequestLeads ==
  ASSUME NEW x, Running(x)
  PROVE  \/ Leads(x, NextRequest(x), {"waiting"}, 0, 0)
         \/ Leads(x, NextRequest(x), {"closing", "closed"}, 0, 0)
BY AwaitLeads, CancelLeads DEF NextRequest

(* The content of a response (transceiver::_send_content).                 *)
LEMMA SendLeads ==
  ASSUME NEW x, Running(x), x.asked = x.answered
  PROVE  Leads(x, SendContent(x), {"replying"}, 0, 0)
BY DEF SendContent, Running, SessionType, Leads, PhaseOf

(* The header of a response, or no response (transceiver::async_send), or  *)
(* an exception.                                                           *)
LEMMA RespondLeads ==
  ASSUME NEW x, Running(x), x.asked = x.answered + 1,
         NEW out \in Outs \cup {"echo"}
  PROVE  \/ Leads(x, Respond(x, out), {"serving"}, 0, 0)
         \/ Leads(x, Respond(x, out), {"replying"}, 0, 1)
         \/ Leads(x, Respond(x, out), {"broken"}, 0, 0)
<1>a. x \in SessionType /\ x.answered \in Nat BY DEF Running, SessionType
<1>1. CASE out = "silent"
  <2>1. Respond(x, out) = x BY <1>1 DEF Respond, Replies
  <2> QED BY <1>a, <2>1 DEF Running, Leads, PhaseOf
<1>2. CASE out = "throws"
  <2>1. Respond(x, out) = [x EXCEPT !.fault = "thrown"]
    BY <1>2 DEF Respond, Throw, Replies
  <2> QED BY <1>a, <2>1 DEF Running, SessionType, Leads, PhaseOf
<1>3. CASE out \in Replies
  <2> DEFINE y == Reply(x, out)
  <2>a. Respond(x, out) = y BY <1>3 DEF Respond, Replies
  <2>1. /\ y.life = "live" /\ y.fault = "none" /\ ~y.canceled /\ y.timer = 0
        /\ y.header = "idle" /\ y.asked = x.asked
        /\ y.answered = x.answered + 1
    BY <1>a DEF Reply, Running, SessionType
  <2> HIDE DEF y
  <2>2. y.asked = y.answered BY <2>1
  <2>3. PhaseOf(y) = "replying" BY <1>a, <2>1, <2>2 DEF PhaseOf
  <2>4. Leads(x, y, {"replying"}, 0, 1) BY <1>a, <2>1, <2>3 DEF Leads, Running
  <2> QED BY <2>a, <2>4
<1> QED BY <1>1, <1>2, <1>3 DEF Outs, Replies

(* A request is served, or its body awaited (session::_receive_handler).   *)
LEMMA ServeLeads ==
  ASSUME NEW x, Running(x), x.asked = x.answered, NEW r \in RequestType
  PROVE  Asks(x, Serve(x, r))
<1> DEFINE y == Titled(x, r)
           z == [y EXCEPT !.reader = "app"]
<1>1. /\ Running(y) /\ y.asked = x.asked + 1 /\ y.answered = x.answered
      /\ y.asked = y.answered + 1
  BY TitledRuns
<1>2. y \in SessionType /\ x.asked \in Nat /\ x.answered \in Nat
  <2>1. x \in SessionType BY DEF Running
  <2> QED BY <1>1, <2>1 DEF Running, SessionType
<1> HIDE DEF y
<1>3. \A out \in Outs \cup {"echo"} : Asks(x, Respond(y, out))
  <2> TAKE out \in Outs \cup {"echo"}
  <2>1. \/ Leads(y, Respond(y, out), {"serving"}, 0, 0)
        \/ Leads(y, Respond(y, out), {"replying"}, 0, 1)
        \/ Leads(y, Respond(y, out), {"broken"}, 0, 0)
    BY <1>1, RespondLeads
  <2> QED BY <1>1, <1>2, <2>1 DEF Asks, Leads
<1>4. Leads(y, z, {"serving"}, 0, 0)
  BY <1>1, <1>2 DEF Running, SessionType, Leads, PhaseOf
<1>5. Asks(x, z) BY <1>1, <1>2, <1>4 DEF Asks, Leads
<1> HIDE DEF z
<1>6. Serve(x, r) \in {Respond(y, Outcome(r)), Respond(y, "echo"),
                       Respond(y, "bare"), z}
  BY ServeCases DEF y, z
<1>7. {Outcome(r), "echo", "bare"} \subseteq Outs \cup {"echo"}
  BY DEF Outcome, RequestType, Outs
<1> QED BY <1>3, <1>5, <1>6, <1>7

(* A header is handed over.                                                *)
LEMMA DispatchLeads ==
  ASSUME NEW x, Running(x), x.asked = x.answered,
         ~x.overlap => x.body = "idle", NEW n
  PROVE  Asks(x, Dispatch(x, n))
<1> DEFINE r == x.buf[n]
<1>a. x \in SessionType BY DEF Running
<1>b. x.buf \in Seq(Units) BY <1>a DEF SessionType
<1>3. ASSUME n \in Ends(x.buf), SubSeq(x.buf, 1, n) = <<Part, r>>, ~r.sound
      PROVE  Asks(x, Dispatch(x, n))
  <2> DEFINE y == Consume(x, n)
             z == [y EXCEPT !.sound = FALSE]
             w == [z EXCEPT !.fault = "thrown"]
  <2>1. Dispatch(x, n) = w BY <1>3 DEF Dispatch, Throw
  <2>2. n \in 0 .. Len(x.buf) BY <1>3, <1>b DEF Ends
  <2>3. Running(y) /\ y.asked = x.asked /\ y.answered = x.answered
    BY <2>2, ConsumeRuns
  <2> HIDE DEF y
  <2>4. /\ w.fault = "thrown" /\ w.asked = y.asked
        /\ w.answered = y.answered
    BY <2>3 DEF Running, SessionType
  <2>5. x.asked \in Nat /\ x.answered \in Nat BY <1>a DEF SessionType
  <2> HIDE DEF w
  <2>6. PhaseOf(w) = "broken" BY <2>4 DEF PhaseOf
  <2> QED BY <2>1, <2>3, <2>4, <2>5, <2>6 DEF Asks, Leads
<1>1. CASE n \in Ends(x.buf) /\ SubSeq(x.buf, 1, n) = <<Part, r>> /\ r.sound
  <2>1. n \in 0 .. Len(x.buf) /\ r \in Requests BY <1>1, <1>b DEF Ends
  <2>2. r \in RequestType /\ r.body \in Nat
    BY <2>1, RequestAssumption DEF RequestType
  <2> DEFINE y == Consume(x, n)
             z == ReceiveContent(y, r.body)
  <2>3. /\ Running(y) /\ y.body = x.body /\ y.overlap = x.overlap
        /\ y.asked = x.asked /\ y.answered = x.answered
    BY <2>1, ConsumeRuns
  <2> HIDE DEF y
  <2>4. /\ Running(z)
        /\ z.asked = y.asked /\ z.answered = y.answered
    BY <2>2, <2>3, ReceiveContentRuns
  <2> HIDE DEF z
  <2>5. Asks(z, Serve(z, r)) BY <2>2, <2>3, <2>4, ServeLeads
  <2>6. Dispatch(x, n) = Serve(z, r) BY <1>1 DEF Dispatch, z, y
  <2> QED BY <2>3, <2>4, <2>5, <2>6 DEF Asks, Leads
<1>2. CASE ~(n \in Ends(x.buf) /\ SubSeq(x.buf, 1, n) = <<Part, r>>)
  <2>1. Dispatch(x, n) = [x EXCEPT !.life = "garbled"] BY <1>2 DEF Dispatch
  <2> QED BY <1>a, <2>1 DEF SessionType, Asks, Leads, PhaseOf
<1> QED BY <1>1, <1>2, <1>3

(* A header read is started (transceiver::_receive_header).                *)
LEMMA ReadHeaderLeads ==
  ASSUME NEW x, Running(x)
  PROVE  Leads(x, ReadHeader(x), {"reading"}, 0, 0)
BY DEF ReadHeader, Running, SessionType, Leads, PhaseOf

(* transceiver::async_receive finds a header in the buffer or reads one.   *)
LEMMA AsyncReceiveLeads ==
  ASSUME NEW x, Running(x), x.asked = x.answered
  PROVE  LET y == AsyncReceive(x)
         IN  Leads(x, y, {"reading"}, 0, 0) \/ Asks(x, y)
<1> DEFINE y == [x EXCEPT !.rbusy = TRUE, !.overlap = @ \/ x.body # "idle"]
           ends == {n \in Ends(x.buf) : n <= BlockSize - x.off}
<1>1. x \in SessionType BY DEF Running
<1>2. y \in SessionType BY <1>1, ZenonT(60) DEF SessionType
<1>3. /\ Running(y) /\ y.asked = x.asked /\ y.answered = x.answered
      /\ ~y.overlap => y.body = "idle"
  BY <1>1, <1>2 DEF Running, SessionType
<1> HIDE DEF y
<1>4. Leads(y, ReadHeader(y), {"reading"}, 0, 0) BY <1>3, ReadHeaderLeads
<1>5. \A n : Asks(y, Dispatch(y, n)) BY <1>3, DispatchLeads
<1>6. AsyncReceive(x) = IF ends = {}
                        THEN ReadHeader(y)
                        ELSE Dispatch(y, CHOOSE n \in ends : IsFirst(n, ends))
  BY DEF AsyncReceive, y
<1>7. AsyncReceive(x) = ReadHeader(y) \/ \E n : AsyncReceive(x) = Dispatch(y, n)
  BY <1>6
<1>8. CASE AsyncReceive(x) = ReadHeader(y) BY <1>3, <1>4, <1>8 DEF Leads
<1>9. CASE \E n : AsyncReceive(x) = Dispatch(y, n)
  BY <1>3, <1>5, <1>9 DEF Asks, Leads
<1> QED BY <1>7, <1>8, <1>9

(* Of a terminated session, all is final but the counting off of its       *)
(* completions: nothing is started, no timer set, no response begun.       *)
Final(x, y) ==
    /\ y.canceled
    /\ \A k \in {"wait", "header", "body", "send"} :
          x[k] = "idle" => y[k] = "idle"
    /\ y.timer = 0
    /\ y.answered = x.answered

(* What a step of the session x makes of it keeps the promise, and is      *)
(* final if x is terminated.                                               *)
Good(x, y) == Kept(x, y) /\ (x.canceled => Final(x, y))

(* The phases of a live session that is not terminated, as the invariant   *)
(* tells them apart.                                                       *)
LEMMA LivePhases ==
  ASSUME NEW x, SafeSession(x), x.life = "live", x.fault = "none"
  PROVE  /\ x.canceled => PhaseOf(x) = "closing" /\ x.timer = 0
         /\ ~x.canceled =>
               /\ x.wait # "idle" => PhaseOf(x) = "waiting"
               /\ x.header # "idle" => PhaseOf(x) = "reading"
               /\ x.send # "idle" \/ x.reader = "echo"
                     => PhaseOf(x) = "replying"
               /\ x.reader = "app" => PhaseOf(x) = "serving"
<1>1. x \in SessionType /\ TimerOK(x) /\ ChainOK(x) /\ CountOK(x)
  BY DEF SafeSession
<1>2. x.asked \in Nat /\ x.answered \in Nat /\ x.timer \in 0 .. Slots
  BY <1>1 DEF SessionType
<1>3. x.canceled => x.timer = 0
  BY <1>1, <1>2, SlotsAssumption DEF TimerOK
<1>4. ASSUME ~x.canceled, x.wait # "idle" PROVE x.timer > 0
  BY <1>1, <1>4 DEF TimerOK, ChainOK
<1>5. ASSUME ~x.canceled, x.header # "idle" \/ x.send # "idle"
                             \/ x.reader # "none"
      PROVE  x.timer = 0
  <2>1. ~x.wbusy BY <1>1, <1>5 DEF ChainOK
  <2> QED BY <1>1, <1>2, <2>1, SlotsAssumption DEF TimerOK
<1>6. ASSUME x.send # "idle" \/ x.reader = "echo" \/ x.reader = "app"
      PROVE  x.header = "idle"
  BY <1>1, <1>6 DEF ChainOK
<1>7. /\ x.send # "idle" \/ x.reader = "echo" => ~(x.asked > x.answered)
      /\ x.reader = "app" => x.asked > x.answered
  BY <1>1, <1>2 DEF CountOK
<1>8. x.canceled => PhaseOf(x) = "closing" BY DEF PhaseOf
<1>9. ASSUME ~x.canceled PROVE x.wait # "idle" => PhaseOf(x) = "waiting"
  BY <1>4, <1>9 DEF PhaseOf
<1>10. ASSUME ~x.canceled PROVE x.header # "idle" => PhaseOf(x) = "reading"
  BY <1>5, <1>10 DEF PhaseOf
<1>11. ASSUME ~x.canceled, x.send # "idle" \/ x.reader = "echo"
       PROVE  PhaseOf(x) = "replying"
  <2>1. x.timer = 0 /\ x.header = "idle" /\ ~(x.asked > x.answered)
    BY <1>5, <1>6, <1>7, <1>11
  <2> QED BY <1>11, <2>1 DEF PhaseOf
<1>12. ASSUME ~x.canceled, x.reader = "app" PROVE PhaseOf(x) = "serving"
  <2>1. x.timer = 0 /\ x.header = "idle" /\ x.asked > x.answered
    BY <1>5, <1>6, <1>7, <1>12
  <2> QED BY <1>12, <2>1 DEF PhaseOf
<1> QED BY <1>3, <1>8, <1>9, <1>10, <1>11, <1>12

(* A step that leaves alone what phases are told by leaves the phase.      *)
LEMMA SamePhase ==
  ASSUME NEW x \in SessionType, NEW y,
         y.life = x.life, y.fault = x.fault, y.canceled = x.canceled,
         y.timer = x.timer, y.header = "idle" <=> x.header = "idle",
         y.asked = x.asked, y.answered = x.answered
  PROVE  Kept(x, y)
<1>1. PhaseOf(y) = PhaseOf(x) BY DEF PhaseOf
<1>2. x.asked \in Nat /\ x.answered \in Nat BY DEF SessionType
<1> QED BY <1>1, <1>2 DEF Kept, Leads

(* A completion of a terminated session is counted off.                    *)
LEMMA SettleGood ==
  ASSUME NEW x, x \in SessionType, x.life = "live", x.fault = "none",
         x.canceled, x.timer = 0, NEW y, y \in SessionType,
         y.life = "live", y.fault = "none", y.canceled, y.timer = 0,
         y.asked = x.asked, y.answered = x.answered,
         \A k \in {"wait", "header", "body", "send"} :
            x[k] = "idle" => y[k] = "idle"
  PROVE  Good(x, Settle(y))
<1>1. x.asked \in Nat /\ x.answered \in Nat BY DEF SessionType
<1>2. PhaseOf(x) = "closing" BY DEF PhaseOf
<1>3. CASE Busy(y)
  <2>1. Settle(y) = y BY <1>3 DEF Settle
  <2>2. PhaseOf(y) = "closing" BY DEF PhaseOf
  <2> QED BY <1>1, <1>2, <2>1, <2>2 DEF Good, Kept, Leads, Final
<1>4. CASE ~Busy(y)
  <2> DEFINE z == Settle(y)
  <2>1. z = [Abort(y) EXCEPT !.life = "gone"] BY <1>4 DEF Settle, Erase
  <2>2. /\ z.life = "gone" /\ z.fault = "none" /\ z.canceled /\ z.timer = 0
        /\ z.asked = x.asked /\ z.answered = x.answered
        /\ z.wait = Aborted(y.wait) /\ z.header = Aborted(y.header)
        /\ z.body = Aborted(y.body) /\ z.send = Aborted(y.send)
    BY <2>1 DEF Abort, SessionType
  <2> HIDE DEF z
  <2>3. Kept(x, z) BY <1>1, <1>2, <2>2 DEF Kept, Leads, PhaseOf
  <2>4. Final(x, z) BY <2>2 DEF Final, Aborted
  <2> QED BY <2>3, <2>4 DEF Good, z
<1> QED BY <1>3, <1>4

(* session::_wait_handler: from waiting on, or counted off.                *)
LEMMA WaitKept ==
  ASSUME NEW x, SafeSession(x), x.life = "live", x.fault = "none",
         x.wait \in Completed
  PROVE  Good(x, WaitHandler(x))
<1> DEFINE y == [x EXCEPT !.wbusy = FALSE, !.wait = "idle"]
<1>a. x \in SessionType /\ TimerOK(x) /\ ChainOK(x) /\ CoverOK(x) /\ CountOK(x)
  BY DEF SafeSession
<1>b. "idle" \in Op /\ 0 \in 0 .. Slots BY SlotsAssumption DEF Op
<1>1. y \in SessionType BY <1>a, <1>b DEF SessionType
<1>2. x.wbusy /\ x.header = "idle" /\ x.send = "idle" /\ x.reader = "none"
      /\ x.asked = x.answered
  BY <1>a DEF ChainOK, CountOK, Completed
<1>3. CASE x.canceled
  <2>1. x.timer = 0 BY <1>3, LivePhases
  <2>2. /\ y.life = "live" /\ y.fault = "none" /\ y.canceled /\ y.timer = 0
        /\ y.asked = x.asked /\ y.answered = x.answered
    BY <1>a, <1>3, <2>1 DEF SessionType
  <2>3. \A k \in {"wait", "header", "body", "send"} :
            x[k] = "idle" => y[k] = "idle"
    BY <1>a DEF SessionType
  <2> HIDE DEF y
  <2>4. Good(x, Settle(y)) BY <1>a, <1>1, <1>3, <2>1, <2>2, <2>3, SettleGood
  <2> QED BY <1>3, <2>4 DEF WaitHandler, y
<1>4. CASE ~x.canceled
  <2> DEFINE z == CancelTimer(y)
  <2>1. x.timer > 0 /\ PhaseOf(x) = "waiting"
    BY <1>a, <1>2, <1>4, LivePhases DEF TimerOK, Completed
  <2>2. z = [y EXCEPT !.timer = 0] BY <1>a, <2>1 DEF CancelTimer, SessionType
  <2>3. /\ y.life = "live" /\ y.fault = "none" /\ ~y.canceled /\ ~y.wbusy
        /\ y.wait = "idle" /\ y.header = "idle" /\ y.send = "idle"
        /\ y.reader = "none" /\ y.asked = x.asked /\ y.answered = x.answered
        /\ ~y.overlap => (y.body # "idle" => y.rbusy)
        /\ y.sound
    BY <1>a, <1>2, <1>4 DEF SessionType, CoverOK, TimerOK
  <2> HIDE DEF y
  <2>4. z \in SessionType
    <3>1. [y EXCEPT !.timer = 0] \in SessionType
      BY <1>1, <1>b DEF SessionType
    <3> QED BY <2>2, <3>1
  <2>5. Running(z) /\ z.asked = x.asked /\ z.answered = x.answered
    BY <1>1, <2>2, <2>3, <2>4 DEF SessionType, Running
  <2> HIDE DEF z
  <2>6. \/ Leads(z, AsyncReceive(z), {"reading"}, 0, 0)
        \/ Asks(z, AsyncReceive(z))
    BY <1>2, <2>5, AsyncReceiveLeads
  <2>7. Leads(z, Cancel(z), {"closing", "closed"}, 0, 0)
    BY <2>5, CancelLeads
  <2>8. Kept(x, AsyncReceive(z)) /\ Kept(x, Cancel(z))
    BY <2>1, <2>5, <2>6, <2>7 DEF Kept, Asks, Leads
  <2>9. WaitHandler(x) \in {AsyncReceive(z), Cancel(z)}
    BY <1>4 DEF WaitHandler, Completed, y, z
  <2> QED BY <1>4, <2>8, <2>9 DEF Good
<1> QED BY <1>a, <1>3, <1>4 DEF SessionType

(* transceiver::_header_receiving_handler: from reading on.                *)
LEMMA HeaderKept ==
  ASSUME NEW x, SafeSession(x), x.life = "live", x.fault = "none",
         x.header \in Completed
  PROVE  Good(x, HeaderHandler(x))
<1> DEFINE y == [x EXCEPT !.rbusy = FALSE, !.header = "idle", !.got = <<>>]
           z == [y EXCEPT !.buf = @ \o x.got]
           ends == Ends(x.got)
<1>a. x \in SessionType /\ TimerOK(x) /\ ChainOK(x) /\ CoverOK(x) /\ CountOK(x)
  BY DEF SafeSession
<1>b. "idle" \in Op /\ <<>> \in Seq(Units) BY DEF Op
<1>1. y \in SessionType BY <1>a, <1>b DEF SessionType
<1>2. /\ x.header # "idle" /\ ~x.wbusy /\ x.wait = "idle" /\ x.send = "idle"
      /\ x.reader = "none" /\ ~x.canceled /\ x.timer = 0
      /\ x.asked = x.answered /\ x.sound
      /\ ~x.overlap => x.body = "idle"
  BY <1>a
  DEF TimerOK, ChainOK, CoverOK, CountOK, Completed, SessionType
<1>3. /\ Running(y) /\ y.asked = x.asked /\ y.answered = x.answered
      /\ ~y.overlap => y.body = "idle"
  BY <1>a, <1>1, <1>2 DEF Running, SessionType
<1>4. x.buf \o x.got \in Seq(Units)
  BY <1>a, ConcatProperties DEF SessionType
<1>5. y.buf = x.buf BY <1>a DEF SessionType
<1> HIDE DEF y
<1>6. z \in SessionType BY <1>1, <1>4, <1>5 DEF SessionType
<1>7. /\ Running(z) /\ z.asked = x.asked /\ z.answered = x.answered
      /\ ~z.overlap => z.body = "idle"
  BY <1>1, <1>3, <1>6 DEF Running, SessionType
<1> HIDE DEF z
<1>8. PhaseOf(x) = "reading" BY <1>2, LivePhases
<1>9. Kept(x, Cancel(y)) BY <1>3, <1>8, CancelLeads DEF Kept, Leads
<1>10. Kept(x, ReadHeader(z))
  BY <1>7, <1>8, ReadHeaderLeads DEF Kept, Leads
<1>11. \A n : Kept(x, Dispatch(z, n))
  <2> TAKE n
  <2>1. Asks(z, Dispatch(z, n)) BY <1>2, <1>7, DispatchLeads
  <2> QED BY <1>7, <1>8, <2>1 DEF Kept, Asks, Leads
<1>12. \/ HeaderHandler(x) = Cancel(y) \/ HeaderHandler(x) = ReadHeader(z)
       \/ \E n : HeaderHandler(x) = Dispatch(z, n)
  BY DEF HeaderHandler, Completed, y, z
<1> QED BY <1>2, <1>9, <1>10, <1>11, <1>12 DEF Good

(* transceiver::_content_receiving_handler: the exchange goes on only when *)
(* the application that reads the body answers.                            *)
LEMMA BodyKept ==
  ASSUME NEW x, SafeSession(x), x.life = "live", x.fault = "none",
         x.body \in Completed
  PROVE  Good(x, BodyHandler(x))
<1> DEFINE y == [x EXCEPT !.rbusy = FALSE, !.body = "idle"]
           z == [y EXCEPT !.reader = "none"]
           more == [y EXCEPT !.rbusy = TRUE, !.body = "pending"]
           bad == [y EXCEPT !.fault = "bad_call"]
<1>a. x \in SessionType /\ TimerOK(x) /\ ChainOK(x) /\ CoverOK(x) /\ CountOK(x)
  BY DEF SafeSession
<1>b. "idle" \in Op /\ "pending" \in Op BY DEF Op
<1>1. y \in SessionType BY <1>a, <1>b DEF SessionType
<1>2. /\ y.life = "live" /\ y.fault = "none" /\ y.canceled = x.canceled
      /\ y.timer = x.timer /\ y.header = x.header /\ y.wait = x.wait
      /\ y.send = x.send /\ y.body = "idle" /\ y.reader = x.reader
      /\ y.asked = x.asked /\ y.answered = x.answered /\ y.wbusy = x.wbusy
      /\ y.overlap = x.overlap /\ y.sound
  BY <1>a DEF SessionType, TimerOK
<1>3. BodyHandler(x) =
        CASE x.canceled -> Settle(y)
          [] ~x.canceled /\ x.body = "err" -> FailReader(y)
          [] ~x.canceled /\ x.body = "ok" ->
               IF y.lack > 0 THEN more ELSE CallReader(y)
  BY DEF BodyHandler, ContentReceived
<1>c. x.asked \in Nat /\ x.answered \in Nat BY <1>a DEF SessionType
<1> HIDE DEF y
<1>4. CASE x.canceled
  <2>1. x.timer = 0 BY <1>4, LivePhases
  <2>2. \A k \in {"wait", "header", "body", "send"} :
            x[k] = "idle" => y[k] = "idle"
    BY <1>2
  <2>3. Good(x, Settle(y))
    BY <1>a, <1>1, <1>2, <1>4, <2>1, <2>2, SettleGood
  <2> QED BY <1>3, <1>4, <2>3
<1>5. CASE ~x.canceled
  <2>1. Kept(x, y) BY <1>2, <1>a, SamePhase
  <2>2. Kept(x, more)
    <3>1. /\ more.life = x.life /\ more.fault = x.fault
          /\ more.canceled = x.canceled /\ more.timer = x.timer
          /\ more.header = x.header
          /\ more.asked = x.asked /\ more.answered = x.answered
      BY <1>1, <1>2 DEF SessionType
    <3> HIDE DEF more
    <3> QED BY <1>a, <3>1, SamePhase
  <2>3. Kept(x, bad)
    <3>1. /\ bad.fault = "bad_call" /\ bad.asked = x.asked
          /\ bad.answered = x.answered
      BY <1>1, <1>2 DEF SessionType
    <3> HIDE DEF bad
    <3> QED BY <1>c, <3>1 DEF Kept, Leads, PhaseOf
  <2>4. CASE x.reader = "none"
    <3>1. CallReader(y) = y /\ FailReader(y) = bad
      BY <1>2, <2>4 DEF CallReader, FailReader
    <3> QED BY <1>3, <1>5, <2>1, <2>2, <2>3, <3>1 DEF Good, Completed
  <2>5. CASE x.reader # "none"
    <3>1. /\ ~y.wbusy /\ y.wait = "idle" /\ y.header = "idle"
          /\ y.send = "idle" /\ y.timer = 0
      BY <1>a, <1>2, <2>5 DEF TimerOK, ChainOK, SessionType
    <3>2. z \in SessionType BY <1>1 DEF SessionType
    <3>3. Running(z) /\ z.asked = x.asked /\ z.answered = x.answered
      BY <1>1, <1>2, <1>5, <3>1, <3>2 DEF Running, SessionType
    <3> HIDE DEF z
    <3>4. CASE x.reader = "app"
      <4>1. PhaseOf(x) = "serving" BY <1>5, <3>4, LivePhases
      <4>2. z.asked = z.answered + 1 BY <1>a, <3>3, <3>4 DEF CountOK
      <4>3. \/ Leads(z, Respond(z, y.out), {"serving"}, 0, 0)
            \/ Leads(z, Respond(z, y.out), {"replying"}, 0, 1)
            \/ Leads(z, Respond(z, y.out), {"broken"}, 0, 0)
        <5>1. y.out \in Outs \cup {"echo"} BY <1>1 DEF SessionType, Outs
        <5> QED BY <3>3, <4>2, <5>1, RespondLeads
      <4>4. Kept(x, Respond(z, y.out)) BY <3>3, <4>1, <4>3 DEF Kept, Leads
      <4>5. /\ CallReader(y) = Respond(z, y.out)
            /\ FailReader(y) = Respond(z, y.out)
        BY <1>2, <3>4 DEF CallReader, FailReader, z
      <4> QED BY <1>3, <1>5, <2>2, <4>4, <4>5 DEF Good, Completed
    <3>5. CASE x.reader = "echo"
      <4>1. PhaseOf(x) = "replying" BY <1>5, <3>5, LivePhases
      <4>2. z.asked = z.answered BY <1>a, <3>3, <3>5 DEF CountOK
      <4>3. Leads(z, SendContent(z), {"replying"}, 0, 0)
        BY <3>3, <4>2, SendLeads
      <4>4. Kept(x, SendContent(z)) BY <3>3, <4>1, <4>3 DEF Kept, Leads
      <4>5. PhaseOf(z) = "replying"
        BY <1>c, <3>3, <4>2 DEF Running, PhaseOf
      <4>6. Kept(x, z) BY <1>c, <3>3, <4>1, <4>5 DEF Kept, Leads
      <4>7. CallReader(y) = SendContent(z) /\ FailReader(y) = z
        BY <1>2, <3>5 DEF CallReader, FailReader, z
      <4> QED BY <1>3, <1>5, <2>2, <4>4, <4>6, <4>7 DEF Good, Completed
    <3> QED BY <1>a, <2>5, <3>4, <3>5 DEF SessionType
  <2> QED BY <2>4, <2>5
<1> QED BY <1>a, <1>4, <1>5 DEF SessionType

(* The completion of transceiver::async_send: from replying on.            *)
LEMMA SendKept ==
  ASSUME NEW x, SafeSession(x), x.life = "live", x.fault = "none",
         x.send \in Completed
  PROVE  Good(x, SendHandler(x))
<1> DEFINE y == [x EXCEPT !.sbusy = FALSE, !.send = "idle"]
           z == [y EXCEPT !.sbusy = TRUE, !.reader = "echo"]
<1>a. x \in SessionType /\ TimerOK(x) /\ ChainOK(x) /\ CoverOK(x) /\ CountOK(x)
  BY DEF SafeSession
<1>b. "idle" \in Op BY DEF Op
<1>c. x.asked \in Nat /\ x.answered \in Nat BY <1>a DEF SessionType
<1>1. y \in SessionType BY <1>a, <1>b DEF SessionType
<1>2. /\ x.send # "idle" /\ ~x.wbusy /\ x.wait = "idle" /\ x.header = "idle"
      /\ x.reader = "none" /\ x.timer = 0 /\ x.asked = x.answered
  BY <1>a DEF TimerOK, ChainOK, CountOK, Completed, SessionType
<1>3. /\ y.life = "live" /\ y.fault = "none" /\ y.canceled = x.canceled
      /\ y.timer = 0 /\ y.header = "idle" /\ y.wait = "idle"
      /\ y.send = "idle" /\ y.body = x.body
      /\ y.asked = x.asked /\ y.answered = x.answered
  BY <1>a, <1>2 DEF SessionType
<1>4. CASE x.canceled
  <2> HIDE DEF y
  <2>1. \A k \in {"wait", "header", "body", "send"} :
            x[k] = "idle" => y[k] = "idle"
    BY <1>3
  <2>2. Good(x, Settle(y))
    BY <1>a, <1>1, <1>2, <1>3, <1>4, <2>1, SettleGood
  <2> QED BY <1>4, <2>2 DEF SendHandler, y
<1>5. CASE ~x.canceled
  <2>1. Running(y)
    BY <1>a, <1>1, <1>2, <1>5 DEF Running, SessionType, CoverOK, TimerOK
  <2> HIDE DEF y
  <2>2. PhaseOf(x) = "replying" BY <1>2, <1>5, LivePhases
  <2>3. Kept(x, Cancel(y)) BY <1>3, <2>1, <2>2, CancelLeads DEF Kept, Leads
  <2>4. Kept(x, NextRequest(y))
    BY <1>3, <2>1, <2>2, NextRequestLeads DEF Kept, Leads
  <2>5. Kept(x, SendContent(y))
    BY <1>2, <1>3, <2>1, <2>2, SendLeads DEF Kept, Leads
  <2>6. Kept(x, z)
    <3>1. /\ z.life = x.life /\ z.fault = x.fault
          /\ z.canceled = x.canceled /\ z.timer = x.timer
          /\ z.header = x.header
          /\ z.asked = x.asked /\ z.answered = x.answered
      BY <1>1, <1>2, <1>3 DEF SessionType
    <3> HIDE DEF z
    <3> QED BY <1>a, <3>1, SamePhase
  <2> HIDE DEF z
  <2>7. x.part \in {"header", "content"} /\ x.reply \in Replies
    BY <1>a DEF SessionType
  <2>8. SendHandler(x) \in {Cancel(y), NextRequest(y), SendContent(y), z}
    BY <1>5, <2>7 DEF SendHandler, Replies, Completed, y, z
  <2> QED BY <1>5, <2>3, <2>4, <2>5, <2>6, <2>8 DEF Good
<1> QED BY <1>a, <1>4, <1>5 DEF SessionType

(* The wheel's tick: a session that waits goes on waiting or is ended.     *)
LEMMA TickKept ==
  ASSUME NEW x, SafeSession(x), x.fault = "none"
  PROVE  /\ Kept(x, Ticked(x))
         /\ x.canceled => Ticked(x) = x /\ x.timer = 0
<1>a. x \in SessionType /\ TimerOK(x) /\ ChainOK(x) /\ CountOK(x)
  BY DEF SafeSession
<1>b. x.asked \in Nat /\ x.answered \in Nat /\ x.timer \in 0 .. Slots
  BY <1>a DEF SessionType
<1>1. CASE x.timer = 0
  <2>1. Ticked(x) = x BY <1>1, TickedCases
  <2> QED BY <1>1, <1>b, <2>1 DEF Kept, Leads
<1>2. CASE x.timer > 0
  <2>1. x.life = "live" /\ x.wbusy /\ ~x.canceled BY <1>2, <1>a DEF TimerOK
  <2>2. PhaseOf(x) = "waiting" BY <1>2, <2>1 DEF PhaseOf
  <2>3. CASE x.timer = 1
    <3>1. Ticked(x) = [[Abort(x) EXCEPT !.canceled = TRUE] EXCEPT !.timer = 0]
      BY <2>1, <2>3, TickedCases DEF Expire, Cancel, Busy
    <3> DEFINE y == Ticked(x)
    <3>2. /\ y.life = "live" /\ y.fault = "none" /\ y.canceled
          /\ y.asked = x.asked /\ y.answered = x.answered
      BY <1>a, <2>1, <3>1 DEF Abort, SessionType
    <3> HIDE DEF y
    <3>3. PhaseOf(y) = "closing" BY <3>2 DEF PhaseOf
    <3>4. Kept(x, y) BY <1>b, <2>2, <3>2, <3>3 DEF Kept, Leads
    <3> QED BY <2>1, <3>4 DEF y
  <2>4. CASE x.timer > 1
    <3>1. Ticked(x) = [x EXCEPT !.timer = @ - 1] BY <2>4, TickedCases
    <3> DEFINE y == Ticked(x)
    <3>2. /\ y.life = "live" /\ y.fault = "none" /\ ~y.canceled /\ y.timer > 0
          /\ y.asked = x.asked /\ y.answered = x.answered
      BY <1>a, <1>b, <2>1, <2>4, <3>1 DEF SessionType
    <3> HIDE DEF y
    <3>3. PhaseOf(y) = "waiting" BY <3>2 DEF PhaseOf
    <3>4. Kept(x, y) BY <1>b, <2>2, <3>2, <3>3 DEF Kept, Leads
    <3> QED BY <2>1, <3>4 DEF y
  <2> QED BY <1>2, <1>b, <2>3, <2>4
<1> QED BY <1>b, <1>1, <1>2

(* What the reactor does to a session changes neither its phase nor what   *)
(* it has started.                                                         *)
LEMMA OperationGood ==
  ASSUME NEW x, SafeSession(x), x.life = "live", x.fault = "none", NEW y,
         y.life = x.life, y.fault = x.fault, y.canceled = x.canceled,
         y.timer = x.timer, y.asked = x.asked, y.answered = x.answered,
         \A k \in {"wait", "header", "body", "send"} :
            x[k] = "idle" <=> y[k] = "idle"
  PROVE  Good(x, y)
<1>1. x \in SessionType BY DEF SafeSession
<1>2. y.header = "idle" <=> x.header = "idle" OBVIOUS
<1>3. Kept(x, y) BY <1>1, <1>2, SamePhase
<1>4. x.canceled => x.timer = 0 BY LivePhases
<1> QED BY <1>3, <1>4 DEF Good, Final

(* A step of the worker, seen from each session.                           *)
LEMMA StepGood ==
  ASSUME IInv, [Next]_vars, NEW d \in Conns
  PROVE  Kept(s[d], s'[d]) /\ (s[d].canceled => Final(s[d], s'[d]) \/ s'[d] = s[d])
<1>1. s \in [Conns -> SessionType] BY DEF IInv, TypeOK
<1>2. SafeSession(s[d]) BY DEF IInv
<1>3. CASE s'[d] = s[d]
  <2>1. s[d].asked \in Nat /\ s[d].answered \in Nat BY <1>1 DEF SessionType
  <2> QED BY <1>3, <2>1 DEF Kept, Leads
<1>4. CASE s' = s BY <1>3, <1>4
<1>5. CASE Tick
  <2>1. s[d].fault = "none" /\ s'[d] = Ticked(s[d]) BY <1>5 DEF Tick, Up
  <2> QED BY <1>2, <2>1, TickKept
<1>6. ASSUME NEW c \in Conns, c # d, NEW x, s' = [s EXCEPT ![c] = x]
      PROVE  s'[d] = s[d]
  BY <1>1, <1>6
<1>7. ASSUME NEW x, Good(s[d], x), s' = [s EXCEPT ![d] = x]
      PROVE  s'[d] = x /\ Kept(s[d], s'[d])
             /\ (s[d].canceled => Final(s[d], s'[d]))
  BY <1>1, <1>7 DEF Good
<1>8. ASSUME Create(d)
      PROVE  Kept(s[d], s'[d]) /\ ~s[d].canceled
  <2> DEFINE y == [[s[d] EXCEPT !.id = Last(idPool)] EXCEPT !.life = "live"]
  <2>1. s[d] = Fresh BY <1>8, BornFresh DEF Create
  <2>a. CASE idPool = <<>>
    <3>1. s'[d] = NewBorn("pool") BY <1>1, <1>8, <2>a, CreateNone
    <3>2. /\ NewBorn("pool").fault = "pool"
          /\ NewBorn("pool").asked = 0 /\ NewBorn("pool").answered = 0
          /\ Fresh.asked = 0 /\ Fresh.answered = 0 /\ ~Fresh.canceled
      BY DEF NewBorn, Fresh
    <3>3. PhaseOf(s'[d]) = "broken" BY <3>1, <3>2 DEF PhaseOf
    <3> QED BY <2>1, <3>1, <3>2, <3>3 DEF Kept, Leads
  <2>b. CASE idPool # <<>>
    <3>2. idPool # <<>> /\ idPool \in Seq(Ids)
      BY <2>b DEF IInv, TypeOK
    <3>3. Last(idPool) \in Ids BY <3>2 DEF Last
    <3>4. s'[d] = AwaitRequest(y) BY <1>1, <1>8, <2>b DEF Create, Start
    <3>5. y \in SessionType
      <4>1. ASSUME NEW x \in SessionType, NEW id \in Ids
            PROVE  [x EXCEPT !.id = id] \in SessionType
        BY SMTT(30) DEF SessionType
      <4>2. [s[d] EXCEPT !.id = Last(idPool)] \in SessionType
        BY <1>1, <3>3, <4>1
      <4> QED BY <4>2 DEF SessionType
    <3>6. Running(y) /\ y.asked = s[d].asked /\ y.answered = s[d].answered
      BY <2>1, <3>5 DEF Running, Fresh
    <3> HIDE DEF y
    <3>7. Leads(y, AwaitRequest(y), {"waiting"}, 0, 0) BY <3>6, AwaitLeads
    <3>8. PhaseOf(s[d]) = "new" BY <2>1 DEF Fresh, PhaseOf
    <3>9. Kept(s[d], s'[d]) BY <3>4, <3>6, <3>7, <3>8 DEF Kept, Leads
    <3> QED BY <2>1, <3>9 DEF Fresh
  <2> QED BY <2>a, <2>b
<1>9. ASSUME HandleWait(d) \/ HandleHeader(d) \/ HandleBody(d) \/ HandleSend(d)
      PROVE  Kept(s[d], s'[d]) /\ (s[d].canceled => Final(s[d], s'[d]))
  <2>1. s[d].life = "live" /\ s[d].fault = "none"
    BY <1>9 DEF HandleWait, HandleHeader, HandleBody, HandleSend, Live, Up
  <2>2. CASE HandleWait(d)
    BY <1>2, <1>7, <2>1, <2>2, WaitKept DEF HandleWait, Become
  <2>3. CASE HandleHeader(d)
    BY <1>2, <1>7, <2>1, <2>3, HeaderKept DEF HandleHeader, Become
  <2>4. CASE HandleBody(d)
    BY <1>2, <1>7, <2>1, <2>4, BodyKept DEF HandleBody, Become
  <2>5. CASE HandleSend(d)
    BY <1>2, <1>7, <2>1, <2>5, SendKept DEF HandleSend, Become
  <2> QED BY <1>9, <2>2, <2>3, <2>4, <2>5
<1>10. ASSUME RunDangling(d)
       PROVE  Kept(s[d], s'[d]) /\ (s[d].canceled => Final(s[d], s'[d]))
  <2> DEFINE y == [s[d] EXCEPT !.fault = "dangling"]
  <2>1. s'[d] = y /\ s[d].life = "gone" BY <1>1, <1>10 DEF RunDangling
  <2>2. s[d] \in SessionType /\ TimerOK(s[d]) BY <1>2 DEF SafeSession
  <2>3. s[d].timer = 0
    BY <2>1, <2>2, SlotsAssumption DEF TimerOK, SessionType
  <2>4. /\ y.fault = "dangling" /\ y.canceled = s[d].canceled
        /\ y.timer = 0 /\ y.asked = s[d].asked /\ y.answered = s[d].answered
        /\ y.wait = s[d].wait /\ y.header = s[d].header
        /\ y.body = s[d].body /\ y.send = s[d].send
    BY <2>2, <2>3 DEF SessionType
  <2>5. s[d].asked \in Nat /\ s[d].answered \in Nat BY <2>2 DEF SessionType
  <2> HIDE DEF y
  <2> QED BY <2>1, <2>4, <2>5 DEF Kept, Leads, PhaseOf, Final
<1>11. ASSUME Reactor(d) \/ ContinueBody(d)
       PROVE  Kept(s[d], s'[d]) /\ (s[d].canceled => Final(s[d], s'[d]))
  <2> DEFINE x == s[d]
  <2>1. x.life = "live" /\ x.fault = "none"
    BY <1>11 DEF Reactor, CompleteWait, CompleteHeader, CompleteBody,
                 CompleteSend, ContinueBody, Live, Up
  <2>2. x \in SessionType BY <1>1
  <2>3. ASSUME NEW op \in Op \ {"idle"}, NEW lack, NEW got, NEW w,
               w = x.wait \/ (x.wait = "pending" /\ w = "ok")
        PROVE  /\ x.wait # "idle" => Good(x, [x EXCEPT !.wait = op])
               /\ x.send # "idle" => Good(x, [x EXCEPT !.send = op])
               /\ x.header # "idle" =>
                     /\ Good(x, [x EXCEPT !.header = op])
                     /\ Good(x, [x EXCEPT !.header = op, !.got = got])
               /\ x.body # "idle" =>
                     /\ Good(x, [x EXCEPT !.body = op])
                     /\ Good(x, [x EXCEPT !.body = op, !.lack = lack,
                                          !.wait = w])
    <3>1. ASSUME NEW y, y.life = x.life, y.fault = x.fault,
                 y.canceled = x.canceled, y.timer = x.timer,
                 y.asked = x.asked, y.answered = x.answered,
                 x.wait = "idle" <=> y.wait = "idle",
                 x.header = "idle" <=> y.header = "idle",
                 x.body = "idle" <=> y.body = "idle",
                 x.send = "idle" <=> y.send = "idle"
          PROVE  Good(x, y)
      BY <1>2, <2>1, <3>1, OperationGood
    <3>2. x.wait # "idle" => Good(x, [x EXCEPT !.wait = op])
      BY <2>2, <2>3, <3>1 DEF SessionType
    <3>3. x.send # "idle" => Good(x, [x EXCEPT !.send = op])
      BY <2>2, <2>3, <3>1 DEF SessionType
    <3>4. x.header # "idle" => Good(x, [x EXCEPT !.header = op])
      BY <2>2, <2>3, <3>1 DEF SessionType
    <3>5. x.header # "idle" => Good(x, [x EXCEPT !.header = op, !.got = got])
      <4> DEFINE y == [x EXCEPT !.header = op, !.got = got]
      <4>1. /\ y.life = x.life /\ y.fault = x.fault
            /\ y.canceled = x.canceled /\ y.timer = x.timer
            /\ y.asked = x.asked /\ y.answered = x.answered
            /\ y.wait = x.wait /\ y.header = op /\ y.body = x.body
            /\ y.send = x.send
        BY <2>2 DEF SessionType
      <4> HIDE DEF y
      <4> QED BY <2>3, <3>1, <4>1 DEF y
    <3>6. x.body # "idle" => Good(x, [x EXCEPT !.body = op])
      BY <2>2, <2>3, <3>1 DEF SessionType
    <3>7. x.body # "idle" => Good(x, [x EXCEPT !.body = op, !.lack = lack,
                                               !.wait = w])
      <4> DEFINE y == [x EXCEPT !.body = op, !.lack = lack, !.wait = w]
      <4>1. /\ y.life = x.life /\ y.fault = x.fault
            /\ y.canceled = x.canceled /\ y.timer = x.timer
            /\ y.asked = x.asked /\ y.answered = x.answered
            /\ y.wait = w /\ y.header = x.header /\ y.body = op
            /\ y.send = x.send
        BY <2>2 DEF SessionType
      <4> HIDE DEF y
      <4> QED BY <2>3, <3>1, <4>1 DEF y
    <3> QED BY <3>2, <3>3, <3>4, <3>5, <3>6, <3>7
  <2>4. "ok" \in Op \ {"idle"} /\ "err" \in Op \ {"idle"}
        /\ "pending" \in Op \ {"idle"} /\ "more" \in Op \ {"idle"}
    BY DEF Op
  <2>5. CASE CompleteWait(d)
    <3>1. PICK result \in Completed : s' = [s EXCEPT ![d].wait = result]
      BY <2>5 DEF CompleteWait, Completed
    <3>2. s' = [s EXCEPT ![d] = [x EXCEPT !.wait = result]] BY <3>1
    <3>3. Good(x, [x EXCEPT !.wait = result])
      BY <2>3, <2>4, <2>5 DEF CompleteWait, Completed
    <3> QED BY <1>7, <3>2, <3>3
  <2>6. CASE CompleteSend(d)
    <3>1. PICK result \in Completed : s' = [s EXCEPT ![d].send = result]
      BY <2>6 DEF CompleteSend, Completed
    <3>2. s' = [s EXCEPT ![d] = [x EXCEPT !.send = result]] BY <3>1
    <3>3. Good(x, [x EXCEPT !.send = result])
      BY <2>3, <2>4, <2>6 DEF CompleteSend, Completed
    <3> QED BY <1>7, <3>2, <3>3
  <2>7. CASE CompleteHeader(d)
    <3>1. \/ \E got : s' = [s EXCEPT ![d] = [x EXCEPT !.header = "ok",
                                                      !.got = got]]
          \/ s' = [s EXCEPT ![d] = [x EXCEPT !.header = "err"]]
      BY <2>7 DEF CompleteHeader
    <3>2. x.header # "idle" BY <2>7 DEF CompleteHeader
    <3> QED BY <1>7, <2>3, <2>4, <3>1, <3>2
  <2>8. CASE CompleteBody(d)
    <3>1. \/ \E op \in {"ok", "more"} : \E lack, w :
                /\ w = x.wait \/ (x.wait = "pending" /\ w = "ok")
                /\ s' = [s EXCEPT ![d] = [x EXCEPT !.body = op, !.lack = lack,
                                                   !.wait = w]]
          \/ s' = [s EXCEPT ![d] = [x EXCEPT !.body = "err"]]
      <4>1. ASSUME NEW n, NEW w \in WokenToo(x.wait) \cup {x.wait},
                   s' = [s EXCEPT ![d] = BodyRead(x, n, w)]
            PROVE  \E op \in {"ok", "more"} : \E lack, v :
                      /\ v = x.wait \/ (x.wait = "pending" /\ v = "ok")
                      /\ s' = [s EXCEPT ![d] = [x EXCEPT !.body = op,
                                                  !.lack = lack, !.wait = v]]
        <5> DEFINE op == IF n = x.lack THEN "ok" ELSE "more"
        <5>1. s' = [s EXCEPT ![d] = [x EXCEPT !.body = op,
                                        !.lack = x.lack - n, !.wait = w]]
          BY <4>1 DEF BodyRead
        <5>2. w = x.wait \/ (x.wait = "pending" /\ w = "ok")
          BY <4>1 DEF WokenToo
        <5>3. op \in {"ok", "more"} OBVIOUS
        <5> HIDE DEF op
        <5> QED BY <5>1, <5>2, <5>3
      <4>2. \/ \E n : \E w \in WokenToo(x.wait) \cup {x.wait} :
                  s' = [s EXCEPT ![d] = BodyRead(x, n, w)]
            \/ s' = [s EXCEPT ![d] = [x EXCEPT !.body = "err"]]
        <5>1. CASE s' = [s EXCEPT ![d].body = "err"] BY <5>1
        <5>2. ASSUME NEW n \in 1 .. Len(Source(d)),
                     NEW w \in IF held[d] = <<>> THEN WokenToo(s[d].wait)
                                                ELSE {s[d].wait},
                     s' = [s EXCEPT ![d] = BodyRead(s[d], n, w)]
              PROVE  \E m : \E v \in WokenToo(x.wait) \cup {x.wait} :
                        s' = [s EXCEPT ![d] = BodyRead(x, m, v)]
          <6>1. w \in WokenToo(x.wait) \cup {x.wait} BY <5>2
          <6> QED BY <5>2, <6>1
        <5>3. \/ s' = [s EXCEPT ![d].body = "err"]
              \/ \E n \in 1 .. Len(Source(d)),
                    w \in IF held[d] = <<>> THEN WokenToo(s[d].wait)
                                           ELSE {s[d].wait} :
                    s' = [s EXCEPT ![d] = BodyRead(s[d], n, w)]
          BY <2>8, Zenon DEF CompleteBody
        <5> QED BY <5>1, <5>2, <5>3, Zenon
      <4> QED BY <4>1, <4>2
    <3>2. x.body # "idle" BY <2>8 DEF CompleteBody
    <3> QED BY <1>7, <2>3, <2>4, <3>1, <3>2
  <2>9. CASE ContinueBody(d)
    <3>1. s' = [s EXCEPT ![d] = [x EXCEPT !.body = "pending"]]
      BY <2>9 DEF ContinueBody
    <3>2. Good(x, [x EXCEPT !.body = "pending"])
      BY <2>3, <2>4, <2>9 DEF ContinueBody
    <3> QED BY <1>7, <3>1, <3>2
  <2> QED BY <1>11, <2>5, <2>6, <2>7, <2>8, <2>9 DEF Reactor
<1>12. ASSUME NEW c \in Conns, c # d, Create(c) \/ Handler(c) \/ Reactor(c)
       PROVE  s'[d] = s[d]
  <2>1. \E x : s' = [s EXCEPT ![c] = x]
    BY <1>12
    DEF Create, Handler, HandleWait, HandleHeader, HandleBody, HandleSend,
        ContinueBody, RunDangling, Become, Reactor, CompleteWait,
        CompleteHeader, CompleteBody, CompleteSend
  <2> QED BY <1>6, <1>12, <2>1
<1>13. ASSUME NEW c \in Conns, Client(c) PROVE s' = s
  BY <1>13 DEF Client, Deliver, Disconnect
<1>14. CASE UNCHANGED vars BY <1>4, <1>14 DEF vars
<1> QED
  BY <1>3, <1>4, <1>5, <1>8, <1>9, <1>10, <1>11, <1>12, <1>13, <1>14
  DEF Next, Handler

(* A terminated session starts no read, write, wait or timer, and answers  *)
(* no more: every completion handler of transceiver.cpp that may run then  *)
(* looks at _canceled first.                                               *)
THEOREM CancelSound == Spec => CancelIsFinal
<1> DEFINE A == \A c \in Conns : s[c].canceled =>
                   /\ s'[c].canceled
                   /\ ~Started(s[c], s'[c])
                   /\ s'[c].timer = 0 \/ s'[c].timer < s[c].timer
                   /\ s'[c].answered = s[c].answered
<1>1. IInv /\ [Next]_vars => [A]_vars
  <2> SUFFICES ASSUME IInv, [Next]_vars, NEW c \in Conns, s[c].canceled
               PROVE  /\ s'[c].canceled
                      /\ ~Started(s[c], s'[c])
                      /\ s'[c].timer = 0 \/ s'[c].timer < s[c].timer
                      /\ s'[c].answered = s[c].answered
    OBVIOUS
  <2>1. Final(s[c], s'[c]) \/ s'[c] = s[c] BY StepGood
  <2>2. CASE Final(s[c], s'[c]) BY <2>2 DEF Final, Started
  <2>3. CASE s'[c] = s[c]
    <3>1. s[c] \in SessionType /\ TimerOK(s[c]) BY DEF IInv, SafeSession
    <3>2. s[c].timer = 0
      BY <3>1, SlotsAssumption DEF TimerOK, SessionType
    <3> QED BY <2>3, <3>2 DEF Started
  <2> QED BY <2>1, <2>2, <2>3
<1> HIDE DEF A
<1>2. Spec => [][A]_vars BY <1>1, Invariance, PTL DEF Spec
<1> QED BY <1>2 DEF A, CancelIsFinal

(* Every session is served as Exchange promises: one request after the     *)
(* other, each answered once, and closing is for good.                     *)
THEOREM PromiseKept == Spec => KeepsPromise
<1>1. Init => Promise!Init
  BY DEF Init, Promise!Init, Fresh, PhaseOf
<1>2. IInv /\ [Next]_vars => [Promise!Next]_(Promise!vars)
  <2> SUFFICES ASSUME IInv, [Next]_vars, NEW c \in Conns
               PROVE  Promise!Step(c)
    BY DEF Promise!Next
  <2>1. Kept(s[c], s'[c]) BY StepGood
  <2>2. s[c] \in SessionType BY DEF IInv, TypeOK
  <2>3. /\ PhaseOf(s[c]) \in Promise!Phases
        /\ s[c].asked \in Nat /\ s[c].answered \in Nat
    BY <2>2, PhaseType DEF SessionType, Promise!Phases
  <2> QED
    BY <2>1, <2>3
    DEF Kept, Leads, Promise!Step, Promise!Accept, Promise!Read,
        Promise!Request, Promise!Reply, Promise!KeepAlive, Promise!Close,
        Promise!Break, Promise!Stays, Promise!Moves, Promise!Counts
<1> QED BY <1>1, <1>2, Invariance, PTL DEF Spec, KeepsPromise, Promise!Spec

-----------------------------------------------------------------------------
(* Faults, leaks and time.                                                 *)


(* The latest request is one that is never answered.                       *)
Owed(x) == x.out = "silent" /\ x.asked > x.answered

(* Something will call a live session again, or a leak is known.           *)
DrivenOK(x) == x.life = "live" /\ x.fault = "none" =>
    /\ ~x.canceled =>
          \/ x.wait # "idle" \/ x.header # "idle" \/ x.send # "idle"
          \/ x.reader # "none" \/ Owed(x) \/ (x.reply = "echo" /\ x.sbusy)
    /\ x.canceled => Busy(x)
    /\ x.sbusy =>
          \/ x.send # "idle" \/ x.reader # "none" \/ Owed(x)
          \/ x.reply = "echo"

(* An application reads the body that is outstanding, so that its failure  *)
(* finds a reader to call; and what is thrown is thrown by a header or by  *)
(* a resource.                                                             *)
ReaderOK(x) ==
    /\ x.life = "live" /\ x.node = "app" /\ ~x.overlap /\ x.body # "idle"
          => x.reader = "app"
    /\ x.fault = "bad_call" => x.overlap \/ x.node # "app"
    /\ x.fault = "thrown" => ~x.sound \/ x.out = "throws"

(* The echo's reader belongs to an echo whose header has been sent.        *)
EchoOK(x) == x.life = "live" /\ x.reader = "echo"
                => x.reply = "echo" /\ x.sbusy

EndOK(x) == DrivenOK(x) /\ ReaderOK(x) /\ EchoOK(x)

(* A running session none of whose bodies needs a reader.                  *)
Calm(x) == /\ Running(x)
           /\ x.node = "app" /\ ~x.overlap => x.body = "idle"

(* Its response has been sent.                                             *)
Sent(x) == x.sbusy => x.reply = "echo"

(* How a step may change the timer.                                        *)
TimedOK(x, y) == \/ y.timer = x.timer
                 \/ y.timer = 0
                 \/ x.timer = 0 /\ y.timer = Slots

(* session::_wait_request sets the timer and waits.                        *)
LEMMA AwaitEnds ==
  ASSUME NEW x, Calm(x), Sent(x)
  PROVE  EndOK(AwaitRequest(x)) /\ AwaitRequest(x).timer = Slots
<1>1. AwaitRequest(x)
        = [x EXCEPT !.timer = Slots, !.wbusy = TRUE, !.wait = "pending"]
  BY DEF Calm, Running, AwaitRequest, AsyncWait, SetTimer, SessionType
<1> QED
  BY <1>1
  DEF Calm, Sent, Running, SessionType, EndOK, DrivenOK, ReaderOK, EchoOK, Owed

(* transceiver::cancel leaves a session that is busy, or erases it.        *)
LEMMA CancelEnds ==
  ASSUME NEW x, Calm(x), Sent(x)
  PROVE  EndOK(Cancel(x)) /\ Cancel(x).timer = 0
<1>1. x \in SessionType BY DEF Calm, Running
<1>2. CASE Busy(x)
  <2>1. Cancel(x) = [Abort(x) EXCEPT !.canceled = TRUE] BY <1>2 DEF Cancel
  <2> DEFINE y == Cancel(x)
  <2>2. /\ y.life = "live" /\ y.canceled /\ y.fault = "none" /\ y.timer = 0
        /\ y.rbusy = x.rbusy /\ y.sbusy = x.sbusy /\ y.wbusy = x.wbusy
        /\ y.reply = x.reply /\ y.node = x.node /\ y.overlap = x.overlap
        /\ y.body = Aborted(x.body) /\ y.reader = "none"
    BY <1>1, <2>1 DEF Abort, Calm, Running, SessionType
  <2> HIDE DEF y
  <2>3. DrivenOK(y) BY <1>2, <2>2 DEF DrivenOK, Busy, Sent
  <2>4. ReaderOK(y) /\ EchoOK(y)
    BY <2>2 DEF ReaderOK, EchoOK, Calm, Aborted
  <2> QED BY <2>2, <2>3, <2>4 DEF EndOK, y
<1>3. CASE ~Busy(x)
  <2>1. Cancel(x) = [Abort(x) EXCEPT !.life = "gone"]
    BY <1>3 DEF Cancel, Erase
  <2> QED
    BY <1>1, <2>1
    DEF Abort, Calm, Running, SessionType, EndOK, DrivenOK, ReaderOK, EchoOK
<1> QED BY <1>2, <1>3

(* session::_next_request                                                  *)
LEMMA NextRequestEnds ==
  ASSUME NEW x, Calm(x), Sent(x)
  PROVE  EndOK(NextRequest(x)) /\ NextRequest(x).timer \in {0, Slots}
BY AwaitEnds, CancelEnds DEF NextRequest

(* transceiver::_send_content                                              *)
LEMMA SendEnds ==
  ASSUME NEW x, Calm(x)
  PROVE  EndOK(SendContent(x)) /\ SendContent(x).timer = 0
BY DEF SendContent, Calm, Running, SessionType, EndOK, DrivenOK, ReaderOK, EchoOK

(* transceiver::async_send, or a resource that never answers.              *)
LEMMA RespondEnds ==
  ASSUME NEW x, Calm(x), x.asked = x.answered + 1,
         NEW out \in Outs \cup {"echo"},
         out \in {"silent", "throws"} => x.out = out
  PROVE  EndOK(Respond(x, out)) /\ Respond(x, out).timer = 0
<1>1. x \in SessionType /\ x.answered \in Nat
  BY DEF Calm, Running, SessionType
<1>2. CASE out = "silent"
  <2>1. Owed(x) BY <1>1, <1>2 DEF Owed
  <2>2. Respond(x, out) = x BY <1>2 DEF Respond, Replies
  <2> QED
    BY <2>1, <2>2 DEF Calm, Running, EndOK, DrivenOK, ReaderOK, EchoOK
<1>3. CASE out = "throws"
  <2> DEFINE y == [x EXCEPT !.fault = "thrown"]
  <2>1. Respond(x, out) = y BY <1>3 DEF Respond, Throw, Replies
  <2>2. /\ y.life = "live" /\ y.fault = "thrown" /\ y.timer = 0
        /\ y.out = "throws" /\ y.node = x.node /\ y.overlap = x.overlap
        /\ y.body = x.body /\ y.reader = "none"
    BY <1>1, <1>3 DEF Calm, Running, SessionType
  <2> HIDE DEF y
  <2> QED BY <2>1, <2>2 DEF EndOK, DrivenOK, ReaderOK, EchoOK, Calm
<1>4. CASE out \in Replies
  <2> DEFINE y == Reply(x, out)
  <2>1. Respond(x, out) = y BY <1>4 DEF Respond, Replies
  <2>2. /\ y.life = "live" /\ ~y.canceled /\ y.fault = "none" /\ y.timer = 0
        /\ y.send = "pending" /\ y.node = x.node /\ y.overlap = x.overlap
        /\ y.body = x.body /\ y.reader = "none"
    BY <1>1, <1>4 DEF Reply, Calm, Running, SessionType
  <2> HIDE DEF y
  <2> QED BY <2>1, <2>2 DEF EndOK, DrivenOK, ReaderOK, EchoOK, Calm
<1> QED BY <1>2, <1>3, <1>4 DEF Outs, Replies

(* A request is answered, or its application becomes the reader of its     *)
(* body (session::_receive_handler).                                       *)
LEMMA ServeEnds ==
  ASSUME NEW x, Running(x), x.asked = x.answered, NEW r \in RequestType,
         ~x.overlap /\ r.body = 0 => x.body = "idle"
  PROVE  EndOK(Serve(x, r)) /\ Serve(x, r).timer = 0
<1> DEFINE y == Titled(x, r)
           z == [y EXCEPT !.reader = "app"]
<1>1. /\ Running(y) /\ y.asked = y.answered + 1 /\ y.out = Outcome(r)
      /\ y.node = r.node /\ y.body = x.body /\ y.overlap = x.overlap
  BY TitledRuns
<1>2. y \in SessionType BY <1>1 DEF Running
<1> HIDE DEF y
<1>3. r.node # "app" \/ r.body = 0 \/ Whole(y) => Calm(y)
  BY <1>1 DEF Calm, Whole
<1>7. {Outcome(r), "echo", "bare"} \subseteq Outs \cup {"echo"}
  BY DEF Outcome, RequestType, Outs
<1>4. CASE /\ Serve(x, r) = Respond(y, Outcome(r))
           /\ r.node = "app" => r.body = 0 \/ Whole(y)
  BY <1>1, <1>3, <1>4, <1>7, RespondEnds
<1>5. CASE /\ Serve(x, r) \in {Respond(y, "echo"), Respond(y, "bare")}
           /\ r.node # "app"
  BY <1>1, <1>3, <1>5, <1>7, RespondEnds
<1>6. CASE Serve(x, r) = z
  <2>1. /\ z.life = "live" /\ ~z.canceled /\ z.fault = "none" /\ z.timer = 0
        /\ z.reader = "app"
    BY <1>1, <1>2 DEF Running, SessionType
  <2> HIDE DEF z
  <2> QED BY <1>6, <2>1 DEF EndOK, DrivenOK, ReaderOK, EchoOK
<1> QED BY <1>4, <1>5, <1>6, ServeCases DEF y, z

(* A header is handed over.                                                *)
LEMMA DispatchEnds ==
  ASSUME NEW x, Running(x), x.asked = x.answered,
         ~x.overlap => x.body = "idle", NEW n
  PROVE  EndOK(Dispatch(x, n)) /\ Dispatch(x, n).timer = 0
<1> DEFINE r == x.buf[n]
<1>a. x \in SessionType BY DEF Running
<1>b. x.buf \in Seq(Units) BY <1>a DEF SessionType
<1>3. ASSUME n \in Ends(x.buf), SubSeq(x.buf, 1, n) = <<Part, r>>, ~r.sound
      PROVE  EndOK(Dispatch(x, n)) /\ Dispatch(x, n).timer = 0
  <2> DEFINE y == Consume(x, n)
             z == [y EXCEPT !.sound = FALSE]
             w == [z EXCEPT !.fault = "thrown"]
  <2>1. Dispatch(x, n) = w BY <1>3 DEF Dispatch, Throw
  <2>2. n \in 0 .. Len(x.buf) BY <1>3, <1>b DEF Ends
  <2>3. Running(y) /\ y.body = x.body /\ y.overlap = x.overlap
    BY <2>2, ConsumeRuns
  <2> HIDE DEF y
  <2>4. /\ w.fault = "thrown" /\ ~w.sound /\ w.timer = 0
        /\ w.reader = "none" /\ w.body = x.body /\ w.overlap = x.overlap
    BY <2>3 DEF Running, SessionType
  <2> HIDE DEF w
  <2> QED BY <2>1, <2>4 DEF EndOK, DrivenOK, ReaderOK, EchoOK
<1>1. CASE n \in Ends(x.buf) /\ SubSeq(x.buf, 1, n) = <<Part, r>> /\ r.sound
  <2>1. n \in 0 .. Len(x.buf) /\ r \in Requests BY <1>1, <1>b DEF Ends
  <2>2. r \in RequestType /\ r.body \in Nat
    BY <2>1, RequestAssumption DEF RequestType
  <2> DEFINE y == Consume(x, n)
             z == ReceiveContent(y, r.body)
  <2>3. /\ Running(y) /\ y.body = x.body /\ y.overlap = x.overlap
        /\ y.asked = x.asked /\ y.answered = x.answered
    BY <2>1, ConsumeRuns
  <2> HIDE DEF y
  <2>4. /\ Running(z) /\ z.asked = z.answered
        /\ z.overlap = x.overlap
        /\ r.body = 0 => z.body = x.body
    BY <2>2, <2>3, ReceiveContentRuns
  <2> HIDE DEF z
  <2>5. EndOK(Serve(z, r)) /\ Serve(z, r).timer = 0
    BY <2>2, <2>4, ServeEnds
  <2>6. Dispatch(x, n) = Serve(z, r) BY <1>1 DEF Dispatch, z, y
  <2> QED BY <2>5, <2>6
<1>2. CASE ~(n \in Ends(x.buf) /\ SubSeq(x.buf, 1, n) = <<Part, r>>)
  <2>1. Dispatch(x, n) = [x EXCEPT !.life = "garbled"] BY <1>2 DEF Dispatch
  <2> QED
    BY <1>a, <2>1 DEF Running, SessionType, EndOK, DrivenOK, ReaderOK, EchoOK
<1> QED BY <1>1, <1>2, <1>3

(* transceiver::_receive_header                                            *)
LEMMA ReadHeaderEnds ==
  ASSUME NEW x, Running(x), Sent(x), ~x.overlap => x.body = "idle"
  PROVE  EndOK(ReadHeader(x)) /\ ReadHeader(x).timer = 0
BY DEF ReadHeader, Sent, Running, SessionType, EndOK, DrivenOK, ReaderOK, EchoOK

(* transceiver::async_receive: what it overlaps with is marked.            *)
LEMMA AsyncReceiveEnds ==
  ASSUME NEW x, Running(x), x.asked = x.answered, Sent(x)
  PROVE  EndOK(AsyncReceive(x)) /\ AsyncReceive(x).timer = 0
<1> DEFINE y == [x EXCEPT !.rbusy = TRUE, !.overlap = @ \/ x.body # "idle"]
           ends == {n \in Ends(x.buf) : n <= BlockSize - x.off}
<1>1. x \in SessionType BY DEF Running
<1>2. y \in SessionType BY <1>1, ZenonT(60) DEF SessionType
<1>3. /\ Running(y) /\ y.asked = y.answered /\ Sent(y)
      /\ ~y.overlap => y.body = "idle"
  BY <1>1, <1>2 DEF Running, SessionType, Sent
<1> HIDE DEF y
<1>4. EndOK(ReadHeader(y)) /\ ReadHeader(y).timer = 0
  BY <1>3, ReadHeaderEnds
<1>5. \A n : EndOK(Dispatch(y, n)) /\ Dispatch(y, n).timer = 0
  BY <1>3, DispatchEnds
<1>6. AsyncReceive(x) = ReadHeader(y) \/ \E n : AsyncReceive(x) = Dispatch(y, n)
  <2>1. AsyncReceive(x) = IF ends = {}
                          THEN ReadHeader(y)
                          ELSE Dispatch(y, CHOOSE n \in ends : IsFirst(n, ends))
    BY DEF AsyncReceive, y
  <2> QED BY <2>1
<1> QED BY <1>4, <1>5, <1>6

(* What a handler makes of a session: nothing that is not known.           *)
Fine(x, y) == EndOK(y) /\ TimedOK(x, y)

(* A completion of a terminated session that leaves what drives it.        *)
LEMMA SettleEnds ==
  ASSUME NEW x, x \in SessionType, x.life = "live", x.canceled,
         x.timer = 0, x.fault = "none",
         NEW y, y \in SessionType, y.life = "live", y.canceled,
         y.timer = 0, y.fault = "none",
         ReaderOK(y), EchoOK(y),
         y.sbusy => \/ y.send # "idle" \/ y.reader # "none" \/ Owed(y)
                    \/ y.reply = "echo"
  PROVE  Fine(x, Settle(y))
<1>1. CASE Busy(y)
  <2>1. Settle(y) = y BY <1>1 DEF Settle
  <2> QED BY <1>1, <2>1 DEF Fine, EndOK, DrivenOK, TimedOK
<1>2. CASE ~Busy(y)
  <2> DEFINE z == Settle(y)
  <2>1. z = [Abort(y) EXCEPT !.life = "gone"] BY <1>2 DEF Settle, Erase
  <2>2. z.life = "gone" /\ z.fault = "none" /\ z.timer = 0
    BY <2>1 DEF Abort, SessionType
  <2> HIDE DEF z
  <2>3. EndOK(z) /\ TimedOK(x, z)
    BY <2>2 DEF EndOK, DrivenOK, ReaderOK, EchoOK, TimedOK
  <2> QED BY <2>3 DEF Fine, z
<1> QED BY <1>1, <1>2

(* session::_wait_handler                                                  *)
LEMMA WaitEnds ==
  ASSUME NEW x, SafeSession(x), EndOK(x), x.life = "live", x.fault = "none",
         x.wait \in Completed
  PROVE  Fine(x, WaitHandler(x))
<1> DEFINE y == [x EXCEPT !.wbusy = FALSE, !.wait = "idle"]
<1>a. x \in SessionType /\ TimerOK(x) /\ ChainOK(x) /\ CoverOK(x) /\ CountOK(x)
  BY DEF SafeSession
<1>b. "idle" \in Op /\ 0 \in 0 .. Slots BY SlotsAssumption DEF Op
<1>1. y \in SessionType BY <1>a, <1>b DEF SessionType
<1>2. x.wbusy /\ x.header = "idle" /\ x.send = "idle" /\ x.reader = "none"
      /\ x.asked = x.answered
  BY <1>a DEF ChainOK, CountOK, Completed
<1>3. x.sbusy => x.reply = "echo"
  <2>1. x.asked \in Nat BY <1>a DEF SessionType
  <2> QED BY <1>2, <2>1 DEF EndOK, DrivenOK, Owed
<1>4. x.node = "app" /\ ~x.overlap => x.body = "idle"
  BY <1>2 DEF EndOK, ReaderOK
<1>5. /\ y.life = "live" /\ y.fault = "none" /\ y.canceled = x.canceled
      /\ ~y.wbusy /\ y.wait = "idle" /\ y.header = "idle"
      /\ y.send = "idle" /\ y.reader = "none" /\ y.timer = x.timer
      /\ y.asked = y.answered /\ y.sbusy = x.sbusy /\ y.reply = x.reply
      /\ y.node = x.node /\ y.overlap = x.overlap /\ y.body = x.body
      /\ y.rbusy = x.rbusy /\ y.sound = x.sound
  BY <1>a, <1>2 DEF SessionType
<1> HIDE DEF y
<1>6. CASE x.canceled
  <2>1. x.timer = 0 BY <1>a, <1>6, SlotsAssumption DEF TimerOK, SessionType
  <2>2. ReaderOK(y) /\ EchoOK(y) BY <1>4, <1>5 DEF ReaderOK, EchoOK
  <2>3. Fine(x, Settle(y))
    BY <1>a, <1>1, <1>3, <1>5, <1>6, <2>1, <2>2, SettleEnds
  <2> QED BY <1>6, <2>3 DEF WaitHandler, y
<1>7. CASE ~x.canceled
  <2> DEFINE z == CancelTimer(y)
  <2>1. x.timer > 0 BY <1>a, <1>2, <1>7 DEF TimerOK
  <2>2. z = [y EXCEPT !.timer = 0] BY <1>5, <1>b, <2>1, <1>a DEF CancelTimer, SessionType
  <2>3. z \in SessionType
    <3>1. [y EXCEPT !.timer = 0] \in SessionType
      BY <1>1, <1>b DEF SessionType
    <3> QED BY <2>2, <3>1
  <2>4. Running(z) /\ z.asked = z.answered
    <3>1. z.sound BY <1>a, <1>1, <1>5, <2>2 DEF TimerOK, SessionType
    <3> QED
      BY <1>a, <1>1, <1>5, <1>7, <2>2, <2>3, <3>1
      DEF Running, SessionType, CoverOK
  <2>5. Calm(z) /\ Sent(z)
    BY <1>1, <1>3, <1>4, <1>5, <2>2, <2>4 DEF SessionType, Calm, Sent
  <2> HIDE DEF z
  <2>6. /\ EndOK(AsyncReceive(z)) /\ AsyncReceive(z).timer = 0
        /\ EndOK(Cancel(z)) /\ Cancel(z).timer = 0
    BY <2>4, <2>5, AsyncReceiveEnds, CancelEnds
  <2>7. WaitHandler(x) \in {AsyncReceive(z), Cancel(z)}
    BY <1>7 DEF WaitHandler, Completed, y, z
  <2> QED BY <2>6, <2>7 DEF Fine, TimedOK
<1> QED BY <1>a, <1>6, <1>7 DEF SessionType

(* transceiver::_header_receiving_handler                                  *)
LEMMA HeaderEnds ==
  ASSUME NEW x, SafeSession(x), EndOK(x), x.life = "live", x.fault = "none",
         x.header \in Completed
  PROVE  Fine(x, HeaderHandler(x))
<1> DEFINE y == [x EXCEPT !.rbusy = FALSE, !.header = "idle", !.got = <<>>]
           z == [y EXCEPT !.buf = @ \o x.got]
<1>a. x \in SessionType /\ TimerOK(x) /\ ChainOK(x) /\ CoverOK(x) /\ CountOK(x)
  BY DEF SafeSession
<1>b. "idle" \in Op /\ <<>> \in Seq(Units) BY DEF Op
<1>1. y \in SessionType BY <1>a, <1>b DEF SessionType
<1>2. /\ x.header # "idle" /\ ~x.wbusy /\ x.wait = "idle" /\ x.send = "idle"
      /\ x.reader = "none" /\ ~x.canceled /\ x.timer = 0
      /\ x.asked = x.answered /\ x.sound
      /\ ~x.overlap => x.body = "idle"
  BY <1>a
  DEF TimerOK, ChainOK, CoverOK, CountOK, Completed, SessionType
<1>3. x.sbusy => x.reply = "echo"
  <2>1. x.asked \in Nat BY <1>a DEF SessionType
  <2> QED BY <1>2, <2>1 DEF EndOK, DrivenOK, Owed
<1>4. /\ Running(y) /\ y.asked = y.answered
      /\ ~y.overlap => y.body = "idle"
  BY <1>a, <1>1, <1>2 DEF Running, SessionType
<1>5. Sent(y) BY <1>3, <1>a DEF Sent, SessionType
<1>6. x.buf \o x.got \in Seq(Units)
  BY <1>a, ConcatProperties DEF SessionType
<1>7. y.buf = x.buf BY <1>a DEF SessionType
<1> HIDE DEF y
<1>8. z \in SessionType BY <1>1, <1>6, <1>7 DEF SessionType
<1>9. /\ Running(z) /\ z.asked = z.answered
      /\ ~z.overlap => z.body = "idle"
  BY <1>1, <1>4, <1>8 DEF Running, SessionType
<1>10. Sent(z) BY <1>1, <1>5 DEF Sent, SessionType
<1> HIDE DEF z
<1>11. EndOK(Cancel(y)) /\ Cancel(y).timer = 0
  BY <1>4, <1>5, CancelEnds DEF Calm
<1>12. EndOK(ReadHeader(z)) /\ ReadHeader(z).timer = 0
  BY <1>9, <1>10, ReadHeaderEnds
<1>13. \A n : EndOK(Dispatch(z, n)) /\ Dispatch(z, n).timer = 0
  BY <1>9, DispatchEnds
<1>14. \/ HeaderHandler(x) = Cancel(y) \/ HeaderHandler(x) = ReadHeader(z)
       \/ \E n : HeaderHandler(x) = Dispatch(z, n)
  BY DEF HeaderHandler, Completed, y, z
<1> QED BY <1>11, <1>12, <1>13, <1>14 DEF Fine, TimedOK

(* transceiver::_content_receiving_handler: a reader that is missing is    *)
(* the fault, and then the body was not an application's.                  *)
LEMMA BodyEnds ==
  ASSUME NEW x, SafeSession(x), EndOK(x), x.life = "live", x.fault = "none",
         x.body \in Completed
  PROVE  Fine(x, BodyHandler(x))
<1> DEFINE y == [x EXCEPT !.rbusy = FALSE, !.body = "idle"]
           z == [y EXCEPT !.reader = "none"]
           more == [y EXCEPT !.rbusy = TRUE, !.body = "pending"]
           bad == [y EXCEPT !.fault = "bad_call"]
<1>a. x \in SessionType /\ TimerOK(x) /\ ChainOK(x) /\ CoverOK(x) /\ CountOK(x)
  BY DEF SafeSession
<1>b. "idle" \in Op /\ "pending" \in Op BY DEF Op
<1>1. y \in SessionType BY <1>a, <1>b DEF SessionType
<1>2. /\ y.life = "live" /\ y.fault = "none" /\ y.canceled = x.canceled
      /\ y.timer = x.timer /\ y.header = x.header /\ y.wait = x.wait
      /\ y.send = x.send /\ y.body = "idle" /\ y.reader = x.reader
      /\ y.asked = x.asked /\ y.answered = x.answered /\ y.wbusy = x.wbusy
      /\ y.sbusy = x.sbusy /\ y.reply = x.reply /\ y.out = x.out
      /\ y.overlap = x.overlap /\ y.node = x.node /\ y.rbusy = FALSE
      /\ y.sound
  BY <1>a DEF SessionType, TimerOK
<1>3. BodyHandler(x) =
        CASE x.canceled -> Settle(y)
          [] ~x.canceled /\ x.body = "err" -> FailReader(y)
          [] ~x.canceled /\ x.body = "ok" ->
               IF y.lack > 0 THEN more ELSE CallReader(y)
  BY DEF BodyHandler, ContentReceived
<1>4. ReaderOK(y) /\ EchoOK(y) BY <1>2 DEF EndOK, ReaderOK, EchoOK
<1> HIDE DEF y
<1>5. CASE x.canceled
  <2>1. x.timer = 0 BY <1>a, <1>5, SlotsAssumption DEF TimerOK, SessionType
  <2>2. y.sbusy => \/ y.send # "idle" \/ y.reader # "none" \/ Owed(y)
                   \/ y.reply = "echo"
    BY <1>2 DEF EndOK, DrivenOK, Owed
  <2>3. Fine(x, Settle(y))
    BY <1>a, <1>1, <1>2, <1>4, <1>5, <2>1, <2>2, SettleEnds
  <2> QED BY <1>3, <1>5, <2>3
<1>6. CASE ~x.canceled
  <2>1. DrivenOK(y) BY <1>2, <1>6 DEF EndOK, DrivenOK, Owed
  <2>2. Fine(x, y) BY <1>2, <1>4, <2>1 DEF Fine, EndOK, TimedOK
  <2>3. Fine(x, more)
    <3>1. /\ more.life = "live" /\ more.fault = "none"
          /\ more.canceled = y.canceled /\ more.timer = y.timer
          /\ more.header = y.header /\ more.wait = y.wait
          /\ more.send = y.send /\ more.reader = y.reader
          /\ more.asked = y.asked /\ more.answered = y.answered
          /\ more.sbusy = y.sbusy /\ more.reply = y.reply /\ more.out = y.out
          /\ more.overlap = y.overlap /\ more.node = y.node
      BY <1>1, <1>2 DEF SessionType
    <3> HIDE DEF more
    <3>2. DrivenOK(more) BY <1>2, <1>6, <2>1, <3>1 DEF DrivenOK, Owed
    <3>3. x.body # "idle" BY DEF Completed
    <3>4. ReaderOK(more) /\ EchoOK(more)
      BY <1>2, <1>4, <3>1, <3>3 DEF EndOK, ReaderOK, EchoOK
    <3> QED BY <1>2, <3>1, <3>2, <3>4 DEF Fine, EndOK, TimedOK
  <2>4. CASE x.reader = "none"
    <3>1. CallReader(y) = y /\ FailReader(y) = bad
      BY <1>2, <2>4 DEF CallReader, FailReader
    <3>2. Fine(x, bad)
      <4>1. /\ bad.life = "live" /\ bad.fault = "bad_call"
            /\ bad.canceled = y.canceled /\ bad.timer = y.timer
            /\ bad.header = y.header /\ bad.wait = y.wait
            /\ bad.send = y.send /\ bad.reader = y.reader
            /\ bad.asked = y.asked /\ bad.answered = y.answered
            /\ bad.sbusy = y.sbusy /\ bad.reply = y.reply /\ bad.out = y.out
            /\ bad.overlap = y.overlap /\ bad.node = y.node
            /\ bad.body = y.body
        BY <1>1, <1>2 DEF SessionType
      <4> HIDE DEF bad
      <4>2. DrivenOK(bad) BY <1>2, <1>6, <2>1, <4>1 DEF DrivenOK, Owed
      <4>3. x.overlap \/ x.node # "app"
        BY <2>4 DEF EndOK, ReaderOK, Completed
      <4>4. ReaderOK(bad) /\ EchoOK(bad)
        BY <1>2, <1>4, <4>1, <4>3 DEF ReaderOK, EchoOK
      <4> QED BY <1>2, <4>1, <4>2, <4>4 DEF Fine, EndOK, TimedOK
    <3> QED BY <1>3, <1>6, <2>2, <2>3, <3>1, <3>2 DEF Completed
  <2>5. CASE x.reader # "none"
    <3>1. /\ ~y.wbusy /\ y.wait = "idle" /\ y.header = "idle"
          /\ y.send = "idle" /\ y.timer = 0
      BY <1>a, <1>2, <2>5 DEF TimerOK, ChainOK, SessionType
    <3>2. z \in SessionType BY <1>1 DEF SessionType
    <3>3. /\ Running(z) /\ z.asked = x.asked /\ z.answered = x.answered
          /\ z.body = "idle" /\ z.out = x.out
          /\ z.sbusy = x.sbusy /\ z.reply = x.reply
      BY <1>1, <1>2, <1>6, <3>1, <3>2 DEF Running, SessionType
    <3>4. Calm(z) BY <3>3 DEF Calm
    <3> HIDE DEF z
    <3>5. CASE x.reader = "app"
      <4>1. z.asked = z.answered + 1 BY <1>a, <3>3, <3>5 DEF CountOK
      <4>2. /\ EndOK(Respond(z, y.out)) /\ Respond(z, y.out).timer = 0
        <5>1. y.out \in Outs \cup {"echo"} BY <1>1 DEF SessionType, Outs
        <5> QED BY <1>2, <3>3, <3>4, <4>1, <5>1, RespondEnds
      <4>3. /\ CallReader(y) = Respond(z, y.out)
            /\ FailReader(y) = Respond(z, y.out)
        BY <1>2, <3>5 DEF CallReader, FailReader, z
      <4> QED BY <1>3, <1>6, <2>3, <4>2, <4>3 DEF Fine, TimedOK, Completed
    <3>6. CASE x.reader = "echo"
      <4>1. EndOK(SendContent(z)) /\ SendContent(z).timer = 0
        BY <3>4, SendEnds
      <4>2. CallReader(y) = SendContent(z) /\ FailReader(y) = z
        BY <1>2, <3>6 DEF CallReader, FailReader, z
      <4>3. z.sbusy /\ z.reply = "echo"
        BY <3>3, <3>6 DEF EndOK, EchoOK
      <4>4. EndOK(z) /\ z.timer = 0
        BY <3>3, <3>4, <4>3
        DEF EndOK, DrivenOK, ReaderOK, EchoOK, Running
      <4> QED
        BY <1>3, <1>6, <2>3, <4>1, <4>2, <4>4 DEF Fine, TimedOK, Completed
    <3> QED BY <1>a, <2>5, <3>5, <3>6 DEF SessionType
  <2> QED BY <2>4, <2>5
<1> QED BY <1>a, <1>5, <1>6 DEF SessionType

(* The completion of transceiver::async_send.                              *)
LEMMA SendHandlerEnds ==
  ASSUME NEW x, SafeSession(x), EndOK(x), x.life = "live", x.fault = "none",
         x.send \in Completed
  PROVE  Fine(x, SendHandler(x))
<1> DEFINE y == [x EXCEPT !.sbusy = FALSE, !.send = "idle"]
           z == [y EXCEPT !.sbusy = TRUE, !.reader = "echo"]
<1>a. x \in SessionType /\ TimerOK(x) /\ ChainOK(x) /\ CoverOK(x) /\ CountOK(x)
  BY DEF SafeSession
<1>b. "idle" \in Op BY DEF Op
<1>1. y \in SessionType BY <1>a, <1>b DEF SessionType
<1>2. /\ x.send # "idle" /\ ~x.wbusy /\ x.wait = "idle" /\ x.header = "idle"
      /\ x.reader = "none" /\ x.timer = 0 /\ x.asked = x.answered
  BY <1>a DEF TimerOK, ChainOK, CountOK, Completed, SessionType
<1>3. /\ y.life = "live" /\ y.fault = "none" /\ y.canceled = x.canceled
      /\ y.timer = 0 /\ y.body = x.body /\ y.node = x.node
      /\ y.overlap = x.overlap /\ ~y.sbusy /\ y.reply = x.reply
      /\ y.reader = "none"
  BY <1>a, <1>2 DEF SessionType
<1>4. x.node = "app" /\ ~x.overlap => x.body = "idle"
  BY <1>2 DEF EndOK, ReaderOK
<1>5. CASE x.canceled
  <2> HIDE DEF y
  <2>1. ReaderOK(y) /\ EchoOK(y)
    BY <1>2, <1>3, <1>4 DEF ReaderOK, EchoOK
  <2>2. Fine(x, Settle(y))
    BY <1>a, <1>1, <1>2, <1>3, <1>5, <2>1, SettleEnds
  <2> QED BY <1>5, <2>2 DEF SendHandler, y
<1>6. CASE ~x.canceled
  <2>1. Running(y)
    BY <1>a, <1>1, <1>2, <1>6 DEF Running, SessionType, CoverOK, TimerOK
  <2> HIDE DEF y
  <2>2. Calm(y) /\ Sent(y) BY <1>3, <1>4, <2>1 DEF Calm, Sent
  <2>3. /\ EndOK(Cancel(y)) /\ Cancel(y).timer = 0
        /\ EndOK(NextRequest(y)) /\ NextRequest(y).timer \in {0, Slots}
        /\ EndOK(SendContent(y)) /\ SendContent(y).timer = 0
    BY <2>2, CancelEnds, NextRequestEnds, SendEnds
  <2>4. CASE x.reply = "echo" /\ SendHandler(x) = z
    <3>1. /\ z.life = "live" /\ z.fault = "none" /\ ~z.canceled
          /\ z.timer = 0 /\ z.body = x.body /\ z.node = x.node
          /\ z.overlap = x.overlap /\ z.reader = "echo" /\ z.sbusy
          /\ z.reply = "echo"
      BY <1>1, <1>3, <1>6, <2>4 DEF SessionType
    <3> HIDE DEF z
    <3>2. EndOK(z) BY <1>4, <3>1 DEF EndOK, DrivenOK, ReaderOK, EchoOK
    <3> QED BY <2>4, <3>1, <3>2 DEF Fine, TimedOK
  <2> HIDE DEF z
  <2>5. x.part \in {"header", "content"} /\ x.reply \in Replies
    BY <1>a DEF SessionType
  <2>6. \/ SendHandler(x) \in {Cancel(y), NextRequest(y), SendContent(y)}
        \/ x.reply = "echo" /\ SendHandler(x) = z
    BY <1>6, <2>5 DEF SendHandler, Replies, Completed, y, z
  <2> QED BY <1>2, <2>3, <2>4, <2>6 DEF Fine, TimedOK
<1> QED BY <1>a, <1>5, <1>6 DEF SessionType

(* A session that is live goes on as it was if only its operations change. *)
LEMMA OperationEnds ==
  ASSUME NEW x, EndOK(x), x.life = "live", NEW y,
         y.life = x.life, y.fault = x.fault, y.canceled = x.canceled,
         y.timer = x.timer, y.asked = x.asked, y.answered = x.answered,
         y.rbusy = x.rbusy, y.sbusy = x.sbusy, y.wbusy = x.wbusy,
         y.reply = x.reply, y.reader = x.reader, y.out = x.out,
         y.node = x.node, y.overlap = x.overlap, y.sound = x.sound,
         x.wait = "idle" <=> y.wait = "idle",
         x.header = "idle" <=> y.header = "idle",
         x.body = "idle" <=> y.body = "idle",
         x.send = "idle" <=> y.send = "idle"
  PROVE  Fine(x, y)
<1>1. DrivenOK(y) BY DEF EndOK, DrivenOK, Owed, Busy
<1>2. ReaderOK(y) /\ EchoOK(y) BY DEF EndOK, ReaderOK, EchoOK
<1> QED BY <1>1, <1>2 DEF Fine, EndOK, TimedOK

(* What the reactor does to a session: a completion, or the next read of a *)
(* composed one.                                                           *)
LEMMA ReactorEnds ==
  ASSUME NEW x \in SessionType, EndOK(x), x.life = "live",
         NEW op \in Op \ {"idle"}, NEW lack, NEW got, NEW w,
         w = x.wait \/ (x.wait = "pending" /\ w = "ok")
  PROVE  /\ x.wait # "idle" => Fine(x, [x EXCEPT !.wait = op])
         /\ x.send # "idle" => Fine(x, [x EXCEPT !.send = op])
         /\ x.header # "idle" =>
               /\ Fine(x, [x EXCEPT !.header = op])
               /\ Fine(x, [x EXCEPT !.header = op, !.got = got])
         /\ x.body # "idle" =>
               /\ Fine(x, [x EXCEPT !.body = op])
               /\ Fine(x, [x EXCEPT !.body = op, !.lack = lack, !.wait = w])
<1> DEFINE Same(y) ==
             /\ y.life = x.life /\ y.fault = x.fault /\ y.canceled = x.canceled
             /\ y.timer = x.timer /\ y.asked = x.asked
             /\ y.answered = x.answered /\ y.rbusy = x.rbusy
             /\ y.sbusy = x.sbusy /\ y.wbusy = x.wbusy /\ y.reply = x.reply
             /\ y.reader = x.reader /\ y.out = x.out /\ y.node = x.node
             /\ y.overlap = x.overlap /\ y.sound = x.sound
<1>1. ASSUME x.wait # "idle" PROVE Fine(x, [x EXCEPT !.wait = op])
  <2> DEFINE y == [x EXCEPT !.wait = op]
  <2>1. Same(y) /\ y.wait = op /\ y.header = x.header /\ y.body = x.body
        /\ y.send = x.send
    BY DEF SessionType
  <2> HIDE DEF y
  <2>2. Fine(x, y) BY <1>1, <2>1, OperationEnds
  <2> QED BY <2>2 DEF y
<1>2. ASSUME x.send # "idle" PROVE Fine(x, [x EXCEPT !.send = op])
  <2> DEFINE y == [x EXCEPT !.send = op]
  <2>1. Same(y) /\ y.wait = x.wait /\ y.header = x.header /\ y.body = x.body
        /\ y.send = op
    BY DEF SessionType
  <2> HIDE DEF y
  <2>2. Fine(x, y) BY <1>2, <2>1, OperationEnds
  <2> QED BY <2>2 DEF y
<1>3. ASSUME x.header # "idle" PROVE Fine(x, [x EXCEPT !.header = op])
  <2> DEFINE y == [x EXCEPT !.header = op]
  <2>1. Same(y) /\ y.wait = x.wait /\ y.header = op /\ y.body = x.body
        /\ y.send = x.send
    BY DEF SessionType
  <2> HIDE DEF y
  <2>2. Fine(x, y) BY <1>3, <2>1, OperationEnds
  <2> QED BY <2>2 DEF y
<1>4. ASSUME x.header # "idle"
      PROVE  Fine(x, [x EXCEPT !.header = op, !.got = got])
  <2> DEFINE y == [x EXCEPT !.header = op, !.got = got]
  <2>1. Same(y) /\ y.wait = x.wait /\ y.header = op /\ y.body = x.body
        /\ y.send = x.send
    BY DEF SessionType
  <2> HIDE DEF y
  <2>2. Fine(x, y) BY <1>4, <2>1, OperationEnds
  <2> QED BY <2>2 DEF y
<1>5. ASSUME x.body # "idle" PROVE Fine(x, [x EXCEPT !.body = op])
  <2> DEFINE y == [x EXCEPT !.body = op]
  <2>1. Same(y) /\ y.wait = x.wait /\ y.header = x.header /\ y.body = op
        /\ y.send = x.send
    BY DEF SessionType
  <2> HIDE DEF y
  <2>2. Fine(x, y) BY <1>5, <2>1, OperationEnds
  <2> QED BY <2>2 DEF y
<1>6. ASSUME x.body # "idle"
      PROVE  Fine(x, [x EXCEPT !.body = op, !.lack = lack, !.wait = w])
  <2> DEFINE y == [x EXCEPT !.body = op, !.lack = lack, !.wait = w]
  <2>1. Same(y) /\ y.wait = w /\ y.header = x.header /\ y.body = op
        /\ y.send = x.send
    BY DEF SessionType
  <2> HIDE DEF y
  <2>2. Fine(x, y) BY <1>6, <2>1, OperationEnds
  <2> QED BY <2>2 DEF y
<1> QED BY <1>1, <1>2, <1>3, <1>4, <1>5, <1>6

(* manager::create_session and session::start                              *)
LEMMA CreateEnds ==
  ASSUME IInv, NEW c \in Conns, Create(c)
  PROVE  \E x : s' = [s EXCEPT ![c] = x] /\ Fine(s[c], x)
<1>1. s[c] = Fresh /\ s[c] \in SessionType
  BY BornFresh DEF IInv, TypeOK, Create
<1>2. CASE idPool = <<>>
  <2> DEFINE y == NewBorn("pool")
  <2>1. s' = [s EXCEPT ![c] = y] BY <1>2, CreateNone
  <2>2. /\ y.life = "new" /\ y.fault = "pool" /\ y.timer = 0
        /\ Fresh.timer = 0
    BY DEF NewBorn, Fresh
  <2> HIDE DEF y
  <2>3. Fine(s[c], y)
    BY <1>1, <2>2 DEF Fine, EndOK, DrivenOK, ReaderOK, EchoOK, TimedOK
  <2> QED BY <2>1, <2>3
<1>3. CASE idPool # <<>>
  <2> DEFINE y == [[s[c] EXCEPT !.id = Last(idPool)] EXCEPT !.life = "live"]
  <2>1. idPool \in Seq(Ids) BY DEF IInv, TypeOK
  <2>2. Last(idPool) \in Ids BY <1>3, <2>1 DEF Last
  <2>3. s' = [s EXCEPT ![c] = AwaitRequest(y)]
    BY <1>3 DEF Create, Start
  <2>4. y \in SessionType
    <3>1. ASSUME NEW x \in SessionType, NEW id \in Ids
          PROVE  [x EXCEPT !.id = id] \in SessionType
      BY SMTT(30) DEF SessionType
    <3>2. [s[c] EXCEPT !.id = Last(idPool)] \in SessionType
      BY <1>1, <2>2, <3>1
    <3> QED BY <3>2 DEF SessionType
  <2>5. Calm(y) /\ Sent(y) BY <1>1, <2>4 DEF Calm, Sent, Running, Fresh
  <2> HIDE DEF y
  <2>6. EndOK(AwaitRequest(y)) /\ AwaitRequest(y).timer = Slots
    BY <2>5, AwaitEnds
  <2>7. Fine(s[c], AwaitRequest(y)) BY <1>1, <2>6 DEF Fine, TimedOK, Fresh
  <2> QED BY <2>3, <2>7
<1> QED BY <1>2, <1>3

(* Every step but the tick is the step of one session.                     *)
LEMMA TurnEnds ==
  ASSUME IInv, NEW c \in Conns, EndOK(s[c]), Handler(c) \/ Reactor(c)
  PROVE  \E x : s' = [s EXCEPT ![c] = x] /\ Fine(s[c], x)
<1> DEFINE x == s[c]
<1>1. SafeSession(x) /\ x \in SessionType BY DEF IInv, SafeSession
<1>2. Up => x.fault = "none" BY DEF Up
<1>3. CASE HandleWait(c)
  BY <1>1, <1>2, <1>3, WaitEnds DEF HandleWait, Become, Live
<1>4. CASE HandleHeader(c)
  BY <1>1, <1>2, <1>4, HeaderEnds DEF HandleHeader, Become, Live
<1>5. CASE HandleBody(c)
  BY <1>1, <1>2, <1>5, BodyEnds DEF HandleBody, Become, Live
<1>6. CASE HandleSend(c)
  BY <1>1, <1>2, <1>6, SendHandlerEnds DEF HandleSend, Become, Live
<1>7. CASE RunDangling(c)
  <2> DEFINE y == [x EXCEPT !.fault = "dangling"]
  <2>1. s' = [s EXCEPT ![c] = y] /\ x.life = "gone"
    BY <1>7 DEF RunDangling
  <2>2. y.life = "gone" /\ y.fault = "dangling" /\ y.timer = x.timer
    BY <1>1, <2>1 DEF SessionType
  <2> HIDE DEF y
  <2>3. Fine(x, y) BY <2>2 DEF Fine, EndOK, DrivenOK, ReaderOK, EchoOK, TimedOK
  <2> QED BY <2>1, <2>3
<1>8. "ok" \in Op \ {"idle"} /\ "err" \in Op \ {"idle"}
      /\ "pending" \in Op \ {"idle"} /\ "more" \in Op \ {"idle"}
  BY DEF Op
<1>9. CASE ContinueBody(c)
  <2>1. s' = [s EXCEPT ![c] = [x EXCEPT !.body = "pending"]]
        /\ x.life = "live" /\ x.body # "idle"
    BY <1>9 DEF ContinueBody, Live
  <2> QED BY <1>1, <1>8, <2>1, ReactorEnds
<1>10. CASE CompleteWait(c)
  <2>1. PICK result \in Completed :
           s' = [s EXCEPT ![c] = [x EXCEPT !.wait = result]]
    BY <1>10 DEF CompleteWait, Completed
  <2>2. x.life = "live" /\ x.wait # "idle" /\ result \in Op \ {"idle"}
    BY <1>8, <1>10 DEF CompleteWait, Live, Completed
  <2> QED BY <1>1, <2>1, <2>2, ReactorEnds
<1>11. CASE CompleteSend(c)
  <2>1. PICK result \in Completed :
           s' = [s EXCEPT ![c] = [x EXCEPT !.send = result]]
    BY <1>11 DEF CompleteSend, Completed
  <2>2. x.life = "live" /\ x.send # "idle" /\ result \in Op \ {"idle"}
    BY <1>8, <1>11 DEF CompleteSend, Live, Completed
  <2> QED BY <1>1, <2>1, <2>2, ReactorEnds
<1>12. CASE CompleteHeader(c)
  <2>1. \/ \E got : s' = [s EXCEPT ![c] = [x EXCEPT !.header = "ok",
                                                    !.got = got]]
        \/ s' = [s EXCEPT ![c] = [x EXCEPT !.header = "err"]]
    BY <1>12 DEF CompleteHeader
  <2>2. x.life = "live" /\ x.header # "idle"
    BY <1>12 DEF CompleteHeader, Live
  <2>3. /\ Fine(x, [x EXCEPT !.header = "err"])
        /\ \A got : Fine(x, [x EXCEPT !.header = "ok", !.got = got])
    <3> HIDE DEF x
    <3> QED BY <1>1, <1>8, <2>2, ReactorEnds DEF x
  <2> QED BY <2>1, <2>3
<1>13. CASE CompleteBody(c)
  <2>1. x.life = "live" /\ x.body # "idle" BY <1>13 DEF CompleteBody, Live
  <2>2. CASE s' = [s EXCEPT ![c].body = "err"]
    <3>1. s' = [s EXCEPT ![c] = [x EXCEPT !.body = "err"]] BY <2>2
    <3> QED BY <1>1, <1>8, <2>1, <3>1, ReactorEnds
  <2>3. ASSUME NEW n \in 1 .. Len(Source(c)),
               NEW w \in IF held[c] = <<>> THEN WokenToo(s[c].wait)
                                          ELSE {s[c].wait},
               s' = [s EXCEPT ![c] = BodyRead(s[c], n, w)]
        PROVE  \E y : s' = [s EXCEPT ![c] = y] /\ Fine(x, y)
    <3> DEFINE op == IF n = x.lack THEN "ok" ELSE "more"
               lack == x.lack - n
    <3>1. s' = [s EXCEPT ![c] = [x EXCEPT !.body = op, !.lack = lack,
                                          !.wait = w]]
      BY <2>3 DEF BodyRead
    <3>2. w = x.wait \/ (x.wait = "pending" /\ w = "ok")
      BY <2>3 DEF WokenToo
    <3>3. op \in Op \ {"idle"} BY <1>8
    <3> HIDE DEF op, lack, x
    <3> QED BY <1>1, <2>1, <3>1, <3>2, <3>3, ReactorEnds DEF x
  <2>4. \/ s' = [s EXCEPT ![c].body = "err"]
        \/ \E n \in 1 .. Len(Source(c)),
              w \in IF held[c] = <<>> THEN WokenToo(s[c].wait)
                                     ELSE {s[c].wait} :
              s' = [s EXCEPT ![c] = BodyRead(s[c], n, w)]
    BY <1>13, Zenon DEF CompleteBody
  <2> QED BY <2>2, <2>3, <2>4, Zenon
<1> QED
  BY <1>3, <1>4, <1>5, <1>6, <1>7, <1>9, <1>10, <1>11, <1>12, <1>13
  DEF Handler, Reactor

(* A tick ends a wait or brings its end nearer.                            *)
LEMMA TickEnds ==
  ASSUME NEW x, SafeSession(x), EndOK(x), x.fault = "none"
  PROVE  /\ EndOK(Ticked(x))
         /\ Ticked(x).timer = IF x.timer = 0 THEN 0 ELSE x.timer - 1
<1>a. x \in SessionType /\ TimerOK(x) /\ ChainOK(x) /\ CountOK(x)
  BY DEF SafeSession
<1>b. x.timer \in 0 .. Slots BY <1>a DEF SessionType
<1>1. CASE x.timer = 0 BY <1>1, TickedCases
<1>2. CASE x.timer > 0
  <2>1. x.life = "live" /\ x.wbusy /\ ~x.canceled BY <1>2, <1>a DEF TimerOK
  <2>2. x.wait # "idle" /\ x.reader = "none" BY <1>a, <2>1 DEF ChainOK
  <2>3. CASE x.timer = 1
    <3> DEFINE y == Ticked(x)
    <3>1. y = [[Abort(x) EXCEPT !.canceled = TRUE] EXCEPT !.timer = 0]
      BY <2>1, <2>3, TickedCases DEF Expire, Cancel, Busy
    <3>2. /\ y.life = "live" /\ y.fault = "none" /\ y.canceled
          /\ y.timer = 0 /\ y.wbusy /\ y.sbusy = x.sbusy
          /\ y.reply = x.reply /\ y.send = Aborted(x.send)
          /\ y.body = Aborted(x.body) /\ y.reader = x.reader
          /\ y.asked = x.asked /\ y.answered = x.answered /\ y.out = x.out
          /\ y.node = x.node /\ y.overlap = x.overlap
      BY <1>a, <2>1, <3>1 DEF Abort, SessionType
    <3> HIDE DEF y
    <3>3. DrivenOK(y)
      BY <2>1, <3>2 DEF EndOK, DrivenOK, Busy, Owed, Aborted
    <3>4. ReaderOK(y) /\ EchoOK(y)
      BY <2>1, <2>2, <3>2 DEF EndOK, ReaderOK, EchoOK, Aborted
    <3> QED BY <2>3, <3>2, <3>3, <3>4 DEF EndOK, y
  <2>4. CASE x.timer > 1
    <3> DEFINE y == Ticked(x)
    <3>1. y = [x EXCEPT !.timer = @ - 1] BY <2>4, TickedCases
    <3>2. /\ y.life = x.life /\ y.fault = x.fault /\ y.canceled = x.canceled
          /\ y.timer = x.timer - 1 /\ y.asked = x.asked
          /\ y.answered = x.answered
          /\ y.sbusy = x.sbusy /\ y.reply = x.reply /\ y.reader = x.reader
          /\ y.out = x.out /\ y.node = x.node /\ y.overlap = x.overlap
          /\ y.wait = x.wait /\ y.header = x.header /\ y.body = x.body
          /\ y.send = x.send
      BY <1>a, <3>1 DEF SessionType
    <3> HIDE DEF y
    <3>3. DrivenOK(y) BY <2>1, <3>2 DEF EndOK, DrivenOK, Owed
    <3>4. ReaderOK(y) /\ EchoOK(y) BY <3>2 DEF EndOK, ReaderOK, EchoOK
    <3> QED BY <2>4, <3>2, <3>3, <3>4 DEF EndOK, y
  <2> QED BY <1>2, <1>b, <2>3, <2>4
<1> QED BY <1>b, <1>1, <1>2

(* A step is a tick, the step of one session, or of none.                  *)
LEMMA StepEnds ==
  ASSUME IInv, \A c \in Conns : EndOK(s[c]), [Next]_vars
  PROVE  \/ Tick
         \/ \E c \in Conns : \E x : s' = [s EXCEPT ![c] = x] /\ Fine(s[c], x)
         \/ s' = s
<1>1. ASSUME NEW c \in Conns, Client(c) PROVE s' = s
  BY <1>1 DEF Client, Deliver, Disconnect
<1>2. CASE UNCHANGED vars BY <1>2 DEF vars
<1>3. ASSUME NEW c \in Conns, Create(c) \/ Handler(c) \/ Reactor(c)
      PROVE  \E x : s' = [s EXCEPT ![c] = x] /\ Fine(s[c], x)
  BY <1>3, CreateEnds, TurnEnds
<1> QED BY <1>1, <1>2, <1>3 DEF Next

(* In every state the ways a worker may fail, or leak a session, are known *)
(* (manager.cpp, session.cpp, transceiver.cpp).                            *)
THEOREM KnownEnds == Spec => [](IInv /\ \A c \in Conns : EndOK(s[c]))
<1> DEFINE Known == \A c \in Conns : EndOK(s[c])
<1>1. Init => Known
  BY DEF Init, Fresh, EndOK, DrivenOK, ReaderOK, EchoOK
<1>2. IInv /\ Known /\ [Next]_vars => Known'
  <2> SUFFICES ASSUME IInv, Known, [Next]_vars, NEW c \in Conns
               PROVE  EndOK(s'[c])
    OBVIOUS
  <2>1. s \in [Conns -> SessionType] /\ SafeSession(s[c])
    BY DEF IInv, TypeOK
  <2>2. CASE Tick
    <3>1. s'[c] = Ticked(s[c]) /\ s[c].fault = "none"
      BY <2>2 DEF Tick, Up
    <3> QED BY <2>1, <3>1, TickEnds
  <2>3. CASE \E d \in Conns : \E x : s' = [s EXCEPT ![d] = x] /\ Fine(s[d], x)
    BY <2>1, <2>3 DEF Fine
  <2>4. CASE s' = s BY <2>4
  <2> QED BY <2>2, <2>3, <2>4, StepEnds
<1> HIDE DEF Known
<1>3. Spec => []Known BY <1>1, <1>2, Invariance, PTL DEF Spec
<1> QED BY <1>3, Invariance, PTL DEF Known

(* A worker is brought down in the known ways alone: the handler missing   *)
(* at transmitting_content.cpp:28, which is missing only where the         *)
(* resource does not read the body; an exception, out of a header that     *)
(* cannot be decoded (message.hpp:97) or out of a resource                 *)
(* (wsgi_rnode.cpp:99); the identifiers used up (manager.cpp:27); or a     *)
(* header read that overlapped a body.                                     *)
THEOREM FaultsKnown == Spec => []NoFault
<1>1. IInv /\ (\A c \in Conns : EndOK(s[c])) => NoFault
  <2> SUFFICES ASSUME IInv, NEW c \in Conns, EndOK(s[c]),
                      s[c].fault # "none", ~s[c].overlap
               PROVE  \/ s[c].fault = "bad_call" /\ s[c].node # "app"
                      \/ /\ s[c].fault = "thrown"
                         /\ ~s[c].sound \/ s[c].out = "throws"
                      \/ s[c].fault = "pool" /\ idPool = <<>>
    BY DEF NoFault
  <2>1. s[c] \in SessionType /\ TimerOK(s[c]) /\ CoverOK(s[c])
    BY DEF IInv, SafeSession
  <2>2. s[c].fault \in {"none", "bad_call", "dangling", "timer", "thrown",
                        "pool"}
    BY <2>1 DEF SessionType
  <2>3. s[c].fault = "pool" => idPool = <<>> BY DEF IInv, UsedUp
  <2> QED BY <2>1, <2>2, <2>3 DEF TimerOK, CoverOK, EndOK, ReaderOK
<1> QED BY <1>1, KnownEnds, PTL

(* A session that nothing will call again is one of the known leaks: an    *)
(* unanswered request, a receiving flag nobody clears                      *)
(* (transceiver.cpp:246), or an echo cut short.                            *)
THEOREM LeaksKnown == Spec => []OnlyKnownLeaks
<1>1. IInv /\ (\A c \in Conns : EndOK(s[c])) => OnlyKnownLeaks
  <2> SUFFICES ASSUME IInv, NEW c \in Conns, EndOK(s[c]), Stuck(c)
               PROVE  \/ s[c].out = "silent" /\ s[c].asked > s[c].answered
                      \/ /\ s[c].canceled /\ s[c].rbusy /\ ~s[c].sbusy
                         /\ ~s[c].wbusy
                      \/ s[c].reply = "echo" /\ s[c].sbusy
    BY DEF OnlyKnownLeaks
  <2>1. s[c] \in SessionType /\ ChainOK(s[c])
    BY DEF IInv, SafeSession
  <2>2. /\ s[c].life = "live" /\ s[c].fault = "none"
        /\ s[c].reader = "none" /\ s[c].wait = "idle"
        /\ s[c].header = "idle" /\ s[c].body = "idle" /\ s[c].send = "idle"
    BY DEF Stuck, Live, Outstanding
  <2>3. ~s[c].wbusy BY <2>1, <2>2 DEF ChainOK
  <2> QED BY <2>2, <2>3 DEF EndOK, DrivenOK, Busy, Owed
<1> QED BY <1>1, KnownEnds, PTL

(* The sessions of a worker use the timing wheel as Timeouts allows: only  *)
(* the wheel makes time pass, a timer is set when there is none, and       *)
(* canceled when there is one.                                             *)
THEOREM TimeKept == Spec => KeepsTime
<1> DEFINE left == [c \in Conns |-> s[c].timer]
<1>1. Init => Clock!Init
  BY DEF Init, Clock!Init, Fresh
<1>2. IInv /\ (\A c \in Conns : EndOK(s[c])) /\ [Next]_vars
         => [Clock!Next]_left
  <2> SUFFICES ASSUME IInv, \A c \in Conns : EndOK(s[c]), [Next]_vars
               PROVE  Clock!Next \/ left' = left
    OBVIOUS
  <2>1. s \in [Conns -> SessionType] /\ \A c \in Conns : SafeSession(s[c])
    BY DEF IInv, TypeOK
  <2>2. CASE Tick
    <3>1. \A c \in Conns : /\ s'[c] = Ticked(s[c])
                           /\ s[c].fault = "none"
      BY <2>2 DEF Tick, Up
    <3>2. \A c \in Conns : s'[c].timer = IF s[c].timer = 0 THEN 0
                                         ELSE s[c].timer - 1
      BY <2>1, <3>1, TickEnds
    <3>3. Clock!Tick BY <3>2 DEF Clock!Tick
    <3> QED BY <3>3 DEF Clock!Next
  <2>3. ASSUME NEW c \in Conns, NEW x, s' = [s EXCEPT ![c] = x],
               Fine(s[c], x)
        PROVE  Clock!Next \/ left' = left
    <3>1. \A d \in Conns : s'[d].timer = IF d = c THEN x.timer
                                         ELSE s[d].timer
      BY <2>1, <2>3
    <3>2. s[c].timer \in 0 .. Slots BY <2>1 DEF SessionType
    <3>3. left' = [left EXCEPT ![c] = x.timer] BY <3>1
    <3>4. CASE x.timer = s[c].timer
      <4>1. \A d \in Conns : s'[d].timer = s[d].timer BY <3>1, <3>4
      <4> QED BY <4>1
    <3>5. CASE x.timer # s[c].timer /\ x.timer = 0
      <4>1. s[c].timer > 0 BY <3>2, <3>5, SlotsAssumption
      <4>2. Clock!Cancel(c) BY <3>3, <3>5, <4>1 DEF Clock!Cancel
      <4> QED BY <4>2 DEF Clock!Next
    <3>6. CASE s[c].timer = 0 /\ x.timer = Slots
      <4>1. Clock!Set(c) BY <3>3, <3>6 DEF Clock!Set
      <4> QED BY <4>1 DEF Clock!Next
    <3> QED BY <2>3, <3>4, <3>5, <3>6 DEF Fine, TimedOK
  <2>4. CASE s' = s BY <2>4
  <2> QED BY <2>2, <2>3, <2>4, StepEnds
<1> QED BY <1>1, <1>2, KnownEnds, PTL DEF Spec, KeepsTime, Clock!Spec

-----------------------------------------------------------------------------
(* The service.                                                            *)

(* What the server's variables are.                                        *)
Typed ==
    /\ via \in [Conns -> Listeners]
    /\ place \in [Conns -> Distribution!Places]
    /\ worker \in [Conns -> Workers \cup {NoWorker}]
    /\ posted \in [Workers -> Seq(Conns)]
    /\ order \in Seq(Workers) /\ order # <<>>

(* A worker's queue has connections given to it, and each of them once.    *)
Queued ==
    \A w \in Workers :
        /\ \A i \in DOMAIN posted[w] : /\ place[posted[w][i]] = "posted"
                                      /\ worker[posted[w][i]] = w
        /\ \A i, j \in DOMAIN posted[w] : posted[w][i] = posted[w][j] => i = j

ServiceInv == IInv /\ Typed /\ Queued /\ OwnSessions

(* The server's variables have their types after each step.                *)
LEMMA TypedStays ==
  ASSUME Typed, [ServiceNext]_<<vars, distribution>>
  PROVE  Typed'
<1> USE DEF Typed
<1>1. ASSUME NEW c \in Conns, Worker(c) PROVE Typed'
  BY <1>1 DEF Worker, distribution
<1>2. ASSUME NEW c \in Conns, Distribution!Connect(c) PROVE Typed'
  BY <1>2 DEF Distribution!Connect, Distribution!Places
<1>3. ASSUME NEW c \in Conns, HandshakeDone(c) PROVE Typed'
  BY <1>3 DEF HandshakeDone, Distribution!HandshakeEnds, Distribution!Places
<1>4. ASSUME NEW l \in Listeners, AcceptNone(l) PROVE Typed'
  BY <1>4 DEF AcceptNone, Distribution!AcceptFails
<1>5. ASSUME NEW l \in Listeners, AcceptOne(l) PROVE Typed'
  <2>1. PICK k \in Conns : place' = [place EXCEPT ![k] = "posted"]
                           /\ Distribution!Give(k)
    BY <1>5 DEF AcceptOne, Distribution!Accept
  <2> DEFINE w == Head(order)
  <2>2. w \in Workers OBVIOUS
  <2>3. /\ worker' = [worker EXCEPT ![k] = w]
        /\ posted' = [posted EXCEPT ![w] = Append(@, k)]
        /\ order' = Append(Tail(order), w)
    BY <2>1 DEF Distribution!Give
  <2> HIDE DEF w
  <2>4. place' \in [Conns -> Distribution!Places]
    BY <2>1 DEF Distribution!Places
  <2>5. worker' \in [Conns -> Workers \cup {NoWorker}] BY <2>2, <2>3
  <2>6. posted' \in [Workers -> Seq(Conns)]
    <3>1. Append(posted[w], k) \in Seq(Conns) BY <2>2
    <3> QED BY <2>3, <3>1
  <2>7. order' \in Seq(Workers) /\ order' # <<>>
    <3> DEFINE q == Tail(order)
    <3>1. q \in Seq(Workers) OBVIOUS
    <3> HIDE DEF q
    <3>2. Append(q, w) \in Seq(Workers) BY <2>2, <3>1
    <3>3. Append(q, w) # <<>> BY <2>2, <3>1, AppendProperties
    <3> QED BY <2>3, <3>2, <3>3 DEF q
  <2>8. UNCHANGED via BY <1>5 DEF AcceptOne, Distribution!Accept
  <2> QED BY <2>4, <2>5, <2>6, <2>7, <2>8
<1>6. ASSUME NEW w \in Workers, TransferOne(w) PROVE Typed'
  <2>1. posted[w] # <<>> /\ posted[w] \in Seq(Conns)
    BY <1>6 DEF TransferOne, Distribution!Transfer
  <2>2. Tail(posted[w]) \in Seq(Conns) BY <2>1
  <2>3. /\ posted' = [posted EXCEPT ![w] = Tail(@)]
        /\ UNCHANGED <<via, worker, order>>
        /\ \E p \in {"handshake", "session"} :
              place' = [place EXCEPT ![Head(posted[w])] = p]
    BY <1>6 DEF TransferOne, Distribution!Transfer
  <2>4. place' \in [Conns -> Distribution!Places]
    BY <2>3 DEF Distribution!Places
  <2> QED BY <2>2, <2>3, <2>4
<1>7. CASE UNCHANGED <<vars, distribution>> BY <1>7 DEF distribution
<1> QED BY <1>1, <1>2, <1>3, <1>4, <1>5, <1>6, <1>7 DEF ServiceNext

(* The queues stay in order.                                               *)
LEMMA QueuedStays ==
  ASSUME Typed, Queued, [ServiceNext]_<<vars, distribution>>
  PROVE  Queued'
<1>1. ASSUME NEW c \in Conns, place[c] # "posted",
             \E p \in Distribution!Places : place' = [place EXCEPT ![c] = p],
             UNCHANGED <<worker, posted>>
      PROVE  Queued'
  <2>1. \A d \in Conns : d # c => place'[d] = place[d] BY <1>1 DEF Typed
  <2>2. \A w \in Workers : \A i \in DOMAIN posted[w] : posted[w][i] \in Conns
    BY DEF Typed
  <2> QED BY <1>1, <2>1, <2>2 DEF Queued
<1>2. ASSUME UNCHANGED <<place, worker, posted>> PROVE Queued'
  BY <1>2 DEF Queued
<1>3. ASSUME NEW c \in Conns, Worker(c) PROVE Queued'
  BY <1>2, <1>3 DEF Worker, distribution
<1>4. ASSUME NEW c \in Conns, Distribution!Connect(c) PROVE Queued'
  BY <1>1, <1>4 DEF Distribution!Connect, Distribution!Places
<1>5. ASSUME NEW c \in Conns, HandshakeDone(c) PROVE Queued'
  BY <1>1, <1>5
  DEF HandshakeDone, Distribution!HandshakeEnds, Distribution!Places
<1>6. ASSUME NEW l \in Listeners, AcceptNone(l) PROVE Queued'
  BY <1>2, <1>6 DEF AcceptNone, Distribution!AcceptFails
<1>7. ASSUME NEW l \in Listeners, AcceptOne(l) PROVE Queued'
  <2>1. PICK k \in Conns : /\ place[k] = "backlog"
                           /\ place' = [place EXCEPT ![k] = "posted"]
                           /\ Distribution!Give(k)
    BY <1>7 DEF AcceptOne, Distribution!Accept
  <2> DEFINE w == Head(order)
  <2>2. w \in Workers BY DEF Typed
  <2>3. /\ worker' = [worker EXCEPT ![k] = w]
        /\ posted' = [posted EXCEPT ![w] = Append(@, k)]
    BY <2>1 DEF Distribution!Give
  <2> HIDE DEF w
  <2>4. \A v \in Workers : \A i \in DOMAIN posted[v] :
           posted[v][i] \in Conns /\ posted[v][i] # k
    BY <2>1 DEF Typed, Queued
  <2> SUFFICES ASSUME NEW v \in Workers
               PROVE  /\ \A i \in DOMAIN posted'[v] :
                            /\ place'[posted'[v][i]] = "posted"
                            /\ worker'[posted'[v][i]] = v
                      /\ \A i, j \in DOMAIN posted'[v] :
                            posted'[v][i] = posted'[v][j] => i = j
    BY DEF Queued
  <2>5. /\ place'[k] = "posted" /\ worker'[k] = w
        /\ \A d \in Conns : d # k => place'[d] = place[d]
                                     /\ worker'[d] = worker[d]
    BY <2>1, <2>3 DEF Typed
  <2>6. CASE v # w
    <3>1. posted'[v] = posted[v] BY <2>3, <2>6 DEF Typed
    <3> QED BY <2>4, <2>5, <3>1 DEF Queued
  <2>7. CASE v = w
    <3>1. posted'[v] = Append(posted[v], k) /\ posted[v] \in Seq(Conns)
      BY <2>3, <2>7 DEF Typed
    <3>2. /\ DOMAIN posted[v] = 1 .. Len(posted[v]) /\ Len(posted[v]) \in Nat
          /\ DOMAIN posted'[v] = 1 .. Len(posted[v]) + 1
          /\ \A i \in DOMAIN posted[v] : posted'[v][i] = posted[v][i]
          /\ posted'[v][Len(posted[v]) + 1] = k
      BY <3>1
    <3> DEFINE q == posted'[v]
               p == posted[v]
    <3> HIDE DEF q, p
    <3>3. \A i \in DOMAIN p : place[p[i]] = "posted" /\ worker[p[i]] = w
                             /\ p[i] \in Conns /\ p[i] # k
      BY <2>4, <2>7 DEF Queued, p
    <3>4. \A i, j \in DOMAIN p : p[i] = p[j] => i = j BY DEF Queued, p
    <3>5. \A i \in DOMAIN q : i \in DOMAIN p \/ i = Len(p) + 1
      BY <3>2 DEF p, q
    <3>6. \A i \in DOMAIN p : q[i] = p[i] BY <3>2 DEF p, q
    <3>7. q[Len(p) + 1] = k BY <3>2 DEF p, q
    <3>8. \A i \in DOMAIN q : place'[q[i]] = "posted" /\ worker'[q[i]] = w
      BY <2>5, <3>3, <3>5, <3>6, <3>7
    <3>9. \A i, j \in DOMAIN q : q[i] = q[j] => i = j
      BY <3>3, <3>4, <3>5, <3>6, <3>7
    <3> QED BY <2>7, <3>8, <3>9 DEF q
  <2> QED BY <2>6, <2>7
<1>8. ASSUME NEW w \in Workers, TransferOne(w) PROVE Queued'
  <2> DEFINE k == Head(posted[w])
  <2>1. posted[w] # <<>> /\ posted[w] \in Seq(Conns)
    BY <1>8 DEF TransferOne, Distribution!Transfer, Typed
  <2>2. /\ posted' = [posted EXCEPT ![w] = Tail(@)]
        /\ UNCHANGED worker
        /\ \A d \in Conns : d # k => place'[d] = place[d]
    BY <1>8 DEF TransferOne, Distribution!Transfer, Typed
  <2>3. /\ DOMAIN posted[w] = 1 .. Len(posted[w]) /\ Len(posted[w]) \in Nat \ {0}
        /\ k = posted[w][1] /\ k \in Conns
        /\ posted'[w] = Tail(posted[w])
        /\ DOMAIN posted'[w] = 1 .. Len(posted[w]) - 1
        /\ \A i \in DOMAIN posted'[w] : posted'[w][i] = posted[w][i + 1]
    BY <2>1, <2>2 DEF Typed
  <2>4. \A v \in Workers : v # w => posted'[v] = posted[v]
    BY <2>2 DEF Typed
  <2>5. \A i \in DOMAIN posted'[w] :
           /\ i + 1 \in DOMAIN posted[w] /\ posted[w][i + 1] # k
           /\ posted[w][i + 1] \in Conns
    BY <2>1, <2>3 DEF Queued
  <2> SUFFICES ASSUME NEW v \in Workers
               PROVE  /\ \A i \in DOMAIN posted'[v] :
                            /\ place'[posted'[v][i]] = "posted"
                            /\ worker'[posted'[v][i]] = v
                      /\ \A i, j \in DOMAIN posted'[v] :
                            posted'[v][i] = posted'[v][j] => i = j
    BY DEF Queued
  <2>6. CASE v = w
    <3> DEFINE q == posted'[w]
               p == posted[w]
    <3> HIDE DEF q, p
    <3>1. \A i \in DOMAIN q : /\ i + 1 \in DOMAIN p /\ q[i] = p[i + 1]
                             /\ q[i] # k /\ q[i] \in Conns /\ i \in Nat
      BY <2>3, <2>5 DEF p, q
    <3>2. /\ \A i \in DOMAIN p : place[p[i]] = "posted" /\ worker[p[i]] = w
          /\ \A i, j \in DOMAIN p : p[i] = p[j] => i = j
      BY DEF Queued, p
    <3>3. \A i \in DOMAIN q : place'[q[i]] = "posted" /\ worker'[q[i]] = w
      BY <2>2, <3>1, <3>2
    <3>4. \A i, j \in DOMAIN q : q[i] = q[j] => i = j
      <4> SUFFICES ASSUME NEW i \in DOMAIN q, NEW j \in DOMAIN q, q[i] = q[j]
                   PROVE  i = j
        OBVIOUS
      <4>1. i + 1 = j + 1 BY <3>1, <3>2
      <4> QED BY <3>1, <4>1
    <3> QED BY <2>6, <3>3, <3>4 DEF q
  <2>7. CASE v # w
    <3>1. worker[k] = w BY <2>3 DEF Queued
    <3>2. \A i \in DOMAIN posted[v] : posted[v][i] \in Conns /\ posted[v][i] # k
      BY <2>7, <3>1 DEF Queued, Typed
    <3> QED BY <2>2, <2>4, <2>7, <3>2 DEF Queued
  <2> QED BY <2>6, <2>7
<1>9. CASE UNCHANGED <<vars, distribution>> BY <1>2, <1>9 DEF distribution
<1> QED BY <1>3, <1>4, <1>5, <1>6, <1>7, <1>8, <1>9 DEF ServiceNext

(* The connection a worker takes over is one that was given to it.         *)
LEMMA HeadQueued ==
  ASSUME Typed, Queued, NEW w \in Workers, posted[w] # <<>>
  PROVE  /\ Head(posted[w]) \in Conns
         /\ place[Head(posted[w])] = "posted"
         /\ worker[Head(posted[w])] = w
<1>1. posted[w] \in Seq(Conns) BY DEF Typed
<1>2. Head(posted[w]) = posted[w][1] /\ 1 \in DOMAIN posted[w] BY <1>1
<1> QED BY <1>1, <1>2 DEF Queued

(* A step of the two together is a step of the worker, or leaves it alone. *)
LEMMA WorkerSteps ==
  ASSUME [ServiceNext]_<<vars, distribution>>, Typed
  PROVE  [Next]_vars
<1>1. ASSUME NEW c \in Conns, Worker(c) PROVE Next
  BY <1>1 DEF Worker, DeliverPolitely, Next, Client
<1>2. ASSUME NEW c \in Conns, HandshakeDone(c) PROVE [Next]_vars
  BY <1>2 DEF HandshakeDone, CreatePolitely, Next
<1>3. ASSUME NEW w \in Workers, TransferOne(w) PROVE [Next]_vars
  <2>1. Head(posted[w]) \in Conns
    BY <1>3 DEF TransferOne, Distribution!Transfer, Typed
  <2> QED BY <1>3, <2>1 DEF TransferOne, CreatePolitely, Next
<1>4. ASSUME NEW l \in Listeners, AcceptOne(l) \/ AcceptNone(l)
      PROVE  UNCHANGED vars
  BY <1>4 DEF AcceptOne, AcceptNone
<1>5. CASE UNCHANGED <<vars, distribution>> BY <1>5
<1> QED
  BY <1>1, <1>2, <1>3, <1>4, <1>5 DEF ServiceNext

(* Seen from the server it is a step of Server, or none.                   *)
LEMMA ServerSteps ==
  ASSUME [ServiceNext]_<<vars, distribution>>
  PROVE  [Distribution!Next]_(Distribution!vars)
<1>1. ASSUME NEW c \in Conns, Worker(c) PROVE UNCHANGED Distribution!vars
  BY <1>1 DEF Worker, distribution, Distribution!vars
<1>2. ASSUME NEW c \in Conns,
             Distribution!Connect(c) \/ HandshakeDone(c)
      PROVE  Distribution!Next
  BY <1>2 DEF HandshakeDone, Distribution!Next
<1>3. ASSUME NEW w \in Workers, TransferOne(w) PROVE Distribution!Next
  BY <1>3 DEF TransferOne, Distribution!Next
<1>4. ASSUME NEW l \in Listeners, AcceptOne(l) \/ AcceptNone(l)
      PROVE  Distribution!Next
  BY <1>4 DEF AcceptOne, AcceptNone, Distribution!Next
<1>5. CASE UNCHANGED <<vars, distribution>>
  BY <1>5 DEF distribution, Distribution!vars
<1> QED
  BY <1>1, <1>2, <1>3, <1>4, <1>5 DEF ServiceNext

(* A step of a session that exists changes no other, and makes none.       *)
LEMMA WorkerLives ==
  ASSUME IInv, NEW c \in Conns, Worker(c)
  PROVE  \A d \in Conns : s'[d].life # "new" \/ s'[d].fault = "pool"
                             <=> s[d].life # "new" \/ s[d].fault = "pool"
<1>1. s \in [Conns -> SessionType] /\ SafeSession(s[c])
  BY DEF IInv, TypeOK
<1>2. Up => s[c].fault = "none" BY DEF Up
<1>3. /\ (s[c].life # "new" /\ s'[c].life # "new") \/ s' = s
      /\ \A d \in Conns : d # c => s'[d] = s[d]
  <2>a. ASSUME NEW x, After(s[c], x), Live(c), Become(c, x)
        PROVE  /\ s[c].life # "new" /\ s'[c].life # "new"
               /\ \A d \in Conns : d # c => s'[d] = s[d]
    BY <1>1, <2>a DEF Become, After, Live
  <2>1. CASE HandleWait(c)
    BY <1>1, <1>2, <2>1, <2>a, WaitHandlerSafe DEF HandleWait, Live
  <2>2. CASE HandleHeader(c)
    BY <1>1, <1>2, <2>2, <2>a, HeaderHandlerSafe DEF HandleHeader, Live
  <2>3. CASE HandleBody(c)
    BY <1>1, <1>2, <2>3, <2>a, BodyHandlerSafe DEF HandleBody, Live
  <2>4. CASE HandleSend(c)
    BY <1>1, <1>2, <2>4, <2>a, SendHandlerSafe DEF HandleSend, Live
  <2>5. CASE ContinueBody(c)
    BY <1>1, <2>5 DEF ContinueBody, Live, SessionType
  <2>6. CASE RunDangling(c) BY <1>1, <2>6 DEF RunDangling, SessionType
  <2>7. CASE CompleteWait(c)
    BY <1>1, <2>7 DEF CompleteWait, Live, SessionType
  <2>b. ASSUME NEW x, s' = [s EXCEPT ![c] = x], Live(c), x.life = s[c].life
        PROVE  /\ s[c].life # "new" /\ s'[c].life # "new"
               /\ \A d \in Conns : d # c => s'[d] = s[d]
    BY <1>1, <2>b DEF Live
  <2>c. /\ \A got : [s[c] EXCEPT !.header = "ok", !.got = got].life = s[c].life
        /\ [s[c] EXCEPT !.header = "err"].life = s[c].life
        /\ [s[c] EXCEPT !.body = "err"].life = s[c].life
        /\ \A n, w : BodyRead(s[c], n, w).life = s[c].life
    BY <1>1 DEF SessionType, BodyRead
  <2>8. CASE CompleteHeader(c)
    <3>1. \/ \E got : s' = [s EXCEPT ![c] = [s[c] EXCEPT !.header = "ok",
                                                          !.got = got]]
          \/ s' = [s EXCEPT ![c] = [s[c] EXCEPT !.header = "err"]]
      BY <2>8 DEF CompleteHeader
    <3>2. Live(c) BY <2>8 DEF CompleteHeader
    <3> QED BY <2>b, <2>c, <3>1, <3>2
  <2>9. CASE CompleteBody(c)
    <3>1. \/ \E n, w : s' = [s EXCEPT ![c] = BodyRead(s[c], n, w)]
          \/ s' = [s EXCEPT ![c] = [s[c] EXCEPT !.body = "err"]]
      BY <2>9, Zenon DEF CompleteBody
    <3>2. Live(c) BY <2>9 DEF CompleteBody
    <3> QED BY <2>b, <2>c, <3>1, <3>2
  <2>10. CASE CompleteSend(c)
    BY <1>1, <2>10 DEF CompleteSend, Live, SessionType
  <2>11. CASE DeliverPolitely(c) BY <2>11 DEF DeliverPolitely, Deliver
  <2> QED
    BY <2>1, <2>2, <2>3, <2>4, <2>5, <2>6, <2>7, <2>8, <2>9, <2>10, <2>11
    DEF Worker, Handler, Reactor
<1> QED BY <1>3

(* A session that is created is one from then on, unless no identifier was *)
(* left for it, and nothing else changes.                                  *)
LEMMA CreateLives ==
  ASSUME IInv, NEW c \in Conns, Create(c)
  PROVE  /\ s'[c].life # "new" \/ s'[c].fault = "pool"
         /\ \A d \in Conns : d # c => s'[d] = s[d]
<1>1. s \in [Conns -> SessionType] BY DEF IInv, TypeOK
<1>2. s[c] = Fresh BY BornFresh DEF Create
<1>3. CASE idPool = <<>>
  <2>1. s' = [s EXCEPT ![c] = NewBorn("pool")] BY <1>3, CreateNone
  <2>2. NewBorn("pool").fault = "pool" BY DEF NewBorn, Fresh
  <2> QED BY <1>1, <2>1, <2>2
<1>4. CASE idPool # <<>>
  <2>1. idPool \in Seq(Ids) BY DEF IInv, TypeOK
  <2>2. Last(idPool) \in Ids BY <1>4, <2>1 DEF Last
  <2>3. s' = [s EXCEPT ![c] = Start([Fresh EXCEPT !.id = Last(idPool)])]
    BY <1>2, <1>4 DEF Create
  <2>4. s'[c].life = "live" BY <1>1, <2>2, <2>3, StartSafe
  <2> QED BY <1>1, <2>3, <2>4
<1> QED BY <1>3, <1>4

(* The connections that pass into a session of the observed worker are     *)
(* those for which one is created.                                         *)
LEMMA OwnStays ==
  ASSUME IInv, Typed, Queued, OwnSessions, [ServiceNext]_<<vars, distribution>>
  PROVE  OwnSessions'
<1> USE DEF OwnSessions
<1>1. ASSUME NEW c \in Conns, Worker(c) PROVE OwnSessions'
  BY <1>1, WorkerLives DEF Worker, distribution
<1>2. ASSUME NEW c \in Conns, place[c] # "session", UNCHANGED s,
             NEW p \in {"backlog", "posted", "handshake"},
             place' = [place EXCEPT ![c] = p],
             \A d \in Conns : d # c => worker'[d] = worker[d]
      PROVE  OwnSessions'
  BY <1>2 DEF Typed
<1>3. ASSUME NEW c \in Conns, place[c] # "session", UNCHANGED worker,
             place' = [place EXCEPT ![c] = "session"],
             IF worker[c] = Observed THEN Create(c) ELSE UNCHANGED vars
      PROVE  OwnSessions'
  <2>1. \A d \in Conns : place'[d] = IF d = c THEN "session" ELSE place[d]
    BY <1>3 DEF Typed
  <2>2. CASE worker[c] = Observed BY <1>3, <2>1, <2>2, CreateLives
  <2>3. CASE worker[c] # Observed BY <1>3, <2>1, <2>3 DEF vars
  <2> QED BY <2>2, <2>3
<1>4. ASSUME NEW c \in Conns, Distribution!Connect(c), UNCHANGED vars
      PROVE  OwnSessions'
  BY <1>2, <1>4 DEF Distribution!Connect, vars
<1>5. ASSUME NEW c \in Conns, HandshakeDone(c) PROVE OwnSessions'
  BY <1>3, <1>5
  DEF HandshakeDone, CreatePolitely, Distribution!HandshakeEnds
<1>6. ASSUME NEW l \in Listeners, AcceptNone(l) PROVE OwnSessions'
  BY <1>6 DEF AcceptNone, Distribution!AcceptFails, vars
<1>7. ASSUME NEW l \in Listeners, AcceptOne(l) PROVE OwnSessions'
  <2>1. PICK k \in Conns : /\ place[k] = "backlog"
                           /\ place' = [place EXCEPT ![k] = "posted"]
                           /\ worker' = [worker EXCEPT ![k] = Head(order)]
    BY <1>7 DEF AcceptOne, Distribution!Accept, Distribution!Give
  <2>2. \A d \in Conns : d # k => worker'[d] = worker[d] BY <2>1 DEF Typed
  <2>3. UNCHANGED s BY <1>7 DEF AcceptOne, vars
  <2> QED BY <1>2, <2>1, <2>2, <2>3
<1>8. ASSUME NEW w \in Workers, TransferOne(w) PROVE OwnSessions'
  <2> DEFINE k == Head(posted[w])
  <2>1. /\ k \in Conns /\ place[k] = "posted" /\ worker[k] = w
        /\ UNCHANGED <<worker, via>>
        /\ place' = [place EXCEPT ![k] = IF via[k] \in SecureListeners
                                        THEN "handshake" ELSE "session"]
        /\ IF w = Observed /\ via[k] \notin SecureListeners
           THEN Create(k) ELSE UNCHANGED vars
    BY <1>8, HeadQueued DEF TransferOne, CreatePolitely, Distribution!Transfer
  <2> HIDE DEF k
  <2>2. CASE via[k] \in SecureListeners
    BY <1>2, <2>1, <2>2 DEF vars
  <2>3. CASE via[k] \notin SecureListeners
    BY <1>3, <2>1, <2>3
  <2> QED BY <2>2, <2>3
<1>9. CASE UNCHANGED <<vars, distribution>> BY <1>9 DEF distribution, vars
<1> QED BY <1>1, <1>4, <1>5, <1>6, <1>7, <1>8, <1>9 DEF ServiceNext

(* At the start nothing is accepted.                                       *)
LEMMA ServiceStarts == ServiceInit => ServiceInv
<1> SUFFICES ASSUME ServiceInit PROVE ServiceInv OBVIOUS
<1>1. Init /\ Distribution!Init BY DEF ServiceInit
<1>2. IInv BY <1>1, InitInv
<1>3. Typed
  <2>1. Cardinality(Workers) \in Nat \ {0}
    BY ObservedAssumption, FS_CardinalityType, FS_EmptySet
  <2>2. Distribution!Cardinality(Workers) = Cardinality(Workers)
    BY DEF Distribution!Cardinality, Cardinality
  <2>3. order \in [1 .. Cardinality(Workers) -> Workers]
    BY <1>1, <2>2 DEF Distribution!Init, Distribution!Orders
  <2>4. order \in Seq(Workers) /\ order # <<>> BY <2>1, <2>3
  <2> QED BY <1>1, <2>4 DEF Typed, Distribution!Init, Distribution!Places
<1>4. Queued BY <1>1 DEF Queued, Distribution!Init
<1>5. \A c \in Conns : /\ s[c].life = "new" /\ s[c].fault = "none"
                       /\ place[c] = "away"
  BY <1>1 DEF Init, Fresh, Distribution!Init
<1>6. OwnSessions BY <1>5 DEF OwnSessions
<1> QED BY <1>2, <1>3, <1>4, <1>6 DEF ServiceInv

(* The invariant of the server and a worker together.                      *)
LEMMA Together == ServiceSpec => []ServiceInv
<1>1. ServiceInv /\ [ServiceNext]_<<vars, distribution>> => ServiceInv'
  BY WorkerSteps, StepInv, TypedStays, QueuedStays, OwnStays
  DEF ServiceInv
<1> QED BY <1>1, ServiceStarts, PTL DEF ServiceSpec

(* The sessions of the observed worker behave as HttpWorker says, although *)
(* it is the server that decides which of them there are                   *)
(* (worker.cpp:17-33): its theorems hold of them.                          *)
THEOREM WorkerKept == ServiceSpec => Spec
<1>1. ServiceInit => Init BY DEF ServiceInit
<1>2. ServiceInv /\ [ServiceNext]_<<vars, distribution>> => [Next]_vars
  BY WorkerSteps DEF ServiceInv
<1> QED BY <1>1, <1>2, Together, PTL DEF ServiceSpec, Spec

(* The server's thread does what Server says (server.cpp:46-55), although  *)
(* what it can accept depends on the descriptors the sessions hold.        *)
THEOREM ServerKept == ServiceSpec => Distribution!Spec
<1>1. ServiceInit => Distribution!Init BY DEF ServiceInit
<1> QED BY <1>1, ServerSteps, PTL DEF ServiceSpec, Distribution!Spec

(* A worker's sessions are those of the connections it was given and that  *)
(* are through their handshake (server.cpp:52, worker.cpp:17-33,           *)
(* ssl_connection.cpp:67-91).                                              *)
THEOREM OwnSafe == ServiceSpec => []OwnSessions
<1>1. ServiceInv => OwnSessions BY DEF ServiceInv
<1> QED BY <1>1, Together, PTL
=============================================================================
