------------------------------ MODULE Exchange ------------------------------
(***************************************************************************)
(* What a worker promises every connection, whatever the others do: it     *)
(* waits for a request, reads it, has it served and replies to it, one     *)
(* request after the other, each answered at most once; it leaves a        *)
(* request only by answering it; and from the moment it decides to close   *)
(* it does nothing but close.  A connection may break at any time: the     *)
(* session faults, or reads bytes as a header that are not one.            *)
(***************************************************************************)
EXTENDS Naturals

CONSTANT Conns

VARIABLES phase, asked, answered

vars == <<phase, asked, answered>>

Phases == {"new", "waiting", "reading", "serving", "replying", "closing",
           "closed", "broken"}

TypeOK == /\ phase \in [Conns -> Phases]
          /\ asked \in [Conns -> Nat]
          /\ answered \in [Conns -> Nat]

Init == /\ phase = [c \in Conns |-> "new"]
        /\ asked = [c \in Conns |-> 0]
        /\ answered = [c \in Conns |-> 0]

Moves(c, from, to) == phase[c] \in from /\ phase'[c] \in to

Counts(c, more, replies) == /\ asked'[c] = asked[c] + more
                            /\ answered'[c] = answered[c] + replies

Accept(c) == Moves(c, {"new"}, {"waiting"}) /\ Counts(c, 0, 0)

Read(c) == Moves(c, {"waiting"}, {"reading"}) /\ Counts(c, 0, 0)

(* The header is complete; the resource answers at once, or later. *)
Request(c) == \/ /\ Moves(c, {"waiting", "reading"}, {"serving"})
                 /\ Counts(c, 1, 0)
              \/ /\ Moves(c, {"waiting", "reading"}, {"replying"})
                 /\ Counts(c, 1, 1)

Reply(c) == Moves(c, {"serving"}, {"replying"}) /\ Counts(c, 0, 1)

KeepAlive(c) == Moves(c, {"replying"}, {"waiting"}) /\ Counts(c, 0, 0)

Close(c) == /\ Moves(c, {"waiting", "reading", "replying", "closing"},
                     {"closing", "closed"})
            /\ Counts(c, 0, 0)

(* It may break over a request it has just taken. *)
Break(c) == /\ Moves(c, Phases, {"broken"})
            /\ \E more \in {0, 1} : Counts(c, more, 0)

Stays(c) == /\ phase'[c] = phase[c]
            /\ Counts(c, 0, 0)

Step(c) == \/ Accept(c) \/ Read(c) \/ Request(c) \/ Reply(c) \/ KeepAlive(c)
           \/ Close(c) \/ Break(c) \/ Stays(c)

(* A tick of the worker's clock may end several waits at once. *)
Next == \A c \in Conns : Step(c)

Spec == Init /\ [][Next]_vars
=============================================================================
