---------------------------- MODULE MCHttpWorker ----------------------------
(***************************************************************************)
(* Instances of HttpWorker for TLC.                                        *)
(***************************************************************************)
EXTENDS HttpWorker

(* The requests of the instances; a body has two units, so that its read   *)
(* can be found half done.                                                 *)
Request(node, out, body, keep) ==
    [node |-> node, out |-> out, body |-> body, keep |-> keep, sound |-> TRUE]

Get       == Request("plain", "content", 0, TRUE)
GetClose  == Request("plain", "content", 0, FALSE)
Head304   == Request("plain", "bare", 0, TRUE)
Put       == Request("plain", "silent", 0, TRUE)
Post      == Request("plain", "content", 2, TRUE)
PostClose == Request("plain", "empty", 2, FALSE)
Echo      == Request("trace", "content", 2, TRUE)
Call      == Request("app", "content", 2, TRUE)
CallEmpty == Request("app", "empty", 0, TRUE)
CallRaise == Request("app", "silent", 0, TRUE)
GetThrow  == Request("plain", "throws", 2, TRUE)
Unsound   == [Post EXCEPT !.sound = FALSE]

AnyRequest == {Get, GetClose, Head304, Put, Post, PostClose, Echo, Call,
               CallEmpty, CallRaise, GetThrow, Unsound}

Stream(script) == FlattenSeq([i \in DOMAIN script |-> Wire(script[i])])

StreamsOf(scripts) == {Stream(script) : script \in scripts}

UpTo(n, S) == UNION {[1 .. k -> S] : k \in 1 .. n}

(* Any first request, one that leaves each kind of work to the next, and   *)
(* three in a row for a header buffer of small blocks.                     *)
Second == {Get, Put, Post, Echo, Call}

OneClient == StreamsOf(UpTo(1, AnyRequest) \cup (AnyRequest \X Second)
                          \cup {<<Get, Get, Get>>})

(* Clients of which more come than identifiers are in the pool. *)
FewRequest == {Get}
FewClients == StreamsOf({<<>>, <<Get>>})

Symmetry == Permutations(Conns)
=============================================================================
