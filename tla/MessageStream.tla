--------------------------- MODULE MessageStream ---------------------------
(***************************************************************************)
(* What the transceiver makes of the bytes of a connection: one header     *)
(* after another, each up to and including the first blank line, with the  *)
(* bodies between them left out.                                           *)
(***************************************************************************)
EXTENDS Naturals, Sequences

CONSTANTS Bytes, CR, LF, MaxBody, Length

VARIABLES
    rest,          \* the bytes not yet taken
    header         \* the header taken last

vars == <<rest, header>>

(* A blank line ends with the n-th byte. *)
BlankLineAt(q, n) == /\ n \in 4 .. Len(q)
                     /\ SubSeq(q, n - 3, n) = <<CR, LF, CR, LF>>

FirstBlankLineAt(q, n) == /\ BlankLineAt(q, n)
                          /\ \A m \in 1 .. n - 1 : ~BlankLineAt(q, m)

Init == /\ rest \in [1 .. Length -> Bytes]
        /\ header = <<>>

Take(n, body) == /\ FirstBlankLineAt(rest, n)
                 /\ header' = SubSeq(rest, 1, n)
                 /\ n + body <= Len(rest)
                 /\ rest' = SubSeq(rest, n + body + 1, Len(rest))

Next == \E n \in 1 .. Len(rest), body \in 0 .. MaxBody : Take(n, body)

Spec == Init /\ [][Next]_vars
=============================================================================
