----------------------------- MODULE MCRangeScan -----------------------------
(***************************************************************************)
(* An instance of RangeScan for TLC: every value of up to seven characters *)
(* with the word at its beginning, or not at all.                          *)
(***************************************************************************)
EXTENDS RangeScan

Zero == 48

Chars == {Zero, Dash, Comma}

ValuesOfSeven == {<<Bytes>> \o v : v \in UNION {[1 .. n -> Chars] : n \in 0 .. 7}}
                     \cup UNION {[1 .. n -> Chars] : n \in 0 .. 2}
=============================================================================
