---------------------------- MODULE MCHeaderCodec ----------------------------
(***************************************************************************)
(* An instance of HeaderCodec for TLC: every header of up to five          *)
(* characters before its blank line, every title of up to seven, and       *)
(* messages of up to two attributes.                                       *)
(***************************************************************************)
EXTENDS HeaderCodec

Letter == 97
Digit == 49

Texts(chars, n) == UNION {[1 .. k -> chars] : k \in 0 .. n}

HeadersOfFive == Texts({Letter, Colon, Space, CR, LF}, 5)
                    \cup {<<Letter>> \o Crlf \o h : h \in Texts({Letter - 32, Colon, Space}, 4)}
                    \cup Texts({Letter, Space, Question}, 7)

AttributesOf(names, values) == {[name |-> n, value |-> v] : n \in names, v \in values}

Values == {<<>>, <<Letter>>, <<Letter, Space>>, <<Space, Letter>>, <<Letter, CR>>}

AttributeLists ==
    {<<>>}
    \cup {<<a>> : a \in AttributesOf(Texts({Letter, Dash, Digit, Colon}, 3), Values)}
    \cup {<<a, b>> : a, b \in AttributesOf(Texts({Letter, Dash, Colon}, 2), Values)}

Titles == {<<Letter>>, <<CR>>}

MessagesOfTwo == {[title |-> t, attributes |-> l] : t \in Titles, l \in AttributeLists}
=============================================================================
