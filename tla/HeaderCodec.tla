----------------------------- MODULE HeaderCodec -----------------------------
(***************************************************************************)
(* The text of a header: transceiver::_encode_header, which writes one     *)
(* into a buffer whose size was counted before, transceiver::              *)
(* _decode_header, which reads one by searching for its separators, and    *)
(* the request whose title is taken apart then.  A text comes either from  *)
(* the wire, as the header matcher hands it over, or from the encoder.     *)
(***************************************************************************)
EXTENDS Integers, Sequences, FiniteSets, Text

CONSTANTS
    Headers,       \* bound: texts without their blank line, from the wire
    Messages,      \* bound: messages to encode
    MaxAttributes  \* bound on the attributes read before TLC stops

VARIABLES
    msg,           \* the message to encode, or NoMessage
    phase,         \* "encode", "decode", "title" or "done"
    size,          \* the size counted for the buffer
    buf,           \* the text, as far as it is written
    offset,        \* where _decode_header stands
    title,
    attributes,    \* the attributes read, in the order they are read
    request        \* the parts of the title

vars == <<msg, phase, size, buf, offset, title, attributes, request>>

CR == 13
LF == 10
Space == 32
Colon == 58
Question == 63
Crlf == <<CR, LF>>

NoMessage == [title |-> <<>>, attributes |-> <<>>, none |-> TRUE]
NoRequest == [method |-> <<>>, url |-> <<>>, query |-> <<>>, version |-> <<>>]

(* Fault: the letters stay as they are. *)
LowerNone(text) == text

(* message::_to_lower_case; 64 is no letter. *)
Lower(text) == [i \in DOMAIN text |-> IF text[i] \in 64 .. 90
                                      THEN text[i] + 32 ELSE text[i]]

(* A blank line ends with the n-th character: what the header matcher      *)
(* looks for.                                                              *)
BlankLine(text, n) == n >= 4 /\ SubSeq(text, n - 3, n) = Crlf \o Crlf

FromWire == {h \o Crlf \o Crlf : h \in Headers}

Init ==
    /\ \/ msg \in Messages /\ phase = "encode" /\ buf = <<>>
       \/ /\ msg = NoMessage /\ phase = "decode" /\ buf \in FromWire
          /\ \A n \in 1 .. Len(buf) - 1 : ~BlankLine(buf, n)
    /\ size = 0 /\ offset = 0
    /\ title = <<>> /\ attributes = <<>>
    /\ request = NoRequest

-----------------------------------------------------------------------------
(* Encoding.                                                               *)

(* header_key_formalize: 32 is taken from the first character and from     *)
(* each one after a dash, whatever it is.  (After a dash at the end it is  *)
(* taken from the string's terminator, which is not copied.)               *)
header_key_formalize(name) ==
    [i \in DOMAIN name |-> IF i = 1 \/ name[i - 1] = Dash
                           THEN (name[i] - 32) % 256 ELSE name[i]]

(* The size of the buffer, counted before it is filled: what is counted    *)
(* after so many attributes, and in the end.                               *)
Sizes(m) ==
    LET sizes[i \in 0 .. Len(m.attributes)] ==
            IF i = 0 THEN Len(m.title) + 4
            ELSE sizes[i - 1] + Len(m.attributes[i].name)
                              + Len(m.attributes[i].value) + 4
    IN sizes

SizeOf(m) == Sizes(m)[Len(m.attributes)]

(* A text is made of bytes, and its length is a std::size_t, of which npos *)
(* is the last; message::insert_attribute stores a name in lower case.     *)
Attribute == [name : Strings, value : Strings]

ASSUME HeadersAssumption ==
    Headers \subseteq Strings /\ \A h \in Headers : Len(h) + 4 < Wrap

ASSUME MessagesAssumption ==
    /\ Messages \subseteq [title : Strings, attributes : Seq(Attribute)]
    /\ \A m \in Messages :
          /\ SizeOf(m) < Wrap
          /\ \A i \in DOMAIN m.attributes :
                Lower(m.attributes[i].name) = m.attributes[i].name

EncodeTitle ==
    /\ phase = "encode" /\ buf = <<>>
    /\ size' = SizeOf(msg)
    /\ buf' = msg.title \o Crlf
    /\ attributes' = msg.attributes
    /\ UNCHANGED <<msg, phase, offset, title, request>>

(* One round of the loop; attributes holds what is left to write.          *)
EncodeAttribute ==
    /\ phase = "encode" /\ buf # <<>> /\ attributes # <<>>
    /\ LET attr == Head(attributes)
       IN buf' = buf \o header_key_formalize(attr.name) \o <<Colon, Space>>
                     \o attr.value \o Crlf
    /\ attributes' = Tail(attributes)
    /\ UNCHANGED <<msg, phase, size, offset, title, request>>

(* The blank line; then the text is read by whoever receives it.           *)
EncodeEnd ==
    /\ phase = "encode" /\ buf # <<>> /\ attributes = <<>>
    /\ buf' = buf \o Crlf
    /\ phase' = "decode"
    /\ UNCHANGED <<msg, size, offset, title, attributes, request>>

-----------------------------------------------------------------------------
(* Decoding.                                                               *)

DecodeTitle ==
    /\ phase = "decode" /\ offset = 0
    /\ LET end == find(buf, CR, 0)
       IN /\ title' = substr(buf, 0, end)
          /\ offset' = Plus(end, 2)
    /\ UNCHANGED <<msg, phase, size, buf, attributes, request>>

(* The name runs from the offset to the next colon, the value from the     *)
(* given position to the next carriage return.                             *)
Read(colon, from, end) ==
    [name  |-> Lower(substr(buf, offset, Minus(colon, offset))),
     value |-> substr(buf, from, Minus(end, from))]

(* One round of _decode_header's loop, with the position of the colon, the *)
(* value's first character and the line's end, and the size of that end.   *)
Round(colon, from, end, step) ==
    /\ phase = "decode" /\ offset # 0
    /\ offset < Len(buf) /\ At(buf, offset) # CR
    /\ Len(attributes) < MaxAttributes
    /\ attributes' = Append(attributes, Read(colon, from, end))
    /\ offset' = Plus(end, step)
    /\ UNCHANGED <<msg, phase, size, buf, title, request>>

(* Fault: exactly one blank is skipped after the colon. *)
DecodeAttributeOneBlank ==
    LET colon == find(buf, Colon, offset)
        from  == Plus(colon, 2)
    IN Round(colon, from, find(buf, CR, from), 2)

(* Fault: the line feed counts as the first character of the next line. *)
DecodeAttributeShort ==
    LET colon == find(buf, Colon, offset)
        from  == find_first_not_of(buf, Space, Plus(colon, 1))
    IN Round(colon, from, find(buf, CR, from), 1)

(* The colon is searched from the line's first character on, in this line  *)
(* or a later one; without one the offset wraps to the text's beginning.   *)
DecodeAttribute ==
    LET colon == find(buf, Colon, offset)
        from  == find_first_not_of(buf, Space, Plus(colon, 1))
    IN Round(colon, from, find(buf, CR, from), 2)

(* The line at the offset is blank. *)
DecodeEnd ==
    /\ phase = "decode" /\ offset # 0
    /\ offset < Len(buf) /\ At(buf, offset) = CR
    /\ phase' = "title" /\ offset' = 0
    /\ UNCHANGED <<msg, size, buf, title, attributes, request>>

-----------------------------------------------------------------------------
(* request::_extract_title.                                                *)

(* The parts of the title, as pairs of a position and the next one: a      *)
(* method, a url that ends with the character given, what may be between   *)
(* it and the version, and the version.                                    *)
Cuts(asked) ==
    LET blank   == find(title, Space, 0)
        target  == Plus(blank, 1)
        end     == find(title, IF asked THEN Question ELSE Space, target)
        query   == Plus(end, 1)
        last    == IF asked THEN find(title, Space, query) ELSE end
        version == Plus(last, 1)
    IN [method |-> <<0, blank>>, url |-> <<target, end>>,
        query |-> IF asked THEN <<query, last>> ELSE <<0, 0>>,
        version |-> <<version, find(title, CR, version)>>]

(* A question mark anywhere in the title makes it one with a query.        *)
Parts == Cuts(find(title, Question, 0) # npos)

Cut(pair) == substr(title, pair[1], Minus(pair[2], pair[1]))

ExtractTitle ==
    /\ phase = "title"
    /\ \E parts \in {Parts} :
          request' = [part \in DOMAIN NoRequest |-> Cut(parts[part])]
    /\ phase' = "done"
    /\ UNCHANGED <<msg, size, buf, offset, title, attributes>>

Next == \/ EncodeTitle \/ EncodeAttribute \/ EncodeEnd
        \/ DecodeTitle \/ DecodeAttribute \/ DecodeEnd
        \/ ExtractTitle

Spec == Init /\ [][Next]_vars

(* The functions run until they return.                                    *)
FairSpec == Spec /\ WF_vars(Next)

-----------------------------------------------------------------------------

Has(text, char) == \E i \in DOMAIN text : text[i] = char

(* The text's lines: the title, the attributes and the blank line.         *)
Ends(n) == Cardinality({i \in 1 .. n : buf[i] = CR})
LineEnd(k) == CHOOSE i \in DOMAIN buf : buf[i] = CR /\ Ends(i) = k
Line(k) == SubSeq(buf, LineEnd(k) + 2, LineEnd(k + 1) - 1)
Lines == 1 .. Ends(Len(buf)) - 2

(* Carriage returns and line feeds occur only together.                    *)
Clean == \A i \in DOMAIN buf :
            /\ buf[i] = CR => i < Len(buf) /\ buf[i + 1] = LF
            /\ buf[i] = LF => i > 1 /\ buf[i - 1] = CR

(* Every line after the title has a colon.                                 *)
WellFormed == Clean /\ \A k \in Lines : Has(Line(k), Colon)

(* A line's name is what is before its first colon, in lower case; its     *)
(* value is the rest without the blanks it begins with.                    *)
IsAttribute(attr, line) ==
    \E colon \in DOMAIN line, from \in 1 .. Len(line) + 1 :
        /\ line[colon] = Colon
        /\ \A i \in 1 .. colon - 1 : line[i] # Colon
        /\ from > colon
        /\ \A i \in colon + 1 .. from - 1 : line[i] = Space
        /\ from <= Len(line) => line[from] # Space
        /\ attr.name = Lower(SubSeq(line, 1, colon - 1))
        /\ attr.value = SubSeq(line, from, Len(line))

AttributesAsGrammar ==
    WellFormed =>
        /\ title = SubSeq(buf, 1, LineEnd(1) - 1)
        /\ Len(attributes) = Ends(Len(buf)) - 2
        /\ \A k \in Lines : IsAttribute(attributes[k], Line(k))

(* A title of a method, a url with or without a query, and a version, with *)
(* a space between them and no other.                                      *)
TitleAsGrammar ==
    LET target == request.url \o (IF Has(title, Question)
                                  THEN <<Question>> \o request.query ELSE <<>>)
        sound  == \E i, j \in DOMAIN title :
                     /\ i < j
                     /\ \A n \in DOMAIN title :
                           /\ title[n] = Space <=> n \in {i, j}
                           /\ title[n] = Question => i < n /\ n < j
    IN sound =>
        /\ title = request.method \o <<Space>> \o target
                                  \o <<Space>> \o request.version
        /\ ~Has(request.method, Space) /\ ~Has(request.version, Space)
        /\ ~Has(request.url, Question)
        /\ Has(title, Question) \/ request.query = <<>>

(* What is decoded from a header whose every line has a colon is what the  *)
(* grammar of its lines says, however names, colons and blanks are placed  *)
(* (transceiver.cpp:66-87), and its title is taken apart as it was put     *)
(* together (request.hpp:39-66).                                           *)
AsGrammar == phase = "done" => AttributesAsGrammar /\ TitleAsGrammar

(* A name whose letters after its beginning and after its dashes are lower *)
(* case letters: any other there becomes another character.                *)
Capitalizable(name) ==
    \A i \in DOMAIN name : i = 1 \/ name[i - 1] = Dash => name[i] \in 96 .. 122

(* What the text of an attribute can express.                              *)
Sendable(attr) ==
    /\ Capitalizable(attr.name) /\ ~Has(attr.name, Colon)
    /\ ~Has(attr.value, CR) /\ (attr.value # <<>> => attr.value[1] # Space)

(* The buffer of the encoder is filled to the size that was counted for    *)
(* it before, not less and not past it (transceiver.cpp:29-62); and the    *)
(* message decoded from it is what it was, exactly if its title is one     *)
(* line and its attributes can be sent: a program spells them as it likes, *)
(* and nothing checks them (transceiver.cpp:11-24, wsgi_rnode.cpp:         *)
(* 123-129).                                                               *)
RoundTrip ==
    phase = "done" /\ msg # NoMessage =>
        /\ Len(buf) = size
        /\ title = msg.title /\ attributes = msg.attributes
              <=> /\ ~Has(msg.title, CR)
                  /\ \A i \in DOMAIN msg.attributes : Sendable(msg.attributes[i])

(* Decoding ends for every header whose lines all have a colon; without    *)
(* one after the last line's beginning it would begin anew for ever        *)
(* (transceiver.cpp:74-84).                                                *)
DecodingEnds == (phase = "decode" /\ WellFormed) ~> phase = "done"
=============================================================================
