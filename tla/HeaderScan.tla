----------------------------- MODULE HeaderScan -----------------------------
(***************************************************************************)
(* How the transceiver finds the headers of requests in the bytes it       *)
(* receives: async_receive, _header_receiving_handler, the header matcher  *)
(* and the linked buffer, byte by byte.  Session abstracts a header to two *)
(* units; this module shows that wherever the reads and the blocks cut the *)
(* stream, the headers taken are the ones MessageStream takes.             *)
(***************************************************************************)
EXTENDS LinkedBuffer

CONSTANTS
    CR, LF,        \* the two bytes of a line end
    MaxBody,       \* bound: bytes of a body
    Length         \* bound: bytes the client sends

ASSUME BytesAssumption == CR \in Bytes /\ LF \in Bytes /\ CR # LF

ASSUME BoundsAssumption == MaxBody \in Nat /\ Length \in Nat

VARIABLES
    buffer,        \* transceiver::_header_receive_buffer
    status,        \* header_matcher::status of the outstanding read
    reading,       \* whether a read is outstanding
    stream,        \* the bytes not yet read from the connection
    header         \* the header taken last

vars == <<buffer, status, reading, stream, header>>

Init == /\ buffer = Empty
        /\ status = 0
        /\ reading = FALSE
        /\ stream \in [1 .. Length -> Bytes]
        /\ header = <<>>

(* Fault: a carriage return after a carriage return starts nothing. *)
MatchOnce(st, byte) ==
    CASE st = 0 -> IF byte = CR THEN 1 ELSE 0
      [] st = 1 -> IF byte = LF THEN 2 ELSE 0
      [] st = 2 -> IF byte = CR THEN 3 ELSE 0
      [] st = 3 -> IF byte = LF THEN 4 ELSE 0
      [] st = 4 -> 4

(* header_matcher::match *)
Match(st, byte) ==
    CASE st = 0 -> IF byte = CR THEN 1 ELSE 0
      [] st = 1 -> IF byte = LF THEN 2 ELSE IF byte = CR THEN 1 ELSE 0
      [] st = 2 -> IF byte = CR THEN 3 ELSE 0
      [] st = 3 -> IF byte = LF THEN 4 ELSE IF byte = CR THEN 1 ELSE 0
      [] st = 4 -> 4

(* The status after the first i bytes of data. *)
Scan(st, data) ==
    LET after[i \in 0 .. Len(data)] ==
            IF i = 0 THEN st ELSE Match(after[i - 1], data[i])
    IN after

(* Positions at which the header is complete. *)
Found(scan) == {i \in DOMAIN scan : scan[i] = 4}

First(S) == CHOOSE i \in S : \A j \in S : i <= j

(* The header is the first n bytes of b.  Its body is taken from what is   *)
(* buffered and then from the connection (_receive_content).               *)
Hand(b, n, unread) ==
    /\ header' = Data(b, n)
    /\ \E body \in 0 .. MaxBody :
          LET c    == Consume(b, n)
              take == IF c.size < body THEN c.size ELSE body
          IN /\ body - take <= Len(unread)
             /\ buffer' = Consume(c, take)
             /\ stream' = SubSeq(unread, body - take + 1, Len(unread))
    /\ reading' = FALSE
    /\ status' = 0

(* No header is complete: the next read goes to the next free block. *)
ReadOn(b, st, unread) ==
    /\ buffer' = Reserve(b)
    /\ status' = st
    /\ stream' = unread
    /\ reading' = TRUE
    /\ UNCHANGED header

(* transceiver::async_receive *)
Receive ==
    /\ ~reading
    /\ LET scan == Scan(0, FirstBlock(buffer))
       IN IF Found(scan) = {}
          THEN ReadOn(buffer, scan[Len(FirstBlock(buffer))], stream)
          ELSE Hand(buffer, First(Found(scan)), stream)

(* transceiver::_header_receiving_handler *)
Handle ==
    /\ reading
    /\ \E n \in 1 .. Len(stream) :
          /\ n <= buffer.capacity
          /\ LET data   == SubSeq(stream, 1, n)
                 unread == SubSeq(stream, n + 1, Len(stream))
                 scan   == Scan(status, data)
             IN IF Found(scan) = {}
                THEN ReadOn(Write(buffer, data), scan[n], unread)
                ELSE Hand(Write(buffer, data),
                          buffer.size + First(Found(scan)), unread)

Next == Receive \/ Handle

Spec == Init /\ [][Next]_vars

-----------------------------------------------------------------------------

Stream == INSTANCE MessageStream WITH rest <- Contents(buffer) \o stream

(* The headers handed over are those of the stream, cut at their first     *)
(* blank lines, and no byte is lost, repeated or overwritten.              *)
TakesHeaders == Stream!Spec
=============================================================================
