------------------------------ MODULE RangeScan ------------------------------
(***************************************************************************)
(* extract_ranges of filesystem_rnode.cpp: the loop that takes the bounds  *)
(* of a range header apart by searching for dashes and commas.  FileNode   *)
(* begins with the first range found here.                                 *)
(***************************************************************************)
EXTENDS Integers, Sequences, FiniteSets, Text

CONSTANT Values    \* bound: the values of the attribute

Bytes == 98        \* stands for the word "bytes=" as one character
Comma == 44
Digits == 48 .. 57

ASSUME ValuesAssumption ==
    Values \subseteq Strings /\ \A v \in Values : Len(v) < Wrap

VARIABLES
    value,         \* the attribute's value
    begin,         \* begin_offset
    ranges,        \* result
    done

scan == <<value, begin, ranges, done>>

RangeInit ==
    /\ value \in Values
    /\ begin = Plus(find(value, Bytes, 0), 1)
    /\ ranges = <<>>
    /\ done = (find(value, Bytes, 0) = npos)

Return(result) == ranges' = result /\ done' = TRUE /\ UNCHANGED <<value, begin>>

(* A round ends: the range is kept and the next one begins at the position *)
(* given.                                                                  *)
Continue(range, pos) ==
    /\ ranges' = Append(ranges, range)
    /\ begin' = pos
    /\ UNCHANGED <<value, done>>

(* One round of the loop: the range's end is behind the dash by the given  *)
(* number of characters, the next range behind the comma by the other.     *)
RoundWith(behindDash, behindComma) ==
    LET dash  == find(value, Dash, begin)
        from  == Plus(dash, behindDash)
        comma == find(value, Comma, from)
        Range(size) == [begin |-> substr(value, begin, Minus(dash, begin)),
                        end   |-> substr(value, from, size)]
    IN /\ ~done
       /\ \/ dash = npos /\ Return(ranges)
          \/ /\ dash # npos
             /\ dash + 1 = Len(value) \/ comma = npos
             /\ Return(Append(ranges, Range(Len(value))))
          \/ /\ dash # npos /\ dash + 1 # Len(value) /\ comma # npos
             /\ Continue(Range(Minus(comma, from)), comma + behindComma)

(* Fault: the end of the range begins with its dash. *)
RoundAtDash == RoundWith(0, 0)

(* The end begins behind the dash, but the next range with the comma. *)
RangeRound == RoundWith(1, 0)

RangeSpec == RangeInit /\ [][RangeRound]_scan

-----------------------------------------------------------------------------

Bounds(text) == \A i \in DOMAIN text : text[i] \in Digits

(* The text of a list of ranges. *)
ListText(list) ==
    LET text[i \in 0 .. Len(list)] ==
            IF i = 0 THEN <<Bytes>>
            ELSE text[i - 1] \o (IF i = 1 THEN <<>> ELSE <<Comma>>)
                             \o list[i].begin \o <<Dash>> \o list[i].end
    IN text[Len(list)]

WithoutComma(i) ==
    IF i = 1 THEN ranges[1]
    ELSE [ranges[i] EXCEPT !.begin = SubSeq(@, 2, Len(@))]

(* Where a range ends: before a comma, or with the value. *)
RangeEnd(i) == i \in DOMAIN value => value[i] = Comma

(* The word, and then ranges of two bounds each, whose digits may be left  *)
(* out, with commas between them.                                          *)
SoundList ==
    /\ value # <<>> /\ value[1] = Bytes
    /\ \A i \in 2 .. Len(value) : value[i] \in Digits \cup {Dash, Comma}
    /\ \A i, j \in 1 .. Len(value) + 1 :
          (i = 1 \/ RangeEnd(i)) /\ RangeEnd(j) /\ i < j =>
              \E d \in i + 1 .. j - 1 : value[d] = Dash
    /\ \A d, e \in DOMAIN value :
          value[d] = Dash /\ value[e] = Dash /\ d < e =>
              \E i \in d + 1 .. e - 1 : value[i] = Comma

Extracted ==
    LET list == [i \in DOMAIN ranges |-> WithoutComma(i)]
    IN /\ ListText(list) = value
       /\ \A i \in DOMAIN list : Bounds(list[i].begin) /\ Bounds(list[i].end)
       /\ \A i \in DOMAIN ranges : i > 1 => ranges[i].begin[1] = Comma

(* No more ranges are found than the value has characters, so the loop     *)
(* ends for every value, although a round begins where the one before      *)
(* stopped.  From a list of ranges whose bounds are digits or left out,    *)
(* every range is extracted, in its order and with its bounds.  But all    *)
(* except the first begin with the comma before them, which no number      *)
(* does: only the first can be used (filesystem_rnode.cpp:31-80, 130).     *)
ListExtracted ==
    /\ Len(ranges) <= Len(value)
    /\ done /\ SoundList => Extracted
=============================================================================
