-------------------------------- MODULE Text --------------------------------
(***************************************************************************)
(* std::string and std::string_view as the code uses them: positions count *)
(* from 0, a search that fails returns npos, and positions are unsigned    *)
(* and wrap.  A text is a sequence of character codes.                     *)
(***************************************************************************)
LOCAL INSTANCE Integers
LOCAL INSTANCE Sequences
Sets == INSTANCE FiniteSetsExt

CONSTANT Wrap      \* bound: std::size_t counts modulo Wrap, not modulo 2^64

ASSUME WrapAssumption == Wrap \in Nat \ {0}

npos == Wrap - 1

(* What texts are made of, and a character that takes both kinds apart. *)
Strings == Seq(0 .. 255)
Dash == 45

(* Sums and differences of positions. *)
Plus(x, y) == (x + y) % Wrap
Minus(x, y) == (x - y) % Wrap

At(text, pos) == text[pos + 1]

(* The first of the given positions, if there is one. *)
FirstOf(found) == IF found = {} THEN npos ELSE Sets!Min(found)

find(text, char, pos) ==
    FirstOf({i \in pos .. Len(text) - 1 : At(text, i) = char})

find_first_not_of(text, char, pos) ==
    FirstOf({i \in pos .. Len(text) - 1 : At(text, i) # char})

(* It throws if pos is behind the end of the text. *)
substr(text, pos, size) == SubSeq(text, pos + 1, Sets!Min({pos + size, Len(text)}))
=============================================================================
