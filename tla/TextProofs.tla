----------------------------- MODULE TextProofs -----------------------------
(***************************************************************************)
(* What the code makes of the texts it writes and takes apart, whatever    *)
(* their length: the encoder and the decoder of headers, and the scan of a *)
(* range header.                                                           *)
(*                                                                         *)
(* The text.  What is written is spelled out by position: Start says where *)
(* the line of an attribute begins, counted by Sizes as the encoder        *)
(* counts, and Lays what stands there.  The buffer is filled as far as it  *)
(* was counted (EncodeInv), and what was written stays as it is while more *)
(* is (Added, LaysOn, WrittenOn).                                          *)
(*                                                                         *)
(* The lines.  The decoder stands at an offset and the properties count    *)
(* lines, so the invariant counts the line ends before the offset (AtLine, *)
(* with Ends and LineEnd): reading one more line finds the next one's end  *)
(* where it is counted (NextLine), and the line that ends the loop is the  *)
(* last (LastLine).                                                        *)
(*                                                                         *)
(* The round trip.  Up to the first attribute whose text does not express  *)
(* it, what is read is what was written (Same) and the offset is where the *)
(* next line begins; that attribute is read as another one and stays so    *)
(* (Lost).  An attribute comes back if and only if it is Sendable          *)
(* (ReadsSame, ReadsLost), for which NameBack goes through the spelling of *)
(* a name byte by byte.                                                    *)
(*                                                                         *)
(* The title is taken apart at its first question mark and its two spaces; *)
(* the pieces put together again are the title (PutTogether).              *)
(*                                                                         *)
(* The ranges.  Taken gives the places where the ranges extracted so far   *)
(* end: each is a comma, if not the first, a bound, a dash and a bound     *)
(* (Spans), and the scan stands at the last of them.  A round finds the    *)
(* next range there (NextRange, RoundFinds).  When the last place is the   *)
(* value's end, the text of the list is the value, place by place          *)
(* (TextOfList).                                                           *)
(***************************************************************************)
EXTENDS HeaderCodec, RangeScan, SequenceTheorems, FiniteSetTheorems,
        WellFoundedInduction, TLAPS

-----------------------------------------------------------------------------
(* Searching a text.                                                       *)

(* Every nonempty set of positions has a least one.                        *)
LEMMA LeastOf ==
  ASSUME NEW S, S \subseteq Nat, S # {}
  PROVE  \E n \in S : \A m \in S : n <= m
<1> DEFINE R == OpToRel(<, Nat)
<1>1. IsWellFoundedOn(R, Nat) BY NatLessThanWellFounded
<1>2. PICK n \in S : \A m \in S : <<m, n>> \notin R
  BY <1>1, WFMin, Zenon
<1>3. \A m \in S : ~(m < n) BY <1>2 DEF OpToRel
<1> QED BY <1>3

(* Every text is a sequence of bytes,                                      *)
LEMMA TextIs ==
  \A text \in Strings : /\ Len(text) \in Nat /\ DOMAIN text = 1 .. Len(text)
                        /\ \A i \in 1 .. Len(text) : text[i] \in 0 .. 255
<1> SUFFICES ASSUME NEW text \in Strings
             PROVE  /\ Len(text) \in Nat /\ DOMAIN text = 1 .. Len(text)
                    /\ \A i \in 1 .. Len(text) : text[i] \in 0 .. 255
  OBVIOUS
<1>1. text \in Seq(0 .. 255) BY DEF Strings
<1> QED BY <1>1, LenProperties, ElementOfSeq

(* and texts of the same bytes are the same.                               *)
LEMMA SameText ==
  \A s, t \in Strings :
     Len(s) = Len(t) /\ (\A i \in 1 .. Len(s) : s[i] = t[i]) => s = t
BY SeqEqual DEF Strings

(* The first of a set of positions is its least.                           *)
LEMMA FirstOfIs ==
  \A S \in SUBSET Nat : \A p \in S : (\A i \in S : p <= i) => FirstOf(S) = p
<1> SUFFICES ASSUME NEW S \in SUBSET Nat, NEW p \in S, \A i \in S : p <= i
             PROVE  FirstOf(S) = p
  OBVIOUS
<1>1. Sets!Min(S) = p
  <2>1. \A q \in S : (\A i \in S : q <= i) => q = p OBVIOUS
  <2> QED BY <2>1 DEF Sets!Min
<1> QED BY <1>1 DEF FirstOf

(* The character is the first one of its kind from the position on.        *)
Found(text, p, pos, char) ==
    /\ p \in pos .. Len(text) - 1
    /\ text[p + 1] = char
    /\ \A i \in pos + 1 .. p : text[i] # char

(* The character is the first one of another kind.                         *)
FoundNot(text, p, pos, char) ==
    /\ p \in pos .. Len(text) - 1
    /\ text[p + 1] # char
    /\ \A i \in pos + 1 .. p : text[i] = char

(* What is the first one is what find gives, in a text and for a position  *)
(* as large as it may be,                                                  *)
LEMMA FindIs ==
  \A text \in Strings, char \in Nat, pos \in Nat, p \in Nat :
     Found(text, p, pos, char) => find(text, char, pos) = p
<1> SUFFICES ASSUME NEW text \in Strings, NEW char \in Nat, NEW pos \in Nat,
                    NEW p \in Nat, Found(text, p, pos, char)
             PROVE  find(text, char, pos) = p
  OBVIOUS
<1> DEFINE S == {i \in pos .. Len(text) - 1 : At(text, i) = char}
<1>1. Len(text) \in Nat BY TextIs
<1>2. S \in SUBSET Nat BY <1>1
<1>3. p \in S BY <1>1 DEF Found, At
<1>4. ASSUME NEW i \in S PROVE p <= i
  <2>1. i \in Nat /\ pos <= i /\ text[i + 1] = char BY <1>1 DEF At
  <2>2. SUFFICES ASSUME i < p PROVE FALSE BY <2>1
  <2>3. i + 1 \in pos + 1 .. p BY <2>1, <2>2
  <2> QED BY <2>1, <2>3 DEF Found
<1> HIDE DEF S
<1>5. FirstOf(S) = p BY <1>2, <1>3, <1>4, FirstOfIs
<1> QED BY <1>5 DEF find, S

(* and the same for find_first_not_of.                                     *)
LEMMA FindNotIs ==
  \A text \in Strings, char \in Nat, pos \in Nat, p \in Nat :
     FoundNot(text, p, pos, char) => find_first_not_of(text, char, pos) = p
<1> SUFFICES ASSUME NEW text \in Strings, NEW char \in Nat, NEW pos \in Nat,
                    NEW p \in Nat, FoundNot(text, p, pos, char)
             PROVE  find_first_not_of(text, char, pos) = p
  OBVIOUS
<1> DEFINE S == {i \in pos .. Len(text) - 1 : At(text, i) # char}
<1>1. Len(text) \in Nat BY TextIs
<1>2. S \in SUBSET Nat BY <1>1
<1>3. p \in S BY <1>1 DEF FoundNot, At
<1>4. ASSUME NEW i \in S PROVE p <= i
  <2>1. i \in Nat /\ pos <= i /\ text[i + 1] # char BY <1>1 DEF At
  <2>2. SUFFICES ASSUME i < p PROVE FALSE BY <2>1
  <2>3. i + 1 \in pos + 1 .. p BY <2>1, <2>2
  <2> QED BY <2>1, <2>3 DEF FoundNot
<1> HIDE DEF S
<1>5. FirstOf(S) = p BY <1>2, <1>3, <1>4, FirstOfIs
<1> QED BY <1>5 DEF find_first_not_of, S

(* One that is there is found there or before.                             *)
LEMMA Search ==
  \A text \in Strings, char \in Nat, pos \in Nat, k \in Nat :
     pos < k /\ k <= Len(text) /\ text[k] = char
        => \E p \in Nat : p < k /\ Found(text, p, pos, char)
<1> SUFFICES ASSUME NEW text \in Strings, NEW char \in Nat, NEW pos \in Nat,
                    NEW k \in Nat, pos < k, k <= Len(text), text[k] = char
             PROVE  \E p \in Nat : p < k /\ Found(text, p, pos, char)
  OBVIOUS
<1> DEFINE S == {i \in Nat : pos <= i /\ i < Len(text) /\ text[i + 1] = char}
<1>1. Len(text) \in Nat BY TextIs
<1>2. k - 1 \in S BY <1>1
<1>3. PICK p \in S : \A i \in S : p <= i BY <1>2, LeastOf
<1>4. p \in Nat /\ p < k BY <1>2, <1>3
<1>5. ASSUME NEW i \in pos + 1 .. p PROVE text[i] # char
  <2>1. i - 1 \in Nat /\ ~(p <= i - 1) BY <1>4
  <2>2. i - 1 \notin S BY <1>3, <2>1
  <2> QED BY <1>1, <1>3, <2>1, <2>2
<1>6. Found(text, p, pos, char) BY <1>1, <1>3, <1>5 DEF Found
<1> QED BY <1>4, <1>6

(* The same for the search for another character.                          *)
LEMMA SearchNot ==
  \A text \in Strings, char \in Nat, pos \in Nat, k \in Nat :
     pos < k /\ k <= Len(text) /\ text[k] # char
        => \E p \in Nat : p < k /\ FoundNot(text, p, pos, char)
<1> SUFFICES ASSUME NEW text \in Strings, NEW char \in Nat, NEW pos \in Nat,
                    NEW k \in Nat, pos < k, k <= Len(text), text[k] # char
             PROVE  \E p \in Nat : p < k /\ FoundNot(text, p, pos, char)
  OBVIOUS
<1> DEFINE S == {i \in Nat : pos <= i /\ i < Len(text) /\ text[i + 1] # char}
<1>1. Len(text) \in Nat BY TextIs
<1>2. k - 1 \in S BY <1>1
<1>3. PICK p \in S : \A i \in S : p <= i BY <1>2, LeastOf
<1>4. p \in Nat /\ p < k BY <1>2, <1>3
<1>5. ASSUME NEW i \in pos + 1 .. p PROVE text[i] = char
  <2>1. i - 1 \in Nat /\ ~(p <= i - 1) BY <1>4
  <2>2. i - 1 \notin S BY <1>3, <2>1
  <2> QED BY <1>1, <1>3, <2>1, <2>2
<1>6. FoundNot(text, p, pos, char) BY <1>1, <1>3, <1>5 DEF FoundNot
<1> QED BY <1>4, <1>6

(* A search that finds nothing says so,                                    *)
LEMMA FindNone ==
  \A text \in Strings, char \in Nat, pos \in Nat :
     (\A i \in pos + 1 .. Len(text) : text[i] # char)
        => find(text, char, pos) = npos
<1> SUFFICES ASSUME NEW text \in Strings, NEW char \in Nat, NEW pos \in Nat,
                    \A i \in pos + 1 .. Len(text) : text[i] # char
             PROVE  find(text, char, pos) = npos
  OBVIOUS
<1>1. Len(text) \in Nat BY TextIs
<1>2. {i \in pos .. Len(text) - 1 : At(text, i) = char} = {}
  BY <1>1 DEF At
<1> QED BY <1>2 DEF find, FirstOf

(* and what is found is a position.                                        *)
LEMMA FindType ==
  \A text \in Strings, char \in Nat, pos \in Nat :
     /\ find(text, char, pos) \in Nat
     /\ find_first_not_of(text, char, pos) \in Nat
<1> SUFFICES ASSUME NEW text \in Strings, NEW char \in Nat, NEW pos \in Nat
             PROVE  /\ find(text, char, pos) \in Nat
                    /\ find_first_not_of(text, char, pos) \in Nat
  OBVIOUS
<1>1. Len(text) \in Nat BY TextIs
<1>2. ASSUME NEW S \in SUBSET Nat PROVE FirstOf(S) \in Nat
  <2>1. CASE S = {} BY <2>1, WrapAssumption DEF FirstOf, npos
  <2>2. CASE S # {}
    <3>1. PICK p \in S : \A i \in S : p <= i BY <2>2, LeastOf
    <3> QED BY <3>1, FirstOfIs
  <2> QED BY <2>1, <2>2
<1>3. {i \in pos .. Len(text) - 1 : At(text, i) = char} \in SUBSET Nat
  BY <1>1
<1>4. {i \in pos .. Len(text) - 1 : At(text, i) # char} \in SUBSET Nat
  BY <1>1
<1> QED BY <1>2, <1>3, <1>4 DEF find, find_first_not_of

(* A search that finds something finds it in the rest of the text.         *)
LEMMA FindIn ==
  ASSUME NEW text \in Strings, NEW char \in Nat, NEW pos \in Nat,
         find(text, char, pos) # npos
  PROVE  pos <= find(text, char, pos) /\ find(text, char, pos) < Len(text)
<1> DEFINE S == {i \in pos .. Len(text) - 1 : At(text, i) = char}
<1>1. Len(text) \in Nat BY TextIs
<1>2. S \in SUBSET Nat BY <1>1
<1>3. S # {} BY DEF find, FirstOf
<1>4. \A i \in S : pos <= i /\ i < Len(text) BY <1>1
<1> HIDE DEF S
<1>5. PICK p \in S : \A i \in S : p <= i BY <1>2, <1>3, LeastOf
<1>6. FirstOf(S) = p BY <1>2, <1>5, FirstOfIs
<1> QED BY <1>4, <1>6 DEF find, S

-----------------------------------------------------------------------------
(* Positions and pieces.                                                   *)

(* Sums and differences of positions that do not wrap.                     *)
LEMMA Positions ==
  \A x, y \in Nat :
     /\ Plus(x, y) \in Nat /\ Minus(x, y) \in Nat
     /\ x + y < Wrap => Plus(x, y) = x + y
     /\ y <= x /\ x < Wrap => Minus(x, y) = x - y
BY WrapAssumption DEF Plus, Minus

(* A piece of a text, as positions or as substr gives it.                  *)
LEMMA Piece ==
  \A s \in Strings, m \in Nat, n \in Nat :
     m >= 1 /\ m <= n + 1 /\ n <= Len(s) =>
        /\ SubSeq(s, m, n) \in Strings
        /\ Len(SubSeq(s, m, n)) = n + 1 - m
        /\ \A i \in 1 .. n + 1 - m : SubSeq(s, m, n)[i] = s[m + i - 1]
<1> SUFFICES ASSUME NEW s \in Strings, NEW m \in Nat, NEW n \in Nat,
                    m >= 1, m <= n + 1, n <= Len(s)
             PROVE  /\ SubSeq(s, m, n) \in Strings
                    /\ Len(SubSeq(s, m, n)) = n + 1 - m
                    /\ \A i \in 1 .. n + 1 - m : SubSeq(s, m, n)[i] = s[m + i - 1]
  OBVIOUS
<1>1. Len(s) \in Nat /\ \A i \in 1 .. Len(s) : s[i] \in 0 .. 255 BY TextIs
<1>2. \A i \in m .. n : i \in 1 .. Len(s) BY <1>1
<1>3. \A i \in m .. n : s[i] \in 0 .. 255 BY <1>1, <1>2
<1> QED BY <1>3, SubSeqProperties DEF Strings

(* substr gives the piece between two positions,                           *)
LEMMA SubstrIs ==
  \A s \in Strings, pos, count \in Nat :
     pos + count <= Len(s) => substr(s, pos, count) = SubSeq(s, pos + 1, pos + count)
<1> SUFFICES ASSUME NEW s \in Strings, NEW pos \in Nat, NEW count \in Nat,
                    pos + count <= Len(s)
             PROVE  substr(s, pos, count) = SubSeq(s, pos + 1, pos + count)
  OBVIOUS
<1>1. Len(s) \in Nat BY TextIs
<1>2. Sets!Min({pos + count, Len(s)}) = pos + count BY <1>1 DEF Sets!Min
<1> QED BY <1>2 DEF substr

(* the rest of the text if the piece would go past its end,                *)
LEMMA SubstrRest ==
  \A s \in Strings, pos, count \in Nat :
     pos + count >= Len(s) => substr(s, pos, count) = SubSeq(s, pos + 1, Len(s))
<1> SUFFICES ASSUME NEW s \in Strings, NEW pos \in Nat, NEW count \in Nat,
                    pos + count >= Len(s)
             PROVE  substr(s, pos, count) = SubSeq(s, pos + 1, Len(s))
  OBVIOUS
<1>1. Len(s) \in Nat BY TextIs
<1>2. Sets!Min({pos + count, Len(s)}) = Len(s) BY <1>1 DEF Sets!Min
<1> QED BY <1>2 DEF substr

(* and a text whatever it is asked for.                                    *)
LEMMA SubstrType ==
  \A s \in Strings, pos, count \in Nat : substr(s, pos, count) \in Strings
<1> SUFFICES ASSUME NEW s \in Strings, NEW pos \in Nat, NEW count \in Nat
             PROVE  substr(s, pos, count) \in Strings
  OBVIOUS
<1>1. PICK L \in Nat : L = Len(s) BY TextIs
<1>2. PICK n \in Nat : n <= L /\ substr(s, pos, count) = SubSeq(s, pos + 1, n)
  <2>1. CASE pos + count <= Len(s)
    <3>1. substr(s, pos, count) = SubSeq(s, pos + 1, pos + count)
      BY <2>1, SubstrIs
    <3>2. pos + count \in Nat /\ pos + count <= L BY <1>1, <2>1
    <3> QED BY <3>1, <3>2
  <2>2. CASE pos + count >= Len(s)
    <3>1. substr(s, pos, count) = SubSeq(s, pos + 1, Len(s))
      BY <2>2, SubstrRest
    <3> QED BY <1>1, <3>1
  <2>3. pos + count <= Len(s) \/ pos + count >= Len(s) BY <1>1
  <2> QED BY <2>1, <2>2, <2>3, Zenon
<1>3. \A i \in pos + 1 .. n : i \in 1 .. Len(s) BY <1>1, <1>2
<1>4. \A i \in pos + 1 .. n : s[i] \in 0 .. 255 BY <1>3, TextIs
<1> QED BY <1>2, <1>4, SubSeqProperties DEF Strings

(* A name in lower case is as long as the name.                            *)
LEMMA LowerType ==
  \A s \in Strings : /\ Lower(s) \in Strings /\ Len(Lower(s)) = Len(s)
                     /\ \A i \in 1 .. Len(s) :
                          Lower(s)[i] = IF s[i] \in 64 .. 90 THEN s[i] + 32
                                                             ELSE s[i]
<1> SUFFICES ASSUME NEW s \in Strings
             PROVE  /\ Lower(s) \in Strings /\ Len(Lower(s)) = Len(s)
                    /\ \A i \in 1 .. Len(s) :
                         Lower(s)[i] = IF s[i] \in 64 .. 90 THEN s[i] + 32
                                                            ELSE s[i]
  OBVIOUS
<1>1. PICK n \in Nat : n = Len(s) /\ DOMAIN s = 1 .. n BY TextIs
<1>2. \A i \in 1 .. n : s[i] \in 0 .. 255 BY <1>1, TextIs
<1>3. Lower(s) = [i \in 1 .. n |-> IF s[i] \in 64 .. 90 THEN s[i] + 32 ELSE s[i]]
  BY <1>1 DEF Lower
<1>4. \A c \in 0 .. 255 : c + 32 \in Nat /\ (c \in 64 .. 90 => c + 32 \in 0 .. 255)
  OBVIOUS
<1>5. ASSUME NEW i \in 1 .. n PROVE Lower(s)[i] \in 0 .. 255
  <2>1. PICK c \in 0 .. 255 : c = s[i] BY <1>2
  <2>2. Lower(s)[i] = IF c \in 64 .. 90 THEN c + 32 ELSE c BY <1>3, <2>1
  <2> QED BY <1>4, <2>2
<1>6. Lower(s) \in [1 .. n -> 0 .. 255] BY <1>3, <1>5
<1>7. Lower(s) \in Seq(0 .. 255) /\ Len(Lower(s)) = n BY <1>6
<1> QED BY <1>1, <1>3, <1>7 DEF Strings

(* So is a name as it is written.                                          *)
LEMMA FormalType ==
  \A s \in Strings :
     /\ header_key_formalize(s) \in Strings
     /\ Len(header_key_formalize(s)) = Len(s)
     /\ \A i \in 1 .. Len(s) :
           header_key_formalize(s)[i] =
              IF i = 1 \/ s[i - 1] = Dash THEN (s[i] - 32) % 256 ELSE s[i]
<1> SUFFICES ASSUME NEW s \in Strings
             PROVE  /\ header_key_formalize(s) \in Strings
                    /\ Len(header_key_formalize(s)) = Len(s)
                    /\ \A i \in 1 .. Len(s) :
                          header_key_formalize(s)[i] =
                             IF i = 1 \/ s[i - 1] = Dash
                             THEN (s[i] - 32) % 256 ELSE s[i]
  OBVIOUS
<1>1. PICK n \in Nat : n = Len(s) /\ DOMAIN s = 1 .. n BY TextIs
<1>2. \A i \in 1 .. n : s[i] \in 0 .. 255 BY <1>1, TextIs
<1>3. \A c \in 0 .. 255 : (c - 32) % 256 \in 0 .. 255 OBVIOUS
<1>4. header_key_formalize(s) =
         [i \in 1 .. n |-> IF i = 1 \/ s[i - 1] = Dash
                           THEN (s[i] - 32) % 256 ELSE s[i]]
  BY <1>1 DEF header_key_formalize
<1> QED BY <1>1, <1>2, <1>3, <1>4 DEF Strings

-----------------------------------------------------------------------------
(* The size of a text and the lines in it.                                 *)

(* A sum of as many numbers can be counted up.                             *)
CountsUp(f, N, a, d) ==
    /\ f \in [0 .. N -> Nat]
    /\ \A i \in 0 .. N : f[i] = IF i = 0 THEN a ELSE f[i - 1] + d[i]

(* Counting up gives one function, by induction on the number.             *)
LEMMA Counting ==
  ASSUME NEW N \in Nat, NEW a \in Nat, NEW d \in [1 .. N -> Nat]
  PROVE  \E f : CountsUp(f, N, a, d)
<1> DEFINE Sum(n) == \E f : CountsUp(f, n, a, d)
           S == {n \in 0 .. N : ~Sum(n)}
<1>1. SUFFICES ASSUME S # {} PROVE FALSE
  <2>1. ASSUME S = {} PROVE Sum(N)
    <3>1. N \in 0 .. N OBVIOUS
    <3> QED BY <2>1, <3>1
  <2> QED BY <2>1
<1>2. PICK n \in S : \A k \in S : n <= k
  <2>1. S \subseteq Nat OBVIOUS
  <2> HIDE DEF S
  <2> QED BY <1>1, <2>1, LeastOf
<1>3. n \in 0 .. N /\ ~Sum(n) BY <1>2
<1>4. Sum(0)
  <2>1. [i \in 0 .. 0 |-> a] \in [0 .. 0 -> Nat] OBVIOUS
  <2>2. \A i \in 0 .. 0 : [j \in 0 .. 0 |-> a][i] =
                            IF i = 0 THEN a ELSE [j \in 0 .. 0 |-> a][i - 1] + d[i]
    OBVIOUS
  <2> QED BY <2>1, <2>2 DEF CountsUp
<1>5. PICK l \in Nat : l = n - 1 /\ n = l + 1 /\ l \in 0 .. N
  <2>1. n # 0 BY <1>3, <1>4
  <2> QED BY <1>3, <2>1
<1>6. Sum(l)
  <2>1. ~(n <= l) BY <1>3, <1>5
  <2>2. l \notin S BY <1>2, <2>1
  <2> QED BY <1>5, <2>2
<1>7. PICK f \in [0 .. l -> Nat] :
         \A i \in 0 .. l : f[i] = IF i = 0 THEN a ELSE f[i - 1] + d[i]
  BY <1>6 DEF CountsUp
<1> DEFINE g == [i \in 0 .. n |-> IF i = n THEN f[l] + d[n] ELSE f[i]]
<1>8. d[n] \in Nat /\ f[l] \in Nat BY <1>3, <1>5
<1>9. ASSUME NEW i \in 0 .. n PROVE g[i] \in Nat
  <2>1. CASE i = n BY <1>8, <2>1
  <2>2. CASE i # n
    <3>1. i \in 0 .. l BY <1>3, <1>5, <2>2
    <3> QED BY <2>2, <3>1
  <2> QED BY <2>1, <2>2
<1>10. ASSUME NEW i \in 0 .. n
       PROVE  g[i] = IF i = 0 THEN a ELSE g[i - 1] + d[i]
  <2>1. \A j \in 0 .. l : j \in 0 .. n /\ j # n BY <1>3, <1>5
  <2>2. \A j \in 0 .. l : g[j] = f[j] BY <2>1
  <2>3. g[n] = f[l] + d[n] BY <1>3
  <2> HIDE DEF g
  <2>4. CASE i = n BY <1>5, <2>2, <2>3, <2>4
  <2>5. CASE i # n
    <3>1. i \in 0 .. l /\ (i # 0 => i - 1 \in 0 .. l) BY <1>3, <1>5, <2>5
    <3> QED BY <1>7, <2>2, <3>1
  <2> QED BY <2>4, <2>5
<1>11. g \in [0 .. n -> Nat] BY <1>9
<1> HIDE DEF g
<1> QED BY <1>3, <1>10, <1>11 DEF CountsUp

(* The parts of a message.                                                 *)
LEMMA MessageIs ==
  \A m \in Messages :
     /\ m.title \in Strings /\ m.attributes \in Seq(Attribute)
     /\ Len(m.attributes) \in Nat /\ DOMAIN m.attributes = 1 .. Len(m.attributes)
     /\ \A k \in 1 .. Len(m.attributes) :
           /\ m.attributes[k] \in Attribute
           /\ m.attributes[k].name \in Strings
           /\ m.attributes[k].value \in Strings
           /\ Lower(m.attributes[k].name) = m.attributes[k].name
     /\ SizeOf(m) < Wrap
<1> SUFFICES ASSUME NEW m \in Messages
             PROVE  /\ m.title \in Strings /\ m.attributes \in Seq(Attribute)
                    /\ Len(m.attributes) \in Nat
                    /\ DOMAIN m.attributes = 1 .. Len(m.attributes)
                    /\ \A k \in 1 .. Len(m.attributes) :
                          /\ m.attributes[k] \in Attribute
                          /\ m.attributes[k].name \in Strings
                          /\ m.attributes[k].value \in Strings
                          /\ Lower(m.attributes[k].name) = m.attributes[k].name
                    /\ SizeOf(m) < Wrap
  OBVIOUS
<1>1. m \in [title : Strings, attributes : Seq(Attribute)]
  BY MessagesAssumption
<1>2. m.title \in Strings /\ m.attributes \in Seq(Attribute) BY <1>1
<1>3. /\ Len(m.attributes) \in Nat
      /\ DOMAIN m.attributes = 1 .. Len(m.attributes)
      /\ \A k \in 1 .. Len(m.attributes) : m.attributes[k] \in Attribute
  BY <1>2, LenProperties, ElementOfSeq
<1>4. \A a \in Attribute : a.name \in Strings /\ a.value \in Strings
  BY DEF Attribute
<1>5. /\ SizeOf(m) < Wrap
      /\ \A k \in DOMAIN m.attributes :
            Lower(m.attributes[k].name) = m.attributes[k].name
  BY MessagesAssumption, Zenon
<1> QED BY <1>2, <1>3, <1>4, <1>5

(* Where the lines of the attributes begin, after so many of them.         *)
Start(m, k) == Sizes(m)[k] - 2

(* The lines of the attributes lie one behind the other, and the last of   *)
(* them ends two characters before the size that was counted.              *)
LEMMA Starts ==
  \A m \in Messages :
     /\ \A k \in 0 .. Len(m.attributes) :
           Start(m, k) \in Nat /\ Start(m, k) >= 2
     /\ Start(m, 0) = Len(m.title) + 2
     /\ \A k \in 1 .. Len(m.attributes) :
           Start(m, k) = Start(m, k - 1) + Len(m.attributes[k].name)
                                         + Len(m.attributes[k].value) + 4
     /\ SizeOf(m) = Start(m, Len(m.attributes)) + 2
<1> SUFFICES ASSUME NEW m \in Messages
             PROVE  /\ \A k \in 0 .. Len(m.attributes) :
                          Start(m, k) \in Nat /\ Start(m, k) >= 2
                    /\ Start(m, 0) = Len(m.title) + 2
                    /\ \A k \in 1 .. Len(m.attributes) :
                          Start(m, k) =
                             Start(m, k - 1) + Len(m.attributes[k].name)
                                             + Len(m.attributes[k].value) + 4
                    /\ SizeOf(m) = Start(m, Len(m.attributes)) + 2
  OBVIOUS
<1> DEFINE Step(f) == [i \in 0 .. Len(m.attributes) |->
                         IF i = 0 THEN Len(m.title) + 4
                         ELSE f[i - 1] + Len(m.attributes[i].name)
                                       + Len(m.attributes[i].value) + 4]
           at == CHOOSE f : f = Step(f)
<1>1. Sizes(m) = at BY DEF Sizes
<1>2. PICK N \in Nat : N = Len(m.attributes) BY MessageIs
<1>3. PICK t \in Nat : t = Len(m.title)
  <2>1. m.title \in Strings BY MessageIs
  <2>2. Len(m.title) \in Nat BY <2>1, TextIs
  <2> QED BY <2>2
<1>4. PICK x, y \in [1 .. N -> Nat] :
         \A i \in 1 .. N : /\ x[i] = Len(m.attributes[i].name)
                           /\ y[i] = Len(m.attributes[i].value)
  <2>1. \A i \in 1 .. N : /\ Len(m.attributes[i].name) \in Nat
                          /\ Len(m.attributes[i].value) \in Nat
    BY <1>2, MessageIs, TextIs
  <2>2. /\ [i \in 1 .. N |-> Len(m.attributes[i].name)] \in [1 .. N -> Nat]
        /\ [i \in 1 .. N |-> Len(m.attributes[i].value)] \in [1 .. N -> Nat]
    BY <2>1
  <2> QED BY <2>2
<1> DEFINE d == [i \in 1 .. N |-> x[i] + y[i] + 4]
<1>5. d \in [1 .. N -> Nat] OBVIOUS
<1>6. \A i \in 1 .. N : d[i] = x[i] + y[i] + 4 OBVIOUS
<1> HIDE DEF d
<1>7. PICK a \in Nat : a = t + 4 OBVIOUS
<1>8. PICK f \in [0 .. N -> Nat] :
         /\ f[0] = a
         /\ \A i \in 1 .. N : f[i] = f[i - 1] + d[i]
  <2>1. PICK f : CountsUp(f, N, a, d) BY <1>5, Counting, Zenon
  <2>2. PICK z \in 0 .. N : z = 0 OBVIOUS
  <2>3. f[0] = a BY <2>1, <2>2 DEF CountsUp
  <2>4. ASSUME NEW i \in 1 .. N PROVE f[i] = f[i - 1] + d[i]
    <3>1. i \in 0 .. N /\ i # 0 OBVIOUS
    <3> QED BY <2>1, <3>1 DEF CountsUp
  <2> QED BY <2>1, <2>3, <2>4 DEF CountsUp
<1>9. \A g : Step(g) = [i \in 0 .. N |->
                          IF i = 0 THEN a ELSE g[i - 1] + x[i] + y[i] + 4]
  BY <1>2, <1>3, <1>4, <1>7
<1>10. ASSUME NEW g, NEW i \in 1 .. N, g[i - 1] = f[i - 1]
       PROVE  g[i - 1] + x[i] + y[i] + 4 = f[i]
  <2>1. PICK u, v, w \in Nat : u = f[i - 1] /\ v = x[i] /\ w = y[i]
    <3>1. i - 1 \in 0 .. N OBVIOUS
    <3> QED BY <3>1
  <2>2. f[i] = u + (v + w + 4) BY <1>6, <1>8, <2>1
  <2>3. u + v + w + 4 = u + (v + w + 4) OBVIOUS
  <2> QED BY <1>10, <2>1, <2>2, <2>3
<1>11. f = Step(f)
  <2> DEFINE h == [i \in 0 .. N |-> IF i = 0 THEN a
                                   ELSE f[i - 1] + x[i] + y[i] + 4]
  <2>1. ASSUME NEW i \in 0 .. N PROVE f[i] = h[i]
    <3>1. CASE i = 0 BY <1>8, <3>1
    <3>2. CASE i # 0
      <4>1. i \in 1 .. N BY <3>2
      <4>2. h[i] = f[i - 1] + x[i] + y[i] + 4 BY <3>2
      <4> HIDE DEF h
      <4> QED BY <1>10, <4>1, <4>2
    <3> QED BY <3>1, <3>2
  <2>2. f = h BY <2>1
  <2>3. Step(f) = h BY <1>9
  <2> QED BY <2>2, <2>3
<1> HIDE DEF Step
<1>12. at = Step(at) BY <1>11
<1> HIDE DEF at
<1>13. at = [i \in 0 .. N |-> IF i = 0 THEN a
                              ELSE at[i - 1] + x[i] + y[i] + 4]
  BY <1>9, <1>12
<1>14. \A i \in 0 .. N : at[i] = f[i]
  <2> DEFINE S == {i \in 0 .. N : at[i] # f[i]}
  <2> SUFFICES ASSUME S # {} PROVE FALSE OBVIOUS
  <2>1. S \subseteq Nat OBVIOUS
  <2>2. PICK n \in S : \A k \in S : n <= k BY <2>1, LeastOf
  <2>3. n \in 0 .. N /\ at[n] # f[n] BY <2>2
  <2>4. n # 0 BY <1>8, <1>13, <2>3
  <2>5. n \in 1 .. N /\ n - 1 \in 0 .. N /\ ~(n <= n - 1) BY <2>3, <2>4
  <2>6. n - 1 \notin S BY <2>2, <2>5
  <2>7. at[n - 1] = f[n - 1] BY <2>5, <2>6
  <2>8. at[n] = at[n - 1] + x[n] + y[n] + 4 BY <1>13, <2>3, <2>4
  <2> HIDE DEF S
  <2> QED BY <1>10, <2>3, <2>5, <2>7, <2>8
<1>15. at = f
  <2>1. at = [i \in 0 .. N |-> at[i]] BY <1>13
  <2> QED BY <1>14, <2>1
<1>16. \A i : Start(m, i) = f[i] - 2 BY <1>1, <1>15 DEF Start
<1>17. \A i \in 0 .. N : f[i] >= 4
  <2> DEFINE S == {i \in 0 .. N : ~(f[i] >= 4)}
  <2> SUFFICES ASSUME S # {} PROVE FALSE OBVIOUS
  <2>1. S \subseteq Nat OBVIOUS
  <2>2. PICK n \in S : \A k \in S : n <= k BY <2>1, LeastOf
  <2>3. n \in 0 .. N /\ ~(f[n] >= 4) BY <2>2
  <2>4. n # 0 BY <1>7, <1>8, <2>3
  <2>5. n \in 1 .. N /\ n - 1 \in 0 .. N /\ ~(n <= n - 1) BY <2>3, <2>4
  <2>6. n - 1 \notin S BY <2>2, <2>5
  <2>7. PICK u, v \in Nat : u = f[n - 1] /\ v = d[n] BY <1>5, <2>5
  <2>8. u >= 4 BY <2>5, <2>6, <2>7
  <2>9. f[n] = u + v BY <1>8, <2>5, <2>7
  <2> HIDE DEF S
  <2> QED BY <2>3, <2>7, <2>8, <2>9
<1>18. ASSUME NEW k \in 0 .. N PROVE Start(m, k) \in Nat /\ Start(m, k) >= 2
  <2>1. PICK u \in Nat : u = f[k] /\ u >= 4 BY <1>17
  <2>2. Start(m, k) = u - 2 BY <1>16, <2>1
  <2> QED BY <2>1, <2>2
<1>19. Start(m, 0) = t + 2
  <2>1. Start(m, 0) = a - 2 BY <1>8, <1>16
  <2> QED BY <1>7, <2>1
<1>20. ASSUME NEW k \in 1 .. N
       PROVE  Start(m, k) = Start(m, k - 1) + x[k] + y[k] + 4
  <2>1. PICK u, v, w \in Nat : u = f[k - 1] /\ v = x[k] /\ w = y[k]
    <3>1. k - 1 \in 0 .. N OBVIOUS
    <3> QED BY <3>1
  <2>2. f[k] = u + (v + w + 4) BY <1>6, <1>8, <2>1
  <2>3. PICK p, q \in Int : p = Start(m, k) /\ q = Start(m, k - 1)
                          /\ p = f[k] - 2 /\ q = f[k - 1] - 2
    <3>1. Start(m, k) = f[k] - 2 /\ Start(m, k - 1) = f[k - 1] - 2
      BY <1>16, Zenon
    <3>2. f[k] \in Nat /\ f[k - 1] \in Nat BY <2>1
    <3> QED BY <3>1, <3>2
  <2>4. q = u - 2 BY <2>1, <2>3
  <2>5. p = u + (v + w + 4) - 2 BY <2>2, <2>3
  <2>6. p = q + v + w + 4 BY <2>4, <2>5
  <2> QED BY <2>1, <2>3, <2>6, Zenon
<1>21. SizeOf(m) = Start(m, N) + 2
  <2>1. PICK u \in Nat : u = f[N] OBVIOUS
  <2>2. SizeOf(m) = u BY <1>1, <1>2, <1>15, <2>1 DEF SizeOf
  <2>3. Start(m, N) = u - 2 BY <1>16, <2>1
  <2> QED BY <2>1, <2>2, <2>3
<1> QED BY <1>2, <1>3, <1>4, <1>18, <1>19, <1>20, <1>21

-----------------------------------------------------------------------------
(* The invariant.                                                          *)

Phases == {"encode", "decode", "title", "done"}

(* The types of the variables of which the other parts do not speak.        *)
TypeInv ==
    /\ phase \in Phases
    /\ buf \in Strings /\ title \in Strings /\ attributes \in Seq(Attribute)
    /\ offset \in Nat
    /\ msg \in Messages \cup {NoMessage}

(* The line of an attribute lies behind the first s characters of a text.  *)
Lays(text, s, attr) ==
    LET n == Len(attr.name)
        v == Len(attr.value)
    IN /\ s + n + v + 4 <= Len(text)
       /\ \A i \in 1 .. n : text[s + i] = header_key_formalize(attr.name)[i]
       /\ text[s + n + 1] = Colon /\ text[s + n + 2] = Space
       /\ \A i \in 1 .. v : text[s + n + 2 + i] = attr.value[i]
       /\ text[s + n + v + 3] = CR /\ text[s + n + v + 4] = LF

(* The title and the first j attributes of a message, as they stand in a   *)
(* text.                                                                   *)
Written(text, m, j) ==
    /\ Start(m, 0) <= Len(text)
    /\ \A i \in 1 .. Len(m.title) : text[i] = m.title[i]
    /\ text[Len(m.title) + 1] = CR /\ text[Len(m.title) + 2] = LF
    /\ \A k \in 1 .. j : Lays(text, Start(m, k - 1), m.attributes[k])

(* So many attributes are written and the others left.                     *)
Writing(j) ==
    /\ Len(attributes) = Len(msg.attributes) - j
    /\ \A i \in DOMAIN attributes : attributes[i] = msg.attributes[j + i]
    /\ Len(buf) = Start(msg, j)
    /\ Written(buf, msg, j)

(* What is written so far is what was counted for it.                      *)
EncodeInv ==
    phase = "encode" =>
        /\ msg \in Messages /\ offset = 0
        /\ buf # <<>> => /\ size = SizeOf(msg)
                         /\ \E j \in 0 .. Len(msg.attributes) : Writing(j)

(* The text ends with a blank line, and its length is a std::size_t.       *)
Closed(text) ==
    /\ Len(text) \in 4 .. Wrap - 1
    /\ text[Len(text) - 3] = CR /\ text[Len(text) - 2] = LF
    /\ text[Len(text) - 1] = CR /\ text[Len(text)] = LF

(* A finished text is closed; the encoder's holds its whole message and    *)
(* fills the buffer exactly.                                               *)
TextInv ==
    phase # "encode" =>
        /\ Closed(buf)
        /\ msg # NoMessage => /\ msg \in Messages
                              /\ size = SizeOf(msg) /\ Len(buf) = size
                              /\ Written(buf, msg, Len(msg.attributes))

(* The line is what is before the first line end of the text.              *)
FirstLine(text, line) ==
    \E e \in 1 .. Len(text) :
        /\ text[e] = CR /\ \A i \in 1 .. e - 1 : text[i] # CR
        /\ line = SubSeq(text, 1, e - 1)

(* All lines are read;                                                     *)
Decoded == phase \in {"title", "done"}

(* at least the title is.                                                  *)
Titled == Decoded \/ (phase = "decode" /\ offset # 0)

(* The title is the first line.                                            *)
TitleInv == Titled => FirstLine(buf, title)

(* k attributes are read, and the offset is where the next line begins.    *)
AtLine(k) ==
    /\ offset \in 2 .. Len(buf) - 1
    /\ buf[offset - 1] = CR /\ buf[offset] = LF
    /\ Ends(offset - 1) = k + 1
    /\ \A i \in 1 .. k : IsAttribute(attributes[i], Line(i))

(* In a header that is well formed the decoder goes from line to line, and *)
(* reads of each what the grammar says.                                    *)
LinesInv ==
    WellFormed =>
        /\ phase = "decode" => \/ offset = 0 /\ attributes = <<>>
                               \/ AtLine(Len(attributes))
        /\ Decoded => /\ Len(attributes) = Ends(Len(buf)) - 2
                      /\ \A i \in 1 .. Len(attributes) : IsAttribute(attributes[i], Line(i))

(* The title is taken apart as it was put together.                        *)
PartsInv == phase = "done" => TitleAsGrammar

(* k attributes are read and are what was sent,                            *)
Same(k) ==
    /\ k <= Len(msg.attributes)
    /\ \A i \in 1 .. k : /\ Sendable(msg.attributes[i])
                         /\ attributes[i] = msg.attributes[i]

(* one is not: it was read as another one, or never.                       *)
Lost(i) ==
    /\ ~Sendable(msg.attributes[i])
    /\ \/ i <= Len(attributes) /\ attributes[i] # msg.attributes[i]
       \/ Decoded /\ i > Len(attributes)

(* As long as no attribute is lost the decoder stands where the encoder    *)
(* wrote the next line, and it ends when all of them are read.             *)
TripInv ==
    phase # "encode" /\ msg # NoMessage /\ ~Has(msg.title, CR) =>
        \/ \E i \in DOMAIN msg.attributes : Lost(i)
        \/ /\ Same(Len(attributes))
           /\ phase = "decode" => \/ offset = 0 /\ attributes = <<>>
                                  \/ offset = Start(msg, Len(attributes))
           /\ Decoded => Len(attributes) = Len(msg.attributes)

-----------------------------------------------------------------------------
(* Writing.                                                                *)

(* The separators are different bytes.                                     *)
LEMMA Codes ==
  /\ CR \in 0 .. 255 /\ LF \in 0 .. 255 /\ Space \in 0 .. 255
  /\ Colon \in 0 .. 255 /\ Question \in 0 .. 255 /\ Dash \in 0 .. 255
  /\ CR \in Nat /\ LF \in Nat /\ Space \in Nat /\ Colon \in Nat /\ Question \in Nat
  /\ CR # LF /\ CR # Space /\ CR # Colon /\ LF # Space /\ Space # Colon
  /\ Space # Question
BY DEF CR, LF, Space, Colon, Question, Dash

(* c is s and t, of so many bytes, one after the other.                    *)
Joins(c, s, t, m, n) ==
    /\ c \in Strings /\ Len(c) = m + n
    /\ \A i \in 1 .. m : c[i] = s[i]
    /\ \A i \in 1 .. n : c[m + i] = t[i]

(* Two texts can be joined,                                                *)
LEMMA Joined ==
  \A s, t \in Strings : \A m, n \in Nat :
     m = Len(s) /\ n = Len(t) => Joins(s \o t, s, t, m, n)
<1> SUFFICES ASSUME NEW s \in Strings, NEW t \in Strings, NEW m \in Nat,
                    NEW n \in Nat, m = Len(s), n = Len(t)
             PROVE  Joins(s \o t, s, t, m, n)
  OBVIOUS
<1>1. s \in Seq(0 .. 255) /\ t \in Seq(0 .. 255) BY DEF Strings
<1>2. /\ s \o t \in Seq(0 .. 255) /\ Len(s \o t) = m + n
      /\ \A i \in 1 .. m + n : (s \o t)[i] = IF i <= m THEN s[i] ELSE t[i - m]
  BY <1>1, ConcatProperties
<1>3. ASSUME NEW i \in 1 .. m PROVE (s \o t)[i] = s[i] BY <1>2
<1>4. ASSUME NEW i \in 1 .. n PROVE (s \o t)[m + i] = t[i]
  <2>1. PICK k \in 1 .. m + n : k = m + i OBVIOUS
  <2>2. ~(k <= m) /\ k - m = i BY <2>1
  <2> QED BY <1>2, <2>1, <2>2
<1> QED BY <1>2, <1>3, <1>4 DEF Strings, Joins

(* and the line end is a text of two bytes.                                *)
LEMMA Pair ==
  \A x, y \in 0 .. 255 : /\ <<x, y>> \in Strings /\ Len(<<x, y>>) = 2
                         /\ <<x, y>>[1] = x /\ <<x, y>>[2] = y
BY DEF Strings

(* The second text begins as the first one does.                           *)
Extends(text, s) ==
    /\ Len(s) <= Len(text)
    /\ \A i \in 1 .. Len(s) : text[i] = s[i]

(* A line that is added is there, and what was before is as it was.        *)
LEMMA Added ==
  \A b \in Strings, attr \in Attribute :
     LET c == b \o header_key_formalize(attr.name) \o <<Colon, Space>>
                \o attr.value \o Crlf
     IN /\ c \in Strings
        /\ Len(c) = Len(b) + Len(attr.name) + Len(attr.value) + 4
        /\ Extends(c, b)
        /\ Lays(c, Len(b), attr)
<1> SUFFICES ASSUME NEW b \in Strings, NEW attr \in Attribute
             PROVE  LET c == b \o header_key_formalize(attr.name) \o <<Colon, Space>>
                               \o attr.value \o Crlf
                    IN /\ c \in Strings
                       /\ Len(c) = Len(b) + Len(attr.name) + Len(attr.value) + 4
                       /\ Extends(c, b)
                       /\ Lays(c, Len(b), attr)
  OBVIOUS
<1>1. PICK F, V, P \in Strings :
         /\ F = header_key_formalize(attr.name) /\ V = attr.value
         /\ P = <<Colon, Space>>
  BY Codes, Pair, FormalType DEF Attribute
<1>2. PICK s, n, v \in Nat :
         s = Len(b) /\ n = Len(attr.name) /\ v = Len(attr.value)
  BY TextIs DEF Attribute
<1>3. Len(F) = n /\ Len(V) = v BY <1>1, <1>2, FormalType DEF Attribute
<1>4. /\ Len(P) = 2 /\ P[1] = Colon /\ P[2] = Space
      /\ Crlf \in Strings /\ Len(Crlf) = 2 /\ Crlf[1] = CR /\ Crlf[2] = LF
  BY <1>1, Codes, Pair DEF Crlf
<1>5. PICK b1 \in Strings : b1 = b \o F /\ Joins(b1, b, F, s, n)
  <2>1. Joins(b \o F, b, F, s, n) BY <1>2, <1>3, Joined
  <2> QED BY <2>1 DEF Joins
<1>6. PICK b2 \in Strings : b2 = b1 \o P /\ Joins(b2, b1, P, s + n, 2)
  <2>1. s + n \in Nat /\ s + n = Len(b1) /\ 2 \in Nat BY <1>5 DEF Joins
  <2>2. Joins(b1 \o P, b1, P, s + n, 2) BY <1>4, <2>1, Joined
  <2> QED BY <2>2 DEF Joins
<1>7. PICK b3 \in Strings : b3 = b2 \o V /\ Joins(b3, b2, V, s + n + 2, v)
  <2>1. s + n + 2 \in Nat /\ s + n + 2 = Len(b2) BY <1>6 DEF Joins
  <2>2. Joins(b2 \o V, b2, V, s + n + 2, v) BY <1>3, <2>1, Joined
  <2> QED BY <2>2 DEF Joins
<1>8. PICK c \in Strings :
         c = b3 \o Crlf /\ Joins(c, b3, Crlf, s + n + 2 + v, 2)
  <2>1. s + n + 2 + v \in Nat /\ s + n + 2 + v = Len(b3) /\ 2 \in Nat
    BY <1>7 DEF Joins
  <2>2. Joins(b3 \o Crlf, b3, Crlf, s + n + 2 + v, 2) BY <1>4, <2>1, Joined
  <2> QED BY <2>2 DEF Joins
<1>9. ASSUME NEW i \in 1 .. s PROVE c[i] = b[i]
  <2>1. i \in 1 .. s + n /\ i \in 1 .. s + n + 2 /\ i \in 1 .. s + n + 2 + v OBVIOUS
  <2> QED BY <1>5, <1>6, <1>7, <1>8, <2>1 DEF Joins
<1>10. ASSUME NEW i \in 1 .. n PROVE c[s + i] = F[i]
  <2>1. PICK k \in Nat : k = s + i OBVIOUS
  <2>2. k \in 1 .. s + n /\ k \in 1 .. s + n + 2 /\ k \in 1 .. s + n + 2 + v
    BY <2>1
  <2>3. b1[k] = F[i] BY <1>5, <2>1 DEF Joins
  <2> QED BY <1>6, <1>7, <1>8, <2>1, <2>2, <2>3 DEF Joins
<1>11. c[s + n + 1] = Colon /\ c[s + n + 2] = Space
  <2>1. PICK x, y \in 1 .. 2 : x = 1 /\ y = 2 OBVIOUS
  <2>2. b2[s + n + 1] = Colon /\ b2[s + n + 2] = Space
    BY <1>4, <1>6, <2>1 DEF Joins
  <2>3. PICK k, l \in 1 .. s + n + 2 : k = s + n + 1 /\ l = s + n + 2 OBVIOUS
  <2>4. k \in 1 .. s + n + 2 + v /\ l \in 1 .. s + n + 2 + v OBVIOUS
  <2> QED BY <1>7, <1>8, <2>2, <2>3, <2>4 DEF Joins
<1>12. ASSUME NEW i \in 1 .. v PROVE c[s + n + 2 + i] = V[i]
  <2>1. PICK k \in 1 .. s + n + 2 + v : k = s + n + 2 + i OBVIOUS
  <2> QED BY <1>7, <1>8, <2>1 DEF Joins
<1>13. PICK L \in Nat : L = Len(c) /\ L = s + n + v + 4
  <2>1. Len(c) = s + n + 2 + v + 2 BY <1>8 DEF Joins
  <2>2. s + n + 2 + v + 2 = s + n + v + 4 OBVIOUS
  <2> QED BY <2>1, <2>2
<1>14. c[s + n + v + 3] = CR /\ c[s + n + v + 4] = LF
  <2>1. PICK x, y \in 1 .. 2 : x = 1 /\ y = 2 OBVIOUS
  <2>2. c[s + n + 2 + v + 1] = CR /\ c[s + n + 2 + v + 2] = LF
    BY <1>4, <1>8, <2>1 DEF Joins
  <2>3. s + n + 2 + v + 1 = s + n + v + 3 /\ s + n + 2 + v + 2 = s + n + v + 4
    OBVIOUS
  <2> QED BY <2>2, <2>3
<1>15. Lays(c, s, attr)
  <2>1. s + n + v + 4 <= Len(c) BY <1>13
  <2> QED BY <1>1, <1>2, <1>10, <1>11, <1>12, <1>14, <2>1 DEF Lays
<1>16. Extends(c, b)
  <2>1. s <= L BY <1>13
  <2> QED BY <1>2, <1>9, <1>13, <2>1 DEF Extends
<1>17. c = b \o header_key_formalize(attr.name) \o <<Colon, Space>>
             \o attr.value \o Crlf
  BY <1>1, <1>5, <1>6, <1>7, <1>8, Zenon
<1> QED BY <1>2, <1>13, <1>15, <1>16, <1>17

(* A line stays where it is when a text is added to.                       *)
LEMMA LaysOn ==
  ASSUME NEW b \in Strings, NEW c \in Strings, Extends(c, b),
         NEW s \in Nat, NEW attr \in Attribute, Lays(b, s, attr)
  PROVE  Lays(c, s, attr)
<1>1. PICK n, v, L, M \in Nat : /\ n = Len(attr.name) /\ v = Len(attr.value)
                                /\ L = Len(b) /\ M = Len(c)
  BY TextIs DEF Attribute
<1>2. L <= M /\ \A i \in 1 .. L : c[i] = b[i] BY <1>1 DEF Extends
<1>3. /\ s + n + v + 4 <= L
      /\ \A i \in 1 .. n : b[s + i] = header_key_formalize(attr.name)[i]
      /\ b[s + n + 1] = Colon /\ b[s + n + 2] = Space
      /\ \A i \in 1 .. v : b[s + n + 2 + i] = attr.value[i]
      /\ b[s + n + v + 3] = CR /\ b[s + n + v + 4] = LF
  BY <1>1 DEF Lays
<1>4. ASSUME NEW i \in 1 .. n PROVE c[s + i] = header_key_formalize(attr.name)[i]
  <2>1. s + i \in 1 .. L BY <1>3
  <2> QED BY <1>2, <1>3, <2>1
<1>5. ASSUME NEW i \in 1 .. v PROVE c[s + n + 2 + i] = attr.value[i]
  <2>1. s + n + 2 + i \in 1 .. L BY <1>3
  <2> QED BY <1>2, <1>3, <2>1
<1>6. /\ s + n + 1 \in 1 .. L /\ s + n + 2 \in 1 .. L
      /\ s + n + v + 3 \in 1 .. L /\ s + n + v + 4 \in 1 .. L
  BY <1>3
<1>7. /\ c[s + n + 1] = Colon /\ c[s + n + 2] = Space
      /\ c[s + n + v + 3] = CR /\ c[s + n + v + 4] = LF
  BY <1>2, <1>3, <1>6
<1>8. s + n + v + 4 <= M BY <1>2, <1>3
<1> QED BY <1>1, <1>4, <1>5, <1>7, <1>8 DEF Lays

(* So does all that was written.                                           *)
LEMMA WrittenOn ==
  ASSUME NEW m \in Messages, NEW j \in 0 .. Len(m.attributes),
         NEW b \in Strings, NEW c \in Strings, Extends(c, b), Written(b, m, j)
  PROVE  Written(c, m, j)
<1>1. PICK t, L, M \in Nat : t = Len(m.title) /\ L = Len(b) /\ M = Len(c)
  BY MessageIs, TextIs
<1>2. L <= M /\ \A i \in 1 .. L : c[i] = b[i] BY <1>1 DEF Extends
<1>3. t + 2 <= L BY <1>1, Starts DEF Written
<1>4. /\ \A i \in 1 .. t : b[i] = m.title[i]
      /\ b[t + 1] = CR /\ b[t + 2] = LF
  BY <1>1 DEF Written
<1>5. /\ \A i \in 1 .. t : c[i] = m.title[i]
      /\ c[t + 1] = CR /\ c[t + 2] = LF
  <2>1. t + 1 \in 1 .. L /\ t + 2 \in 1 .. L /\ \A i \in 1 .. t : i \in 1 .. L
    BY <1>3
  <2> QED BY <1>2, <1>4, <2>1
<1>6. ASSUME NEW k \in 1 .. j PROVE Lays(c, Start(m, k - 1), m.attributes[k])
  <2>1. /\ k \in 1 .. Len(m.attributes) /\ k - 1 \in 0 .. Len(m.attributes)
    BY MessageIs
  <2>2. m.attributes[k] \in Attribute /\ Start(m, k - 1) \in Nat
    BY <2>1, MessageIs, Starts
  <2>3. Lays(b, Start(m, k - 1), m.attributes[k]) BY DEF Written
  <2> QED BY <2>2, <2>3, LaysOn
<1>7. Start(m, 0) <= Len(c)
  <2>1. Start(m, 0) = t + 2 BY <1>1, Starts
  <2> QED BY <1>1, <1>2, <1>3, <2>1
<1> QED BY <1>1, <1>5, <1>6, <1>7 DEF Written

-----------------------------------------------------------------------------
(* Counting line ends.                                                     *)

(* There are finitely many in a text.                                      *)
LEMMA EndsType == \A n \in Nat : Ends(n) \in Nat
<1> SUFFICES ASSUME NEW n \in Nat PROVE Ends(n) \in Nat OBVIOUS
<1>1. IsFiniteSet(1 .. n) BY FS_Interval
<1>2. {i \in 1 .. n : buf[i] = CR} \subseteq 1 .. n OBVIOUS
<1>3. IsFiniteSet({i \in 1 .. n : buf[i] = CR}) BY <1>1, <1>2, FS_Subset
<1> QED BY <1>3, FS_CardinalityType DEF Ends

(* There are no more of them where no more come,                           *)
LEMMA EndsNone ==
  \A n, m \in Nat :
     n <= m /\ (\A i \in n + 1 .. m : buf[i] # CR) => Ends(m) = Ends(n)
<1> SUFFICES ASSUME NEW n \in Nat, NEW m \in Nat, n <= m,
                    \A i \in n + 1 .. m : buf[i] # CR
             PROVE  Ends(m) = Ends(n)
  OBVIOUS
<1>1. {i \in 1 .. n : buf[i] = CR} = {i \in 1 .. m : buf[i] = CR} OBVIOUS
<1> QED BY <1>1 DEF Ends

(* one more behind the next one,                                           *)
LEMMA EndsOne ==
  \A n, m \in Nat :
     n < m /\ buf[m] = CR /\ (\A i \in n + 1 .. m - 1 : buf[i] # CR)
        => Ends(m) = Ends(n) + 1
<1> SUFFICES ASSUME NEW n \in Nat, NEW m \in Nat, n < m, buf[m] = CR,
                    \A i \in n + 1 .. m - 1 : buf[i] # CR
             PROVE  Ends(m) = Ends(n) + 1
  OBVIOUS
<1> DEFINE S == {i \in 1 .. n : buf[i] = CR}
<1>1. IsFiniteSet(S)
  <2>1. IsFiniteSet(1 .. n) BY FS_Interval
  <2>2. S \subseteq 1 .. n OBVIOUS
  <2> QED BY <2>1, <2>2, FS_Subset
<1>2. {i \in 1 .. m : buf[i] = CR} = S \cup {m} /\ m \notin S OBVIOUS
<1> HIDE DEF S
<1>3. Cardinality(S \cup {m}) = Cardinality(S) + 1
  BY <1>1, <1>2, FS_AddElement
<1> QED BY <1>2, <1>3 DEF Ends, S

(* and more behind every other one.                                        *)
LEMMA EndsMore ==
  \A n, m \in Nat : n < m /\ buf[m] = CR => Ends(n) < Ends(m)
<1> SUFFICES ASSUME NEW n \in Nat, NEW m \in Nat, n < m, buf[m] = CR
             PROVE  Ends(n) < Ends(m)
  OBVIOUS
<1> DEFINE S == {i \in 1 .. n : buf[i] = CR}
           T == {i \in 1 .. m : buf[i] = CR}
<1>1. IsFiniteSet(T)
  <2>1. IsFiniteSet(1 .. m) BY FS_Interval
  <2>2. T \subseteq 1 .. m OBVIOUS
  <2> QED BY <2>1, <2>2, FS_Subset
<1>2. S \in SUBSET T /\ m \in T /\ m \notin S OBVIOUS
<1>3. Ends(n) = Cardinality(S) /\ Ends(m) = Cardinality(T) BY DEF Ends
<1> HIDE DEF S, T
<1>4. Cardinality(S) <= Cardinality(T)
      /\ (Cardinality(S) = Cardinality(T) => S = T)
  BY <1>1, <1>2, FS_Subset
<1>5. S # T BY <1>2
<1>6. Ends(n) \in Nat /\ Ends(m) \in Nat BY EndsType
<1> QED BY <1>3, <1>4, <1>5, <1>6

(* There are no fewer in a longer piece.                                   *)
LEMMA EndsMonotone ==
  \A n, m \in Nat : n <= m => Ends(n) <= Ends(m)
<1> SUFFICES ASSUME NEW n \in Nat, NEW m \in Nat, n <= m
             PROVE  Ends(n) <= Ends(m)
  OBVIOUS
<1> DEFINE S == {i \in 1 .. n : buf[i] = CR}
           T == {i \in 1 .. m : buf[i] = CR}
<1>1. IsFiniteSet(T)
  <2>1. IsFiniteSet(1 .. m) BY FS_Interval
  <2>2. T \subseteq 1 .. m OBVIOUS
  <2> QED BY <2>1, <2>2, FS_Subset
<1>2. S \in SUBSET T OBVIOUS
<1>3. Ends(n) = Cardinality(S) /\ Ends(m) = Cardinality(T) BY DEF Ends
<1> HIDE DEF S, T
<1> QED BY <1>1, <1>2, <1>3, FS_Subset

(* The end of a line is the one that has as many before and with it.       *)
LEMMA LineEndIs ==
  ASSUME buf \in Strings, NEW e \in 1 .. Len(buf), buf[e] = CR
  PROVE  LineEnd(Ends(e)) = e
<1>1. DOMAIN buf = 1 .. Len(buf) /\ Len(buf) \in Nat BY TextIs
<1>2. ASSUME NEW i \in DOMAIN buf, buf[i] = CR, Ends(i) = Ends(e)
      PROVE  i = e
  <2>1. i \in Nat /\ e \in Nat /\ Ends(i) \in Nat BY <1>1, EndsType
  <2>2. ~(i < e) BY <1>2, <2>1, EndsMore
  <2>3. ~(e < i) BY <1>2, <2>1, EndsMore
  <2> QED BY <2>1, <2>2, <2>3
<1>3. e \in DOMAIN buf BY <1>1
<1> QED BY <1>2, <1>3 DEF LineEnd

-----------------------------------------------------------------------------
(* The encoder's steps.                                                    *)

(* The whole invariant.                                                    *)
Inv == /\ TypeInv /\ EncodeInv /\ TextInv
       /\ TitleInv /\ LinesInv /\ PartsInv /\ TripInv

(* While a text is written there is nothing to say of what is read of it.  *)
Unread == TextInv /\ TitleInv /\ LinesInv /\ PartsInv /\ TripInv

LEMMA Encoding == phase = "encode" => Unread
BY DEF Unread, TextInv, TitleInv, LinesInv, PartsInv, TripInv, Titled, Decoded

(* The title's line at the beginning of the buffer.                        *)
LEMMA Headed ==
  \A t \in Strings : \A n \in Nat :
     n = Len(t) => /\ t \o Crlf \in Strings /\ Len(t \o Crlf) = n + 2
                   /\ Extends(t \o Crlf, t)
                   /\ (t \o Crlf)[n + 1] = CR /\ (t \o Crlf)[n + 2] = LF
<1> SUFFICES ASSUME NEW t \in Strings, NEW n \in Nat, n = Len(t)
             PROVE  /\ t \o Crlf \in Strings /\ Len(t \o Crlf) = n + 2
                    /\ Extends(t \o Crlf, t)
                    /\ (t \o Crlf)[n + 1] = CR /\ (t \o Crlf)[n + 2] = LF
  OBVIOUS
<1>1. Crlf \in Strings /\ Len(Crlf) = 2 /\ Crlf[1] = CR /\ Crlf[2] = LF
  BY Codes, Pair DEF Crlf
<1>2. PICK c : c = t \o Crlf OBVIOUS
<1>3. Joins(c, t, Crlf, n, 2) BY <1>1, <1>2, Joined
<1>4. PICK x, y \in 1 .. 2 : x = 1 /\ y = 2 OBVIOUS
<1>5. c[n + 1] = CR /\ c[n + 2] = LF BY <1>1, <1>3, <1>4 DEF Joins
<1>6. c \in Strings /\ Len(c) = n + 2 /\ \A i \in 1 .. n : c[i] = t[i]
  BY <1>3 DEF Joins
<1>7. Extends(c, t) BY <1>6 DEF Extends
<1> QED BY <1>2, <1>5, <1>6, <1>7

(* EncodeTitle writes the first line,                                      *)
LEMMA WritesTitle ==
  ASSUME Inv, EncodeTitle
  PROVE  Inv'
<1>1. /\ phase = "encode" /\ msg \in Messages /\ offset = 0
      /\ title \in Strings
  BY DEF Inv, TypeInv, EncodeInv, EncodeTitle
<1>2. /\ phase' = "encode" /\ msg' = msg /\ offset' = 0 /\ title' = title
      /\ size' = SizeOf(msg) /\ buf' = msg.title \o Crlf
      /\ attributes' = msg.attributes
  BY <1>1 DEF EncodeTitle
<1>3. PICK t, N \in Nat : t = Len(msg.title) /\ N = Len(msg.attributes)
  BY <1>1, MessageIs, TextIs
<1>4. PICK c : c = msg.title \o Crlf OBVIOUS
<1>5. /\ c \in Strings /\ Len(c) = t + 2 /\ Extends(c, msg.title)
      /\ c[t + 1] = CR /\ c[t + 2] = LF
  BY <1>1, <1>3, <1>4, Headed, MessageIs
<1>6. Written(c, msg, 0)
  <2>1. Start(msg, 0) <= Len(c) BY <1>1, <1>3, <1>5, Starts
  <2>2. \A i \in 1 .. t : c[i] = msg.title[i] BY <1>3, <1>5 DEF Extends
  <2> QED BY <1>3, <1>5, <2>1, <2>2 DEF Written
<1>7. Writing(0)'
  <2>1. Len(attributes') = Len(msg.attributes) - 0 BY <1>2, <1>3
  <2>2. \A i \in DOMAIN attributes' : attributes'[i] = msg.attributes[0 + i]
    <3>1. DOMAIN msg.attributes = 1 .. N BY <1>1, <1>3, MessageIs
    <3> QED BY <1>2, <3>1
  <2>3. Len(c) = Start(msg, 0) BY <1>1, <1>3, <1>5, Starts
  <2> QED BY <1>2, <1>4, <1>6, <2>1, <2>2, <2>3 DEF Writing
<1>8. TypeInv'
  <2>1. msg.attributes \in Seq(Attribute) BY <1>1, MessageIs
  <2> QED BY <1>1, <1>2, <1>4, <1>5, <2>1 DEF TypeInv, Phases
<1>9. EncodeInv'
  <2>1. 0 \in 0 .. Len(msg.attributes) BY <1>3
  <2>2. \E j \in 0 .. Len(msg'.attributes) : Writing(j)' BY <1>2, <1>7, <2>1
  <2> QED BY <1>1, <1>2, <2>2 DEF EncodeInv
<1>10. (phase = "encode" => Unread)' BY Encoding, PTL
<1> QED BY <1>2, <1>8, <1>9, <1>10 DEF Inv, Unread

(* EncodeAttribute one line more where the counted size expects it,        *)
LEMMA WritesAttribute ==
  ASSUME Inv, EncodeAttribute
  PROVE  Inv'
<1>1. /\ phase = "encode" /\ msg \in Messages /\ offset = 0
      /\ title \in Strings /\ buf \in Strings /\ attributes \in Seq(Attribute)
      /\ size = SizeOf(msg) /\ attributes # <<>> /\ buf # <<>>
  BY DEF Inv, TypeInv, EncodeInv, EncodeAttribute
<1>2. PICK j \in 0 .. Len(msg.attributes) : Writing(j)
  BY <1>1 DEF Inv, EncodeInv
<1>3. PICK N, R \in Nat : N = Len(msg.attributes) /\ R = Len(attributes)
  BY <1>1, MessageIs
<1>4. R = N - j /\ R >= 1 /\ DOMAIN attributes = 1 .. R /\ j + 1 \in 1 .. N
  BY <1>1, <1>2, <1>3 DEF Writing
<1>5. PICK attr \in Attribute : attr = Head(attributes)
                                /\ attr = msg.attributes[j + 1]
  <2>1. 1 \in DOMAIN attributes BY <1>4
  <2>2. attributes[1] = msg.attributes[j + 1] BY <1>2, <2>1 DEF Writing
  <2>3. attributes[1] \in Attribute BY <1>1, <2>1
  <2> QED BY <1>1, <2>2, <2>3
<1>6. PICK c : c = buf \o header_key_formalize(attr.name) \o <<Colon, Space>>
                       \o attr.value \o Crlf
  OBVIOUS
<1>7. /\ c \in Strings
      /\ Len(c) = Len(buf) + Len(attr.name) + Len(attr.value) + 4
      /\ Extends(c, buf) /\ Lays(c, Len(buf), attr)
  BY <1>1, <1>6, Added
<1>8. /\ phase' = "encode" /\ msg' = msg /\ offset' = 0 /\ title' = title
      /\ size' = size /\ buf' = c /\ attributes' = Tail(attributes)
  BY <1>1, <1>5, <1>6 DEF EncodeAttribute
<1>9. /\ Tail(attributes) \in Seq(Attribute) /\ Len(Tail(attributes)) = R - 1
      /\ DOMAIN Tail(attributes) = 1 .. R - 1
      /\ \A i \in 1 .. R - 1 : Tail(attributes)[i] = attributes[i + 1]
  BY <1>1, <1>3, HeadTailProperties
<1>10. Len(buf) = Start(msg, j) BY <1>2 DEF Writing
<1>11. Written(c, msg, j + 1)
  <2>1. Written(buf, msg, j) BY <1>2 DEF Writing
  <2>2. Written(c, msg, j) BY <1>1, <1>7, <2>1, WrittenOn
  <2>3. Lays(c, Start(msg, j), msg.attributes[j + 1]) BY <1>5, <1>7, <1>10
  <2>4. ASSUME NEW k \in 1 .. j + 1
        PROVE  Lays(c, Start(msg, k - 1), msg.attributes[k])
    <3>1. CASE k = j + 1
      <4>1. k - 1 = j BY <3>1
      <4> QED BY <2>3, <3>1, <4>1
    <3>2. CASE k # j + 1
      <4>1. k \in 1 .. j BY <3>2
      <4> QED BY <2>2, <4>1 DEF Written
    <3> QED BY <3>1, <3>2
  <2> QED BY <2>2, <2>4 DEF Written
<1>12. Len(c) = Start(msg, j + 1)
  <2>1. (j + 1) - 1 = j OBVIOUS
  <2>2. Start(msg, j + 1) = Start(msg, j) + Len(attr.name) + Len(attr.value) + 4
    BY <1>1, <1>3, <1>4, <1>5, <2>1, Starts
  <2> QED BY <1>7, <1>10, <2>2
<1>13. Writing(j + 1)'
  <2>1. Len(attributes') = Len(msg'.attributes) - (j + 1)
    BY <1>3, <1>4, <1>8, <1>9
  <2>2. \A i \in DOMAIN attributes' : attributes'[i] = msg'.attributes[(j + 1) + i]
    <3>1. SUFFICES ASSUME NEW i \in 1 .. R - 1
                   PROVE  Tail(attributes)[i] = msg.attributes[(j + 1) + i]
      BY <1>8, <1>9
    <3>2. i + 1 \in DOMAIN attributes /\ j + (i + 1) = (j + 1) + i BY <1>4
    <3>3. attributes[i + 1] = msg.attributes[j + (i + 1)]
      BY <1>2, <3>2 DEF Writing
    <3> QED BY <1>9, <3>2, <3>3
  <2> QED BY <1>8, <1>11, <1>12, <2>1, <2>2 DEF Writing
<1>14. TypeInv'
  BY <1>1, <1>7, <1>8, <1>9 DEF TypeInv, Phases
<1>15. EncodeInv'
  <2>1. j + 1 \in 0 .. Len(msg'.attributes) BY <1>3, <1>4, <1>8
  <2>2. \E i \in 0 .. Len(msg'.attributes) : Writing(i)' BY <1>13, <2>1
  <2> QED BY <1>1, <1>8, <2>2 DEF EncodeInv
<1>16. (phase = "encode" => Unread)' BY Encoding, PTL
<1> QED BY <1>8, <1>14, <1>15, <1>16 DEF Inv, Unread

(* A text that ends with two line ends.                                    *)
LEMMA ClosedBy ==
  ASSUME NEW t \in Strings, NEW n \in Nat, n = Len(t), n + 2 < Wrap, n >= 2,
         t[n - 1] = CR, t[n] = LF
  PROVE  t \o Crlf \in Strings /\ Closed(t \o Crlf)
<1>1. PICK c : c = t \o Crlf OBVIOUS
<1>2. /\ c \in Strings /\ Len(c) = n + 2 /\ Extends(c, t)
      /\ c[n + 1] = CR /\ c[n + 2] = LF
  BY <1>1, Headed
<1>3. PICK k, l \in 1 .. n : k = n - 1 /\ l = n OBVIOUS
<1>4. c[n - 1] = CR /\ c[n] = LF
  BY <1>2, <1>3 DEF Extends
<1>5. Closed(c)
  <2>1. PICK L \in Nat : L = Len(c) /\ L = n + 2 BY <1>2
  <2>2. L \in 4 .. Wrap - 1 BY <2>1, WrapAssumption
  <2>3. L - 3 = n - 1 /\ L - 2 = n /\ L - 1 = n + 1 BY <2>1
  <2> QED BY <1>2, <1>4, <2>1, <2>2, <2>3 DEF Closed
<1> QED BY <1>1, <1>2, <1>5

(* A header from the wire is closed; a message has no text yet.            *)
LEMMA InitInv ==
  ASSUME Init
  PROVE  Inv
<1>1. offset = 0 /\ title = <<>> /\ attributes = <<>> BY DEF Init
<1>2. <<>> \in Strings /\ <<>> \in Seq(Attribute) BY DEF Strings
<1>3. CASE msg \in Messages /\ phase = "encode" /\ buf = <<>>
  <2>1. Unread BY <1>3, Encoding
  <2>2. TypeInv BY <1>1, <1>2, <1>3 DEF TypeInv, Phases
  <2>3. EncodeInv BY <1>1, <1>3 DEF EncodeInv
  <2> QED BY <2>1, <2>2, <2>3 DEF Inv, Unread
<1>4. CASE msg = NoMessage /\ phase = "decode" /\ buf \in FromWire
  <2>1. PICK h \in Headers : buf = h \o Crlf \o Crlf BY <1>4 DEF FromWire
  <2>2. PICK n \in Nat : h \in Strings /\ n = Len(h) /\ n + 4 < Wrap
    BY HeadersAssumption, TextIs
  <2>3. PICK b : b = h \o Crlf OBVIOUS
  <2>4. /\ b \in Strings /\ Len(b) = n + 2
        /\ b[n + 1] = CR /\ b[n + 2] = LF
    BY <2>2, <2>3, Headed
  <2>5. PICK k \in Nat : k = n + 2 /\ k - 1 = n + 1 OBVIOUS
  <2>6. k = Len(b) /\ k + 2 < Wrap /\ k >= 2 /\ b[k - 1] = CR /\ b[k] = LF
    BY <2>2, <2>4, <2>5
  <2>7. buf \in Strings /\ Closed(buf) BY <2>1, <2>3, <2>4, <2>6, ClosedBy
  <2>8. TypeInv BY <1>1, <1>2, <1>4, <2>7 DEF TypeInv, Phases
  <2>9. TextInv BY <1>4, <2>7 DEF TextInv
  <2>10. TitleInv BY <1>1, <1>4 DEF TitleInv, Titled, Decoded
  <2>11. LinesInv BY <1>1, <1>4 DEF LinesInv, Decoded
  <2>12. PartsInv /\ EncodeInv /\ TripInv
    BY <1>4 DEF PartsInv, EncodeInv, TripInv
  <2> QED BY <2>8, <2>9, <2>10, <2>11, <2>12 DEF Inv
<1> QED BY <1>3, <1>4 DEF Init

(* and EncodeEnd closes the text, which is then as long as was counted.    *)
LEMMA EndsText ==
  ASSUME Inv, EncodeEnd
  PROVE  Inv'
<1>1. /\ phase = "encode" /\ msg \in Messages /\ offset = 0
      /\ title \in Strings /\ buf \in Strings
      /\ attributes = <<>> /\ size = SizeOf(msg) /\ buf # <<>>
  BY DEF Inv, TypeInv, EncodeInv, EncodeEnd
<1>2. /\ phase' = "decode" /\ msg' = msg /\ size' = size /\ offset' = 0
      /\ title' = title /\ attributes' = <<>> /\ buf' = buf \o Crlf
  BY <1>1 DEF EncodeEnd
<1>3. PICK N \in Nat : N = Len(msg.attributes) BY <1>1, MessageIs
<1>4. Len(buf) = Start(msg, N) /\ Written(buf, msg, N)
  <2>1. PICK j \in 0 .. N : Writing(j) BY <1>1, <1>3 DEF Inv, EncodeInv
  <2>2. Len(attributes) = 0 BY <1>1
  <2>3. j = N BY <1>3, <2>1, <2>2 DEF Writing
  <2> QED BY <2>1, <2>3 DEF Writing
<1>5. PICK n \in Nat : n = Len(buf) /\ n >= 2 /\ SizeOf(msg) = n + 2
                       /\ n + 2 < Wrap
  BY <1>1, <1>3, <1>4, Starts, MessageIs
<1>6. buf[n - 1] = CR /\ buf[n] = LF
  <2>1. CASE N = 0
    <3>1. PICK t \in Nat : t = Len(msg.title) BY <1>1, MessageIs, TextIs
    <3>2. n = t + 2 BY <1>1, <1>4, <1>5, <2>1, <3>1, Starts
    <3>3. t + 1 = n - 1 BY <3>2
    <3> QED BY <1>4, <3>1, <3>2, <3>3 DEF Written
  <2>2. CASE N # 0
    <3>1. N \in 1 .. N /\ N - 1 \in 0 .. N BY <2>2
    <3>2. PICK s, a, v \in Nat : /\ s = Start(msg, N - 1)
                                 /\ a = Len(msg.attributes[N].name)
                                 /\ v = Len(msg.attributes[N].value)
      BY <1>1, <1>3, <3>1, Starts, MessageIs, TextIs
    <3>3. n = s + a + v + 4
      BY <1>1, <1>3, <1>4, <1>5, <3>1, <3>2, Starts
    <3>4. n - 1 = s + a + v + 3 BY <3>3
    <3>5. Lays(buf, s, msg.attributes[N]) BY <1>4, <3>1, <3>2 DEF Written
    <3> QED BY <3>2, <3>3, <3>4, <3>5 DEF Lays
  <2> QED BY <2>1, <2>2
<1>7. buf' \in Strings /\ Closed(buf')
  BY <1>1, <1>2, <1>5, <1>6, ClosedBy
<1>8. Len(buf') = size /\ Extends(buf', buf) BY <1>1, <1>2, <1>5, Headed
<1>9. Written(buf', msg, N)
  <2>1. N \in 0 .. Len(msg.attributes) BY <1>3
  <2> QED BY <1>1, <1>4, <1>7, <1>8, <2>1, WrittenOn
<1>10. TypeInv' BY <1>1, <1>2, <1>7 DEF TypeInv, Phases
<1>11. EncodeInv' BY <1>2 DEF EncodeInv
<1>12. TextInv' BY <1>1, <1>2, <1>3, <1>7, <1>8, <1>9 DEF TextInv
<1>13. TitleInv' BY <1>2 DEF TitleInv, Titled, Decoded
<1>14. LinesInv' BY <1>2 DEF LinesInv, Decoded
<1>15. PartsInv' BY <1>2 DEF PartsInv
<1>16. TripInv'
  <2>1. Len(attributes') = 0 BY <1>2
  <2>2. Same(Len(attributes))' BY <1>2, <1>3, <2>1 DEF Same
  <2> QED BY <1>2, <2>2 DEF TripInv, Decoded
<1> QED BY <1>10, <1>11, <1>12, <1>13, <1>14, <1>15, <1>16 DEF Inv

-----------------------------------------------------------------------------
(* The decoder's steps.                                                    *)

(* No line has ended before the text begins.                               *)
LEMMA EndsZero == Ends(0) = 0
<1>1. {i \in 1 .. 0 : buf[i] = CR} = {} OBVIOUS
<1> QED BY <1>1, FS_EmptySet DEF Ends

(* Its text and the message are what they were.                            *)
LEMMA SameLines ==
  ASSUME buf' = buf
  PROVE  /\ \A n : Ends(n)' = Ends(n)
         /\ \A k : Line(k)' = Line(k)
         /\ WellFormed' <=> WellFormed
<1>1. \A n : Ends(n)' = Ends(n) BY DEF Ends
<1>2. \A k : LineEnd(k)' = LineEnd(k) BY <1>1 DEF LineEnd
<1>3. \A k : Line(k)' = Line(k) BY <1>2 DEF Line
<1>4. Lines' = Lines BY <1>1 DEF Lines
<1>5. Clean' <=> Clean BY DEF Clean
<1>6. WellFormed' <=> WellFormed BY <1>3, <1>4, <1>5 DEF WellFormed
<1> QED BY <1>1, <1>3, <1>6

(* The decoder does not change its text.                                   *)
LEMMA TextStays ==
  ASSUME TextInv, phase # "encode", UNCHANGED <<msg, size, buf>>
  PROVE  TextInv'
BY DEF TextInv, Closed, Written

(* The blank line its text ends with.                                      *)
LEMMA Ended ==
  ASSUME buf \in Strings, Closed(buf)
  PROVE  \E L \in Nat : /\ L = Len(buf) /\ L >= 4 /\ L < Wrap
                        /\ buf[L - 3] = CR /\ buf[L - 2] = LF
                        /\ buf[L - 1] = CR /\ buf[L] = LF
BY TextIs, WrapAssumption DEF Closed

(* What was lost stays lost while the list is read on.                     *)
ReadsOn ==
    /\ msg' = msg
    /\ Len(attributes) <= Len(attributes')
    /\ \A i \in 1 .. Len(attributes) : attributes'[i] = attributes[i]
    /\ Decoded => Decoded' /\ attributes' = attributes

LEMMA StaysLost ==
  ASSUME msg \in Messages, attributes \in Seq(Attribute),
         attributes' \in Seq(Attribute), ReadsOn,
         \E i \in DOMAIN msg.attributes : Lost(i)
  PROVE  (\E i \in DOMAIN msg.attributes : Lost(i))'
<1>1. PICK i \in DOMAIN msg.attributes : Lost(i) OBVIOUS
<1>2. i \in Nat /\ i >= 1 BY <1>1, MessageIs
<1>3. PICK n, m \in Nat : n = Len(attributes) /\ m = Len(attributes')
  OBVIOUS
<1>4. msg' = msg /\ n <= m BY <1>3 DEF ReadsOn
<1>5. CASE i <= n /\ attributes[i] # msg.attributes[i]
  <2>1. i \in 1 .. n /\ i <= m BY <1>2, <1>4, <1>5
  <2>2. attributes'[i] = attributes[i] BY <1>3, <2>1 DEF ReadsOn
  <2>3. Lost(i)' BY <1>1, <1>3, <1>4, <1>5, <2>1, <2>2 DEF Lost
  <2> QED BY <1>1, <1>4, <2>3
<1>6. CASE Decoded /\ i > n
  <2>1. Decoded' /\ attributes' = attributes BY <1>6 DEF ReadsOn
  <2>2. Lost(i)' BY <1>1, <1>3, <1>4, <1>6, <2>1 DEF Lost
  <2> QED BY <1>1, <1>4, <2>2
<1> QED BY <1>1, <1>3, <1>5, <1>6 DEF Lost

(* DecodeTitle reads the first line and stands behind it.                  *)
LEMMA ReadsTitle ==
  ASSUME Inv, DecodeTitle
  PROVE  Inv'
<1>1. /\ phase = "decode" /\ offset = 0 /\ buf \in Strings /\ Closed(buf)
      /\ attributes \in Seq(Attribute) /\ msg \in Messages \cup {NoMessage}
  BY DEF Inv, TypeInv, TextInv, DecodeTitle
<1>2. PICK L \in Nat : /\ L = Len(buf) /\ L >= 4 /\ L < Wrap
                       /\ buf[L - 3] = CR
  BY <1>1, Ended
<1>3. PICK p \in Nat : p < L - 3 /\ Found(buf, p, 0, CR)
  <2>1. PICK k \in Nat : k = L - 3 BY <1>2
  <2>2. 0 < k /\ k <= Len(buf) /\ buf[k] = CR BY <1>2, <2>1
  <2> QED BY <1>1, <2>1, <2>2, Search, Codes
<1>4. find(buf, CR, 0) = p BY <1>1, <1>3, FindIs, Codes
<1>5. buf[p + 1] = CR /\ \A i \in 1 .. p : buf[i] # CR
  BY <1>3 DEF Found
<1>6. substr(buf, 0, p) = SubSeq(buf, 1, p)
  <2>1. 0 + p <= Len(buf) BY <1>2, <1>3
  <2>2. substr(buf, 0, p) = SubSeq(buf, 0 + 1, 0 + p) BY <1>1, <2>1, SubstrIs
  <2> QED BY <2>2
<1>7. Plus(p, 2) = p + 2
  <2>1. p + 2 < Wrap BY <1>2, <1>3, WrapAssumption
  <2> QED BY <2>1, Positions
<1>8. /\ phase' = "decode" /\ msg' = msg /\ size' = size /\ buf' = buf
      /\ attributes' = attributes
      /\ title' = SubSeq(buf, 1, p) /\ offset' = p + 2
  BY <1>1, <1>4, <1>6, <1>7 DEF DecodeTitle
<1>9. TypeInv'
  <2>1. 1 <= p + 1 /\ p <= Len(buf) BY <1>2, <1>3
  <2>2. SubSeq(buf, 1, p) \in Strings BY <1>1, <2>1, Piece
  <2> QED BY <1>1, <1>8, <2>2 DEF TypeInv, Phases
<1>10. EncodeInv' BY <1>8 DEF EncodeInv
<1>11. TextInv' BY <1>1, <1>8, TextStays DEF Inv
<1>12. TitleInv'
  <2>1. p + 1 \in 1 .. Len(buf) /\ (p + 1) - 1 = p BY <1>2, <1>3
  <2>2. FirstLine(buf, SubSeq(buf, 1, p)) BY <1>5, <2>1 DEF FirstLine
  <2> QED BY <1>8, <2>2 DEF TitleInv
<1>14. LinesInv'
  <2> SUFFICES ASSUME WellFormed PROVE AtLine(Len(attributes))'
    BY <1>8, SameLines DEF LinesInv, Decoded
  <2>1. attributes = <<>>
    <3>1. (offset = 0 /\ attributes = <<>>) \/ AtLine(Len(attributes))
      BY <1>1 DEF Inv, LinesInv
    <3> QED BY <1>1, <1>2, <3>1 DEF AtLine
  <2>2. Ends(p + 1) = 1
    <3>1. 0 < p + 1 /\ \A i \in 0 + 1 .. (p + 1) - 1 : buf[i] # CR BY <1>5
    <3>2. Ends(p + 1) = Ends(0) + 1 BY <1>5, <3>1, EndsOne
    <3> QED BY <3>2, EndsZero
  <2>3. buf[p + 2] = LF
    <3>1. p + 1 \in DOMAIN buf BY <1>1, <1>2, <1>3, TextIs
    <3>2. buf[(p + 1) + 1] = LF BY <1>5, <3>1 DEF WellFormed, Clean
    <3> QED BY <3>2
  <2>4. PICK o \in Nat : o = p + 2 /\ o - 1 = p + 1 OBVIOUS
  <2>5. o \in 2 .. L - 1 BY <1>3, <2>4
  <2>6. Len(attributes') = 0 BY <1>8, <2>1
  <2>7. Ends(o - 1)' = 0 + 1 BY <1>8, <2>2, <2>4, SameLines
  <2>8. buf[o - 1] = CR /\ buf[o] = LF BY <1>5, <2>3, <2>4
  <2>9. offset' = o BY <1>8, <2>4
  <2> QED BY <1>2, <1>8, <2>5, <2>6, <2>7, <2>8, <2>9 DEF AtLine
<1>15. PartsInv' BY <1>8 DEF PartsInv
<1>16. TripInv'
  <2> SUFFICES ASSUME msg # NoMessage, ~Has(msg.title, CR)
               PROVE  \/ (\E i \in DOMAIN msg.attributes : Lost(i))'
                      \/ /\ Same(Len(attributes))'
                         /\ offset' = Start(msg, Len(attributes'))
    BY <1>8 DEF TripInv, Decoded
  <2>1. msg \in Messages /\ Written(buf, msg, Len(msg.attributes))
    BY <1>1 DEF Inv, TextInv
  <2>2. CASE \E i \in DOMAIN msg.attributes : Lost(i)
    <3>1. ReadsOn BY <1>1, <1>8 DEF ReadsOn, Decoded
    <3>2. attributes' \in Seq(Attribute) BY <1>1, <1>8
    <3> QED BY <1>1, <2>1, <2>2, <3>1, <3>2, StaysLost
  <2>3. CASE ~\E i \in DOMAIN msg.attributes : Lost(i)
    <3>1. PICK N, k \in Nat : N = Len(msg.attributes) /\ k = Len(attributes)
      BY <1>1, <2>1, MessageIs
    <3>2. Same(k) /\ (attributes = <<>> \/ offset = Start(msg, k))
      BY <1>1, <2>3, <3>1 DEF Inv, TripInv
    <3>3. attributes = <<>>
      <4>1. k \in 0 .. N BY <3>1, <3>2 DEF Same
      <4>2. Start(msg, k) >= 2 BY <2>1, <3>1, <4>1, Starts
      <4> QED BY <1>1, <3>2, <4>2
    <3>4. PICK t \in Nat : t = Len(msg.title) BY <2>1, MessageIs, TextIs
    <3>5. buf[t + 1] = CR /\ \A i \in 1 .. t : buf[i] # CR
      <4>1. DOMAIN msg.title = 1 .. t BY <2>1, <3>4, MessageIs, TextIs
      <4>2. \A i \in 1 .. t : msg.title[i] # CR BY <4>1 DEF Has
      <4> QED BY <2>1, <3>4, <4>2 DEF Written
    <3>6. p = t
      <4>1. ~(p < t)
        <5>1. SUFFICES ASSUME p < t PROVE FALSE OBVIOUS
        <5>2. p + 1 \in 1 .. t BY <5>1
        <5> QED BY <1>5, <3>5, <5>2
      <4>2. ~(t < p)
        <5>1. SUFFICES ASSUME t < p PROVE FALSE OBVIOUS
        <5>2. t + 1 \in 1 .. p BY <5>1
        <5> QED BY <1>5, <3>5, <5>2
      <4> QED BY <4>1, <4>2
    <3>7. offset' = Start(msg, 0) BY <1>8, <2>1, <3>4, <3>6, Starts
    <3>8. Len(attributes') = 0 BY <1>8, <3>3
    <3>9. Same(Len(attributes))' BY <1>8, <3>1, <3>8 DEF Same
    <3> QED BY <3>7, <3>8, <3>9
  <2> QED BY <2>2, <2>3
<1> QED BY <1>9, <1>10, <1>11, <1>12, <1>14, <1>15, <1>16 DEF Inv

(* How a name's character is spelled: x as it is stored, y as it is        *)
(* written, z as it is read.                                               *)
Formal(name, i) == i = 1 \/ name[i - 1] = Dash

(* The three spellings of one character.                                   *)
Spelled(formal, x, y, z) ==
    /\ formal => y = (x - 32) % 256
    /\ ~formal => y = x
    /\ z = IF y \in 64 .. 90 THEN y + 32 ELSE y
    /\ x \notin 64 .. 90

(* A name that is stored in lower case is what is read of the name that is *)
(* written for it, with the colon where it ought to be, if and only if it  *)
(* can be capitalized and has no colon itself.                             *)
LEMMA NameBack ==
  ASSUME NEW name \in Strings, Lower(name) = name
  PROVE  Lower(header_key_formalize(name)) = name
         /\ ~Has(header_key_formalize(name), Colon)
           <=> Capitalizable(name) /\ ~Has(name, Colon)
<1>1. PICK n \in Nat : n = Len(name) /\ DOMAIN name = 1 .. n BY TextIs
<1>2. PICK F \in Strings : F = header_key_formalize(name) BY FormalType
<1>3. Len(F) = n /\ DOMAIN F = 1 .. n BY <1>1, <1>2, FormalType, TextIs
<1>4. ASSUME NEW i \in 1 .. n
      PROVE  \E x, y, z \in 0 .. 255 :
                /\ x = name[i] /\ y = F[i] /\ z = Lower(F)[i]
                /\ Spelled(Formal(name, i), x, y, z)
  <2>1. PICK x, y, z \in 0 .. 255 : x = name[i] /\ y = F[i] /\ z = Lower(F)[i]
    <3>1. Lower(F) \in Strings /\ Len(Lower(F)) = n BY <1>3, LowerType
    <3> QED BY <1>1, <1>3, <3>1, TextIs
  <2>2. F[i] = IF Formal(name, i) THEN (name[i] - 32) % 256 ELSE name[i]
    BY <1>1, <1>2, FormalType DEF Formal
  <2>3. Lower(F)[i] = IF F[i] \in 64 .. 90 THEN F[i] + 32 ELSE F[i]
    BY <1>3, LowerType
  <2>4. name[i] = IF name[i] \in 64 .. 90 THEN name[i] + 32 ELSE name[i]
    BY <1>1, LowerType
  <2>5. Formal(name, i) => y = (x - 32) % 256 BY <2>1, <2>2
  <2>6. ~Formal(name, i) => y = x BY <2>1, <2>2
  <2>7. z = IF y \in 64 .. 90 THEN y + 32 ELSE y BY <2>1, <2>3
  <2>8. x \notin 64 .. 90
    <3>1. x = IF x \in 64 .. 90 THEN x + 32 ELSE x BY <2>1, <2>4
    <3> QED BY <3>1
  <2>9. Spelled(Formal(name, i), x, y, z)
    BY <2>5, <2>6, <2>7, <2>8 DEF Spelled
  <2> QED BY <2>1, <2>9
<1>5. Capitalizable(name) <=> \A i \in 1 .. n : Formal(name, i) => name[i] \in 96 .. 122
  BY <1>1 DEF Capitalizable, Formal
<1>6. /\ Has(F, Colon) <=> \E i \in 1 .. n : F[i] = Colon
      /\ Has(name, Colon) <=> \E i \in 1 .. n : name[i] = Colon
  BY <1>1, <1>3 DEF Has
<1>7. Lower(F) = name <=> \A i \in 1 .. n : Lower(F)[i] = name[i]
  <2>1. Lower(F) \in Strings /\ Len(Lower(F)) = n BY <1>3, LowerType
  <2> QED BY <1>1, <2>1, SameText
<1>8. ASSUME Capitalizable(name), ~Has(name, Colon)
      PROVE  Lower(F) = name /\ ~Has(F, Colon)
  <2>1. ASSUME NEW i \in 1 .. n PROVE Lower(F)[i] = name[i] /\ F[i] # Colon
    <3>1. PICK x, y, z \in 0 .. 255 :
             /\ x = name[i] /\ y = F[i] /\ z = Lower(F)[i]
             /\ Spelled(Formal(name, i), x, y, z)
      BY <1>4
    <3>2. (Formal(name, i) => x \in 96 .. 122) /\ x # 58
      BY <1>5, <1>6, <1>8, <3>1 DEF Colon
    <3>3. z = x /\ y # 58
      <4>1. CASE Formal(name, i)
        <5>1. x \in 96 .. 122 /\ y = (x - 32) % 256
          BY <3>1, <3>2, <4>1 DEF Spelled
        <5>2. y = x - 32 BY <5>1
        <5> QED BY <3>1, <5>1, <5>2 DEF Spelled
      <4>2. CASE ~Formal(name, i) BY <3>1, <3>2, <4>2 DEF Spelled
      <4> QED BY <4>1, <4>2
    <3> QED BY <3>1, <3>3 DEF Colon
  <2> QED BY <1>6, <1>7, <2>1
<1>9. ASSUME Lower(F) = name, ~Has(F, Colon)
      PROVE  Capitalizable(name) /\ ~Has(name, Colon)
  <2>1. ASSUME NEW i \in 1 .. n
        PROVE  (Formal(name, i) => name[i] \in 96 .. 122) /\ name[i] # Colon
    <3>1. PICK x, y, z \in 0 .. 255 :
             /\ x = name[i] /\ y = F[i] /\ z = Lower(F)[i]
             /\ Spelled(Formal(name, i), x, y, z)
      BY <1>4
    <3>2. z = x /\ y # 58 BY <1>6, <1>9, <3>1 DEF Colon
    <3>3. (Formal(name, i) => x \in 96 .. 122) /\ x # 58
      <4>1. CASE Formal(name, i)
        <5>1. y = (x - 32) % 256 BY <3>1, <4>1 DEF Spelled
        <5>2. y # x BY <5>1
        <5>3. y \in 64 .. 90 /\ x = y + 32 BY <3>1, <3>2, <5>2 DEF Spelled
        <5> QED BY <5>3
      <4>2. CASE ~Formal(name, i) BY <3>1, <3>2, <4>2 DEF Spelled
      <4> QED BY <4>1, <4>2
    <3> QED BY <3>1, <3>3 DEF Colon
  <2> QED BY <1>5, <1>6, <2>1
<1> QED BY <1>2, <1>8, <1>9

(* What a round does whatever it finds,                                    *)
LEMMA Reading ==
  ASSUME Inv, DecodeAttribute
  PROVE  /\ phase = "decode" /\ phase' = "decode" /\ offset # 0
         /\ msg' = msg /\ size' = size /\ buf' = buf /\ title' = title
         /\ buf[offset + 1] # CR /\ offset' \in Nat
         /\ attributes' \in Seq(Attribute)
         /\ Len(attributes') = Len(attributes) + 1
         /\ \A i \in 1 .. Len(attributes) : attributes'[i] = attributes[i]
<1>1. /\ buf \in Strings /\ offset \in Nat /\ attributes \in Seq(Attribute)
  BY DEF Inv, TypeInv
<1>2. PICK c, f, e \in Nat :
         /\ c = find(buf, Colon, offset)
         /\ f = find_first_not_of(buf, Space, Plus(c, 1))
         /\ e = find(buf, CR, f)
  <2>1. PICK c \in Nat : c = find(buf, Colon, offset) BY <1>1, FindType, Codes
  <2>2. Plus(c, 1) \in Nat BY Positions
  <2>3. PICK f \in Nat : f = find_first_not_of(buf, Space, Plus(c, 1))
    BY <1>1, <2>2, FindType, Codes
  <2>4. find(buf, CR, f) \in Nat BY <1>1, FindType, Codes
  <2> QED BY <2>1, <2>3, <2>4
<1>3. Round(c, f, e, 2) BY <1>2 DEF DecodeAttribute
<1>4. PICK attr : attr = Read(c, f, e) OBVIOUS
<1>5. attr \in Attribute
  <2>1. Minus(c, offset) \in Nat /\ Minus(e, f) \in Nat BY <1>1, Positions
  <2>2. substr(buf, offset, Minus(c, offset)) \in Strings
    BY <1>1, <2>1, SubstrType
  <2>3. substr(buf, f, Minus(e, f)) \in Strings BY <1>1, <2>1, SubstrType
  <2>4. Lower(substr(buf, offset, Minus(c, offset))) \in Strings
    BY <2>2, LowerType
  <2> QED BY <1>4, <2>3, <2>4 DEF Read, Attribute
<1>6. offset' \in Nat
  <2>1. Plus(e, 2) \in Nat BY Positions
  <2> QED BY <1>3, <2>1 DEF Round
<1>7. attributes' = Append(attributes, attr) BY <1>3, <1>4 DEF Round
<1>8. /\ attributes' \in Seq(Attribute)
      /\ Len(attributes') = Len(attributes) + 1
      /\ \A i \in 1 .. Len(attributes) : attributes'[i] = attributes[i]
  BY <1>1, <1>5, <1>7, AppendProperties
<1> QED BY <1>3, <1>6, <1>8 DEF Round, At

(* and what it reads of a line whose parts are where it looks for them.    *)
LEMMA ReadsFound ==
  ASSUME Inv, DecodeAttribute,
         NEW c \in Nat, Found(buf, c, offset, Colon),
         NEW f \in Nat, FoundNot(buf, f, c + 1, Space),
         NEW e \in Nat, Found(buf, e, f, CR), e + 2 < Wrap
  PROVE  /\ offset' = e + 2
         /\ attributes'[Len(attributes) + 1] =
               [name  |-> Lower(SubSeq(buf, offset + 1, c)),
                value |-> SubSeq(buf, f + 1, e)]
<1>1. /\ buf \in Strings /\ offset \in Nat /\ attributes \in Seq(Attribute)
  BY DEF Inv, TypeInv
<1>2. PICK L \in Nat : L = Len(buf) BY <1>1, TextIs
<1>3. /\ offset <= c /\ c + 1 <= f /\ f <= e /\ e < L
  BY <1>1, <1>2 DEF Found, FoundNot
<1>4. c < Wrap /\ e < Wrap /\ c + 1 < Wrap BY <1>3, WrapAssumption
<1>5. find(buf, Colon, offset) = c BY <1>1, FindIs, Codes
<1>6. Plus(c, 1) = c + 1 BY <1>4, Positions
<1>7. find_first_not_of(buf, Space, c + 1) = f
  <2>1. c + 1 \in Nat OBVIOUS
  <2> QED BY <1>1, <2>1, FindNotIs, Codes
<1>8. find(buf, CR, f) = e BY <1>1, FindIs, Codes
<1>9. Round(c, f, e, 2) BY <1>5, <1>6, <1>7, <1>8 DEF DecodeAttribute
<1>10. Plus(e, 2) = e + 2 BY Positions
<1>11. substr(buf, offset, Minus(c, offset)) = SubSeq(buf, offset + 1, c)
  <2>1. Minus(c, offset) = c - offset BY <1>1, <1>3, <1>4, Positions
  <2>2. PICK k \in Nat : k = c - offset /\ offset + k = c /\ c <= L
    BY <1>1, <1>3
  <2>3. substr(buf, offset, k) = SubSeq(buf, offset + 1, offset + k)
    BY <1>1, <1>2, <2>2, SubstrIs
  <2> QED BY <2>1, <2>2, <2>3
<1>12. substr(buf, f, Minus(e, f)) = SubSeq(buf, f + 1, e)
  <2>1. Minus(e, f) = e - f BY <1>3, <1>4, Positions
  <2>2. PICK k \in Nat : k = e - f /\ f + k = e /\ e <= L
    BY <1>3
  <2>3. substr(buf, f, k) = SubSeq(buf, f + 1, f + k)
    BY <1>1, <1>2, <2>2, SubstrIs
  <2> QED BY <2>1, <2>2, <2>3
<1>13. Read(c, f, e) = [name  |-> Lower(SubSeq(buf, offset + 1, c)),
                        value |-> SubSeq(buf, f + 1, e)]
  BY <1>11, <1>12 DEF Read
<1>14. attributes' = Append(attributes, Read(c, f, e)) /\ offset' = e + 2
  BY <1>9, <1>10 DEF Round
<1>15. attributes'[Len(attributes) + 1] = Read(c, f, e)
  <2>1. Read(c, f, e) \in Attribute
    <3>1. Minus(c, offset) \in Nat /\ Minus(e, f) \in Nat BY <1>1, Positions
    <3>2. substr(buf, offset, Minus(c, offset)) \in Strings
      BY <1>1, <3>1, SubstrType
    <3>3. substr(buf, f, Minus(e, f)) \in Strings BY <1>1, <3>1, SubstrType
    <3>4. Lower(substr(buf, offset, Minus(c, offset))) \in Strings
      BY <3>2, LowerType
    <3> QED BY <3>3, <3>4 DEF Read, Attribute
  <2>2. PICK attr \in Attribute : attr = Read(c, f, e) BY <2>1
  <2>3. Append(attributes, attr)[Len(attributes) + 1] = attr
    BY <1>1, AppendProperties
  <2> QED BY <1>14, <2>2, <2>3
<1> QED BY <1>13, <1>14, <1>15

(* What lies behind a position, in numbers.                                *)
LineOf(text, o, attr, F, V, n, v, L) ==
    /\ F = header_key_formalize(attr.name) /\ V = attr.value
    /\ Len(F) = n /\ Len(V) = v /\ n = Len(attr.name) /\ L = Len(text)
    /\ DOMAIN V = 1 .. v /\ DOMAIN F = 1 .. n
    /\ o + n + v + 4 <= L /\ L < Wrap
    /\ \A i \in 1 .. n : text[o + i] = F[i]
    /\ text[o + n + 1] = Colon /\ text[o + n + 2] = Space
    /\ \A i \in 1 .. v : text[o + n + 2 + i] = V[i]
    /\ text[o + n + v + 3] = CR /\ text[o + n + v + 4] = LF

(* A line that lies in the text has such numbers.                          *)
LEMMA LineOfIs ==
  ASSUME buf \in Strings, Closed(buf), NEW o \in Nat,
         NEW attr \in Attribute, Lays(buf, o, attr)
  PROVE  \E F, V \in Strings : \E n, v, L \in Nat :
            LineOf(buf, o, attr, F, V, n, v, L)
<1>1. PICK F, V \in Strings : F = header_key_formalize(attr.name) /\ V = attr.value
  BY FormalType DEF Attribute
<1>2. PICK n, v, L \in Nat : n = Len(attr.name) /\ v = Len(V) /\ L = Len(buf)
  BY TextIs DEF Attribute
<1>3. Len(F) = n BY <1>1, <1>2, FormalType DEF Attribute
<1>4. DOMAIN V = 1 .. v /\ DOMAIN F = 1 .. n BY <1>2, <1>3, TextIs
<1>5. L < Wrap BY <1>2, Ended
<1>6. LineOf(buf, o, attr, F, V, n, v, L)
  BY <1>1, <1>2, <1>3, <1>4, <1>5 DEF Lays, LineOf
<1> QED BY <1>6

(* A piece of the text is the text that has the same bytes.                *)
Behind(s, p, t, n) == \A i \in 1 .. n : s[p + i] = t[i]

(* It is what SubSeq gives there.                                          *)
LEMMA PieceIs ==
  \A s, t \in Strings : \A p, n, q, m \in Nat :
     q <= Len(s) /\ n = Len(t) /\ p + n = q /\ m = p + 1 /\ Behind(s, p, t, n)
        => SubSeq(s, m, q) = t
<1> SUFFICES ASSUME NEW s \in Strings, NEW t \in Strings, NEW p \in Nat,
                    NEW n \in Nat, NEW q \in Nat, NEW m \in Nat, q <= Len(s),
                    n = Len(t), p + n = q, m = p + 1, Behind(s, p, t, n)
             PROVE  SubSeq(s, m, q) = t
  OBVIOUS
<1>1. m >= 1 /\ m <= q + 1 /\ q + 1 - m = n OBVIOUS
<1>2. /\ SubSeq(s, m, q) \in Strings /\ Len(SubSeq(s, m, q)) = n
      /\ \A i \in 1 .. n : SubSeq(s, m, q)[i] = s[m + i - 1]
  BY <1>1, Piece
<1>3. ASSUME NEW i \in 1 .. n PROVE SubSeq(s, m, q)[i] = t[i]
  <2>1. m + i - 1 = p + i OBVIOUS
  <2> QED BY <1>2, <2>1 DEF Behind
<1> QED BY <1>2, <1>3, SameText

(* An attribute that can be sent is read as it was written,                *)
LEMMA ReadsSame ==
  ASSUME Inv, DecodeAttribute, Closed(buf),
         NEW attr \in Attribute, Lays(buf, offset, attr),
         Lower(attr.name) = attr.name, Sendable(attr)
  PROVE  /\ attributes'[Len(attributes) + 1] = attr
         /\ offset' = offset + Len(attr.name) + Len(attr.value) + 4
<1>1. buf \in Strings BY DEF Inv, TypeInv
<1>2. PICK o \in Nat : o = offset BY DEF Inv, TypeInv
<1>3. PICK F, V \in Strings : \E n, v, L \in Nat :
         LineOf(buf, o, attr, F, V, n, v, L)
  BY <1>1, <1>2, LineOfIs
<1>4. PICK n, v, L \in Nat : LineOf(buf, o, attr, F, V, n, v, L) BY <1>3
<1>5. Lower(F) = attr.name /\ \A i \in 1 .. n : F[i] # Colon
  <2>1. attr.name \in Strings BY DEF Attribute
  <2>2. Lower(F) = attr.name /\ ~Has(F, Colon)
    BY <1>4, <2>1, NameBack DEF Sendable, LineOf
  <2>3. DOMAIN F = 1 .. n BY <1>4 DEF LineOf
  <2> QED BY <2>2, <2>3 DEF Has
<1>6. (\A i \in 1 .. v : V[i] # CR) /\ (v # 0 => V[1] # Space)
  <2>1. V = attr.value /\ DOMAIN V = 1 .. v /\ Len(V) = v BY <1>4 DEF LineOf
  <2>2. ~Has(V, CR) /\ (V # <<>> => V[1] # Space) BY <2>1 DEF Sendable
  <2>3. v # 0 => V # <<>> BY <2>1
  <2> QED BY <2>1, <2>2, <2>3 DEF Has
<1>7. Found(buf, o + n, o, Colon)
  <2>1. o + n \in o .. L - 1 BY <1>4 DEF LineOf
  <2>2. ASSUME NEW i \in o + 1 .. o + n PROVE buf[i] # Colon
    <3>1. PICK k \in 1 .. n : i = o + k /\ k = i - o
      <4>1. i - o \in 1 .. n /\ i = o + (i - o) OBVIOUS
      <4> QED BY <4>1
    <3> QED BY <1>4, <1>5, <3>1 DEF LineOf
  <2> QED BY <1>4, <2>1, <2>2 DEF Found, LineOf
<1>8. FoundNot(buf, o + n + 2, o + n + 1, Space)
  <2>1. o + n + 2 \in o + n + 1 .. L - 1 BY <1>4 DEF LineOf
  <2>2. buf[o + n + 2 + 1] # Space
    <3>1. CASE v = 0
      <4>1. o + n + 2 + 1 = o + n + v + 3 BY <3>1
      <4> QED BY <1>4, <4>1, Codes DEF LineOf
    <3>2. CASE v # 0
      <4>1. PICK k \in 1 .. v : k = 1 BY <3>2
      <4>2. buf[o + n + 2 + k] = V[k] BY <1>4 DEF LineOf
      <4> QED BY <1>6, <3>2, <4>1, <4>2
    <3> QED BY <3>1, <3>2
  <2>3. ASSUME NEW i \in o + n + 1 + 1 .. o + n + 2 PROVE buf[i] = Space
    <3>1. i = o + n + 2 OBVIOUS
    <3> QED BY <1>4, <3>1 DEF LineOf
  <2> QED BY <1>4, <2>1, <2>2, <2>3 DEF FoundNot, LineOf
<1>9. Found(buf, o + n + 2 + v, o + n + 2, CR)
  <2>1. o + n + 2 + v \in o + n + 2 .. L - 1 BY <1>4 DEF LineOf
  <2>2. ASSUME NEW i \in o + n + 2 + 1 .. o + n + 2 + v PROVE buf[i] # CR
    <3>1. PICK k \in 1 .. v : i = o + n + 2 + k
      <4>1. /\ i - (o + n + 2) \in 1 .. v
            /\ i = o + n + 2 + (i - (o + n + 2))
        OBVIOUS
      <4> QED BY <4>1
    <3>2. buf[o + n + 2 + k] = V[k] BY <1>4 DEF LineOf
    <3> QED BY <1>6, <3>1, <3>2
  <2>3. o + n + 2 + v + 1 = o + n + v + 3 OBVIOUS
  <2> QED BY <1>4, <2>1, <2>2, <2>3 DEF Found, LineOf
<1>10. PICK c, f, e \in Nat :
          c = o + n /\ f = o + n + 2 /\ e = o + n + 2 + v
  OBVIOUS
<1>11. o + n + 1 = c + 1 BY <1>10
<1>12. e + 2 < Wrap
  <2>1. o + n + v + 4 < Wrap BY <1>4, WrapAssumption DEF LineOf
  <2> QED BY <1>10, <2>1
<1>13. /\ offset' = e + 2
       /\ attributes'[Len(attributes) + 1] =
             [name  |-> Lower(SubSeq(buf, o + 1, c)),
              value |-> SubSeq(buf, f + 1, e)]
  <2>1. Found(buf, c, offset, Colon) BY <1>2, <1>7, <1>10
  <2>2. FoundNot(buf, f, c + 1, Space) BY <1>8, <1>10, <1>11
  <2>3. Found(buf, e, f, CR) BY <1>9, <1>10
  <2>4. /\ offset' = e + 2
        /\ attributes'[Len(attributes) + 1] =
              [name  |-> Lower(SubSeq(buf, offset + 1, c)),
               value |-> SubSeq(buf, f + 1, e)]
    BY <1>12, <2>1, <2>2, <2>3, ReadsFound
  <2> QED BY <1>2, <2>4
<1>14. SubSeq(buf, o + 1, c) = F
  <2>1. n = Len(F) /\ Behind(buf, o, F, n) BY <1>4 DEF LineOf, Behind
  <2>2. o + n = c /\ c <= Len(buf) BY <1>4, <1>10 DEF LineOf
  <2>3. PICK m \in Nat : m = o + 1 OBVIOUS
  <2>4. SubSeq(buf, m, c) = F BY <1>1, <2>1, <2>2, <2>3, PieceIs
  <2> QED BY <2>3, <2>4
<1>15. SubSeq(buf, f + 1, e) = V
  <2>1. v = Len(V) /\ Behind(buf, f, V, v) BY <1>4, <1>10 DEF LineOf, Behind
  <2>2. f + v = e /\ e <= Len(buf) BY <1>4, <1>10 DEF LineOf
  <2>3. PICK m \in Nat : m = f + 1 OBVIOUS
  <2>4. SubSeq(buf, m, e) = V BY <1>1, <2>1, <2>2, <2>3, PieceIs
  <2> QED BY <2>3, <2>4
<1>16. [name |-> Lower(F), value |-> V] = attr
  BY <1>4, <1>5 DEF Attribute, LineOf
<1>17. offset' = offset + Len(attr.name) + Len(attr.value) + 4
  <2>1. e + 2 = o + n + v + 4 BY <1>10
  <2>2. n = Len(attr.name) /\ v = Len(attr.value) BY <1>4 DEF LineOf
  <2> QED BY <1>2, <1>13, <2>1, <2>2
<1> QED BY <1>13, <1>14, <1>15, <1>16, <1>17

(* and no other one is.                                                    *)
LEMMA ReadsLost ==
  ASSUME Inv, DecodeAttribute, Closed(buf),
         NEW attr \in Attribute, Lays(buf, offset, attr),
         Lower(attr.name) = attr.name,
         attributes'[Len(attributes) + 1] = attr
  PROVE  Sendable(attr)
<1>1. buf \in Strings BY DEF Inv, TypeInv
<1>2. PICK o \in Nat : o = offset BY DEF Inv, TypeInv
<1>3. PICK F, V \in Strings : \E n, v, L \in Nat :
         LineOf(buf, o, attr, F, V, n, v, L)
  BY <1>1, <1>2, LineOfIs
<1>4. PICK n, v, L \in Nat : LineOf(buf, o, attr, F, V, n, v, L) BY <1>3
<1>5. PICK k \in Nat : k = o + n + v + 3 /\ k <= L /\ k + 1 < Wrap /\ buf[k] = CR
  <2>1. o + n + v + 4 <= L /\ L < Wrap BY <1>4 DEF LineOf
  <2>2. o + n + v + 3 <= L /\ o + n + v + 3 + 1 < Wrap
    BY <2>1, WrapAssumption
  <2>3. buf[o + n + v + 3] = CR BY <1>4 DEF LineOf
  <2>4. PICK l \in Nat : l = o + n + v + 3 OBVIOUS
  <2>5. l <= L /\ l + 1 < Wrap /\ buf[l] = CR BY <2>2, <2>3, <2>4
  <2> QED BY <2>4, <2>5
<1>6. L = Len(buf) BY <1>4 DEF LineOf
<1>7. PICK c \in Nat : c < o + n + 1 /\ Found(buf, c, o, Colon)
  <2>1. PICK l \in Nat : l = o + n + 1 OBVIOUS
  <2>2. o < l /\ l <= Len(buf) /\ buf[l] = Colon
    BY <1>4, <2>1 DEF LineOf
  <2> QED BY <1>1, <2>1, <2>2, Search, Codes
<1>8. PICK f \in Nat : f < k /\ FoundNot(buf, f, c + 1, Space)
  <2>1. PICK p \in Nat : p = c + 1 /\ p < k BY <1>5, <1>7
  <2>2. buf[k] # Space BY <1>5, Codes
  <2> QED BY <1>1, <1>5, <1>6, <2>1, <2>2, SearchNot, Codes
<1>9. PICK e \in Nat : e < k /\ Found(buf, e, f, CR)
  BY <1>1, <1>5, <1>6, <1>8, Search, Codes
<1>10. /\ attr.name = Lower(SubSeq(buf, o + 1, c))
       /\ V = SubSeq(buf, f + 1, e)
  <2>1. e + 2 < Wrap BY <1>5, <1>9, WrapAssumption
  <2>2. attributes'[Len(attributes) + 1] =
           [name  |-> Lower(SubSeq(buf, o + 1, c)),
            value |-> SubSeq(buf, f + 1, e)]
    <3>1. Found(buf, c, offset, Colon) BY <1>2, <1>7
    <3>2. attributes'[Len(attributes) + 1] =
             [name  |-> Lower(SubSeq(buf, offset + 1, c)),
              value |-> SubSeq(buf, f + 1, e)]
      BY <1>8, <1>9, <2>1, <3>1, ReadsFound
    <3> QED BY <1>2, <3>2
  <2>3. V = attr.value BY <1>4 DEF LineOf
  <2>4. PICK x, y : x = Lower(SubSeq(buf, o + 1, c)) /\ y = SubSeq(buf, f + 1, e)
    OBVIOUS
  <2>5. attr = [name |-> x, value |-> y] BY <2>2, <2>4
  <2> QED BY <2>3, <2>4, <2>5
<1>11. /\ o <= c /\ c + 1 <= f /\ f <= e /\ e < L
       /\ buf[f + 1] # Space
       /\ \A i \in o + 1 .. c : buf[i] # Colon
       /\ \A i \in f + 1 .. e : buf[i] # CR
  BY <1>6, <1>7, <1>8, <1>9 DEF Found, FoundNot
<1>12. c = o + n
  <2>1. PICK m \in Nat : m = o + 1 OBVIOUS
  <2>2. m >= 1 /\ m <= c + 1 /\ c <= Len(buf) /\ c + 1 - m = c - o
    BY <1>6, <1>11, <2>1
  <2>3. SubSeq(buf, m, c) \in Strings /\ Len(SubSeq(buf, m, c)) = c - o
    BY <1>1, <2>2, Piece
  <2>4. Len(Lower(SubSeq(buf, m, c))) = c - o BY <2>3, LowerType
  <2>5. n = Len(attr.name) BY <1>4 DEF LineOf
  <2>6. n = c - o BY <1>10, <2>1, <2>4, <2>5
  <2> QED BY <1>11, <2>6
<1>13. f >= o + n + 2
  <2>1. f # o + n + 1
    <3>1. SUFFICES ASSUME f = o + n + 1 PROVE FALSE OBVIOUS
    <3>2. f + 1 = o + n + 2 BY <3>1
    <3> QED BY <1>4, <1>11, <3>2 DEF LineOf
  <2> QED BY <1>11, <1>12, <2>1
<1>14. f = o + n + 2 /\ e = o + n + 2 + v
  <2>1. PICK m \in Nat : m = f + 1 OBVIOUS
  <2>2. m >= 1 /\ m <= e + 1 /\ e <= Len(buf) /\ e + 1 - m = e - f
    BY <1>6, <1>11, <2>1
  <2>3. Len(SubSeq(buf, m, e)) = e - f BY <1>1, <2>2, Piece
  <2>4. Len(V) = v BY <1>4 DEF LineOf
  <2>5. v = e - f BY <1>10, <2>1, <2>3, <2>4
  <2> QED BY <1>5, <1>9, <1>11, <1>13, <2>5
<1>15. SubSeq(buf, o + 1, c) = F
  <2>1. n = Len(F) /\ Behind(buf, o, F, n) BY <1>4 DEF LineOf, Behind
  <2>2. o + n = c /\ c <= Len(buf) BY <1>6, <1>11, <1>12
  <2>3. PICK m \in Nat : m = o + 1 OBVIOUS
  <2>4. SubSeq(buf, m, c) = F BY <1>1, <2>1, <2>2, <2>3, PieceIs
  <2> QED BY <2>3, <2>4
<1>16. Capitalizable(attr.name) /\ ~Has(attr.name, Colon)
  <2>1. attr.name \in Strings /\ F = header_key_formalize(attr.name)
        /\ DOMAIN F = 1 .. n
    BY <1>4 DEF Attribute, LineOf
  <2>2. ASSUME NEW i \in 1 .. n PROVE F[i] # Colon
    <3>1. o + i \in o + 1 .. c BY <1>12
    <3>2. buf[o + i] = F[i] BY <1>4 DEF LineOf
    <3> QED BY <1>11, <3>1, <3>2
  <2>3. ~Has(F, Colon) BY <2>1, <2>2 DEF Has
  <2>4. Lower(F) = attr.name BY <1>10, <1>15
  <2> QED BY <2>1, <2>3, <2>4, NameBack
<1>17. V = attr.value /\ DOMAIN V = 1 .. v /\ Len(V) = v
       /\ \A i \in 1 .. v : buf[o + n + 2 + i] = V[i]
  BY <1>4 DEF LineOf
<1>18. ~Has(V, CR)
  <2>1. ASSUME NEW i \in 1 .. v PROVE V[i] # CR
    <3>1. PICK l \in f + 1 .. e : l = o + n + 2 + i BY <1>14
    <3>2. buf[l] # CR BY <1>11
    <3>3. buf[l] = V[i] BY <1>17, <3>1
    <3> QED BY <3>2, <3>3
  <2> QED BY <1>17, <2>1 DEF Has
<1>19. ASSUME V # <<>> PROVE V[1] # Space
  <2>1. v # 0 BY <1>17, <1>19, EmptySeq DEF Strings
  <2>2. PICK i \in 1 .. v : i = 1 BY <2>1
  <2>3. f + 1 = o + n + 2 + i BY <1>14, <2>2
  <2> QED BY <1>11, <1>17, <2>2, <2>3
<1> QED BY <1>16, <1>17, <1>18, <1>19 DEF Sendable

(* A round of the loop reads the next attribute as it was sent, or loses   *)
(* it.                                                                     *)
LEMMA RoundTrips ==
  ASSUME Inv, DecodeAttribute
  PROVE  TripInv'
<1>1. /\ phase = "decode" /\ phase' = "decode" /\ offset # 0
      /\ msg' = msg /\ size' = size /\ buf' = buf
      /\ buf[offset + 1] # CR /\ attributes' \in Seq(Attribute)
      /\ Len(attributes') = Len(attributes) + 1
      /\ \A i \in 1 .. Len(attributes) : attributes'[i] = attributes[i]
  BY Reading
<1>2. /\ buf \in Strings /\ attributes \in Seq(Attribute)
      /\ msg \in Messages \cup {NoMessage} /\ Closed(buf)
  BY <1>1 DEF Inv, TypeInv, TextInv
<1> SUFFICES ASSUME msg # NoMessage, ~Has(msg.title, CR)
             PROVE  \/ (\E i \in DOMAIN msg.attributes : Lost(i))'
                    \/ /\ Same(Len(attributes))'
                       /\ offset' = Start(msg, Len(attributes'))
  BY <1>1 DEF TripInv, Decoded
<1>3. /\ msg \in Messages /\ Written(buf, msg, Len(msg.attributes))
      /\ Len(buf) = SizeOf(msg)
  BY <1>1, <1>2 DEF Inv, TextInv
<1>4. PICK N, k \in Nat : N = Len(msg.attributes) /\ k = Len(attributes)
  BY <1>2, <1>3, MessageIs
<1>5. CASE \E i \in DOMAIN msg.attributes : Lost(i)
  <2>1. ReadsOn
    <3>1. Len(attributes) <= Len(attributes') BY <1>1, <1>4
    <3>2. ~Decoded BY <1>1 DEF Decoded
    <3> QED BY <1>1, <3>1, <3>2 DEF ReadsOn
  <2> QED BY <1>1, <1>2, <1>3, <1>5, <2>1, StaysLost
<1>6. CASE ~\E i \in DOMAIN msg.attributes : Lost(i)
  <2>1. Same(k) /\ offset = Start(msg, k)
    BY <1>1, <1>3, <1>4, <1>6 DEF Inv, TripInv
  <2>2. k <= N BY <1>4, <2>1 DEF Same
  <2>3. k # N
    <3>1. SUFFICES ASSUME k = N PROVE FALSE OBVIOUS
    <3>2. PICK L \in Nat : L = Len(buf) /\ buf[L - 1] = CR BY <1>2, Ended
    <3>3. PICK s \in Nat : s = Start(msg, N) /\ SizeOf(msg) = s + 2
      <4>1. N \in 0 .. N OBVIOUS
      <4> QED BY <1>3, <1>4, <4>1, Starts
    <3>4. s + 1 = L - 1 /\ offset = s BY <1>3, <2>1, <3>1, <3>2, <3>3
    <3> QED BY <1>1, <3>2, <3>4
  <2>4. k + 1 \in 1 .. N /\ k + 1 - 1 = k BY <1>4, <2>2, <2>3
  <2>5. PICK l \in 1 .. N : l = k + 1 /\ l - 1 = k BY <2>4
  <2>6. PICK attr \in Attribute :
           attr = msg.attributes[l] /\ Lower(attr.name) = attr.name
    BY <1>3, <1>4, MessageIs
  <2>7. Lays(buf, offset, attr) BY <1>3, <1>4, <2>1, <2>5, <2>6 DEF Written
  <2>8. Len(attributes') = l BY <1>1, <1>4, <2>5
  <2>9. CASE Sendable(attr)
    <3>1. attributes'[l] = attr
          /\ offset' = offset + Len(attr.name) + Len(attr.value) + 4
      BY <1>2, <1>4, <2>5, <2>6, <2>7, <2>9, ReadsSame
    <3>2. offset' = Start(msg, l)
      BY <1>3, <1>4, <2>1, <2>5, <2>6, <3>1, Starts
    <3>3. ASSUME NEW i \in 1 .. l
          PROVE  Sendable(msg.attributes[i]) /\ attributes'[i] = msg.attributes[i]
      <4>1. CASE i = l BY <2>6, <2>9, <3>1, <4>1
      <4>2. CASE i # l
        <5>1. i \in 1 .. k BY <2>5, <4>2
        <5> QED BY <1>1, <1>4, <2>1, <5>1 DEF Same
      <4> QED BY <4>1, <4>2
    <3>4. Same(Len(attributes))' BY <1>1, <1>4, <2>8, <3>3 DEF Same
    <3> QED BY <2>8, <3>2, <3>4
  <2>10. CASE ~Sendable(attr)
    <3>1. attributes'[l] # attr
      BY <1>2, <1>4, <2>5, <2>6, <2>7, <2>10, ReadsLost
    <3>2. Lost(l)' BY <1>1, <2>6, <2>8, <2>10, <3>1 DEF Lost
    <3>3. l \in DOMAIN msg'.attributes BY <1>1, <1>3, <1>4, MessageIs
    <3> QED BY <3>2, <3>3
  <2> QED BY <2>9, <2>10
<1> QED BY <1>5, <1>6

(* The line behind a position, if it is not blank: it ends before the      *)
(* blank line, and has a colon in a header that is well formed.            *)
IsLine(text, o, E) ==
    /\ o + 1 < E /\ text[E] = CR /\ text[E + 1] = LF
    /\ \A i \in o + 1 .. E - 1 : text[i] # CR
    /\ \E i \in o + 1 .. E - 1 : text[i] = Colon

(* Such a line follows where the decoder stands, and it is the next one    *)
(* counted.                                                                *)
LEMMA NextLine ==
  ASSUME buf \in Strings, Closed(buf), WellFormed, NEW k \in Nat,
         NEW o \in Nat, NEW L \in Nat, L = Len(buf), o \in 2 .. L - 1,
         buf[o - 1] = CR, buf[o] = LF, Ends(o - 1) = k + 1, buf[o + 1] # CR
  PROVE  \E E \in Nat :
            /\ IsLine(buf, o, E) /\ E < L - 1 /\ Ends(E) = k + 2
            /\ k + 1 \in Lines /\ Line(k + 1) = SubSeq(buf, o + 1, E - 1)
<1>1. /\ L >= 4 /\ buf[L - 3] = CR /\ buf[L - 2] = LF
      /\ buf[L - 1] = CR /\ buf[L] = LF
  BY Ended
<1>2. o + 1 < L - 1
  <2>1. o # L - 1 BY <1>1, Codes
  <2>2. o + 1 # L - 1 BY <1>1
  <2> QED BY <2>1, <2>2
<1>3. PICK p \in Nat : p < L - 1 /\ Found(buf, p, o, CR)
  <2>1. PICK m \in Nat : m = L - 1 BY <1>1
  <2>2. o < m /\ m <= Len(buf) /\ buf[m] = CR BY <1>1, <1>2, <2>1
  <2> QED BY <2>1, <2>2, Search, Codes
<1>4. PICK E \in Nat : E = p + 1 OBVIOUS
<1>5. /\ E - 1 = p /\ o <= p /\ buf[E] = CR
      /\ \A i \in o + 1 .. E - 1 : buf[i] # CR
  BY <1>3, <1>4 DEF Found
<1>6. o + 1 < E
  <2>1. E # o + 1 BY <1>5
  <2> QED BY <1>4, <1>5, <2>1
<1>7. E < L - 1
  <2>1. E # L - 1
    <3>1. SUFFICES ASSUME E = L - 1 PROVE FALSE OBVIOUS
    <3>2. ~(o < L - 3)
      <4>1. SUFFICES ASSUME o < L - 3 PROVE FALSE OBVIOUS
      <4>2. PICK i \in Nat : i = L - 3 BY <1>1
      <4>3. i \in o + 1 .. E - 1 BY <3>1, <4>1, <4>2
      <4> QED BY <1>1, <1>5, <4>2, <4>3
    <3>3. o # L - 3 BY <1>1, Codes
    <3> QED BY <1>2, <3>2, <3>3
  <2> QED BY <1>3, <1>4, <2>1
<1>8. DOMAIN buf = 1 .. L BY TextIs
<1>9. buf[E + 1] = LF
  <2>1. E \in DOMAIN buf BY <1>6, <1>7, <1>8
  <2> QED BY <1>5, <2>1 DEF WellFormed, Clean
<1>10. Ends(E) = k + 2
  <2>1. PICK q \in Nat : q = o - 1 OBVIOUS
  <2>2. ASSUME NEW i \in q + 1 .. E - 1 PROVE buf[i] # CR
    <3>1. CASE i = o BY <3>1, Codes
    <3>2. CASE i # o
      <4>1. i \in o + 1 .. E - 1 BY <2>1, <3>2
      <4> QED BY <1>5, <4>1
    <3> QED BY <3>1, <3>2
  <2>3. q < E BY <1>6, <2>1
  <2>4. Ends(E) = Ends(q) + 1 BY <1>5, <2>2, <2>3, EndsOne
  <2>5. Ends(q) = k + 1 BY <2>1
  <2> QED BY <2>4, <2>5
<1>11. k + 1 \in Lines
  <2>1. PICK m \in Nat : m = L - 1 /\ E < m /\ m <= L /\ buf[m] = CR
    BY <1>1, <1>7
  <2>2. Ends(E) < Ends(m) /\ Ends(m) <= Ends(L)
    BY <2>1, EndsMore, EndsMonotone
  <2>3. Ends(m) \in Nat /\ Ends(L) \in Nat BY <2>1, EndsType
  <2>4. k + 2 < Ends(L) BY <1>10, <2>2, <2>3
  <2> QED BY <2>3, <2>4 DEF Lines
<1>12. Line(k + 1) = SubSeq(buf, o + 1, E - 1)
  <2>1. LineEnd(k + 1) = o - 1
    <3>1. o - 1 \in 1 .. Len(buf) OBVIOUS
    <3>2. LineEnd(Ends(o - 1)) = o - 1 BY <3>1, LineEndIs
    <3> QED BY <3>2
  <2>2. LineEnd(k + 1 + 1) = E
    <3>1. E \in 1 .. Len(buf) BY <1>6, <1>7
    <3>2. LineEnd(Ends(E)) = E BY <1>5, <3>1, LineEndIs
    <3>3. Ends(E) = k + 1 + 1 BY <1>10
    <3> QED BY <3>2, <3>3
  <2>3. o - 1 + 2 = o + 1 OBVIOUS
  <2> QED BY <2>1, <2>2, <2>3 DEF Line
<1>13. \E i \in o + 1 .. E - 1 : buf[i] = Colon
  <2>1. Has(Line(k + 1), Colon) BY <1>11 DEF WellFormed
  <2>2. PICK m \in Nat : m = o + 1 OBVIOUS
  <2>3. m >= 1 /\ m <= p + 1 /\ p <= Len(buf) BY <1>3, <1>5, <2>2
  <2>4. PICK n \in Nat : n = p + 1 - m BY <2>3
  <2>5. /\ SubSeq(buf, m, p) \in Strings /\ Len(SubSeq(buf, m, p)) = n
        /\ \A i \in 1 .. n : SubSeq(buf, m, p)[i] = buf[m + i - 1]
    BY <2>3, <2>4, Piece
  <2>6. Line(k + 1) = SubSeq(buf, m, p) BY <1>5, <1>12, <2>2
  <2>7. PICK i \in 1 .. n : SubSeq(buf, m, p)[i] = Colon
    <3>1. DOMAIN SubSeq(buf, m, p) = 1 .. n BY <2>5, TextIs
    <3> QED BY <2>1, <2>6, <3>1 DEF Has
  <2>8. buf[m + i - 1] = Colon BY <2>5, <2>7
  <2>9. PICK j \in o + 1 .. E - 1 : j = m + i - 1 BY <1>5, <2>2, <2>4
  <2> QED BY <2>8, <2>9
<1>14. IsLine(buf, o, E) BY <1>5, <1>6, <1>9, <1>13 DEF IsLine
<1> QED BY <1>7, <1>10, <1>11, <1>12, <1>14

(* t is the piece of s of n bytes behind p; m and q are its first and its  *)
(* last position.                                                          *)
IsPiece(t, s, p, q, m, n) ==
    t = SubSeq(s, m, q) /\ Len(t) = n /\ Behind(s, p, t, n)

(* There is such a piece.                                                  *)
LEMMA PieceOf ==
  ASSUME NEW s \in Strings, NEW p \in Nat, NEW n \in Nat, NEW q \in Nat,
         NEW m \in Nat, q <= Len(s), p + n = q, m = p + 1
  PROVE  \E t \in Strings : IsPiece(t, s, p, q, m, n)
<1>1. m >= 1 /\ m <= q + 1 /\ q + 1 - m = n OBVIOUS
<1>2. /\ SubSeq(s, m, q) \in Strings /\ Len(SubSeq(s, m, q)) = n
      /\ \A i \in 1 .. n : SubSeq(s, m, q)[i] = s[m + i - 1]
  BY <1>1, Piece
<1>3. PICK t \in Strings : t = SubSeq(s, m, q) BY <1>2
<1>4. ASSUME NEW i \in 1 .. n PROVE s[p + i] = t[i]
  <2>1. m + i - 1 = p + i OBVIOUS
  <2> QED BY <1>2, <1>3, <2>1
<1>5. IsPiece(t, s, p, q, m, n) BY <1>2, <1>3, <1>4 DEF Behind, IsPiece
<1> QED BY <1>5

(* What is read of a line is what the grammar says of it.                  *)
LEMMA ReadsGrammar ==
  ASSUME NEW text \in Strings, NEW o \in Nat, NEW c \in Nat, NEW f \in Nat,
         NEW e \in Nat, o <= c, c + 1 <= f, f <= e, e <= Len(text),
         text[c + 1] = Colon, \A i \in o + 1 .. c : text[i] # Colon,
         text[f + 1] # Space, \A i \in c + 2 .. f : text[i] = Space
  PROVE  IsAttribute([name  |-> Lower(SubSeq(text, o + 1, c)),
                      value |-> SubSeq(text, f + 1, e)],
                     SubSeq(text, o + 1, e))
<1>1. PICK L \in Nat : L = Len(text) BY TextIs
<1>2. PICK m, n, r, u, v, a, w \in Nat :
         /\ m = o + 1 /\ n = e - o /\ r = f + 1 /\ u = c - o /\ v = e - f
         /\ a = f - o /\ w = c + 1 - o
  OBVIOUS
<1>3. PICK line \in Strings : IsPiece(line, text, o, e, m, n)
  <2>1. e <= Len(text) /\ o + n = e BY <1>2
  <2> QED BY <1>2, <2>1, PieceOf
<1>4. PICK s \in Strings : IsPiece(s, text, o, c, m, u)
  <2>1. c <= Len(text) /\ o + u = c BY <1>1, <1>2
  <2> QED BY <1>2, <2>1, PieceOf
<1>5. PICK t \in Strings : IsPiece(t, text, f, e, r, v)
  <2>1. e <= Len(text) /\ f + v = e BY <1>2
  <2> QED BY <1>2, <2>1, PieceOf
<1>6. /\ line = SubSeq(text, m, e) /\ Len(line) = n /\ Behind(text, o, line, n)
      /\ s = SubSeq(text, m, c) /\ Len(s) = u /\ Behind(text, o, s, u)
      /\ t = SubSeq(text, r, e) /\ Len(t) = v /\ Behind(text, f, t, v)
  BY <1>3, <1>4, <1>5 DEF IsPiece
<1>7. PICK zero, one \in Nat : zero = 0 /\ one = 1 OBVIOUS
<1>8. SubSeq(line, one, u) = s
  <2>1. u <= Len(line) /\ zero + u = u /\ one = zero + 1 BY <1>2, <1>6, <1>7
  <2>2. Behind(line, zero, s, u)
    <3>1. ASSUME NEW i \in 1 .. u PROVE line[zero + i] = s[i]
      <4>1. i \in 1 .. n /\ zero + i = i BY <1>2, <1>7
      <4> QED BY <1>6, <4>1 DEF Behind
    <3> QED BY <3>1 DEF Behind
  <2>3. u = Len(s) BY <1>6
  <2> QED BY <2>1, <2>2, <2>3, PieceIs
<1>9. PICK from \in Nat : from = a + 1 OBVIOUS
<1>10. SubSeq(line, from, n) = t
  <2>1. n <= Len(line) /\ a + v = n BY <1>2, <1>6
  <2>2. Behind(line, a, t, v)
    <3>1. ASSUME NEW i \in 1 .. v PROVE line[a + i] = t[i]
      <4>1. PICK j \in 1 .. n : j = a + i /\ o + j = f + i
        <5>1. a + i \in 1 .. n /\ o + (a + i) = f + i BY <1>2
        <5> QED BY <5>1
      <4>2. line[j] = text[o + j] BY <1>6 DEF Behind
      <4>3. t[i] = text[f + i] BY <1>6 DEF Behind
      <4> QED BY <4>1, <4>2, <4>3
    <3> QED BY <3>1 DEF Behind
  <2>3. v = Len(t) BY <1>6
  <2> QED BY <1>9, <2>1, <2>2, <2>3, PieceIs
<1>11. DOMAIN line = 1 .. n BY <1>6, TextIs
<1>12. w \in 1 .. n /\ from \in 1 .. n + 1 /\ from > w /\ w - 1 = u
  BY <1>2, <1>9
<1>13. line[w] = Colon
  <2>1. o + w = c + 1 BY <1>2
  <2>2. line[w] = text[o + w] BY <1>6, <1>12 DEF Behind
  <2> QED BY <2>1, <2>2
<1>14. ASSUME NEW i \in 1 .. w - 1 PROVE line[i] # Colon
  <2>1. i \in 1 .. n /\ o + i \in o + 1 .. c BY <1>2, <1>12
  <2>2. line[i] = text[o + i] BY <1>6, <2>1 DEF Behind
  <2> QED BY <2>1, <2>2
<1>15. ASSUME NEW i \in w + 1 .. from - 1 PROVE line[i] = Space
  <2>1. i \in 1 .. n /\ o + i \in c + 2 .. f BY <1>2, <1>9, <1>12
  <2>2. line[i] = text[o + i] BY <1>6, <2>1 DEF Behind
  <2> QED BY <2>1, <2>2
<1>16. ASSUME from <= n PROVE line[from] # Space
  <2>1. from \in 1 .. n /\ o + from = f + 1 BY <1>2, <1>9, <1>16
  <2>2. line[from] = text[o + from] BY <1>6, <2>1 DEF Behind
  <2> QED BY <2>1, <2>2
<1>17. PICK attr : attr = [name |-> Lower(s), value |-> t] OBVIOUS
<1>18. attr.name = Lower(s) /\ attr.value = t BY <1>17
<1>19. IsAttribute(attr, line)
  <2>1. attr.name = Lower(SubSeq(line, 1, w - 1))
    BY <1>7, <1>8, <1>12, <1>18
  <2>2. attr.value = SubSeq(line, from, Len(line)) BY <1>6, <1>10, <1>18
  <2>3. from \in 1 .. Len(line) + 1 /\ (from <= Len(line) => line[from] # Space)
    BY <1>6, <1>12, <1>16
  <2> QED BY <1>11, <1>12, <1>13, <1>14, <1>15, <2>1, <2>2, <2>3 DEF IsAttribute
<1> QED BY <1>2, <1>6, <1>17, <1>19

(* What a round reads of a line.                                           *)
LEMMA ReadsLine ==
  ASSUME Inv, DecodeAttribute, buf \in Strings, NEW o \in Nat, o = offset,
         NEW E \in Nat, IsLine(buf, o, E), E < Len(buf) - 1, Len(buf) < Wrap
  PROVE  /\ offset' = E + 1
         /\ IsAttribute(attributes'[Len(attributes) + 1], SubSeq(buf, o + 1, E - 1))
<1>1. PICK L \in Nat : L = Len(buf) BY TextIs
<1>2. PICK i \in o + 1 .. E - 1 : buf[i] = Colon BY DEF IsLine
<1>3. /\ buf[E] = CR /\ \A j \in o + 1 .. E - 1 : buf[j] # CR
  BY DEF IsLine
<1>4. PICK c \in Nat : c < i /\ Found(buf, c, o, Colon)
  <2>1. i \in Nat /\ o < i /\ i <= Len(buf) BY <1>1, <1>2
  <2> QED BY <1>2, <2>1, Search, Codes
<1>5. PICK f \in Nat : f < E /\ FoundNot(buf, f, c + 1, Space)
  <2>1. PICK p \in Nat : p = c + 1 /\ p < E BY <1>2, <1>4
  <2>2. E <= Len(buf) /\ buf[E] # Space BY <1>1, <1>3, Codes
  <2> QED BY <2>1, <2>2, SearchNot, Codes
<1>6. /\ o <= c /\ c + 1 <= f /\ buf[c + 1] = Colon /\ buf[f + 1] # Space
      /\ \A j \in o + 1 .. c : buf[j] # Colon
      /\ \A j \in c + 1 + 1 .. f : buf[j] = Space
  BY <1>1, <1>4, <1>5 DEF Found, FoundNot
<1>7. PICK e \in Nat : e = E - 1 /\ e + 1 = E /\ f <= e BY <1>5
<1>8. Found(buf, e, f, CR)
  <2>1. e \in f .. Len(buf) - 1 BY <1>1, <1>7
  <2>2. ASSUME NEW j \in f + 1 .. e PROVE buf[j] # CR
    <3>1. j \in o + 1 .. E - 1 BY <1>6, <1>7
    <3> QED BY <1>3, <3>1
  <2> QED BY <1>3, <1>7, <2>1, <2>2 DEF Found
<1>9. e + 2 < Wrap BY <1>1, <1>7, WrapAssumption
<1>10. /\ offset' = e + 2
       /\ attributes'[Len(attributes) + 1] =
             [name  |-> Lower(SubSeq(buf, o + 1, c)),
              value |-> SubSeq(buf, f + 1, e)]
  <2>1. Found(buf, c, offset, Colon) BY <1>4
  <2>2. /\ offset' = e + 2
        /\ attributes'[Len(attributes) + 1] =
              [name  |-> Lower(SubSeq(buf, offset + 1, c)),
               value |-> SubSeq(buf, f + 1, e)]
    BY <1>5, <1>8, <1>9, <2>1, ReadsFound
  <2> QED BY <2>2
<1>11. \A j \in c + 2 .. f : buf[j] = Space
  <2>1. c + 1 + 1 = c + 2 OBVIOUS
  <2> QED BY <1>6, <2>1
<1>12. e <= Len(buf) BY <1>1, <1>7
<1>13. IsAttribute([name  |-> Lower(SubSeq(buf, o + 1, c)),
                    value |-> SubSeq(buf, f + 1, e)],
                   SubSeq(buf, o + 1, e))
  BY <1>6, <1>7, <1>11, <1>12, ReadsGrammar
<1>14. e + 2 = E + 1 BY <1>7
<1> QED BY <1>7, <1>10, <1>13, <1>14

(* DecodeAttribute preserves the invariant.                                *)
LEMMA ReadsAttribute ==
  ASSUME Inv, DecodeAttribute
  PROVE  Inv'
<1>1. /\ phase = "decode" /\ phase' = "decode" /\ offset # 0
      /\ msg' = msg /\ size' = size /\ buf' = buf /\ title' = title
      /\ buf[offset + 1] # CR /\ offset' \in Nat
      /\ attributes' \in Seq(Attribute)
      /\ Len(attributes') = Len(attributes) + 1
      /\ \A i \in 1 .. Len(attributes) : attributes'[i] = attributes[i]
  BY Reading
<1>2. /\ buf \in Strings /\ attributes \in Seq(Attribute) /\ title \in Strings
      /\ msg \in Messages \cup {NoMessage} /\ Closed(buf)
  BY <1>1 DEF Inv, TypeInv, TextInv
<1>3. TypeInv' BY <1>1, <1>2 DEF TypeInv, Phases
<1>4. EncodeInv' BY <1>1 DEF EncodeInv
<1>5. TextInv' BY <1>1, TextStays DEF Inv
<1>6. TitleInv'
  <2>1. FirstLine(buf, title) BY <1>1 DEF Inv, TitleInv, Titled
  <2> QED BY <1>1, <2>1 DEF TitleInv
<1>7. LinesInv'
  <2> SUFFICES ASSUME WellFormed PROVE AtLine(Len(attributes))'
    BY <1>1, SameLines DEF LinesInv, Decoded
  <2>1. PICK k, L \in Nat : k = Len(attributes) /\ L = Len(buf) /\ L < Wrap
    BY <1>2, Ended
  <2>2. AtLine(k) BY <1>1, <2>1 DEF Inv, LinesInv
  <2>3. PICK o \in Nat : /\ o = offset /\ o \in 2 .. L - 1
                         /\ buf[o - 1] = CR /\ buf[o] = LF /\ buf[o + 1] # CR
                         /\ Ends(o - 1) = k + 1
    BY <1>1, <2>1, <2>2 DEF AtLine
  <2>4. PICK E \in Nat :
           /\ IsLine(buf, o, E) /\ E < L - 1 /\ Ends(E) = k + 2
           /\ k + 1 \in Lines /\ Line(k + 1) = SubSeq(buf, o + 1, E - 1)
    BY <1>2, <2>1, <2>3, NextLine
  <2>5. /\ offset' = E + 1
        /\ IsAttribute(attributes'[k + 1], Line(k + 1))
    BY <1>2, <2>1, <2>3, <2>4, ReadsLine
  <2>6. ASSUME NEW i \in 1 .. k + 1
        PROVE  IsAttribute(attributes'[i], Line(i))
    <3>1. CASE i = k + 1 BY <2>5, <3>1
    <3>2. CASE i # k + 1
      <4>1. i \in 1 .. k BY <3>2
      <4>2. IsAttribute(attributes[i], Line(i)) BY <2>2, <4>1 DEF AtLine
      <4>3. attributes'[i] = attributes[i] BY <1>1, <2>1, <4>1
      <4> QED BY <4>2, <4>3
    <3> QED BY <3>1, <3>2
  <2>7. PICK l, p \in Nat : l = k + 1 /\ p = E + 1 /\ p - 1 = E OBVIOUS
  <2>8. Len(attributes') = l /\ offset' = p BY <1>1, <2>1, <2>5, <2>7
  <2>9. p \in 2 .. L - 1 BY <2>3, <2>4, <2>7 DEF IsLine
  <2>10. buf[p - 1] = CR /\ buf[p] = LF BY <2>4, <2>7 DEF IsLine
  <2>11. Ends(p - 1)' = l + 1
    <3>1. Ends(p - 1) = l + 1 BY <2>4, <2>7
    <3> QED BY <1>1, <3>1, SameLines
  <2>12. \A i \in 1 .. l : IsAttribute(attributes'[i], Line(i)')
    BY <1>1, <2>6, <2>7, SameLines
  <2>13. \A i \in 1 .. l : IsAttribute(attributes[i], Line(i))'
    BY <2>12 DEF IsAttribute
  <2> QED BY <1>1, <2>1, <2>8, <2>9, <2>10, <2>11, <2>13 DEF AtLine
<1>8. PartsInv' BY <1>1 DEF PartsInv
<1>9. TripInv' BY RoundTrips
<1> QED BY <1>3, <1>4, <1>5, <1>6, <1>7, <1>8, <1>9 DEF Inv

(* A blank line is the last one in a header that is well formed.           *)
LEMMA LastLine ==
  ASSUME buf \in Strings, Closed(buf), WellFormed, NEW k \in Nat,
         NEW o \in Nat, NEW L \in Nat, L = Len(buf), o \in 2 .. L - 1,
         buf[o - 1] = CR, buf[o] = LF, Ends(o - 1) = k + 1, buf[o + 1] = CR
  PROVE  k = Ends(L) - 2
<1>1. L >= 4 /\ buf[L - 1] = CR /\ buf[L] = LF BY Ended
<1>2. PICK E, q \in Nat : E = o + 1 /\ q = o - 1 /\ E - 1 = o OBVIOUS
<1>3. E < L
  <2>1. E \in DOMAIN buf BY <1>2, TextIs
  <2> QED BY <1>2, <2>1 DEF WellFormed, Clean
<1>4. Ends(E) = k + 2
  <2>1. ASSUME NEW i \in q + 1 .. E - 1 PROVE buf[i] # CR
    <3>1. i = o BY <1>2
    <3> QED BY <3>1, Codes
  <2>2. q < E /\ buf[E] = CR BY <1>2
  <2>3. Ends(E) = Ends(q) + 1 BY <2>1, <2>2, EndsOne
  <2>4. Ends(q) = k + 1 BY <1>2
  <2> QED BY <2>3, <2>4
<1>5. PICK m \in Nat : m = L - 1 /\ buf[m] = CR /\ m < L BY <1>1
<1>6. Ends(L) = Ends(m)
  <2>1. ASSUME NEW i \in m + 1 .. L PROVE buf[i] # CR
    <3>1. i = L BY <1>5
    <3> QED BY <1>1, <3>1, Codes
  <2> QED BY <1>5, <2>1, EndsNone
<1>7. E = m
  <2>1. SUFFICES ASSUME E # m PROVE FALSE OBVIOUS
  <2>2. E < m BY <1>3, <1>5, <2>1
  <2>3. k + 1 \in Lines
    <3>1. Ends(E) < Ends(m) BY <1>5, <2>2, EndsMore
    <3>2. Ends(L) \in Nat BY EndsType
    <3>3. k + 2 < Ends(L) BY <1>4, <1>6, <3>1
    <3> QED BY <3>2, <3>3 DEF Lines
  <2>4. Line(k + 1) = SubSeq(buf, o + 1, o)
    <3>1. LineEnd(k + 1) = o - 1
      <4>1. o - 1 \in 1 .. Len(buf) OBVIOUS
      <4>2. LineEnd(Ends(o - 1)) = o - 1 BY <4>1, LineEndIs
      <4> QED BY <4>2
    <3>2. LineEnd(k + 1 + 1) = E
      <4>1. E \in 1 .. Len(buf) /\ buf[E] = CR BY <1>2, <1>3
      <4>2. LineEnd(Ends(E)) = E BY <4>1, LineEndIs
      <4>3. Ends(E) = k + 1 + 1 BY <1>4
      <4> QED BY <4>2, <4>3
    <3>3. o - 1 + 2 = o + 1 OBVIOUS
    <3> QED BY <1>2, <3>1, <3>2, <3>3 DEF Line
  <2>5. Has(Line(k + 1), Colon) BY <2>3 DEF WellFormed
  <2>6. E >= 1 /\ E <= o + 1 /\ o <= Len(buf) /\ o + 1 - E = 0 BY <1>2
  <2>7. SubSeq(buf, E, o) \in Strings /\ Len(SubSeq(buf, E, o)) = 0
    BY <2>6, Piece
  <2>8. DOMAIN SubSeq(buf, E, o) = 1 .. 0 BY <2>7, TextIs
  <2>9. Line(k + 1) = SubSeq(buf, E, o) BY <1>2, <2>4
  <2> QED BY <2>5, <2>8, <2>9 DEF Has
<1>8. Ends(L) = k + 2 BY <1>4, <1>6, <1>7
<1> QED BY <1>8

(* DecodeEnd has all lines read.                                           *)
LEMMA EndsLines ==
  ASSUME Inv, DecodeEnd
  PROVE  Inv'
<1>1. /\ phase = "decode" /\ phase' = "title" /\ offset # 0 /\ offset' = 0
      /\ msg' = msg /\ size' = size /\ buf' = buf /\ title' = title
      /\ attributes' = attributes /\ buf[offset + 1] = CR
  BY DEF DecodeEnd, At
<1>2. /\ buf \in Strings /\ attributes \in Seq(Attribute) /\ title \in Strings
      /\ msg \in Messages \cup {NoMessage} /\ Closed(buf)
  BY <1>1 DEF Inv, TypeInv, TextInv
<1>3. TypeInv' BY <1>1, <1>2 DEF TypeInv, Phases
<1>4. EncodeInv' BY <1>1 DEF EncodeInv
<1>5. TextInv' BY <1>1, TextStays DEF Inv
<1>6. TitleInv'
  <2>1. FirstLine(buf, title) BY <1>1 DEF Inv, TitleInv, Titled
  <2> QED BY <1>1, <2>1 DEF TitleInv
<1>7. PICK k, L \in Nat : k = Len(attributes) /\ L = Len(buf) /\ L < Wrap
                          /\ buf[L - 1] = CR
  BY <1>2, Ended
<1>8. LinesInv'
  <2> SUFFICES ASSUME WellFormed
               PROVE  /\ Len(attributes') = Ends(Len(buf))' - 2
                      /\ \A i \in 1 .. Len(attributes') :
                            IsAttribute(attributes[i], Line(i))'
    BY <1>1, SameLines DEF LinesInv
  <2>1. AtLine(k) BY <1>1, <1>7 DEF Inv, LinesInv
  <2>2. PICK o \in Nat : /\ o = offset /\ o \in 2 .. L - 1
                         /\ buf[o - 1] = CR /\ buf[o] = LF /\ buf[o + 1] = CR
                         /\ Ends(o - 1) = k + 1
    BY <1>1, <1>7, <2>1 DEF AtLine
  <2>3. k = Ends(L) - 2 BY <1>2, <1>7, <2>2, LastLine
  <2>4. Len(attributes') = Ends(Len(buf))' - 2
    BY <1>1, <1>7, <2>3, SameLines
  <2>5. \A i \in 1 .. k : IsAttribute(attributes[i], Line(i))
    BY <2>1 DEF AtLine
  <2>6. \A i \in 1 .. k : IsAttribute(attributes'[i], Line(i)')
    BY <1>1, <2>5, SameLines
  <2>7. \A i \in 1 .. Len(attributes') : IsAttribute(attributes[i], Line(i))'
    BY <1>1, <1>7, <2>6 DEF IsAttribute
  <2> QED BY <2>4, <2>7
<1>9. PartsInv' BY <1>1 DEF PartsInv
<1>10. TripInv'
  <2> SUFFICES ASSUME msg # NoMessage, ~Has(msg.title, CR)
               PROVE  \/ (\E i \in DOMAIN msg.attributes : Lost(i))'
                      \/ /\ Same(Len(attributes))'
                         /\ Len(attributes') = Len(msg.attributes)
    BY <1>1 DEF TripInv, Decoded
  <2>1. msg \in Messages /\ Written(buf, msg, Len(msg.attributes))
    BY <1>1, <1>2 DEF Inv, TextInv
  <2>2. CASE \E i \in DOMAIN msg.attributes : Lost(i)
    <3>1. ReadsOn BY <1>1, <1>7 DEF ReadsOn, Decoded
    <3>2. attributes' \in Seq(Attribute) BY <1>1, <1>2
    <3> QED BY <1>2, <2>1, <2>2, <3>1, <3>2, StaysLost
  <2>3. CASE ~\E i \in DOMAIN msg.attributes : Lost(i)
    <3>1. PICK N \in Nat : N = Len(msg.attributes) BY <2>1, MessageIs
    <3>2. Same(k) /\ offset = Start(msg, k)
      BY <1>1, <1>7, <2>1, <2>3 DEF Inv, TripInv
    <3>3. k <= N BY <3>1, <3>2 DEF Same
    <3>4. CASE k = N
      <4>1. Same(Len(attributes))' BY <1>1, <1>7, <3>2 DEF Same
      <4> QED BY <1>1, <1>7, <3>1, <3>4, <4>1
    <3>5. CASE k # N
      <4>1. PICK l \in 1 .. N : l = k + 1 /\ l - 1 = k
        <5>1. k + 1 \in 1 .. N /\ (k + 1) - 1 = k BY <3>3, <3>5
        <5> QED BY <5>1
      <4>2. PICK attr \in Attribute : attr = msg.attributes[l]
        BY <2>1, <3>1, MessageIs
      <4>3. Lays(buf, offset, attr)
        BY <2>1, <3>1, <3>2, <4>1, <4>2 DEF Written
      <4>4. ~Sendable(attr)
        <5>1. PICK o \in Nat : o = offset BY DEF Inv, TypeInv
        <5>2. PICK F, V \in Strings : \E n, v, M \in Nat :
                 LineOf(buf, o, attr, F, V, n, v, M)
          BY <1>2, <4>3, <5>1, LineOfIs
        <5>3. PICK n, v, M \in Nat : LineOf(buf, o, attr, F, V, n, v, M)
          BY <5>2
        <5>4. CASE n = 0
          <6>1. buf[o + 1] = Colon
            <7>1. o + n + 1 = o + 1 BY <5>4
            <7> QED BY <5>3, <7>1 DEF LineOf
          <6> QED BY <1>1, <5>1, <6>1, Codes
        <5>5. CASE n # 0
          <6>1. PICK one \in 1 .. n : one = 1 BY <5>5
          <6>2. F[one] = CR
            <7>1. buf[o + one] = F[one] BY <5>3 DEF LineOf
            <7> QED BY <1>1, <5>1, <6>1, <7>1
          <6>3. attr.name \in Strings /\ Len(attr.name) = n
                /\ F = header_key_formalize(attr.name)
            BY <5>3 DEF Attribute, LineOf
          <6>4. DOMAIN attr.name = 1 .. n BY <6>3, TextIs
          <6>5. PICK x \in 0 .. 255 : x = attr.name[one] BY <6>3, TextIs
          <6>6. F[one] = (x - 32) % 256 BY <6>1, <6>3, <6>5, FormalType
          <6>7. x = 45 BY <6>2, <6>6 DEF CR
          <6>8. attr.name[one] \notin 96 .. 122 BY <6>5, <6>7
          <6>9. ~Capitalizable(attr.name)
            <7>1. one \in DOMAIN attr.name BY <6>4, Zenon
            <7>2. Capitalizable(attr.name) =>
                     (one = 1 \/ attr.name[one - 1] = Dash
                         => attr.name[one] \in 96 .. 122)
              BY <7>1, Zenon DEF Capitalizable
            <7> QED BY <6>1, <6>8, <7>2
          <6> QED BY <6>9 DEF Sendable
        <5> QED BY <5>4, <5>5
      <4>5. Lost(l)' BY <1>1, <1>7, <4>1, <4>2, <4>4 DEF Lost, Decoded
      <4>6. l \in DOMAIN msg'.attributes BY <1>1, <2>1, <3>1, MessageIs
      <4> QED BY <4>5, <4>6
    <3> QED BY <3>4, <3>5
  <2> QED BY <2>2, <2>3
<1> QED BY <1>3, <1>4, <1>5, <1>6, <1>8, <1>9, <1>10 DEF Inv

-----------------------------------------------------------------------------
(* Taking the title apart.                                                 *)

(* A piece is cut in two.                                                  *)
Splits(s, m, p, r, n) == SubSeq(s, m, n) = SubSeq(s, m, p) \o SubSeq(s, r, n)

(* It can be, anywhere.                                                    *)
LEMMA Split ==
  ASSUME NEW s \in Strings, NEW m \in Nat, NEW p \in Nat, NEW n \in Nat,
         NEW r \in Nat, m >= 1, m <= r, r = p + 1, p <= n, n <= Len(s)
  PROVE  Splits(s, m, p, r, n)
<1>1. PICK a, k, l \in Nat : a = m - 1 /\ k = p - a /\ l = n - p
  OBVIOUS
<1>2. PICK x \in Strings : IsPiece(x, s, a, p, m, k)
  <2>1. p <= Len(s) /\ a + k = p /\ m = a + 1 BY <1>1, TextIs
  <2> QED BY <2>1, PieceOf
<1>3. PICK y \in Strings : IsPiece(y, s, p, n, r, l)
  <2>1. p + l = n BY <1>1
  <2> QED BY <1>1, <2>1, PieceOf
<1>4. PICK K \in Nat : K = k + l /\ a + K = n BY <1>1
<1>5. PICK z \in Strings : IsPiece(z, s, a, n, m, K)
  <2>1. m = a + 1 BY <1>1
  <2> QED BY <1>4, <2>1, PieceOf
<1>6. PICK c : c = x \o y OBVIOUS
<1>7. Joins(c, x, y, k, l)
  <2>1. k = Len(x) /\ l = Len(y) BY <1>2, <1>3 DEF IsPiece
  <2> QED BY <1>6, <2>1, Joined
<1>8. c \in Strings /\ Len(c) = K /\ Len(z) = K
  BY <1>4, <1>5, <1>7 DEF Joins, IsPiece
<1>9. ASSUME NEW i \in 1 .. K PROVE z[i] = c[i]
  <2>1. z[i] = s[a + i] BY <1>5 DEF IsPiece, Behind
  <2>2. CASE i <= k
    <3>1. i \in 1 .. k BY <2>2
    <3>2. c[i] = x[i] BY <1>7, <3>1 DEF Joins
    <3>3. x[i] = s[a + i] BY <1>2, <3>1 DEF IsPiece, Behind
    <3> QED BY <2>1, <3>2, <3>3
  <2>3. CASE i > k
    <3>1. PICK j \in 1 .. l : i = k + j /\ p + j = a + i
      <4>1. i - k \in 1 .. l /\ i = k + (i - k) /\ p + (i - k) = a + i
        BY <1>1, <1>4, <2>3
      <4> QED BY <4>1
    <3>2. c[k + j] = y[j] BY <1>7 DEF Joins
    <3>3. y[j] = s[p + j] BY <1>3 DEF IsPiece, Behind
    <3> QED BY <2>1, <3>1, <3>2, <3>3
  <2> QED BY <2>2, <2>3
<1>10. z = c BY <1>8, <1>9, SameText
<1>11. z = SubSeq(s, m, n) /\ x = SubSeq(s, m, p) /\ y = SubSeq(s, r, n)
  BY <1>2, <1>3, <1>5 DEF IsPiece
<1> QED BY <1>6, <1>10, <1>11 DEF Splits

(* A text of one byte                                                      *)
LEMMA One ==
  \A x \in 0 .. 255 : <<x>> \in Strings /\ Len(<<x>>) = 1
                      /\ \A i \in 1 .. 1 : <<x>>[i] = x
BY DEF Strings

(* is the piece of one byte,                                               *)
LEMMA Single ==
  ASSUME NEW s \in Strings, NEW p \in Nat, p >= 1, p <= Len(s)
  PROVE  SubSeq(s, p, p) = <<s[p]>>
<1>1. PICK a, k, q \in Nat : a = p - 1 /\ k = 1 /\ q = p OBVIOUS
<1>2. PICK t \in Strings : IsPiece(t, s, a, q, p, k)
  <2>1. q <= Len(s) /\ a + k = q /\ p = a + 1 BY <1>1
  <2> QED BY <2>1, PieceOf
<1>3. PICK x \in 0 .. 255 : x = s[p]
  <2>1. p \in 1 .. Len(s) BY TextIs
  <2> QED BY <2>1, TextIs
<1>4. ASSUME NEW i \in 1 .. k PROVE t[i] = <<x>>[i]
  <2>1. a + i = p BY <1>1
  <2>2. t[i] = s[a + i] BY <1>2 DEF IsPiece, Behind
  <2>3. <<x>>[i] = x BY <1>1, One
  <2> QED BY <1>3, <2>1, <2>2, <2>3
<1>5. <<x>> \in Strings /\ Len(<<x>>) = k BY <1>1, One
<1>6. t = SubSeq(s, p, p) /\ Len(t) = k BY <1>1, <1>2 DEF IsPiece
<1>7. t = <<x>> BY <1>4, <1>5, <1>6, SameText
<1> QED BY <1>3, <1>6, <1>7

(* and the whole text the piece of all.                                    *)
LEMMA Whole == \A s \in Strings : SubSeq(s, 1, Len(s)) = s
<1> SUFFICES ASSUME NEW s \in Strings PROVE SubSeq(s, 1, Len(s)) = s
  OBVIOUS
<1>1. PICK zero, one, n \in Nat : zero = 0 /\ one = 1 /\ n = Len(s)
  BY TextIs
<1>2. n <= Len(s) /\ zero + n = n /\ one = zero + 1 BY <1>1
<1>3. Behind(s, zero, s, n)
  <2>1. \A i \in 1 .. n : zero + i = i BY <1>1
  <2> QED BY <2>1 DEF Behind
<1>4. SubSeq(s, one, n) = s BY <1>1, <1>2, <1>3, PieceIs
<1> QED BY <1>1, <1>4

(* A text has no character its piece has, where there is none.             *)
LEMMA PieceHas ==
  ASSUME NEW s \in Strings, NEW m \in Nat, NEW n \in Nat, m >= 1, m <= n + 1,
         n <= Len(s), NEW char, \A i \in m .. n : s[i] # char
  PROVE  ~Has(SubSeq(s, m, n), char)
<1>1. PICK k \in Nat : k = n + 1 - m OBVIOUS
<1>2. /\ SubSeq(s, m, n) \in Strings /\ Len(SubSeq(s, m, n)) = k
      /\ \A i \in 1 .. k : SubSeq(s, m, n)[i] = s[m + i - 1]
  BY <1>1, Piece
<1>3. DOMAIN SubSeq(s, m, n) = 1 .. k BY <1>2, TextIs
<1>4. ASSUME NEW i \in 1 .. k PROVE SubSeq(s, m, n)[i] # char
  <2>1. m + i - 1 \in m .. n BY <1>1
  <2> QED BY <1>2, <2>1
<1> QED BY <1>3, <1>4 DEF Has

(* A space at these two places and no other, and the question marks in     *)
(* between.                                                                *)
SoundAt(i, j) ==
    /\ i < j
    /\ \A n \in DOMAIN title :
          /\ title[n] = Space <=> n \in {i, j}
          /\ title[n] = Question => i < n /\ n < j

(* Where the url ends: at the first question mark or at the second space.  *)
EndsAt(asked, u, i, j) ==
    /\ u \in i + 1 .. j
    /\ asked => /\ u < j /\ title[u] = Question
                /\ \A n \in i + 1 .. u - 1 : title[n] # Question
    /\ ~asked => u = j

(* The positions found in a sound title are those of its spaces and of its *)
(* first question mark.                                                    *)
LEMMA FindsCuts ==
  ASSUME title \in Strings, NEW T \in Nat, T = Len(title), T < Wrap - 1,
         ~Has(title, CR), NEW i \in 1 .. T, NEW j \in 1 .. T, SoundAt(i, j),
         NEW asked \in BOOLEAN, NEW u \in Nat, EndsAt(asked, u, i, j)
  PROVE  Cuts(asked) = [method |-> <<0, i - 1>>, url |-> <<i, u - 1>>,
                        query |-> IF asked THEN <<u, j - 1>> ELSE <<0, 0>>,
                        version |-> <<j, npos>>]
<1>1. PICK b, e, l \in Nat : /\ b = i - 1 /\ b + 1 = i /\ e = u - 1 /\ e + 1 = u
                             /\ l = j - 1 /\ l + 1 = j
  <2>1. i - 1 \in Nat /\ u - 1 \in Nat /\ j - 1 \in Nat BY DEF EndsAt
  <2> QED BY <2>1
<1>2. /\ i < j /\ i < u /\ u <= j /\ i \in Nat /\ j \in Nat /\ j <= T
  BY DEF SoundAt, EndsAt
<1>3. \A n \in 1 .. T : /\ title[n] = Space <=> (n = i \/ n = j)
                        /\ title[n] = Question => i < n /\ n < j
                        /\ title[n] # CR
  <2>1. DOMAIN title = 1 .. T BY TextIs
  <2> QED BY <2>1 DEF SoundAt, Has
<1>4. find(title, Space, 0) = b
  <2>1. b \in 0 .. Len(title) - 1 BY <1>1, <1>2
  <2>2. title[b + 1] = Space BY <1>1, <1>3
  <2>3. \A n \in 0 + 1 .. b : title[n] # Space BY <1>1, <1>2, <1>3
  <2>4. Found(title, b, 0, Space) BY <2>1, <2>2, <2>3 DEF Found
  <2> QED BY <2>4, FindIs, Codes
<1>5. Plus(b, 1) = i
  <2>1. b + 1 < Wrap BY <1>1, <1>2, WrapAssumption
  <2>2. Plus(b, 1) = b + 1 BY <2>1, Positions
  <2> QED BY <1>1, <2>2
<1>6. find(title, IF asked THEN Question ELSE Space, i) = e
  <2>1. e \in i .. Len(title) - 1 BY <1>1, <1>2
  <2>2. CASE asked
    <3>1. title[e + 1] = Question BY <1>1, <2>2 DEF EndsAt
    <3>2. \A n \in i + 1 .. e : title[n] # Question BY <1>1, <2>2 DEF EndsAt
    <3>3. Found(title, e, i, Question) BY <2>1, <3>1, <3>2 DEF Found
    <3>4. find(title, Question, i) = e BY <1>2, <3>3, FindIs, Codes
    <3> QED BY <2>2, <3>4
  <2>3. CASE ~asked
    <3>1. e + 1 = j BY <1>1, <2>3 DEF EndsAt
    <3>2. title[e + 1] = Space BY <1>3, <3>1
    <3>3. \A n \in i + 1 .. e : title[n] # Space BY <1>1, <1>2, <1>3, <3>1
    <3>4. Found(title, e, i, Space) BY <2>1, <3>2, <3>3 DEF Found
    <3>5. find(title, Space, i) = e BY <1>2, <3>4, FindIs, Codes
    <3> QED BY <2>3, <3>5
  <2> QED BY <2>2, <2>3
<1>7. Plus(e, 1) = u
  <2>1. e + 1 < Wrap BY <1>1, <1>2, WrapAssumption
  <2>2. Plus(e, 1) = e + 1 BY <2>1, Positions
  <2> QED BY <1>1, <2>2
<1>8. ASSUME asked PROVE find(title, Space, u) = l
  <2>1. u < j BY <1>8 DEF EndsAt
  <2>2. l \in u .. Len(title) - 1 BY <1>1, <1>2, <2>1
  <2>3. title[l + 1] = Space BY <1>1, <1>3
  <2>4. \A n \in u + 1 .. l : title[n] # Space BY <1>1, <1>2, <1>3
  <2>5. Found(title, l, u, Space) BY <2>2, <2>3, <2>4 DEF Found
  <2> QED BY <2>5, FindIs, Codes
<1>9. Plus(l, 1) = j
  <2>1. l + 1 < Wrap BY <1>1, <1>2, WrapAssumption
  <2>2. Plus(l, 1) = l + 1 BY <2>1, Positions
  <2> QED BY <1>1, <2>2
<1>10. find(title, CR, j) = npos
  <2>1. \A n \in j + 1 .. Len(title) : title[n] # CR BY <1>2, <1>3
  <2> QED BY <1>2, <2>1, FindNone, Codes
<1>11. CASE asked
  BY <1>1, <1>4, <1>5, <1>6, <1>7, <1>8, <1>9, <1>10, <1>11 DEF Cuts
<1>12. CASE ~asked
  <2>1. e = l BY <1>1, <1>12 DEF EndsAt
  <2> QED BY <1>1, <1>4, <1>5, <1>6, <1>7, <1>9, <1>10, <1>12, <2>1 DEF Cuts
<1> QED BY <1>11, <1>12

(* What is cut there.                                                      *)
LEMMA CutIs ==
  ASSUME title \in Strings, Len(title) < npos
  PROVE  /\ \A x, y \in Nat :
               x <= y /\ y <= Len(title) => Cut(<<x, y>>) = SubSeq(title, x + 1, y)
         /\ \A x \in Nat :
               x <= Len(title) => Cut(<<x, npos>>) = SubSeq(title, x + 1, Len(title))
<1>1. PICK T \in Nat : T = Len(title) BY TextIs
<1>2. npos \in Nat /\ npos < Wrap /\ Wrap \in Nat BY WrapAssumption DEF npos
<1>3. ASSUME NEW x \in Nat, NEW y \in Nat
      PROVE  Cut(<<x, y>>) = substr(title, x, Minus(y, x))
  BY DEF Cut
<1>4. ASSUME NEW x \in Nat, NEW y \in Nat, x <= y, y <= Len(title)
      PROVE  Cut(<<x, y>>) = SubSeq(title, x + 1, y)
  <2>1. PICK n \in Nat : n = y - x /\ x + n = y /\ y < Wrap
    <3>1. y < Wrap BY <1>1, <1>2, <1>4
    <3>2. y - x \in Nat /\ x + (y - x) = y BY <1>4
    <3> QED BY <3>1, <3>2
  <2>2. Minus(y, x) = y - x BY <1>4, <2>1, Positions
  <2>3. substr(title, x, n) = SubSeq(title, x + 1, x + n)
    BY <1>4, <2>1, SubstrIs
  <2> QED BY <1>3, <2>1, <2>2, <2>3
<1>5. ASSUME NEW x \in Nat, x <= Len(title)
      PROVE  Cut(<<x, npos>>) = SubSeq(title, x + 1, Len(title))
  <2>1. PICK n \in Nat : n = npos - x /\ x + n = npos BY <1>1, <1>2, <1>5
  <2>2. Minus(npos, x) = npos - x
    <3>1. x <= npos BY <1>1, <1>2, <1>5
    <3> QED BY <1>2, <3>1, Positions
  <2>3. x + n >= Len(title) BY <1>1, <1>2, <2>1
  <2>4. substr(title, x, n) = SubSeq(title, x + 1, Len(title))
    BY <2>3, SubstrRest
  <2> QED BY <1>2, <1>3, <2>1, <2>2, <2>4
<1> QED BY <1>4, <1>5

(* The parts of a sound title, put together, are the title.                *)
Together(parts) ==
    LET target == parts.url \o (IF Has(title, Question)
                                THEN <<Question>> \o parts.query ELSE <<>>)
    IN /\ title = parts.method \o <<Space>> \o target
                               \o <<Space>> \o parts.version
       /\ ~Has(parts.method, Space) /\ ~Has(parts.version, Space)
       /\ ~Has(parts.url, Question)
       /\ Has(title, Question) \/ parts.query = <<>>

(* Nothing is added.                                                       *)
LEMMA NoMore == \A s \in Strings : s \o <<>> = s
<1> SUFFICES ASSUME NEW s \in Strings PROVE s \o <<>> = s OBVIOUS
<1>1. s \in Seq(0 .. 255) BY DEF Strings
<1> QED BY <1>1

(* The parts lie between the spaces, and the url ends at u.                *)
PartsAre(parts, i, u, j) ==
    /\ parts.method = SubSeq(title, 1, i - 1)
    /\ parts.url = SubSeq(title, i + 1, u - 1)
    /\ parts.query = IF Has(title, Question) THEN SubSeq(title, u + 1, j - 1)
                                              ELSE <<>>
    /\ parts.version = SubSeq(title, j + 1, Len(title))

(* Such parts are those of the title.                                      *)
LEMMA PutTogether ==
  ASSUME title \in Strings, NEW T \in Nat, T = Len(title),
         NEW i \in 1 .. T, NEW j \in 1 .. T, SoundAt(i, j),
         NEW u \in Nat, EndsAt(Has(title, Question), u, i, j),
         NEW parts, PartsAre(parts, i, u, j)
  PROVE  Together(parts)
<1>1. /\ i < j /\ i < u /\ u <= j /\ i \in Nat /\ j \in Nat /\ j <= T
  BY DEF SoundAt, EndsAt
<1>2. PICK one, a, b, c \in Nat :
         one = 1 /\ a = i - 1 /\ b = j - 1 /\ c = u - 1
         /\ a + 1 = i /\ b + 1 = j /\ c + 1 = u
  <2>1. i - 1 \in Nat /\ j - 1 \in Nat /\ u - 1 \in Nat BY <1>1
  <2> QED BY <2>1
<1>3. /\ DOMAIN title = 1 .. T
      /\ \A n \in 1 .. T : /\ title[n] = Space <=> (n = i \/ n = j)
                           /\ title[n] = Question => i < n /\ n < j
  <2>1. DOMAIN title = 1 .. T BY TextIs
  <2> QED BY <2>1 DEF SoundAt
<1>4. SubSeq(title, one, T) = title BY <1>2, Whole
<1>5. SubSeq(title, one, T) = SubSeq(title, one, j) \o SubSeq(title, j + 1, T)
  <2>1. PICK r \in Nat : r = j + 1 OBVIOUS
  <2>2. one >= 1 /\ one <= r /\ j <= T /\ T <= Len(title)
    BY <1>1, <1>2, <2>1
  <2>3. Splits(title, one, j, r, T) BY <1>1, <2>1, <2>2, Split
  <2> QED BY <2>1, <2>3 DEF Splits
<1>6. SubSeq(title, one, j) = SubSeq(title, one, b) \o <<Space>>
  <2>1. Splits(title, one, b, j, j)
    <3>1. one >= 1 /\ one <= j /\ j = b + 1 /\ b <= j /\ j <= Len(title)
      BY <1>1, <1>2
    <3> QED BY <1>1, <3>1, Split
  <2>2. SubSeq(title, j, j) = <<title[j]>>
    <3>1. j >= 1 /\ j <= Len(title) BY <1>1
    <3> QED BY <1>1, <3>1, Single
  <2>3. title[j] = Space BY <1>1, <1>3
  <2> QED BY <2>1, <2>2, <2>3 DEF Splits
<1>7. SubSeq(title, one, b) = SubSeq(title, one, i) \o SubSeq(title, i + 1, b)
  <2>1. PICK r \in Nat : r = i + 1 OBVIOUS
  <2>2. one >= 1 /\ one <= r /\ i <= b /\ b <= Len(title)
    BY <1>1, <1>2, <2>1
  <2>3. Splits(title, one, i, r, b) BY <1>1, <2>1, <2>2, Split
  <2> QED BY <2>1, <2>3 DEF Splits
<1>8. SubSeq(title, one, i) = SubSeq(title, one, a) \o <<Space>>
  <2>1. Splits(title, one, a, i, i)
    <3>1. one >= 1 /\ one <= i /\ i = a + 1 /\ a <= i /\ i <= Len(title)
      BY <1>1, <1>2
    <3> QED BY <1>1, <3>1, Split
  <2>2. SubSeq(title, i, i) = <<title[i]>>
    <3>1. i >= 1 /\ i <= Len(title) BY <1>1
    <3> QED BY <1>1, <3>1, Single
  <2>3. title[i] = Space BY <1>1, <1>3
  <2> QED BY <2>1, <2>2, <2>3 DEF Splits
<1> DEFINE target == parts.url \o (IF Has(title, Question)
                                   THEN <<Question>> \o parts.query ELSE <<>>)
<1>9. SubSeq(title, i + 1, b) = target
  <2>1. CASE Has(title, Question)
    <3>1. u < j /\ title[u] = Question BY <2>1 DEF EndsAt
    <3>2. SubSeq(title, i + 1, b) = SubSeq(title, i + 1, c) \o SubSeq(title, u, b)
      <4>1. PICK m \in Nat : m = i + 1 OBVIOUS
      <4>2. m >= 1 /\ m <= u /\ u = c + 1 /\ c <= b /\ b <= Len(title)
        BY <1>1, <1>2, <3>1, <4>1
      <4>3. Splits(title, m, c, u, b) BY <4>2, Split
      <4> QED BY <4>1, <4>3 DEF Splits
    <3>3. SubSeq(title, u, b) = SubSeq(title, u, u) \o SubSeq(title, u + 1, b)
      <4>1. PICK r \in Nat : r = u + 1 OBVIOUS
      <4>2. u >= 1 /\ u <= r /\ u <= b /\ b <= Len(title)
        BY <1>1, <1>2, <3>1, <4>1
      <4>3. Splits(title, u, u, r, b) BY <4>1, <4>2, Split
      <4> QED BY <4>1, <4>3 DEF Splits
    <3>4. SubSeq(title, u, u) = <<Question>> BY <1>1, <3>1, Single
    <3>5. parts.query = SubSeq(title, u + 1, b)
          /\ parts.url = SubSeq(title, i + 1, c)
      BY <1>2, <2>1 DEF PartsAre
    <3>6. target = parts.url \o (<<Question>> \o parts.query) BY <2>1
    <3> QED BY <1>2, <3>2, <3>3, <3>4, <3>5, <3>6
  <2>2. CASE ~Has(title, Question)
    <3>1. u = j BY <2>2 DEF EndsAt
    <3>2. c = b BY <1>2, <3>1
    <3>3. parts.url = SubSeq(title, i + 1, b) BY <1>2, <3>2 DEF PartsAre
    <3>4. SubSeq(title, i + 1, b) \in Strings
      <4>1. PICK m \in Nat : m = i + 1 OBVIOUS
      <4>2. m >= 1 /\ m <= b + 1 /\ b <= Len(title) BY <1>1, <1>2, <4>1
      <4> QED BY <4>1, <4>2, Piece
    <3>5. target = SubSeq(title, i + 1, b) \o <<>> BY <2>2, <3>3
    <3> QED BY <3>4, <3>5, NoMore
  <2> QED BY <2>1, <2>2
<1> HIDE DEF target
<1>10. parts.method = SubSeq(title, one, a) BY <1>2 DEF PartsAre
<1>11. parts.version = SubSeq(title, j + 1, T) BY DEF PartsAre
<1>12. title = parts.method \o <<Space>> \o target \o <<Space>> \o parts.version
  BY <1>4, <1>5, <1>6, <1>7, <1>8, <1>9, <1>10, <1>11, Zenon
<1>13. ~Has(parts.method, Space)
  <2>1. one >= 1 /\ one <= a + 1 /\ a <= Len(title) BY <1>1, <1>2
  <2>2. ASSUME NEW n \in one .. a PROVE title[n] # Space
    <3>1. n \in 1 .. T /\ n # i /\ n # j BY <1>1, <1>2
    <3> QED BY <1>3, <3>1
  <2> QED BY <1>10, <2>1, <2>2, PieceHas
<1>14. ~Has(parts.version, Space)
  <2>1. PICK m \in Nat : m = j + 1 OBVIOUS
  <2>2. m >= 1 /\ m <= T + 1 /\ T <= Len(title) BY <1>1, <2>1
  <2>3. \A n \in m .. T : title[n] # Space BY <1>1, <1>3, <2>1
  <2>4. ~Has(SubSeq(title, m, T), Space) BY <2>2, <2>3, PieceHas
  <2> QED BY <1>11, <2>1, <2>4
<1>15. ~Has(parts.url, Question)
  <2>1. PICK m \in Nat : m = i + 1 OBVIOUS
  <2>2. m >= 1 /\ m <= c + 1 /\ c <= Len(title) BY <1>1, <1>2, <2>1
  <2>3. \A n \in m .. c : title[n] # Question
    <3>1. CASE Has(title, Question) BY <1>2, <2>1, <3>1 DEF EndsAt
    <3>2. CASE ~Has(title, Question)
      <4>1. \A n \in 1 .. T : title[n] # Question BY <1>3, <3>2 DEF Has
      <4>2. \A n \in m .. c : n \in 1 .. T BY <1>1, <1>2, <2>1
      <4> QED BY <4>1, <4>2
    <3> QED BY <3>1, <3>2
  <2>4. ~Has(SubSeq(title, m, c), Question) BY <2>2, <2>3, PieceHas
  <2> QED BY <1>2, <2>1, <2>4 DEF PartsAre
<1>16. Has(title, Question) \/ parts.query = <<>> BY DEF PartsAre
<1> QED BY <1>12, <1>13, <1>14, <1>15, <1>16 DEF Together, target

(* The title has two spaces that are sound;                                *)
Sound == \E i, j \in DOMAIN title : SoundAt(i, j)

(* that is the precondition the grammar has.                               *)
LEMMA GrammarIs == (Sound => Together(request)) => TitleAsGrammar
BY DEF Sound, SoundAt, Together, TitleAsGrammar

(* The title has no line end.                                              *)
LEMMA NoEnd ==
  ASSUME buf \in Strings, FirstLine(buf, title)
  PROVE  ~Has(title, CR)
<1>1. PICK e \in 1 .. Len(buf) :
         /\ \A i \in 1 .. e - 1 : buf[i] # CR
         /\ title = SubSeq(buf, 1, e - 1)
  BY DEF FirstLine
<1>2. PICK p, one \in Nat : p = e - 1 /\ one = 1 /\ p <= Len(buf)
  <2>1. Len(buf) \in Nat BY TextIs
  <2>2. e - 1 \in Nat /\ e - 1 <= Len(buf) BY <2>1
  <2> QED BY <2>2
<1>3. one >= 1 /\ one <= p + 1 /\ \A i \in one .. p : buf[i] # CR
  BY <1>1, <1>2
<1>4. ~Has(SubSeq(buf, one, p), CR) BY <1>2, <1>3, PieceHas
<1> QED BY <1>1, <1>2, <1>4

(* ExtractTitle cuts a sound title at its separators.                      *)
LEMMA CutsTitle ==
  ASSUME Inv, ExtractTitle
  PROVE  Inv'
<1>1. /\ phase = "title" /\ phase' = "done" /\ offset' = offset
      /\ msg' = msg /\ size' = size /\ buf' = buf /\ title' = title
      /\ attributes' = attributes
      /\ request' = [part \in DOMAIN NoRequest |-> Cut(Parts[part])]
  BY DEF ExtractTitle
<1>2. /\ buf \in Strings /\ attributes \in Seq(Attribute) /\ title \in Strings
      /\ offset \in Nat /\ msg \in Messages \cup {NoMessage} /\ Closed(buf)
  BY <1>1 DEF Inv, TypeInv, TextInv
<1>3. TypeInv' BY <1>1, <1>2 DEF TypeInv, Phases
<1>4. EncodeInv' BY <1>1 DEF EncodeInv
<1>5. TextInv' BY <1>1, TextStays DEF Inv
<1>6. FirstLine(buf, title) BY <1>1 DEF Inv, TitleInv, Titled, Decoded
<1>7. TitleInv' BY <1>1, <1>6 DEF TitleInv
<1>8. LinesInv'
  <2> SUFFICES ASSUME WellFormed
               PROVE  /\ Len(attributes') = Ends(Len(buf))' - 2
                      /\ \A i \in 1 .. Len(attributes') :
                            IsAttribute(attributes[i], Line(i))'
    BY <1>1, SameLines DEF LinesInv
  <2>1. /\ Len(attributes) = Ends(Len(buf)) - 2
        /\ \A i \in 1 .. Len(attributes) : IsAttribute(attributes[i], Line(i))
    BY <1>1 DEF Inv, LinesInv, Decoded
  <2>2. Len(attributes') = Ends(Len(buf))' - 2 BY <1>1, <2>1, SameLines
  <2>3. \A i \in 1 .. Len(attributes') : IsAttribute(attributes'[i], Line(i)')
    BY <1>1, <2>1, SameLines
  <2>4. \A i \in 1 .. Len(attributes') : IsAttribute(attributes[i], Line(i))'
    BY <2>3 DEF IsAttribute
  <2> QED BY <2>2, <2>4
<1>9. TripInv'
  <2> SUFFICES ASSUME msg # NoMessage, ~Has(msg.title, CR)
               PROVE  \/ (\E i \in DOMAIN msg.attributes : Lost(i))'
                      \/ /\ Same(Len(attributes))'
                         /\ Len(attributes') = Len(msg.attributes)
    BY <1>1 DEF TripInv, Decoded
  <2>1. msg \in Messages BY <1>1, <1>2 DEF Inv, TextInv
  <2>2. CASE \E i \in DOMAIN msg.attributes : Lost(i)
    <3>1. Len(attributes) <= Len(attributes') BY <1>1, <1>2
    <3>2. ReadsOn BY <1>1, <3>1 DEF ReadsOn, Decoded
    <3>3. attributes' \in Seq(Attribute) BY <1>1, <1>2
    <3> QED BY <1>2, <2>1, <2>2, <3>2, <3>3, StaysLost
  <2>3. CASE ~\E i \in DOMAIN msg.attributes : Lost(i)
    <3>1. Same(Len(attributes)) /\ Len(attributes) = Len(msg.attributes)
      BY <1>1, <2>3 DEF Inv, TripInv, Decoded
    <3>2. Same(Len(attributes))' BY <1>1, <3>1 DEF Same
    <3> QED BY <1>1, <3>1, <3>2
  <2> QED BY <2>2, <2>3
<1>10. PICK T \in Nat : T = Len(title) /\ T < Wrap - 1 /\ T < npos
  <2>1. PICK e \in 1 .. Len(buf) : title = SubSeq(buf, 1, e - 1)
    BY <1>6 DEF FirstLine
  <2>2. PICK L, p, one \in Nat : L = Len(buf) /\ p = e - 1 /\ one = 1 /\ L < Wrap
                                 /\ p < L
    <3>1. PICK L \in Nat : L = Len(buf) /\ L < Wrap BY <1>2, Ended
    <3>2. e - 1 \in Nat /\ e - 1 < L BY <3>1
    <3> QED BY <3>1, <3>2
  <2>3. one >= 1 /\ one <= p + 1 /\ p <= Len(buf) /\ p + 1 - one = p BY <2>2
  <2>4. Len(SubSeq(buf, one, p)) = p BY <1>2, <2>3, Piece
  <2>5. Len(title) = p BY <2>1, <2>2, <2>4
  <2>6. p < Wrap - 1 BY <2>2, WrapAssumption
  <2> QED BY <2>5, <2>6 DEF npos
<1>11. ~Has(title, CR) BY <1>2, <1>6, NoEnd
<1>12. PartsInv'
  <2>1. SUFFICES ASSUME NEW i \in DOMAIN title, NEW j \in DOMAIN title, SoundAt(i, j)
                 PROVE  Together(request')
    <3>1. ((Sound => Together(request)) => TitleAsGrammar)' BY GrammarIs, PTL
    <3>2. Sound' <=> Sound BY <1>1 DEF Sound, SoundAt
    <3>3. Together(request)' <=> Together(request') BY <1>1 DEF Together
    <3> QED BY <2>1, <3>1, <3>2, <3>3 DEF PartsInv, Sound
  <2>2. DOMAIN title = 1 .. T BY <1>2, <1>10, TextIs
  <2>3. i \in 1 .. T /\ j \in 1 .. T /\ i \in Nat /\ j \in Nat BY <2>2
  <2>4. i < j BY <2>1 DEF SoundAt
  <2>5. PICK asked \in BOOLEAN : asked = Has(title, Question) BY DEF Has
  <2>6. PICK u \in Nat : EndsAt(asked, u, i, j)
    <3>1. CASE asked
      <4>1. PICK k \in DOMAIN title : title[k] = Question BY <2>5, <3>1 DEF Has
      <4>2. i < k /\ k < j /\ k \in Nat /\ k <= Len(title)
        BY <1>10, <2>1, <2>2, <4>1 DEF SoundAt
      <4>3. PICK p \in Nat : p < k /\ Found(title, p, i, Question)
        BY <1>2, <2>3, <4>1, <4>2, Search, Codes
      <4>4. /\ i <= p /\ title[p + 1] = Question
            /\ \A n \in i + 1 .. p : title[n] # Question
        BY <1>10, <4>3 DEF Found
      <4>5. PICK v \in Nat : v = p + 1 /\ v - 1 = p OBVIOUS
      <4>6. v \in i + 1 .. j /\ v < j BY <2>3, <4>2, <4>3, <4>4, <4>5
      <4>7. EndsAt(asked, v, i, j) BY <3>1, <4>4, <4>5, <4>6 DEF EndsAt
      <4> QED BY <4>7
    <3>2. CASE ~asked
      <4>1. j \in i + 1 .. j BY <2>3, <2>4
      <4>2. EndsAt(asked, j, i, j) BY <3>2, <4>1 DEF EndsAt
      <4> QED BY <2>3, <4>2
    <3> QED BY <3>1, <3>2
  <2>7. Parts = Cuts(asked)
    <3>1. (find(title, Question, 0) # npos) = asked
      <4>1. CASE asked
        <5>1. PICK k \in DOMAIN title : title[k] = Question BY <2>5, <4>1 DEF Has
        <5>2. PICK zero \in Nat : zero = 0 OBVIOUS
        <5>3. zero < k /\ k <= Len(title) /\ k \in Nat BY <1>10, <2>2, <5>1, <5>2
        <5>4. PICK p \in Nat : p < k /\ Found(title, p, zero, Question)
          BY <1>2, <5>1, <5>3, Search, Codes
        <5>5. find(title, Question, zero) = p BY <1>2, <5>4, FindIs, Codes
        <5>6. p # npos
          <6>1. p < T BY <1>10, <5>3, <5>4
          <6>2. npos \in Nat BY WrapAssumption DEF npos
          <6> QED BY <1>10, <6>1, <6>2
        <5> QED BY <4>1, <5>2, <5>5, <5>6
      <4>2. CASE ~asked
        <5>1. \A n \in 0 + 1 .. Len(title) : title[n] # Question
          BY <1>10, <2>2, <2>5, <4>2 DEF Has
        <5>2. find(title, Question, 0) = npos BY <1>2, <5>1, FindNone, Codes
        <5> QED BY <4>2, <5>2
      <4> QED BY <4>1, <4>2
    <3> QED BY <3>1 DEF Parts
  <2>8. Parts = [method |-> <<0, i - 1>>, url |-> <<i, u - 1>>,
                 query |-> IF asked THEN <<u, j - 1>> ELSE <<0, 0>>,
                 version |-> <<j, npos>>]
    BY <1>2, <1>10, <1>11, <2>1, <2>3, <2>6, <2>7, FindsCuts
  <2>9. /\ request'.method = Cut(Parts.method) /\ request'.url = Cut(Parts.url)
        /\ request'.query = Cut(Parts.query)
        /\ request'.version = Cut(Parts.version)
    BY <1>1 DEF NoRequest
  <2>10. PartsAre(request', i, u, j)
    <3>1. PICK a, c, b, zero \in Nat :
             a = i - 1 /\ c = u - 1 /\ b = j - 1 /\ zero = 0
             /\ i <= c /\ c <= T /\ a <= T /\ b <= T /\ (asked => u <= b)
      <4>1. /\ i - 1 \in Nat /\ u - 1 \in Nat /\ j - 1 \in Nat
            /\ i <= u - 1 /\ u - 1 <= T /\ i - 1 <= T /\ j - 1 <= T
            /\ (asked => u <= j - 1)
        BY <2>3, <2>6 DEF EndsAt
      <4> QED BY <4>1
    <3>2. request'.method = SubSeq(title, 1, a)
      <4>1. Cut(<<zero, a>>) = SubSeq(title, zero + 1, a)
        BY <1>2, <1>10, <3>1, CutIs
      <4>2. Parts.method = <<zero, a>> BY <2>8, <3>1
      <4>3. zero + 1 = 1 BY <3>1
      <4> QED BY <2>9, <4>1, <4>2, <4>3
    <3>3. request'.url = SubSeq(title, i + 1, c)
      <4>1. Cut(<<i, c>>) = SubSeq(title, i + 1, c)
        BY <1>2, <1>10, <2>3, <3>1, CutIs
      <4>2. Parts.url = <<i, c>> BY <2>8, <3>1
      <4> QED BY <2>9, <4>1, <4>2
    <3>4. request'.query = IF asked THEN SubSeq(title, u + 1, b) ELSE <<>>
      <4>1. CASE asked
        <5>1. Cut(<<u, b>>) = SubSeq(title, u + 1, b)
          BY <1>2, <1>10, <3>1, <4>1, CutIs
        <5>2. Parts.query = <<u, b>> BY <2>8, <3>1, <4>1
        <5> QED BY <2>9, <4>1, <5>1, <5>2
      <4>2. CASE ~asked
        <5>1. Cut(<<zero, zero>>) = SubSeq(title, zero + 1, zero)
          BY <1>2, <1>10, <3>1, CutIs
        <5>2. Parts.query = <<zero, zero>> BY <2>8, <3>1, <4>2
        <5>3. SubSeq(title, 1, 0) = <<>> BY <1>2 DEF Strings
        <5> QED BY <2>9, <3>1, <4>2, <5>1, <5>2, <5>3
      <4> QED BY <4>1, <4>2
    <3>5. request'.version = SubSeq(title, j + 1, T)
      <4>1. Cut(<<j, npos>>) = SubSeq(title, j + 1, T)
        BY <1>2, <1>10, <2>3, CutIs
      <4>2. Parts.version = <<j, npos>> BY <2>8
      <4> QED BY <2>9, <4>1, <4>2
    <3> QED BY <1>10, <2>5, <3>1, <3>2, <3>3, <3>4, <3>5 DEF PartsAre
  <2> QED BY <1>2, <1>10, <2>1, <2>3, <2>5, <2>6, <2>10, PutTogether
<1> QED BY <1>3, <1>4, <1>5, <1>7, <1>8, <1>9, <1>12 DEF Inv

-----------------------------------------------------------------------------
(* The theorems.                                                           *)

(* A step that changes nothing.                                            *)
LEMMA Stutters ==
  ASSUME Inv, UNCHANGED vars
  PROVE  Inv'
<1>1. /\ msg' = msg /\ phase' = phase /\ size' = size /\ buf' = buf
      /\ offset' = offset /\ title' = title /\ attributes' = attributes
      /\ request' = request
  BY DEF vars
<1>2. TypeInv' BY <1>1 DEF Inv, TypeInv
<1>3. EncodeInv' BY <1>1 DEF Inv, EncodeInv, Writing, Written
<1>4. TextInv' BY <1>1 DEF Inv, TextInv, Closed, Written
<1>5. TitleInv' BY <1>1 DEF Inv, TitleInv, Titled, Decoded
<1>6. LinesInv'
  <2> SUFFICES ASSUME WellFormed PROVE LinesInv' BY <1>1, SameLines DEF LinesInv
  <2>1. \A k : AtLine(k) => AtLine(k)'
    <3> SUFFICES ASSUME NEW k, AtLine(k) PROVE AtLine(k)' OBVIOUS
    <3>1. Ends(offset - 1)' = k + 1 BY <1>1, SameLines DEF AtLine
    <3>2. \A i \in 1 .. k : IsAttribute(attributes'[i], Line(i)')
      BY <1>1, SameLines DEF AtLine
    <3>3. \A i \in 1 .. k : IsAttribute(attributes[i], Line(i))'
      BY <3>2 DEF IsAttribute
    <3> QED BY <1>1, <3>1, <3>3 DEF AtLine
  <2>2. ASSUME Decoded
        PROVE  /\ Len(attributes') = Ends(Len(buf))' - 2
               /\ \A i \in 1 .. Len(attributes') :
                     IsAttribute(attributes[i], Line(i))'
    <3>1. /\ Len(attributes) = Ends(Len(buf)) - 2
          /\ \A i \in 1 .. Len(attributes) : IsAttribute(attributes[i], Line(i))
      BY <2>2 DEF Inv, LinesInv
    <3>2. Len(attributes') = Ends(Len(buf))' - 2 BY <1>1, <3>1, SameLines
    <3>3. \A i \in 1 .. Len(attributes') : IsAttribute(attributes'[i], Line(i)')
      BY <1>1, <3>1, SameLines
    <3>4. \A i \in 1 .. Len(attributes') : IsAttribute(attributes[i], Line(i))'
      BY <3>3 DEF IsAttribute
    <3> QED BY <3>2, <3>4
  <2>3. ASSUME phase = "decode"
        PROVE  \/ offset' = 0 /\ attributes' = <<>>
               \/ AtLine(Len(attributes))'
    <3>1. \/ offset = 0 /\ attributes = <<>>
          \/ AtLine(Len(attributes))
      BY <2>3 DEF Inv, LinesInv
    <3>2. CASE offset = 0 /\ attributes = <<>> BY <1>1, <3>2
    <3>3. CASE AtLine(Len(attributes))
      <4>1. PICK k : k = Len(attributes) OBVIOUS
      <4>2. AtLine(k)' BY <2>1, <3>3, <4>1
      <4>3. k = Len(attributes') BY <1>1, <4>1
      <4> QED BY <4>2, <4>3 DEF AtLine
    <3> QED BY <3>1, <3>2, <3>3
  <2>4. Decoded' <=> Decoded BY <1>1 DEF Decoded
  <2> QED BY <1>1, <2>2, <2>3, <2>4 DEF LinesInv
<1>7. PartsInv'
  <2>1. TitleAsGrammar' <=> TitleAsGrammar BY <1>1 DEF TitleAsGrammar
  <2> QED BY <1>1, <2>1 DEF Inv, PartsInv
<1>8. TripInv' BY <1>1 DEF Inv, TripInv, Same, Lost, Decoded
<1> QED BY <1>2, <1>3, <1>4, <1>5, <1>6, <1>7, <1>8 DEF Inv

(* The invariant is inductive.                                             *)
LEMMA InvStep == Inv /\ [Next]_vars => Inv'
BY WritesTitle, WritesAttribute, EndsText, ReadsTitle, ReadsAttribute, EndsLines,
   CutsTitle, Stutters, Zenon DEF Next

(* What the encoder has written so far is what it counted for it; what the *)
(* decoder has read so far is what stands before its offset, which is at a *)
(* line's beginning if every line has a colon (transceiver.cpp:11-87).     *)
(* Every state of every header and message satisfies it.                   *)
THEOREM HeaderInvariance == Spec => []Inv
<1>1. Init => Inv BY InitInv
<1>2. Inv /\ [Next]_vars => Inv' BY InvStep
<1> QED BY <1>1, <1>2, PTL DEF Spec

(* At the end, LinesInv speaks of all lines, and the title is the first.   *)
LEMMA GrammarFollows == Inv => AsGrammar
<1> SUFFICES ASSUME Inv, phase = "done"
             PROVE  AttributesAsGrammar /\ TitleAsGrammar
  BY DEF AsGrammar
<1>1. TitleAsGrammar BY DEF Inv, PartsInv
<1>2. ASSUME WellFormed
      PROVE  /\ title = SubSeq(buf, 1, LineEnd(1) - 1)
             /\ Len(attributes) = Ends(Len(buf)) - 2
             /\ \A k \in Lines : IsAttribute(attributes[k], Line(k))
  <2>1. /\ Len(attributes) = Ends(Len(buf)) - 2
        /\ \A i \in 1 .. Len(attributes) : IsAttribute(attributes[i], Line(i))
    BY <1>2 DEF Inv, LinesInv, Decoded
  <2>2. FirstLine(buf, title) /\ buf \in Strings
    BY DEF Inv, TitleInv, Titled, Decoded, TypeInv
  <2>3. PICK e \in 1 .. Len(buf) :
           /\ buf[e] = CR /\ \A i \in 1 .. e - 1 : buf[i] # CR
           /\ title = SubSeq(buf, 1, e - 1)
    BY <2>2 DEF FirstLine
  <2>4. Ends(e) = 1
    <3>1. e \in Nat /\ 0 < e /\ \A i \in 0 + 1 .. e - 1 : buf[i] # CR
      BY <2>2, <2>3, TextIs
    <3>2. Ends(e) = Ends(0) + 1 BY <2>3, <3>1, EndsOne
    <3> QED BY <3>2, EndsZero
  <2>5. LineEnd(1) = e
    <3>1. LineEnd(Ends(e)) = e BY <2>2, <2>3, LineEndIs
    <3> QED BY <2>4, <3>1
  <2> QED BY <2>1, <2>3, <2>5 DEF Lines
<1> QED BY <1>1, <1>2 DEF AttributesAsGrammar

(* At the end nothing is left to be read: all of it came back, or          *)
(* something was lost that could not be sent.                              *)
LEMMA TripFollows == Inv => RoundTrip
<1> SUFFICES ASSUME Inv, phase = "done", msg # NoMessage
             PROVE  /\ Len(buf) = size
                    /\ title = msg.title /\ attributes = msg.attributes
                          <=> /\ ~Has(msg.title, CR)
                              /\ \A i \in DOMAIN msg.attributes :
                                    Sendable(msg.attributes[i])
  BY DEF RoundTrip
<1>1. /\ Len(buf) = size /\ msg \in Messages
      /\ Written(buf, msg, Len(msg.attributes))
      /\ buf \in Strings /\ attributes \in Seq(Attribute)
  BY DEF Inv, TypeInv, TextInv
<1>2. FirstLine(buf, title) BY DEF Inv, TitleInv, Titled, Decoded
<1>3. PICK N, k \in Nat : N = Len(msg.attributes) /\ k = Len(attributes)
                          /\ DOMAIN msg.attributes = 1 .. N
  BY <1>1, MessageIs
<1>4. ASSUME ~Has(msg.title, CR)
      PROVE  \/ \E i \in 1 .. N : /\ ~Sendable(msg.attributes[i])
                                  /\ attributes[i] # msg.attributes[i] \/ i > k
             \/ k = N /\ \A i \in 1 .. N : /\ Sendable(msg.attributes[i])
                                           /\ attributes[i] = msg.attributes[i]
  BY <1>3, <1>4 DEF Inv, TripInv, Lost, Same, Decoded
<1>5. ASSUME title = msg.title, attributes = msg.attributes
      PROVE  /\ ~Has(msg.title, CR)
             /\ \A i \in DOMAIN msg.attributes : Sendable(msg.attributes[i])
  <2>1. ~Has(msg.title, CR) BY <1>1, <1>2, <1>5, NoEnd
  <2>2. k = N BY <1>3, <1>5
  <2> QED BY <1>3, <1>4, <1>5, <2>1, <2>2
<1>6. ASSUME ~Has(msg.title, CR),
             \A i \in DOMAIN msg.attributes : Sendable(msg.attributes[i])
      PROVE  title = msg.title /\ attributes = msg.attributes
  <2>1. k = N /\ \A i \in 1 .. N : attributes[i] = msg.attributes[i]
    BY <1>3, <1>4, <1>6
  <2>2. attributes = msg.attributes
    BY <1>1, <1>3, <2>1, MessageIs, SeqEqual
  <2>3. PICK e \in 1 .. Len(buf) :
           /\ buf[e] = CR /\ \A i \in 1 .. e - 1 : buf[i] # CR
           /\ title = SubSeq(buf, 1, e - 1)
    BY <1>2 DEF FirstLine
  <2>4. PICK t, L, p \in Nat : t = Len(msg.title) /\ L = Len(buf) /\ p = e - 1
                               /\ p + 1 = e /\ p < L
    <3>1. PICK t, L \in Nat : t = Len(msg.title) /\ L = Len(buf)
      BY <1>1, MessageIs, TextIs
    <3>2. e - 1 \in Nat /\ e - 1 + 1 = e /\ e - 1 < L BY <3>1
    <3> QED BY <3>1, <3>2
  <2>5. msg.title \in Strings /\ DOMAIN msg.title = 1 .. t
    BY <1>1, <2>4, MessageIs, TextIs
  <2>6. /\ \A i \in 1 .. t : buf[i] = msg.title[i] /\ buf[i] # CR
        /\ buf[t + 1] = CR
    BY <1>1, <1>6, <2>4, <2>5 DEF Has, Written
  <2>7. p = t
    <3>1. ~(p < t)
      <4>1. SUFFICES ASSUME p < t PROVE FALSE OBVIOUS
      <4>2. e \in 1 .. t BY <2>4, <4>1
      <4> QED BY <2>3, <2>6, <4>2
    <3>2. ~(t < p)
      <4>1. SUFFICES ASSUME t < p PROVE FALSE OBVIOUS
      <4>2. t + 1 \in 1 .. e - 1 BY <2>4, <4>1
      <4> QED BY <2>3, <2>6, <4>2
    <3> QED BY <3>1, <3>2
  <2>8. PICK zero, one \in Nat : zero = 0 /\ one = 1 OBVIOUS
  <2>9. SubSeq(buf, one, p) = msg.title
    <3>1. PICK line \in Strings : line = msg.title BY <2>5
    <3>2. p <= Len(buf) /\ t = Len(line) /\ zero + t = p /\ one = zero + 1
      BY <2>4, <2>7, <2>8, <3>1
    <3>3. Behind(buf, zero, line, t)
      <4>1. \A i \in 1 .. t : zero + i = i BY <2>8
      <4> QED BY <2>6, <3>1, <4>1 DEF Behind
    <3>4. buf \in Strings BY <1>1
    <3>5. SubSeq(buf, one, p) = line BY <3>2, <3>3, <3>4, PieceIs
    <3> QED BY <3>1, <3>5
  <2>10. title = msg.title BY <2>3, <2>4, <2>8, <2>9
  <2> QED BY <2>2, <2>10
<1> QED BY <1>1, <1>5, <1>6

(* For every header, however long, whose every line has a colon,           *)
(* _decode_header gives the attributes that the grammar of its lines says, *)
(* with any number of blanks before a value and more colons in it          *)
(* (transceiver.cpp:66-87); and a title with two spaces is taken apart     *)
(* into what it was put together from (request.hpp:39-66).                 *)
THEOREM GrammarHolds == Spec => []AsGrammar
BY HeaderInvariance, GrammarFollows, PTL

(* For every message whose size fits a std::size_t, _encode_header fills   *)
(* its buffer to the byte that was counted (transceiver.cpp:29-62); and    *)
(* _decode_header gives the message back if and only if its title is one   *)
(* line and each attribute can be sent (transceiver.cpp:11-24, 66-87).     *)
THEOREM RoundTripHolds == Spec => []RoundTrip
BY HeaderInvariance, TripFollows, PTL

-----------------------------------------------------------------------------
(* The ranges.                                                             *)

(* The types of the variables.                                             *)
RangeType ==
    /\ value \in Values /\ begin \in Nat /\ done \in BOOLEAN
    /\ ranges \in Seq([begin : Strings, end : Strings])

(* Behind the first p characters of the value and c more, which is a comma *)
(* if any, a range lies up to its character q, with its dash at d.         *)
Spans(p, c, d, q) ==
    /\ p \in 1 .. q /\ q \in 1 .. Len(value) /\ c \in 0 .. 1
    /\ d \in p + c + 1 .. q /\ value[d] = Dash
    /\ \A i \in p + c + 1 .. q : i # d => value[i] \in Digits
    /\ c = 1 => value[p + 1] = Comma

(* It is extracted with its comma.                                         *)
Takes(range, p, d, q) ==
    /\ range.begin = SubSeq(value, p + 1, d - 1)
    /\ range.end = SubSeq(value, d + 1, q)

(* Every range but the first has a comma before it.                        *)
Skip(i) == IF i = 1 THEN 0 ELSE 1

(* The ranges taken lie one behind the other, each ending at its place.    *)
LaidOut(at) ==
    /\ at \in [0 .. Len(ranges) -> Nat] /\ at[0] = 1
    /\ \A i \in 1 .. Len(ranges) : \E d \in Nat :
          Spans(at[i - 1], Skip(i), d, at[i]) /\ Takes(ranges[i], at[i - 1], d, at[i])

(* The ranges before the offset are taken, and the next one begins there. *)
Taken(at) ==
    /\ LaidOut(at)
    /\ done => ranges # <<>> /\ at[Len(ranges)] = Len(value)
    /\ ~done => /\ at[Len(ranges)] = begin
                /\ ranges # <<>> => begin < Len(value) /\ value[begin + 1] = Comma

(* In a list that is sound there are such places; of others nothing is     *)
(* said.                                                                   *)
ListInv == SoundList => \E at : Taken(at)

(* Every range taken has moved the offset on, and the offset lies in the   *)
(* value.                                                                  *)
RoundsInv ==
    /\ Len(ranges) <= Len(value)
    /\ ~done => Len(ranges) <= begin

(* The whole invariant.                                                    *)
RangeInv == RangeType /\ ListInv /\ RoundsInv

(* The separators are different bytes, and no digits.                      *)
LEMMA RangeCodes ==
  /\ Dash \in 0 .. 255 /\ Comma \in 0 .. 255 /\ Bytes \in 0 .. 255
  /\ Dash \in Nat /\ Comma \in Nat /\ Bytes \in Nat
  /\ Dash # Comma /\ Dash \notin Digits /\ Comma \notin Digits
BY DEF Dash, Comma, Bytes, Digits

(* A value is a text.                                                      *)
LEMMA ValueIs ==
  ASSUME value \in Values
  PROVE  \E L \in Nat : /\ value \in Strings /\ L = Len(value) /\ L < Wrap
                        /\ DOMAIN value = 1 .. L
<1>1. value \in Strings /\ Len(value) < Wrap BY ValuesAssumption
<1> QED BY <1>1, TextIs

(* In a list that is sound, a range follows the word and every comma.      *)
LEMMA NextRange ==
  ASSUME value \in Values, SoundList, NEW L \in Nat, L = Len(value),
         NEW p \in Nat, NEW c \in 0 .. 1, p >= 1, p + c <= L,
         c = 0 => p = 1, c = 1 => value[p + 1] = Comma
  PROVE  \E d, q \in Nat : /\ Spans(p, c, d, q)
                           /\ q < L => value[q + 1] = Comma
<1>1. DOMAIN value = 1 .. L BY ValueIs
<1>2. PICK i \in Nat : i = p + c /\ i >= 1 /\ i <= L OBVIOUS
<1>3. i = 1 \/ RangeEnd(i) BY <1>1, <1>2 DEF RangeEnd
<1> DEFINE S == {j \in Nat : i < j /\ j <= L + 1 /\ RangeEnd(j)}
<1>4. L + 1 \in S BY <1>1, <1>2 DEF RangeEnd
<1>5. PICK j \in S : \A k \in S : j <= k
  <2>1. S \subseteq Nat /\ S # {} BY <1>4
  <2> HIDE DEF S
  <2> QED BY <2>1, LeastOf
<1>6. j \in Nat /\ i < j /\ j <= L + 1 /\ RangeEnd(j) OBVIOUS
<1>7. ASSUME NEW k \in i + 1 .. j - 1 PROVE value[k] # Comma
  <2>1. k \in Nat /\ i < k /\ k <= L /\ ~(j <= k) BY <1>2, <1>6
  <2>2. k \notin S BY <1>5, <2>1
  <2>3. ~RangeEnd(k) BY <2>1, <2>2
  <2> QED BY <1>1, <2>3 DEF RangeEnd
<1>8. PICK d \in i + 1 .. j - 1 : value[d] = Dash
  <2>1. i \in 1 .. Len(value) + 1 /\ j \in 1 .. Len(value) + 1 BY <1>2, <1>6
  <2> HIDE DEF S
  <2> QED BY <1>3, <1>6, <2>1 DEF SoundList
<1>9. ASSUME NEW k \in i + 1 .. j - 1, k # d PROVE value[k] \in Digits
  <2>1. k \in 2 .. Len(value) /\ d \in 1 .. L /\ k \in 1 .. L BY <1>2, <1>6
  <2>2. value[k] \in Digits \cup {Dash, Comma} BY <2>1 DEF SoundList
  <2>3. value[k] # Comma BY <1>7
  <2>4. value[k] # Dash
    <3>1. SUFFICES ASSUME value[k] = Dash PROVE FALSE OBVIOUS
    <3>2. PICK x, y \in i + 1 .. j - 1 :
             x < y /\ value[x] = Dash /\ value[y] = Dash
      <4>1. CASE k < d BY <1>8, <3>1, <4>1
      <4>2. CASE d < k BY <1>8, <3>1, <4>2
      <4> QED BY <1>9, <4>1, <4>2
    <3>3. x \in DOMAIN value /\ y \in DOMAIN value BY <1>1, <1>2, <1>6, <3>2
    <3>4. PICK z \in x + 1 .. y - 1 : value[z] = Comma
      BY <3>2, <3>3 DEF SoundList
    <3>5. z \in i + 1 .. j - 1 BY <1>2, <1>6, <3>2, <3>4
    <3> QED BY <1>7, <3>4, <3>5
  <2> QED BY <2>2, <2>3, <2>4
<1>10. PICK q \in Nat : q = j - 1 /\ q + 1 = j /\ q <= L /\ d <= q /\ p <= q /\ p + c < d
  <2>1. j - 1 \in Nat /\ j - 1 + 1 = j /\ j - 1 <= L /\ d <= j - 1 /\ i < d
    BY <1>2, <1>6
  <2>2. p <= i BY <1>2
  <2> QED BY <1>2, <1>6, <2>1, <2>2
<1>11. d \in Nat BY <1>2, <1>6
<1>12. Spans(p, c, d, q) BY <1>2, <1>8, <1>9, <1>10, <1>11 DEF Spans
<1>13. q < L => value[q + 1] = Comma BY <1>1, <1>6, <1>10 DEF RangeEnd
<1> QED BY <1>10, <1>11, <1>12, <1>13

(* What a round finds of a range that begins where it searches.            *)
LEMMA RoundFinds ==
  ASSUME value \in Values, NEW L \in Nat, L = Len(value), begin \in Nat,
         NEW c \in Nat, NEW d \in Nat, NEW q \in Nat, Spans(begin, c, d, q),
         q < L => value[q + 1] = Comma
  PROVE  /\ find(value, Dash, begin) = d - 1 /\ d - 1 # npos
         /\ Plus(d - 1, 1) = d /\ Minus(d - 1, begin) = d - 1 - begin
         /\ q = L => find(value, Comma, d) = npos
         /\ q < L => /\ find(value, Comma, d) = q /\ q # npos
                     /\ Minus(q, d) = q - d
         /\ d - 1 + 1 = L => q = L
<1>1. value \in Strings /\ L < Wrap /\ DOMAIN value = 1 .. L BY ValueIs
<1>2. /\ begin >= 1 /\ begin + c < d /\ d <= q /\ q <= L /\ value[d] = Dash
      /\ \A i \in begin + c + 1 .. q : i # d => value[i] \in Digits
      /\ c = 0 \/ (c = 1 /\ value[begin + 1] = Comma)
  BY DEF Spans
<1>3. PICK x \in Nat : x = d - 1 /\ x + 1 = d /\ begin <= x /\ x < L
  <2>1. d - 1 \in Nat /\ d - 1 + 1 = d /\ begin <= d - 1 /\ d - 1 < L BY <1>2
  <2> QED BY <2>1
<1>4. npos = Wrap - 1 /\ Wrap \in Nat BY WrapAssumption DEF npos
<1>5. find(value, Dash, begin) = x
  <2>1. ASSUME NEW i \in begin + 1 .. x PROVE value[i] # Dash
    <3>1. CASE i >= begin + c + 1
      <4>1. i \in begin + c + 1 .. q /\ i # d BY <1>2, <1>3, <3>1
      <4> QED BY <1>2, <4>1, RangeCodes
    <3>2. CASE i < begin + c + 1
      <4>1. c = 1 /\ i = begin + 1 BY <1>2, <3>2
      <4> QED BY <1>2, <4>1, RangeCodes
    <3> QED BY <3>1, <3>2
  <2>2. Found(value, x, begin, Dash) BY <1>2, <1>3, <2>1 DEF Found
  <2> QED BY <1>1, <2>2, FindIs, RangeCodes
<1>6. x # npos /\ Plus(x, 1) = d /\ Minus(x, begin) = x - begin
  BY <1>1, <1>3, <1>4, Positions
<1>7. \A i \in d + 1 .. q : value[i] # Comma
  <2> SUFFICES ASSUME NEW i \in d + 1 .. q PROVE value[i] # Comma OBVIOUS
  <2>1. i \in begin + c + 1 .. q /\ i # d BY <1>2
  <2> QED BY <1>2, <2>1, RangeCodes
<1>8. q = L => find(value, Comma, d) = npos
  BY <1>1, <1>7, FindNone, RangeCodes
<1>9. ASSUME q < L
      PROVE  find(value, Comma, d) = q /\ q # npos /\ Minus(q, d) = q - d
  <2>1. Found(value, q, d, Comma) BY <1>2, <1>7, <1>9 DEF Found
  <2>2. find(value, Comma, d) = q BY <1>1, <2>1, FindIs, RangeCodes
  <2>3. q # npos /\ Minus(q, d) = q - d
    BY <1>1, <1>2, <1>4, <1>9, Positions
  <2> QED BY <2>2, <2>3
<1>10. d - 1 + 1 = L => q = L BY <1>2
<1> QED BY <1>3, <1>5, <1>6, <1>8, <1>9, <1>10

(* A round takes that range.                                               *)
LEMMA RoundTakes ==
  ASSUME RangeType, RangeRound, NEW L \in Nat, L = Len(value),
         NEW c \in Nat, NEW d \in Nat, NEW q \in Nat, Spans(begin, c, d, q),
         q < L => value[q + 1] = Comma
  PROVE  \E range : /\ Takes(range, begin, d, q)
                    /\ ranges' = Append(ranges, range)
                    /\ \/ q = L /\ done'
                       \/ q < L /\ done' = done /\ begin' = q
<1>1. value \in Strings /\ L < Wrap /\ value \in Values /\ begin \in Nat
  BY ValueIs DEF RangeType
<1>2. begin >= 1 /\ begin < d /\ d <= q /\ q <= L BY DEF Spans
<1> DEFINE Piece2(len) == [begin |-> substr(value, begin, d - 1 - begin),
                            end   |-> substr(value, d, len)]
<1>3. /\ find(value, Dash, begin) = d - 1 /\ d - 1 # npos
      /\ Plus(d - 1, 1) = d /\ Minus(d - 1, begin) = d - 1 - begin
      /\ q = L => find(value, Comma, d) = npos
      /\ q < L => /\ find(value, Comma, d) = q /\ q # npos
                  /\ Minus(q, d) = q - d
      /\ d - 1 + 1 = L => q = L
  BY <1>1, RoundFinds
<1>4. \/ q = L /\ Return(Append(ranges, Piece2(L)))
      \/ q < L /\ Continue(Piece2(q - d), q + 0)
  BY <1>2, <1>3 DEF RangeRound, RoundWith
<1>5. substr(value, begin, d - 1 - begin) = SubSeq(value, begin + 1, d - 1)
  <2>1. PICK n, x \in Nat : n = d - 1 - begin /\ x = d - 1 /\ begin + n = x /\ x <= L
    <3>1. d - 1 - begin \in Nat /\ d - 1 \in Nat /\ begin + (d - 1 - begin) = d - 1
          /\ d - 1 <= L
      BY <1>1, <1>2
    <3> QED BY <3>1
  <2>2. substr(value, begin, n) = SubSeq(value, begin + 1, begin + n)
    BY <1>1, <2>1, SubstrIs
  <2> QED BY <2>1, <2>2
<1>6. substr(value, d, L) = SubSeq(value, d + 1, L)
  <2>1. d + L >= Len(value) OBVIOUS
  <2> QED BY <1>1, <2>1, SubstrRest
<1>7. substr(value, d, q - d) = SubSeq(value, d + 1, q)
  <2>1. PICK n \in Nat : n = q - d /\ d + n = q BY <1>2
  <2>2. substr(value, d, n) = SubSeq(value, d + 1, d + n)
    BY <1>1, <1>2, <2>1, SubstrIs
  <2> QED BY <2>1, <2>2
<1>8. q = L => Takes(Piece2(L), begin, d, q) BY <1>5, <1>6 DEF Takes
<1>9. Takes(Piece2(q - d), begin, d, q) BY <1>5, <1>7 DEF Takes
<1> HIDE DEF Piece2
<1>10. CASE q = L /\ Return(Append(ranges, Piece2(L)))
  BY <1>8, <1>10 DEF Return
<1>11. CASE q < L /\ Continue(Piece2(q - d), q + 0)
  BY <1>9, <1>11 DEF Continue
<1> QED BY <1>4, <1>10, <1>11

(* A round keeps the types whatever it finds, and the value as it is.      *)
LEMMA RangeTypeStep ==
  ASSUME RangeType, RangeRound
  PROVE  RangeType' /\ value' = value /\ ~done
<1> DEFINE dash  == find(value, Dash, begin)
           from  == Plus(dash, 1)
           comma == find(value, Comma, from)
           R(len) == [begin |-> substr(value, begin, Minus(dash, begin)),
                       end   |-> substr(value, from, len)]
<1>1. /\ ~done
      /\ \/ Return(ranges)
         \/ Return(Append(ranges, R(Len(value))))
         \/ Continue(R(Minus(comma, from)), comma + 0)
  BY DEF RangeRound, RoundWith
<1>2. value \in Strings /\ value \in Values /\ Len(value) \in Nat
  BY ValueIs DEF RangeType
<1>3. dash \in Nat BY <1>2, FindType, RangeCodes DEF RangeType
<1>4. from \in Nat BY <1>3, Positions
<1>5. comma \in Nat BY <1>2, <1>4, FindType, RangeCodes
<1>6. Minus(dash, begin) \in Nat /\ Minus(comma, from) \in Nat
  BY <1>3, <1>4, <1>5, Positions DEF RangeType
<1>7. \A n \in Nat : substr(value, begin, Minus(dash, begin)) \in Strings
                     /\ substr(value, from, n) \in Strings
  BY <1>2, <1>4, <1>6, SubstrType DEF RangeType
<1> HIDE DEF dash, from, comma
<1>8. \A n \in Nat : R(n) \in [begin : Strings, end : Strings] BY <1>7
<1> HIDE DEF R
<1>9. CASE Return(ranges) BY <1>1, <1>9 DEF Return, RangeType
<1>10. CASE Return(Append(ranges, R(Len(value))))
  BY <1>1, <1>2, <1>8, <1>10 DEF Return, RangeType
<1>11. CASE Continue(R(Minus(comma, from)), comma + 0)
  BY <1>1, <1>5, <1>6, <1>8, <1>11 DEF Continue, RangeType
<1> QED BY <1>1, <1>9, <1>10, <1>11

(* It adds the next range to those of a list that is sound.                *)
LEMMA ListStep ==
  ASSUME RangeInv, RangeRound
  PROVE  ListInv'
<1>1. RangeType /\ RangeType' /\ value' = value /\ ~done
  BY RangeTypeStep DEF RangeInv
<1>2. SoundList' <=> SoundList BY <1>1 DEF SoundList, RangeEnd
<1>3. SUFFICES ASSUME SoundList PROVE \E at : Taken(at)' BY <1>2 DEF ListInv
<1>4. PICK at : Taken(at) BY <1>3 DEF RangeInv, ListInv
<1>5. PICK L, k \in Nat : L = Len(value) /\ k = Len(ranges)
                          /\ DOMAIN ranges = 1 .. k
  <2>1. value \in Values /\ ranges \in Seq([begin : Strings, end : Strings])
    BY <1>1 DEF RangeType
  <2> QED BY <2>1, ValueIs
<1>6. PICK c \in 0 .. 1 : c = Skip(k + 1) /\ (c = 0 => k = 0) /\ (c = 1 => k # 0)
  <2>1. Skip(k + 1) \in 0 .. 1 /\ (Skip(k + 1) = 0 => k = 0)
        /\ (Skip(k + 1) = 1 => k # 0)
    BY DEF Skip
  <2> QED BY <2>1
<1>7. /\ at \in [0 .. k -> Nat] /\ at[0] = 1 /\ at[k] = begin
      /\ \A i \in 1 .. k : \E d \in Nat :
            Spans(at[i - 1], Skip(i), d, at[i]) /\ Takes(ranges[i], at[i - 1], d, at[i])
      /\ k # 0 => begin < L /\ value[begin + 1] = Comma
  <2>1. k # 0 => ranges # <<>> BY <1>5
  <2> QED BY <1>1, <1>4, <1>5, <2>1 DEF Taken, LaidOut
<1>8. begin \in Nat /\ begin >= 1 /\ begin + c <= L /\ (c = 0 => begin = 1)
      /\ (c = 1 => value[begin + 1] = Comma)
  <2>1. CASE c = 0
    <3>1. begin = 1 BY <1>6, <1>7, <2>1
    <3>2. L >= 1
      <4>1. value # <<>> /\ value \in Strings
        BY <1>1, <1>3, ValueIs DEF SoundList, RangeType
      <4> QED BY <1>5, <4>1 DEF Strings
    <3> QED BY <2>1, <3>1, <3>2
  <2>2. CASE c = 1
    <3>1. begin < L /\ value[begin + 1] = Comma BY <1>6, <1>7, <2>2
    <3>2. PICK i \in 1 .. k : i = k BY <1>6, <2>2
    <3>3. begin >= 1 /\ begin \in Nat BY <1>1, <1>7, <3>2 DEF Spans, RangeType
    <3> QED BY <2>2, <3>1, <3>3
  <2> QED BY <2>1, <2>2
<1>9. PICK d, q \in Nat : /\ Spans(begin, c, d, q)
                          /\ q < L => value[q + 1] = Comma
  <2>1. value \in Values BY <1>1 DEF RangeType
  <2>2. PICK p \in Nat : p = begin BY <1>8
  <2>3. /\ p >= 1 /\ p + c <= L /\ (c = 0 => p = 1)
        /\ (c = 1 => value[p + 1] = Comma)
    BY <1>8, <2>2
  <2>4. \E d, q \in Nat : /\ Spans(p, c, d, q)
                          /\ q < L => value[q + 1] = Comma
    <3>1. SoundList BY <1>3
    <3>2. L = Len(value) BY <1>5
    <3>3. p >= 1 /\ p + c <= L BY <2>3
    <3>4. c = 0 => p = 1 BY <2>3
    <3>5. c = 1 => value[p + 1] = Comma BY <2>3
    <3>6. c \in 0 .. 1 OBVIOUS
    <3> QED BY <2>1, <3>1, <3>2, <3>3, <3>4, <3>5, <3>6, NextRange
  <2> QED BY <2>2, <2>4
<1>10. PICK range : /\ Takes(range, begin, d, q)
                    /\ ranges' = Append(ranges, range)
                    /\ \/ q = L /\ done'
                       \/ q < L /\ done' = done /\ begin' = q
  BY <1>1, <1>5, <1>6, <1>9, RoundTakes
<1>11. /\ Len(ranges') = k + 1 /\ ranges'[k + 1] = range
       /\ \A i \in 1 .. k : ranges'[i] = ranges[i]
  BY <1>1, <1>5, <1>10 DEF RangeType
<1> DEFINE to == [i \in 0 .. k + 1 |-> IF i = k + 1 THEN q ELSE at[i]]
<1>12. /\ to \in [0 .. k + 1 -> Nat] /\ to[k + 1] = q
       /\ \A i \in 0 .. k : to[i] = at[i]
  BY <1>5, <1>7
<1> HIDE DEF to
<1>13. ASSUME NEW i \in 1 .. k + 1
       PROVE  \E e \in Nat : /\ Spans(to[i - 1], Skip(i), e, to[i])
                             /\ Takes(ranges'[i], to[i - 1], e, to[i])
  <2>1. CASE i = k + 1
    <3>1. to[i - 1] = begin /\ to[i] = q /\ Skip(i) = c /\ ranges'[i] = range
      BY <1>6, <1>7, <1>11, <1>12, <2>1
    <3> QED BY <1>9, <1>10, <3>1
  <2>2. CASE i # k + 1
    <3>1. i \in 1 .. k /\ i \in 0 .. k /\ i - 1 \in 0 .. k BY <2>2
    <3>2. to[i - 1] = at[i - 1] /\ to[i] = at[i] /\ ranges'[i] = ranges[i]
      BY <1>11, <1>12, <3>1
    <3> QED BY <1>7, <3>1, <3>2
  <2> QED BY <2>1, <2>2
<1>14. LaidOut(to)'
  <2>1. to[0] = 1 BY <1>7, <1>12
  <2>2. ASSUME NEW i \in 1 .. k + 1
        PROVE  \E e \in Nat : /\ Spans(to[i - 1], Skip(i), e, to[i])'
                              /\ Takes(ranges[i], to[i - 1], e, to[i])'
    BY <1>1, <1>13 DEF Spans, Takes
  <2> QED BY <1>11, <1>12, <2>1, <2>2 DEF LaidOut
<1>15. ranges' # <<>> BY <1>11
<1>16. Taken(to)'
  <2>1. CASE q = L /\ done'
    BY <1>1, <1>5, <1>11, <1>12, <1>14, <1>15, <2>1 DEF Taken
  <2>2. CASE q < L /\ done' = done /\ begin' = q
    BY <1>1, <1>5, <1>9, <1>11, <1>12, <1>14, <1>15, <2>2 DEF Taken
  <2> QED BY <1>10, <2>1, <2>2
<1> QED BY <1>16

(* Each range it adds lies behind the offset, so they are not more than    *)
(* the characters.                                                         *)
LEMMA RoundsStep ==
  ASSUME RangeType, RoundsInv, RangeRound
  PROVE  RoundsInv'
<1> DEFINE dash  == find(value, Dash, begin)
           from  == Plus(dash, 1)
           comma == find(value, Comma, from)
           R(len) == [begin |-> substr(value, begin, Minus(dash, begin)),
                       end   |-> substr(value, from, len)]
<1>1. /\ ~done
      /\ \/ Return(ranges)
         \/ dash # npos /\ Return(Append(ranges, R(Len(value))))
         \/ dash # npos /\ comma # npos
            /\ Continue(R(Minus(comma, from)), comma + 0)
  BY DEF RangeRound, RoundWith
<1>2. PICK L \in Nat : value \in Strings /\ L = Len(value) /\ L < Wrap
  BY ValueIs DEF RangeType
<1>3. begin \in Nat BY DEF RangeType
<1>4. dash \in Nat BY <1>2, <1>3, FindType, RangeCodes
<1>5. from \in Nat BY <1>4, Positions
<1>6. comma \in Nat BY <1>2, <1>5, FindType, RangeCodes
<1>7. dash # npos => begin <= dash /\ dash < L
  BY <1>2, <1>3, FindIn, RangeCodes
<1>8. dash # npos => from = dash + 1
  <2> SUFFICES ASSUME dash # npos PROVE from = dash + 1 OBVIOUS
  <2>1. dash + 1 < Wrap BY <1>2, <1>4, <1>7, WrapAssumption
  <2> QED BY <1>4, <2>1, Positions
<1>9. comma # npos => from <= comma BY <1>2, <1>5, FindIn, RangeCodes
<1>10. PICK k \in Nat : /\ k = Len(ranges) /\ k <= L /\ k <= begin
                        /\ \A x : Len(Append(ranges, x)) = k + 1
  <2>1. ranges \in Seq([begin : Strings, end : Strings]) BY DEF RangeType
  <2>2. Len(ranges) \in Nat /\ \A x : Len(Append(ranges, x)) = Len(ranges) + 1
    BY <2>1
  <2> QED BY <1>1, <1>2, <2>2 DEF RoundsInv
<1> HIDE DEF dash, from, comma, R
<1>11. CASE Return(ranges)
  BY <1>2, <1>10, <1>11 DEF Return, RoundsInv
<1>12. CASE dash # npos /\ Return(Append(ranges, R(Len(value))))
  <2>1. k + 1 <= L BY <1>2, <1>3, <1>4, <1>7, <1>10, <1>12
  <2>2. Len(ranges') = k + 1 /\ value' = value /\ done'
    BY <1>10, <1>12 DEF Return
  <2> QED BY <1>2, <2>1, <2>2 DEF RoundsInv
<1>13. CASE dash # npos /\ comma # npos
            /\ Continue(R(Minus(comma, from)), comma + 0)
  <2>1. k + 1 <= L /\ k + 1 <= comma
    BY <1>2, <1>3, <1>4, <1>6, <1>7, <1>8, <1>9, <1>10, <1>13
  <2>2. Len(ranges') = k + 1 /\ value' = value /\ begin' = comma
    BY <1>6, <1>10, <1>13 DEF Continue
  <2> QED BY <1>2, <2>1, <2>2 DEF RoundsInv
<1> QED BY <1>1, <1>11, <1>12, <1>13

(* The first range begins behind the word.                                 *)
LEMMA RangeInitInv == RangeInit => RangeInv
<1> SUFFICES ASSUME RangeInit PROVE RangeInv OBVIOUS
<1>1. value \in Values /\ ranges = <<>> BY DEF RangeInit
<1>2. PICK L \in Nat : value \in Strings /\ L = Len(value) /\ L < Wrap
                       /\ DOMAIN value = 1 .. L
  BY <1>1, ValueIs
<1>3. RangeType
  <2>1. find(value, Bytes, 0) \in Nat BY <1>2, FindType, RangeCodes
  <2>2. begin \in Nat BY <2>1, Positions DEF RangeInit
  <2> QED BY <1>1, <2>2 DEF RangeType, RangeInit
<1>4. ASSUME SoundList PROVE \E at : Taken(at)
  <2>1. L >= 1 /\ value[1] = Bytes BY <1>2, <1>4 DEF SoundList, Strings
  <2>2. PICK zero \in Nat : zero = 0 OBVIOUS
  <2>3. Found(value, zero, zero, Bytes) BY <1>2, <2>1, <2>2 DEF Found
  <2>4. find(value, Bytes, 0) = 0 BY <1>2, <2>2, <2>3, FindIs, RangeCodes
  <2>5. Wrap \in Nat /\ 1 < Wrap BY <1>2, <2>1, WrapAssumption
  <2>6. begin = 1 /\ ~done
    <3>1. Plus(0, 1) = 1 BY <2>5, Positions
    <3>2. npos # 0 BY <2>5 DEF npos
    <3> QED BY <2>4, <3>1, <3>2 DEF RangeInit
  <2> DEFINE at == [i \in 0 .. 0 |-> 1]
  <2>7. LaidOut(at) /\ at[0] = begin BY <1>1, <2>6 DEF LaidOut
  <2>8. Taken(at) BY <1>1, <2>6, <2>7 DEF Taken
  <2> QED BY <2>8
<1>5. RoundsInv BY <1>1, <1>2, <1>3 DEF RoundsInv, RangeType
<1> QED BY <1>3, <1>4, <1>5 DEF RangeInv, ListInv

(* The characters of a piece are those of the value.                       *)
LEMMA PieceBounds ==
  ASSUME NEW s \in Strings, NEW m \in Nat, NEW n \in Nat, m >= 1, m <= n + 1,
         n <= Len(s), \A i \in m .. n : s[i] \in Digits
  PROVE  Bounds(SubSeq(s, m, n))
<1>1. PICK k \in Nat : k = n + 1 - m OBVIOUS
<1>2. /\ SubSeq(s, m, n) \in Strings /\ Len(SubSeq(s, m, n)) = k
      /\ \A i \in 1 .. k : SubSeq(s, m, n)[i] = s[m + i - 1]
  BY <1>1, Piece
<1>3. DOMAIN SubSeq(s, m, n) = 1 .. k BY <1>2, TextIs
<1>4. ASSUME NEW i \in 1 .. k PROVE SubSeq(s, m, n)[i] \in Digits
  <2>1. m + i - 1 \in m .. n BY <1>1
  <2> QED BY <1>2, <2>1
<1> QED BY <1>3, <1>4 DEF Bounds

(* A piece without its first character is the piece behind that.           *)
LEMMA PieceTail ==
  ASSUME NEW s \in Strings, NEW m \in Nat, NEW n \in Nat, m >= 1, m <= n,
         n <= Len(s)
  PROVE  /\ SubSeq(SubSeq(s, m, n), 2, Len(SubSeq(s, m, n))) = SubSeq(s, m + 1, n)
         /\ SubSeq(s, m, n)[1] = s[m]
<1>1. PICK k, a, two, r \in Nat :
         k = n + 1 - m /\ a = k - 1 /\ two = 2 /\ r = m + 1 /\ k = a + 1
  <2>1. n + 1 - m \in Nat /\ n + 1 - m - 1 \in Nat OBVIOUS
  <2> QED BY <2>1
<1>2. PICK t \in Strings : t = SubSeq(s, m, n) /\ Len(t) = k
                           /\ \A i \in 1 .. k : t[i] = s[m + i - 1]
  <2>1. m <= n + 1 OBVIOUS
  <2>2. /\ SubSeq(s, m, n) \in Strings /\ Len(SubSeq(s, m, n)) = n + 1 - m
        /\ \A i \in 1 .. n + 1 - m : SubSeq(s, m, n)[i] = s[m + i - 1]
    BY <2>1, Piece
  <2> QED BY <1>1, <2>2
<1>3. PICK u \in Strings : u = SubSeq(s, r, n) /\ Len(u) = a
                           /\ \A i \in 1 .. a : u[i] = s[r + i - 1]
  <2>1. r >= 1 /\ r <= n + 1 /\ n + 1 - r = a BY <1>1
  <2>2. /\ SubSeq(s, r, n) \in Strings /\ Len(SubSeq(s, r, n)) = n + 1 - r
        /\ \A i \in 1 .. n + 1 - r : SubSeq(s, r, n)[i] = s[r + i - 1]
    BY <2>1, Piece
  <2> QED BY <2>1, <2>2
<1>4. PICK w \in Strings : w = SubSeq(t, two, k) /\ Len(w) = a
                           /\ \A i \in 1 .. a : w[i] = t[two + i - 1]
  <2>1. two >= 1 /\ two <= k + 1 /\ k <= Len(t) /\ k + 1 - two = a
    BY <1>1, <1>2
  <2>2. /\ SubSeq(t, two, k) \in Strings /\ Len(SubSeq(t, two, k)) = k + 1 - two
        /\ \A i \in 1 .. k + 1 - two : SubSeq(t, two, k)[i] = t[two + i - 1]
    BY <2>1, Piece
  <2> QED BY <2>1, <2>2
<1>5. ASSUME NEW i \in 1 .. a PROVE w[i] = u[i]
  <2>1. PICK j \in 1 .. k : j = i + 1 /\ two + i - 1 = j /\ m + j - 1 = r + i - 1
    <3>1. i + 1 \in 1 .. k /\ two + i - 1 = i + 1 /\ m + (i + 1) - 1 = r + i - 1
      BY <1>1
    <3> QED BY <3>1
  <2> QED BY <1>2, <1>3, <1>4, <2>1
<1>6. w = u BY <1>3, <1>4, <1>5, SameText
<1>7. t[1] = s[m]
  <2>1. PICK i \in 1 .. k : i = 1 /\ m + i - 1 = m BY <1>1
  <2> QED BY <1>2, <2>1
<1> QED BY <1>1, <1>2, <1>3, <1>4, <1>6, <1>7

(* What a range is without its comma.                                      *)
LEMMA RangeIs ==
  ASSUME value \in Values, NEW i \in 1 .. Len(ranges), NEW p \in Nat,
         NEW d \in Nat, NEW q \in Nat, Spans(p, Skip(i), d, q),
         Takes(ranges[i], p, d, q),
         ranges \in Seq([begin : Strings, end : Strings])
  PROVE  /\ WithoutComma(i).begin = SubSeq(value, p + Skip(i) + 1, d - 1)
         /\ WithoutComma(i).end = SubSeq(value, d + 1, q)
         /\ Bounds(WithoutComma(i).begin) /\ Bounds(WithoutComma(i).end)
         /\ i > 1 => ranges[i].begin[1] = Comma
<1>1. PICK L \in Nat : value \in Strings /\ L = Len(value) BY ValueIs
<1>2. /\ p >= 1 /\ p + Skip(i) < d /\ d <= q /\ q <= L
      /\ \A k \in p + Skip(i) + 1 .. q : k # d => value[k] \in Digits
      /\ Skip(i) = 1 => value[p + 1] = Comma
  BY <1>1 DEF Spans
<1>3. ranges[i].begin = SubSeq(value, p + 1, d - 1)
      /\ ranges[i].end = SubSeq(value, d + 1, q)
  BY DEF Takes
<1>4. PICK x, y \in Nat : x = d - 1 /\ y = d + 1 /\ x <= L /\ p <= x
                          /\ p + Skip(i) <= x
  <2>1. Skip(i) \in 0 .. 1 BY DEF Skip
  <2>2. d - 1 \in Nat /\ d + 1 \in Nat /\ d - 1 <= L /\ p <= d - 1
        /\ p + Skip(i) <= d - 1
    BY <1>2, <2>1
  <2> QED BY <2>2
<1>5. Bounds(SubSeq(value, y, q))
  <2>1. y >= 1 /\ y <= q + 1 BY <1>2, <1>4
  <2>2. \A k \in y .. q : value[k] \in Digits
    <3> SUFFICES ASSUME NEW k \in y .. q PROVE value[k] \in Digits OBVIOUS
    <3>1. Skip(i) \in 0 .. 1 BY DEF Skip
    <3>2. k \in p + Skip(i) + 1 .. q /\ k # d BY <1>2, <1>4, <3>1
    <3> QED BY <1>2, <3>2
  <2> QED BY <1>1, <1>2, <2>1, <2>2, PieceBounds
<1>6. PICK m \in Nat : m = p + Skip(i) + 1 /\ m >= 1 /\ m <= x + 1
  <2>1. Skip(i) \in 0 .. 1 BY DEF Skip
  <2> QED BY <1>4, <2>1
<1>7. Bounds(SubSeq(value, m, x))
  <2>1. \A k \in m .. x : value[k] \in Digits
    <3> SUFFICES ASSUME NEW k \in m .. x PROVE value[k] \in Digits OBVIOUS
    <3>1. k \in p + Skip(i) + 1 .. q /\ k # d BY <1>2, <1>4, <1>6
    <3> QED BY <1>2, <3>1
  <2> QED BY <1>1, <1>4, <1>6, <2>1, PieceBounds
<1>8. CASE i = 1
  <2>1. WithoutComma(i) = ranges[i] /\ Skip(i) = 0
    BY <1>8 DEF WithoutComma, Skip
  <2>2. m = p + 1 BY <1>6, <2>1
  <2>3. /\ WithoutComma(i).begin = SubSeq(value, m, x)
        /\ WithoutComma(i).end = SubSeq(value, y, q)
    BY <1>3, <1>4, <2>1, <2>2
  <2>4. /\ WithoutComma(i).begin = SubSeq(value, p + Skip(i) + 1, d - 1)
        /\ WithoutComma(i).end = SubSeq(value, d + 1, q)
    BY <1>4, <1>6, <2>3
  <2>5. Bounds(WithoutComma(i).begin) /\ Bounds(WithoutComma(i).end)
    BY <1>5, <1>7, <2>3
  <2>6. ~(i > 1) BY <1>8
  <2> QED BY <2>4, <2>5, <2>6
<1>9. CASE i # 1
  <2>1. Skip(i) = 1 BY <1>9 DEF Skip
  <2>2. PICK l \in Nat : l = p + 1 /\ l >= 1 /\ l <= x /\ m = l + 1
    BY <1>4, <1>6, <2>1
  <2>3. /\ SubSeq(SubSeq(value, l, x), 2, Len(SubSeq(value, l, x)))
              = SubSeq(value, l + 1, x)
        /\ SubSeq(value, l, x)[1] = value[l]
    BY <1>1, <1>4, <2>2, PieceTail
  <2>4. ranges[i] \in [begin : Strings, end : Strings] BY ElementOfSeq
  <2>5. /\ WithoutComma(i).begin = SubSeq(ranges[i].begin, 2, Len(ranges[i].begin))
        /\ WithoutComma(i).end = ranges[i].end
    BY <1>9, <2>4 DEF WithoutComma
  <2>6. WithoutComma(i).begin = SubSeq(value, m, x)
    BY <1>3, <1>4, <2>2, <2>3, <2>5
  <2>7. ranges[i].begin[1] = Comma BY <1>2, <1>3, <1>4, <2>1, <2>2, <2>3
  <2> QED BY <1>3, <1>4, <1>5, <1>6, <1>7, <2>5, <2>6, <2>7
<1> QED BY <1>8, <1>9

(* The text up to a range's end: what was before it, its comma, its bounds *)
(* and its dash.                                                           *)
Grows(s, p, c, d, q) ==
    SubSeq(s, 1, q) =
       SubSeq(s, 1, p) \o (IF c = 0 THEN <<>> ELSE <<Comma>>)
          \o SubSeq(s, p + c + 1, d - 1) \o <<Dash>> \o SubSeq(s, d + 1, q)

(* Every prefix grows so, from one range to the next.                      *)
LEMMA Prefix ==
  ASSUME NEW s \in Strings, NEW p \in Nat, NEW c \in 0 .. 1, NEW d \in Nat,
         NEW q \in Nat, p >= 1, p + c < d, d <= q, q <= Len(s), s[d] = Dash,
         c = 1 => s[p + 1] = Comma
  PROVE  Grows(s, p, c, d, q)
<1>1. PICK one, a, b, x, y \in Nat :
         /\ one = 1 /\ a = p + c /\ b = a + 1 /\ x = d - 1 /\ y = d + 1
         /\ d = x + 1 /\ a <= x
  <2>1. p + c \in Nat /\ p + c + 1 \in Nat /\ d - 1 \in Nat /\ d + 1 \in Nat
        /\ d - 1 + 1 = d /\ p + c <= d - 1
    OBVIOUS
  <2> QED BY <2>1
<1>2. Len(s) \in Nat BY TextIs
<1>3. SubSeq(s, one, a) = SubSeq(s, one, p) \o (IF c = 0 THEN <<>> ELSE <<Comma>>)
  <2>1. CASE c = 0
    <3>1. a = p BY <1>1, <2>1
    <3>2. one >= 1 /\ one <= p + 1 /\ p <= Len(s) BY <1>1, <1>2
    <3>3. SubSeq(s, one, p) \in Strings BY <3>2, Piece
    <3> QED BY <2>1, <3>1, <3>3, NoMore
  <2>2. CASE c = 1
    <3>1. a = p + 1 /\ a >= 1 /\ a <= Len(s) BY <1>1, <1>2, <2>2
    <3>2. Splits(s, one, p, a, a) BY <1>1, <1>2, <3>1, Split
    <3>3. SubSeq(s, a, a) = <<s[a]>> BY <3>1, Single
    <3>4. s[a] = Comma BY <2>2, <3>1
    <3> QED BY <2>2, <3>2, <3>3, <3>4 DEF Splits
  <2> QED BY <2>1, <2>2
<1>4. SubSeq(s, one, x) = SubSeq(s, one, a) \o SubSeq(s, b, x)
  <2>1. one >= 1 /\ one <= b /\ b = a + 1 /\ a <= x /\ x <= Len(s)
    BY <1>1, <1>2
  <2>2. Splits(s, one, a, b, x) BY <2>1, Split
  <2> QED BY <2>2 DEF Splits
<1>5. SubSeq(s, one, d) = SubSeq(s, one, x) \o <<Dash>>
  <2>1. one >= 1 /\ one <= d /\ d = x + 1 /\ x <= d /\ d <= Len(s) /\ d >= 1
    BY <1>1, <1>2
  <2>2. Splits(s, one, x, d, d) BY <2>1, Split
  <2>3. SubSeq(s, d, d) = <<s[d]>> BY <2>1, Single
  <2> QED BY <2>2, <2>3 DEF Splits
<1>6. SubSeq(s, one, q) = SubSeq(s, one, d) \o SubSeq(s, y, q)
  <2>1. one >= 1 /\ one <= y /\ y = d + 1 /\ d <= q /\ q <= Len(s)
    BY <1>1, <1>2
  <2>2. Splits(s, one, d, y, q) BY <2>1, Split
  <2> QED BY <2>2 DEF Splits
<1> QED BY <1>1, <1>3, <1>4, <1>5, <1>6 DEF Grows

(* The text of the list that was taken is the value.                       *)
LEMMA TextOfList ==
  ASSUME value \in Values, NEW list, NEW k \in Nat, k = Len(list), NEW at,
         at \in [0 .. k -> Nat], at[0] = 1, at[k] = Len(value),
         \A i \in 0 .. k : at[i] >= 1 /\ at[i] <= Len(value), value[1] = Bytes,
         \A i \in 1 .. k :
            SubSeq(value, 1, at[i]) =
               SubSeq(value, 1, at[i - 1]) \o (IF i = 1 THEN <<>> ELSE <<Comma>>)
                  \o list[i].begin \o <<Dash>> \o list[i].end
  PROVE  ListText(list) = value
<1>1. PICK L \in Nat : value \in Strings /\ L = Len(value) BY ValueIs
<1> DEFINE More(x, i) == x \o (IF i = 1 THEN <<>> ELSE <<Comma>>)
                           \o list[i].begin \o <<Dash>> \o list[i].end
           Step(f) == [i \in 0 .. Len(list) |->
                         IF i = 0 THEN <<Bytes>>
                         ELSE More(f[i - 1], i)]
           text == CHOOSE f : f = Step(f)
           F == [i \in 0 .. k |-> SubSeq(value, 1, at[i])]
<1>2. ListText(list) = text[k] BY DEF ListText
<1>3. F[0] = <<Bytes>>
  <2>1. PICK one \in Nat : one = 1 OBVIOUS
  <2>2. one >= 1 /\ one <= Len(value)
    <3>1. 0 \in 0 .. k OBVIOUS
    <3> QED BY <2>1, <3>1
  <2>3. SubSeq(value, one, one) = <<value[one]>> BY <1>1, <2>2, Single
  <2> QED BY <2>1, <2>3
<1>4. \A i \in 0 .. k : F[i] = SubSeq(value, 1, at[i]) OBVIOUS
<1>5. ASSUME NEW i \in 1 .. k
      PROVE  F[i] = More(F[i - 1], i)
  <2>1. i \in 0 .. k /\ i - 1 \in 0 .. k OBVIOUS
  <2> HIDE DEF F
  <2> QED BY <1>4, <2>1
<1>6. F = [i \in 0 .. k |-> F[i]] OBVIOUS
<1> HIDE DEF F, More
<1>7. F = Step(F)
  <2>1. ASSUME NEW i \in 0 .. k
        PROVE  F[i] = IF i = 0 THEN <<Bytes>>
                      ELSE More(F[i - 1], i)
    <3>1. CASE i = 0 BY <1>3, <3>1
    <3>2. CASE i # 0
      <4>1. i \in 1 .. k BY <3>2
      <4> QED BY <1>5, <3>2, <4>1
    <3> QED BY <3>1, <3>2
  <2> QED BY <1>6, <2>1
<1>8. text = Step(text)
  <2> HIDE DEF Step
  <2> QED BY <1>7
<1> HIDE DEF text
<1>9. /\ text[0] = <<Bytes>>
      /\ \A i \in 1 .. k : text[i] = More(text[i - 1], i)
  <2>1. \A i \in 0 .. k : text[i] = Step(text)[i] BY <1>8
  <2>2. text[0] = <<Bytes>>
    <3>1. 0 \in 0 .. k OBVIOUS
    <3> QED BY <2>1, <3>1
  <2>3. ASSUME NEW i \in 1 .. k
        PROVE  text[i] = More(text[i - 1], i)
    <3>1. i \in 0 .. k /\ i # 0 OBVIOUS
    <3> QED BY <2>1, <3>1
  <2> QED BY <2>2, <2>3
<1> DEFINE S == {i \in 0 .. k : text[i] # F[i]}
<1>10. S = {}
  <2>1. SUFFICES ASSUME S # {} PROVE FALSE OBVIOUS
  <2>2. PICK i \in S : \A j \in S : i <= j
    <3>1. S \subseteq Nat OBVIOUS
    <3> HIDE DEF S
    <3> QED BY <2>1, <3>1, LeastOf
  <2>3. i \in 0 .. k /\ text[i] # F[i] BY <2>2
  <2>4. i # 0 BY <1>3, <1>9, <2>3
  <2>5. PICK j \in Nat : j = i - 1 /\ j \in 0 .. k /\ ~(i <= j) /\ i \in 1 .. k
    BY <2>3, <2>4
  <2>6. text[j] = F[j]
    <3>1. j \notin S BY <2>2, <2>5
    <3> QED BY <2>5, <3>1
  <2> QED BY <1>5, <1>9, <2>3, <2>5, <2>6
<1>11. text[k] = F[k] BY <1>10
<1>12. SubSeq(value, 1, Len(value)) = value BY <1>1, Whole
<1>13. k \in 0 .. k OBVIOUS
<1> QED BY <1>2, <1>4, <1>11, <1>12, <1>13

(* At the end the places reach the end of the value, so its text is all    *)
(* taken.                                                                  *)
LEMMA ListFollows == RangeInv => (done /\ SoundList => Extracted)
<1> SUFFICES ASSUME RangeInv, done, SoundList PROVE Extracted OBVIOUS
<1>1. RangeType BY DEF RangeInv
<1>2. PICK at : Taken(at) BY DEF RangeInv, ListInv
<1>3. PICK k, L \in Nat : /\ k = Len(ranges) /\ DOMAIN ranges = 1 .. k
                          /\ L = Len(value) /\ value \in Strings
                          /\ value \in Values
  <2>1. value \in Values /\ ranges \in Seq([begin : Strings, end : Strings])
    BY <1>1 DEF RangeType
  <2> QED BY <2>1, ValueIs
<1>4. /\ at \in [0 .. k -> Nat] /\ at[0] = 1 /\ at[k] = L /\ k # 0
      /\ \A i \in 1 .. k : \E d \in Nat :
            Spans(at[i - 1], Skip(i), d, at[i]) /\ Takes(ranges[i], at[i - 1], d, at[i])
  <2>1. ranges # <<>> /\ LaidOut(at) /\ at[k] = L BY <1>2, <1>3 DEF Taken
  <2>2. k # 0 BY <1>1, <1>3, <2>1 DEF RangeType
  <2> QED BY <1>3, <2>1, <2>2 DEF LaidOut
<1> DEFINE list == [i \in DOMAIN ranges |-> WithoutComma(i)]
<1>5. DOMAIN list = 1 .. k /\ \A i \in 1 .. k : list[i] = WithoutComma(i)
  BY <1>3
<1>6. Len(list) = k
  <2>1. list = [i \in 1 .. k |-> WithoutComma(i)] BY <1>3
  <2> QED BY <2>1
<1> HIDE DEF list
<1>7. ASSUME NEW i \in 1 .. k
      PROVE  /\ Bounds(list[i].begin) /\ Bounds(list[i].end)
             /\ i > 1 => ranges[i].begin[1] = Comma
             /\ at[i] >= 1 /\ at[i] <= L
             /\ SubSeq(value, 1, at[i]) =
                  SubSeq(value, 1, at[i - 1]) \o (IF i = 1 THEN <<>> ELSE <<Comma>>)
                     \o list[i].begin \o <<Dash>> \o list[i].end
  <2>1. PICK d \in Nat : /\ Spans(at[i - 1], Skip(i), d, at[i])
                         /\ Takes(ranges[i], at[i - 1], d, at[i])
    BY <1>4
  <2>2. PICK p, q \in Nat : p = at[i - 1] /\ q = at[i]
    <3>1. i \in 0 .. k /\ i - 1 \in 0 .. k OBVIOUS
    <3> QED BY <1>4, <3>1
  <2>3. /\ WithoutComma(i).begin = SubSeq(value, p + Skip(i) + 1, d - 1)
        /\ WithoutComma(i).end = SubSeq(value, d + 1, q)
        /\ Bounds(WithoutComma(i).begin) /\ Bounds(WithoutComma(i).end)
        /\ i > 1 => ranges[i].begin[1] = Comma
    <3>1. i \in 1 .. Len(ranges) BY <1>3
    <3>2. ranges \in Seq([begin : Strings, end : Strings]) BY <1>1 DEF RangeType
    <3>3. Spans(p, Skip(i), d, q) /\ Takes(ranges[i], p, d, q) BY <2>1, <2>2
    <3> QED BY <1>3, <3>1, <3>2, <3>3, RangeIs
  <2>4. PICK c \in 0 .. 1 : c = Skip(i) /\ (c = 0 <=> i = 1) BY DEF Skip
  <2>5. /\ p >= 1 /\ p + c < d /\ d <= q /\ q <= L /\ q >= 1 /\ value[d] = Dash
        /\ c = 1 => value[p + 1] = Comma
    BY <1>3, <2>1, <2>2, <2>4 DEF Spans
  <2>6. Grows(value, p, c, d, q)
    <3>1. q <= Len(value) BY <1>3, <2>5
    <3> QED BY <1>3, <2>5, <3>1, Prefix
  <2>7. list[i] = WithoutComma(i) BY <1>5
  <2>8. (IF c = 0 THEN <<>> ELSE <<Comma>>) = (IF i = 1 THEN <<>> ELSE <<Comma>>)
    BY <2>4
  <2>9. SubSeq(value, 1, q) =
            SubSeq(value, 1, p) \o (IF i = 1 THEN <<>> ELSE <<Comma>>)
               \o list[i].begin \o <<Dash>> \o list[i].end
    BY <2>3, <2>4, <2>6, <2>7, <2>8 DEF Grows
  <2> QED BY <2>2, <2>3, <2>5, <2>7, <2>9
<1>8. \A i \in 0 .. k : at[i] >= 1 /\ at[i] <= L
  <2> SUFFICES ASSUME NEW i \in 0 .. k PROVE at[i] >= 1 /\ at[i] <= L OBVIOUS
  <2>1. CASE i = 0
    <3>1. PICK j \in 1 .. k : j = 1 BY <1>4
    <3>2. at[j] >= 1 /\ at[j] <= L /\ at[j] \in Nat
      <4>1. j \in 0 .. k BY <3>1
      <4> QED BY <1>4, <1>7, <4>1
    <3>3. L >= 1 BY <3>2
    <3> QED BY <1>4, <2>1, <3>3
  <2>2. CASE i # 0
    <3>1. i \in 1 .. k BY <2>2
    <3> QED BY <1>7, <3>1
  <2> QED BY <2>1, <2>2
<1>9. value[1] = Bytes BY DEF SoundList
<1>10. ListText(list) = value
  BY <1>3, <1>4, <1>6, <1>7, <1>8, <1>9, TextOfList
<1>11. /\ \A i \in DOMAIN list : Bounds(list[i].begin) /\ Bounds(list[i].end)
       /\ \A i \in DOMAIN ranges : i > 1 => ranges[i].begin[1] = Comma
  BY <1>3, <1>5, <1>7
<1> QED BY <1>10, <1>11 DEF Extracted, list

(* A step that changes nothing.                                            *)
LEMMA RangeStutters ==
  ASSUME RangeInv, UNCHANGED scan
  PROVE  RangeInv'
<1>1. value' = value /\ begin' = begin /\ ranges' = ranges /\ done' = done
  BY DEF scan
<1>2. SoundList' <=> SoundList BY <1>1 DEF SoundList, RangeEnd
<1>3. RangeType' BY <1>1 DEF RangeInv, RangeType
<1>4. ASSUME NEW at, Taken(at) PROVE Taken(at)'
  <2>1. LaidOut(at)' BY <1>1, <1>4 DEF Taken, LaidOut, Spans, Takes
  <2> QED BY <1>1, <1>4, <2>1 DEF Taken
<1>5. RoundsInv' BY <1>1 DEF RangeInv, RoundsInv
<1> QED BY <1>2, <1>3, <1>4, <1>5 DEF RangeInv, ListInv

(* What the scan of a range header has extracted so far is what the value  *)
(* says before its offset (filesystem_rnode.cpp:44-79).                    *)
THEOREM RangeInvariance == RangeSpec => []RangeInv
<1>1. RangeInit => RangeInv BY RangeInitInv
<1>2. RangeInv /\ [RangeRound]_scan => RangeInv'
  BY RangeTypeStep, ListStep, RoundsStep, RangeStutters DEF RangeInv
<1> QED BY <1>1, <1>2, PTL DEF RangeSpec

(* The scan of a range header ends, and from every list of ranges, however *)
(* long, whose bounds are digits or left out, every range is extracted, in *)
(* its order and with its bounds; but all except the first begin with      *)
(* their comma (filesystem_rnode.cpp:31-80, 130).                          *)
THEOREM RangesExtracted == RangeSpec => []ListExtracted
<1>1. RangeInv => ListExtracted
  BY ListFollows DEF ListExtracted, RangeInv, RoundsInv
<1> QED BY <1>1, RangeInvariance, PTL

=============================================================================
