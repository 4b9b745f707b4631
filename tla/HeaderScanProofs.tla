-------------------------- MODULE HeaderScanProofs --------------------------
(***************************************************************************)
(* The headers are taken from the stream at their first blank lines for    *)
(* every size of the blocks and every stream, wherever reads cut it.       *)
(***************************************************************************)
EXTENDS HeaderScan, SequenceTheorems, WellFoundedInduction, TLAPS

-----------------------------------------------------------------------------
(* Blocks.                                                                 *)

(* Some element of a set of numbers is the least.                          *)
LEMMA LeastOf ==
  ASSUME NEW S, S \subseteq Nat, S # {}
  PROVE  \E n \in S : \A m \in S : n <= m
<1> DEFINE R == OpToRel(<, Nat)
<1>1. IsWellFoundedOn(R, Nat) BY NatLessThanWellFounded
<1>2. PICK n \in S : \A m \in S : <<m, n>> \notin R
  BY <1>1, WFMin, Zenon
<1>3. \A m \in S : ~(m < n) BY <1>2 DEF OpToRel
<1> QED BY <1>3

(* A position is made of a block and a place in it,                        *)
LEMMA Split ==
  \A k \in Nat : /\ k \div BlockSize \in Nat
                 /\ k % BlockSize \in 0 .. BlockSize - 1
                 /\ k = BlockSize * (k \div BlockSize) + (k % BlockSize)
<1> SUFFICES ASSUME NEW k \in Nat
             PROVE  /\ k \div BlockSize \in Nat
                    /\ k % BlockSize \in 0 .. BlockSize - 1
                    /\ k = BlockSize * (k \div BlockSize) + (k % BlockSize)
  OBVIOUS
<1>1. BlockSize \in Nat /\ BlockSize > 0 BY BlockSizeAssumption
<1>2. /\ k \div BlockSize \in Int
      /\ k % BlockSize \in 0 .. BlockSize - 1
      /\ k = BlockSize * (k \div BlockSize) + (k % BlockSize)
  BY BlockSizeAssumption
<1>3. k \div BlockSize >= 0
  <2> DEFINE q == k \div BlockSize
             r == k % BlockSize
  <2>1. q \in Int /\ r \in 0 .. BlockSize - 1 /\ k = BlockSize * q + r
    BY <1>2
  <2> HIDE DEF q, r
  <2>2. ASSUME q <= -1 PROVE FALSE
    <3>1. BlockSize * q <= -BlockSize BY <1>1, <2>1, <2>2
    <3> QED BY <1>1, <2>1, <3>1
  <2>3. q >= 0 BY <2>1, <2>2
  <2> QED BY <2>3 DEF q
<1> QED BY <1>2, <1>3

(* of one block and one place only.                                        *)
LEMMA OneSplit ==
  ASSUME NEW k \in Nat, NEW q \in Int, NEW r \in 0 .. BlockSize - 1,
         k = BlockSize * q + r
  PROVE  k \div BlockSize = q /\ k % BlockSize = r
<1> DEFINE t == k \div BlockSize
           u == k % BlockSize
<1>1. BlockSize \in Nat /\ BlockSize > 0 BY BlockSizeAssumption
<1>2. t \in Nat /\ u \in 0 .. BlockSize - 1 /\ k = BlockSize * t + u
  BY Split, Zenon
<1> HIDE DEF t, u
<1>3. BlockSize * (t - q) = r - u BY <1>1, <1>2
<1>4. ~(t - q >= 1)
  <2> SUFFICES ASSUME t - q >= 1 PROVE FALSE OBVIOUS
  <2>1. BlockSize * (t - q) >= BlockSize BY <1>1, <1>2
  <2> QED BY <1>1, <1>2, <1>3, <2>1
<1>5. ~(t - q <= -1)
  <2> SUFFICES ASSUME t - q <= -1 PROVE FALSE OBVIOUS
  <2>1. BlockSize * (t - q) <= -BlockSize BY <1>1, <1>2
  <2> QED BY <1>1, <1>2, <1>3, <2>1
<1>6. t = q BY <1>2, <1>4, <1>5
<1>7. u = r BY <1>1, <1>2, <1>6
<1> QED BY <1>6, <1>7 DEF t, u

(* So many blocks further on it is at the same place,                      *)
LEMMA Shift ==
  ASSUME NEW k \in Nat, NEW d \in Nat
  PROVE  /\ k + BlockSize * d \in Nat
         /\ (k + BlockSize * d) \div BlockSize = k \div BlockSize + d
         /\ (k + BlockSize * d) % BlockSize = k % BlockSize
<1> DEFINE q == k \div BlockSize
           r == k % BlockSize
<1>1. BlockSize \in Nat /\ BlockSize > 0 BY BlockSizeAssumption
<1>2. q \in Nat /\ r \in 0 .. BlockSize - 1 /\ k = BlockSize * q + r
  BY Split, Zenon
<1> HIDE DEF q, r
<1>3. BlockSize * d \in Nat BY <1>1
<1>4. k + BlockSize * d = BlockSize * (q + d) + r BY <1>1, <1>2
<1>5. k + BlockSize * d \in Nat /\ q + d \in Int BY <1>2, <1>3
<1> QED BY <1>2, <1>4, <1>5, OneSplit DEF q, r

(* and what is before a block's end is in that block or before.            *)
LEMMA Below ==
  ASSUME NEW k \in Nat, NEW m \in Nat
  PROVE  /\ k < BlockSize * m => k \div BlockSize < m
         /\ k >= BlockSize * m => k \div BlockSize >= m
<1> DEFINE q == k \div BlockSize
           r == k % BlockSize
<1>1. BlockSize \in Nat /\ BlockSize > 0 BY BlockSizeAssumption
<1>2. q \in Nat /\ r \in 0 .. BlockSize - 1 /\ k = BlockSize * q + r
  BY Split, Zenon
<1> HIDE DEF q, r
<1>3. ASSUME k < BlockSize * m PROVE q < m
  <2> SUFFICES ASSUME q >= m PROVE FALSE BY <1>2
  <2>1. BlockSize * q >= BlockSize * m BY <1>1, <1>2
  <2> QED BY <1>1, <1>2, <1>3, <2>1
<1>4. ASSUME k >= BlockSize * m PROVE q >= m
  <2> SUFFICES ASSUME q <= m - 1 PROVE FALSE BY <1>2
  <2>1. BlockSize * q <= BlockSize * (m - 1) BY <1>1, <1>2
  <2>2. BlockSize * (m - 1) = BlockSize * m - BlockSize BY <1>1
  <2> QED BY <1>1, <1>2, <1>4, <2>1, <2>2
<1> QED BY <1>3, <1>4 DEF q

-----------------------------------------------------------------------------
(* The buffer.                                                             *)

(* The byte at a position of the blocks q.                                 *)
Cell(q, k) == q[1 + (k \div BlockSize)][1 + (k % BlockSize)]

(* A buffer of n data behind o consumed bytes and before f free ones: all  *)
(* there is in the blocks q, and the data are bytes.                       *)
Made(b, n, f, o, q) ==
    /\ b = [size |-> n, capacity |-> f, offset |-> o, blocks |-> q]
    /\ f <= BlockSize /\ o <= BlockSize - 1
    /\ o + n + f = BlockSize * Len(q)
    /\ \A k \in o .. o + n - 1 : Cell(q, k) \in Bytes

BufferOK(b) == \E n, f, o \in Nat : \E q \in Seq(Block) : Made(b, n, f, o, q)

(* The contents are the bytes from the offset on, and what is taken of     *)
(* them is their beginning.                                                *)
LEMMA ContentsAre ==
  ASSUME NEW b, NEW n \in Nat, NEW f \in Nat, NEW o \in Nat,
         NEW q \in Seq(Block), Made(b, n, f, o, q)
  PROVE  /\ Contents(b) \in Seq(Bytes) /\ Len(Contents(b)) = n
         /\ \A i \in 1 .. n : Contents(b)[i] = Cell(q, o + i - 1)
         /\ \A m \in 0 .. n : Data(b, m) = SubSeq(Contents(b), 1, m)
<1> DEFINE D(i) == Cell(q, o + i - 1)
<1>1. b.size = n /\ b.offset = o /\ b.blocks = q BY DEF Made
<1>2. \A m : Data(b, m) = [i \in 1 .. m |-> D(i)] BY <1>1 DEF Data, Cell
<1>3. Contents(b) = [i \in 1 .. n |-> D(i)] BY <1>1, <1>2 DEF Contents
<1>4. ASSUME NEW i \in 1 .. n PROVE D(i) \in Bytes
  <2>1. o + i - 1 \in o .. o + n - 1 OBVIOUS
  <2> QED BY <2>1 DEF Made
<1> HIDE DEF D
<1>5. \A i \in 1 .. n : Contents(b)[i] = D(i) BY <1>3
<1>6. Contents(b) \in Seq(Bytes) /\ Len(Contents(b)) = n BY <1>3, <1>4
<1>7. ASSUME NEW m \in 0 .. n PROVE Data(b, m) = SubSeq(Contents(b), 1, m)
  <2>1. SubSeq(Contents(b), 1, m) = [i \in 1 .. m |-> Contents(b)[i]]
    BY <1>6
  <2>2. \A i \in 1 .. m : Contents(b)[i] = D(i) BY <1>5
  <2> QED BY <1>2, <2>1, <2>2
<1> QED BY <1>5, <1>6, <1>7 DEF D

(* get_available_block leaves the contents and makes room.                 *)
LEMMA ReserveKeeps ==
  ASSUME NEW b, BufferOK(b)
  PROVE  /\ BufferOK(Reserve(b)) /\ Contents(Reserve(b)) = Contents(b)
         /\ Reserve(b).size = b.size /\ Reserve(b).capacity > 0
<1> DEFINE new == [i \in 1 .. BlockSize |-> Unwritten]
<1>1. PICK n, f, o \in Nat : \E q \in Seq(Block) : Made(b, n, f, o, q)
  BY DEF BufferOK
<1>2. PICK q \in Seq(Block) : Made(b, n, f, o, q) BY <1>1
<1>3. BlockSize \in Nat /\ BlockSize >= 1 BY BlockSizeAssumption
<1>4. b = [size |-> n, capacity |-> f, offset |-> o, blocks |-> q]
      /\ f <= BlockSize /\ o <= BlockSize - 1
      /\ o + n + f = BlockSize * Len(q)
  BY <1>2 DEF Made
<1>5. CASE f # 0 BY <1>4, <1>5 DEF Reserve, BufferOK
<1>6. CASE f = 0
  <2> DEFINE p == Append(q, new)
             c == [size |-> n, capacity |-> BlockSize, offset |-> o,
                   blocks |-> p]
  <2>1. Reserve(b) = c BY <1>4, <1>6 DEF Reserve
  <2>2. new \in Block BY DEF Block
  <2> HIDE DEF new
  <2>3. PICK L \in Nat : L = Len(q) OBVIOUS
  <2>4. /\ p \in Seq(Block) /\ Len(p) = L + 1
        /\ \A i \in 1 .. L : p[i] = q[i]
    BY <2>2, <2>3
  <2> HIDE DEF p
  <2>5. o + n + BlockSize = BlockSize * (L + 1)
    <3>1. BlockSize * (L + 1) = BlockSize * L + BlockSize BY <1>3
    <3> QED BY <1>3, <1>4, <1>6, <2>3, <3>1
  <2>6. ASSUME NEW k \in o .. o + n - 1 PROVE Cell(p, k) = Cell(q, k)
    <3>1. k \in Nat /\ k < BlockSize * L BY <1>3, <1>4, <1>6, <2>3
    <3>2. k \div BlockSize < L BY <3>1, Below
    <3>3. k \div BlockSize \in Nat BY <3>1, Split, Zenon
    <3> DEFINE e == k \div BlockSize
    <3>4. e \in Nat /\ e < L BY <3>2, <3>3
    <3> HIDE DEF e
    <3>5. 1 + e \in 1 .. L BY <3>4
    <3> QED BY <2>4, <3>5 DEF Cell, e
  <2>7. Made(c, n, BlockSize, o, p)
    <3>1. \A k \in o .. o + n - 1 : Cell(p, k) \in Bytes
      BY <1>2, <2>6 DEF Made
    <3> QED BY <1>3, <1>4, <2>4, <2>5, <3>1 DEF Made
  <2>8. BufferOK(c) BY <1>3, <2>4, <2>7 DEF BufferOK
  <2>9. Contents(c) = Contents(b)
    <3>1. /\ Contents(c) \in Seq(Bytes) /\ Len(Contents(c)) = n
          /\ \A i \in 1 .. n : Contents(c)[i] = Cell(p, o + i - 1)
      BY <1>3, <2>4, <2>7, ContentsAre
    <3>2. /\ Contents(b) \in Seq(Bytes) /\ Len(Contents(b)) = n
          /\ \A i \in 1 .. n : Contents(b)[i] = Cell(q, o + i - 1)
      BY <1>2, ContentsAre
    <3>3. ASSUME NEW i \in 1 .. n PROVE Contents(c)[i] = Contents(b)[i]
      <4>1. o + i - 1 \in o .. o + n - 1 OBVIOUS
      <4> QED BY <2>6, <3>1, <3>2, <4>1
    <3> HIDE DEF c
    <3> QED BY <3>1, <3>2, <3>3
  <2>10. c.size = b.size /\ c.capacity > 0 BY <1>3, <1>4
  <2> QED BY <2>1, <2>8, <2>9, <2>10
<1> QED BY <1>5, <1>6

(* A read that commits what it wrote adds it to the contents.              *)
LEMMA WriteAppends ==
  ASSUME NEW b, BufferOK(b), NEW data \in Seq(Bytes),
         Len(data) > 0, Len(data) <= b.capacity
  PROVE  /\ BufferOK(Write(b, data))
         /\ Contents(Write(b, data)) = Contents(b) \o data
         /\ Write(b, data).size = b.size + Len(data)
         /\ Write(b, data).offset = b.offset
         /\ Len(Write(b, data).blocks) = Len(b.blocks)
<1>1. PICK n, f, o \in Nat : \E q \in Seq(Block) : Made(b, n, f, o, q)
  BY DEF BufferOK
<1>2. PICK q \in Seq(Block) : Made(b, n, f, o, q) BY <1>1
<1>3. BlockSize \in Nat /\ BlockSize >= 1 BY BlockSizeAssumption
<1>4. b = [size |-> n, capacity |-> f, offset |-> o, blocks |-> q]
      /\ f <= BlockSize /\ o <= BlockSize - 1
      /\ o + n + f = BlockSize * Len(q)
  BY <1>2 DEF Made
<1>5. PICK N \in Nat : N = Len(data) /\ N > 0 /\ N <= f
  <2>1. Len(data) \in Nat OBVIOUS
  <2> QED BY <1>4, <2>1
<1>6. PICK L \in Nat : L = Len(q) OBVIOUS
<1>7. L >= 1
  <2> SUFFICES ASSUME L = 0 PROVE FALSE OBVIOUS
  <2>1. BlockSize * 0 = 0 BY <1>3
  <2>2. o + n + f = 0 BY <1>4, <1>6, <2>1
  <2> QED BY <1>5, <2>2
<1>8. PICK end \in Nat : end = o + n OBVIOUS
<1>9. PICK at \in Nat : at = BlockSize - f BY <1>3, <1>4
<1>10. end = BlockSize * (L - 1) + at
  <2>1. BlockSize * (L - 1) = BlockSize * L - BlockSize BY <1>3
  <2>2. end + f = BlockSize * L BY <1>4, <1>6, <1>8
  <2> QED BY <1>3, <1>9, <2>1, <2>2
<1>11. end % BlockSize = at
  <2>1. at \in 0 .. BlockSize - 1 /\ L - 1 \in Int BY <1>3, <1>5, <1>9
  <2> QED BY <1>10, <2>1, OneSplit
<1> DEFINE new == [i \in 1 .. BlockSize |->
                     IF i - at \in 1 .. N THEN data[i - at] ELSE q[L][i]]
           p == [q EXCEPT ![L] = new]
           c == [size |-> n + N, capacity |-> f - N, offset |-> o,
                 blocks |-> p]
<1>12. Write(b, data) = c
  <2>1. b = [size |-> n, capacity |-> f, offset |-> o, blocks |-> q]
        /\ at = (o + n) % BlockSize /\ N = Len(data) /\ L = Len(q)
    BY <1>4, <1>5, <1>6, <1>8, <1>11
  <2> DEFINE own == [i \in 1 .. BlockSize |->
                       IF i - ((o + n) % BlockSize) \in 1 .. Len(data)
                       THEN data[i - ((o + n) % BlockSize)]
                       ELSE q[Len(q)][i]]
  <2>2. Write(b, data) = [size |-> n + Len(data), capacity |-> f - Len(data),
                          offset |-> o, blocks |-> [q EXCEPT ![Len(q)] = own]]
    BY <2>1 DEF Write
  <2>3. own = new BY <2>1
  <2> HIDE DEF own, new
  <2> QED BY <2>1, <2>2, <2>3
<1>13. new \in Block
  <2> SUFFICES ASSUME NEW i \in 1 .. BlockSize
               PROVE  (IF i - at \in 1 .. N THEN data[i - at]
                       ELSE q[L][i]) \in Bytes \cup {Unwritten}
    BY DEF Block
  <2>1. q[L] \in Block BY <1>6, <1>7
  <2>2. q[L][i] \in Bytes \cup {Unwritten} BY <2>1 DEF Block
  <2>3. i - at \in 1 .. N => data[i - at] \in Bytes BY <1>5
  <2> QED BY <2>2, <2>3
<1>14. \A i \in 1 .. BlockSize :
          new[i] = IF i - at \in 1 .. N THEN data[i - at] ELSE q[L][i]
  OBVIOUS
<1> HIDE DEF new
<1>15. /\ p \in Seq(Block) /\ Len(p) = L /\ p[L] = new
       /\ \A i \in 1 .. L : i # L => p[i] = q[i]
  BY <1>6, <1>7, <1>13
<1> HIDE DEF p
<1>16. ASSUME NEW k \in o .. end - 1 PROVE Cell(p, k) = Cell(q, k)
  <2>1. k \in Nat /\ k < end BY <1>8
  <2> DEFINE e == k \div BlockSize
             r == k % BlockSize
  <2>2. e \in Nat /\ r \in 0 .. BlockSize - 1 /\ k = BlockSize * e + r
    BY <2>1, Split, Zenon
  <2>3. e < L
    <3>1. k < BlockSize * L BY <1>3, <1>4, <1>6, <1>8, <2>1
    <3> QED BY <2>1, <3>1, Below
  <2> HIDE DEF e, r
  <2>4. CASE e = L - 1
    <3>1. r < at
      <4>1. k = BlockSize * (L - 1) + r BY <2>2, <2>4
      <4>2. PICK m \in Int : m = BlockSize * (L - 1) BY <1>3
      <4> QED BY <1>10, <2>1, <2>2, <4>1, <4>2
    <3>2. 1 + r \in 1 .. BlockSize /\ ~((1 + r) - at \in 1 .. N)
      BY <1>3, <2>2, <3>1
    <3>3. new[1 + r] = q[L][1 + r] BY <1>14, <3>2
    <3>4. 1 + e = L BY <2>2, <2>4
    <3> QED BY <1>15, <3>3, <3>4 DEF Cell, e, r
  <2>5. CASE e # L - 1
    <3>1. 1 + e \in 1 .. L /\ 1 + e # L BY <2>2, <2>3, <2>5
    <3> QED BY <1>15, <3>1 DEF Cell, e
  <2> QED BY <2>4, <2>5
<1>17. ASSUME NEW i \in 1 .. N PROVE Cell(p, end + i - 1) = data[i]
  <2>1. PICK k \in Nat : k = end + i - 1 OBVIOUS
  <2>2. PICK r \in 0 .. BlockSize - 1 : r = at + i - 1
    <3>1. at + i - 1 \in 0 .. BlockSize - 1 BY <1>3, <1>5, <1>9
    <3> QED BY <3>1
  <2>3. k = BlockSize * (L - 1) + r
    <3>1. PICK m \in Int : m = BlockSize * (L - 1) BY <1>3
    <3> QED BY <1>10, <2>1, <2>2, <3>1
  <2>4. k \div BlockSize = L - 1 /\ k % BlockSize = r
    <3>1. L - 1 \in Int OBVIOUS
    <3> QED BY <2>3, <3>1, OneSplit
  <2>5. 1 + (L - 1) = L OBVIOUS
  <2>6. 1 + r \in 1 .. BlockSize /\ (1 + r) - at = i BY <1>3, <2>2
  <2>7. new[1 + r] = data[i] BY <1>14, <2>6
  <2> QED BY <1>15, <2>1, <2>4, <2>5, <2>7 DEF Cell
<1>18. Made(c, n + N, f - N, o, p)
  <2>1. o + (n + N) + (f - N) = BlockSize * Len(p)
    BY <1>4, <1>6, <1>15
  <2>2. ASSUME NEW k \in o .. o + (n + N) - 1 PROVE Cell(p, k) \in Bytes
    <3>1. CASE k < end
      <4>1. k \in o .. end - 1 /\ k \in o .. o + n - 1 BY <1>8, <3>1
      <4> QED BY <1>2, <1>16, <4>1 DEF Made
    <3>2. CASE k >= end
      <4>1. PICK i \in 1 .. N : end + i - 1 = k
        <5>1. k - end + 1 \in 1 .. N /\ end + (k - end + 1) - 1 = k
          BY <1>8, <3>2
        <5> QED BY <5>1
      <4>2. data[i] \in Bytes BY <1>5
      <4> QED BY <1>17, <4>1, <4>2
    <3> QED BY <1>8, <3>1, <3>2
  <2>3. f - N <= BlockSize BY <1>3, <1>4, <1>5
  <2> QED BY <1>4, <2>1, <2>2, <2>3 DEF Made
<1>19. n + N \in Nat /\ f - N \in Nat BY <1>5
<1>20. BufferOK(c) BY <1>15, <1>18, <1>19 DEF BufferOK
<1>21. Contents(c) = Contents(b) \o data
  <2>1. /\ Contents(c) \in Seq(Bytes) /\ Len(Contents(c)) = n + N
        /\ \A i \in 1 .. n + N : Contents(c)[i] = Cell(p, o + i - 1)
    BY <1>15, <1>18, <1>19, ContentsAre
  <2>2. /\ Contents(b) \in Seq(Bytes) /\ Len(Contents(b)) = n
        /\ \A i \in 1 .. n : Contents(b)[i] = Cell(q, o + i - 1)
    BY <1>2, ContentsAre
  <2>3. PICK was \in Seq(Bytes) : was = Contents(b) BY <2>2
  <2> DEFINE w == was \o data
  <2>4. Len(was) = n /\ Len(data) = N BY <1>5, <2>2, <2>3
  <2>5. /\ w \in Seq(Bytes) /\ Len(w) = n + N
        /\ \A i \in 1 .. n : w[i] = was[i]
        /\ \A i \in 1 .. N : w[n + i] = data[i]
    <3>1. w \in Seq(Bytes) /\ Len(w) = n + N BY <2>4
    <3>2. \A i \in 1 .. n : w[i] = was[i] BY <2>4
    <3>3. \A i \in 1 .. N : w[n + i] = data[i] BY <2>4
    <3> QED BY <3>1, <3>2, <3>3
  <2> HIDE DEF w, c
  <2>6. ASSUME NEW i \in 1 .. n + N PROVE Contents(c)[i] = w[i]
    <3>1. CASE i <= n
      <4>1. i \in 1 .. n /\ o + i - 1 \in o .. end - 1 BY <1>8, <3>1
      <4> QED BY <1>16, <2>1, <2>2, <2>3, <2>5, <4>1
    <3>2. CASE i > n
      <4>1. PICK j \in 1 .. N : i = n + j
        <5>1. i - n \in 1 .. N /\ i = n + (i - n) BY <3>2
        <5> QED BY <5>1
      <4>2. o + i - 1 = end + j - 1 BY <1>8, <4>1
      <4>3. Contents(c)[i] = Cell(p, end + j - 1) BY <2>1, <4>2
      <4> QED BY <1>17, <2>5, <4>1, <4>3
    <3> QED BY <3>1, <3>2
  <2>7. Contents(c) = w BY <2>1, <2>5, <2>6
  <2> QED BY <2>3, <2>7 DEF w
<1>22. /\ c.size = b.size + Len(data) /\ c.offset = b.offset
       /\ Len(c.blocks) = Len(b.blocks)
  BY <1>4, <1>5, <1>6, <1>15
<1> QED BY <1>12, <1>20, <1>21, <1>22

(* consume drops the beginning of the contents, and the blocks before.     *)
LEMMA ConsumeDrops ==
  ASSUME NEW b, BufferOK(b), NEW m \in 0 .. b.size
  PROVE  /\ BufferOK(Consume(b, m))
         /\ Contents(Consume(b, m)) = SubSeq(Contents(b), m + 1, b.size)
         /\ Consume(b, m).size = b.size - m
         /\ Len(Consume(b, m).blocks)
              = Len(b.blocks) - ((b.offset + m) \div BlockSize)
<1>1. PICK n, f, o \in Nat : \E q \in Seq(Block) : Made(b, n, f, o, q)
  BY DEF BufferOK
<1>2. PICK q \in Seq(Block) : Made(b, n, f, o, q) BY <1>1
<1>3. BlockSize \in Nat /\ BlockSize >= 1 BY BlockSizeAssumption
<1>4. b = [size |-> n, capacity |-> f, offset |-> o, blocks |-> q]
      /\ f <= BlockSize /\ o <= BlockSize - 1
      /\ o + n + f = BlockSize * Len(q)
  BY <1>2 DEF Made
<1>5. PICK L \in Nat : L = Len(q) OBVIOUS
<1>6. m \in Nat /\ m <= n BY <1>4
<1>7. PICK k \in Nat : k = n - m BY <1>6
<1>8. PICK end \in Nat : end = o + m BY <1>6
<1>9. PICK d \in Nat : d = end \div BlockSize BY Split, Zenon
<1>10. PICK r \in Nat : r = end % BlockSize /\ r <= BlockSize - 1
  <2>1. end % BlockSize \in 0 .. BlockSize - 1 BY Split, Zenon
  <2> QED BY <1>3, <2>1
<1>11. end = BlockSize * d + r BY <1>9, <1>10, Split, Zenon
<1>12. d <= L
  <2> SUFFICES ASSUME d >= L + 1 PROVE FALSE OBVIOUS
  <2>1. BlockSize * d >= BlockSize * (L + 1) BY <1>3
  <2>2. BlockSize * (L + 1) = BlockSize * L + BlockSize BY <1>3
  <2>3. PICK x \in Int : x = BlockSize * d BY <1>3
  <2>4. PICK y \in Int : y = BlockSize * L BY <1>3
  <2>5. x >= y + BlockSize BY <2>1, <2>2, <2>3, <2>4
  <2>6. o + n + f = y BY <1>4, <1>5, <2>4
  <2>7. o + m >= x BY <1>8, <1>10, <1>11, <2>3
  <2> QED BY <1>3, <1>6, <2>5, <2>6, <2>7
<1> DEFINE p == SubSeq(q, d + 1, L)
           c == [size |-> k, capacity |-> f, offset |-> r, blocks |-> p]
<1>13. Consume(b, m) = c
  <2>1. Consume(b, m)
          = [size |-> k, capacity |-> f, offset |-> (o + m) % BlockSize,
             blocks |-> SubSeq(q, ((o + m) \div BlockSize) + 1, Len(q))]
    BY <1>4, <1>7 DEF Consume
  <2> QED BY <1>5, <1>8, <1>9, <1>10, <2>1
<1>14. /\ p \in Seq(Block) /\ Len(p) = L - d
       /\ \A i \in 1 .. L - d : p[i] = q[d + i]
  BY <1>5, <1>12
<1> HIDE DEF p
<1>15. r + k + f = BlockSize * (L - d)
  <2>1. BlockSize * (L - d) = BlockSize * L - BlockSize * d BY <1>3
  <2>2. PICK x \in Int : x = BlockSize * d BY <1>3
  <2>3. PICK y \in Int : y = BlockSize * L BY <1>3
  <2>4. o + n + f = y BY <1>4, <1>5, <2>3
  <2>5. o + m = x + r BY <1>8, <1>11, <2>2
  <2>6. r + k + f = y - x BY <1>6, <1>7, <2>4, <2>5
  <2> QED BY <2>1, <2>2, <2>3, <2>6
<1>16. ASSUME NEW i \in 1 .. k
       PROVE  Cell(p, r + i - 1) = Cell(q, o + (m + i) - 1)
  <2>1. PICK t \in Nat : t = r + i - 1 OBVIOUS
  <2>2. t + BlockSize * d = o + (m + i) - 1
    <3>1. PICK x \in Int : x = BlockSize * d BY <1>3
    <3> QED BY <1>6, <1>8, <1>11, <2>1, <3>1
  <2>3. /\ (t + BlockSize * d) \div BlockSize = (t \div BlockSize) + d
        /\ (t + BlockSize * d) % BlockSize = t % BlockSize
    BY Shift
  <2>4. L - d \in Nat BY <1>12
  <2>5. t < BlockSize * (L - d)
    <3>1. PICK x \in Int : x = BlockSize * (L - d) BY <1>3
    <3> QED BY <1>15, <2>1, <3>1
  <2>6. t \div BlockSize < L - d BY <2>4, <2>5, Below
  <2>7. PICK e \in Nat : e = t \div BlockSize BY Split, Zenon
  <2>8. 1 + e \in 1 .. L - d /\ d + (1 + e) = 1 + (e + d)
    BY <2>6, <2>7
  <2>9. p[1 + e] = q[1 + (e + d)] BY <1>14, <2>8
  <2> QED BY <2>1, <2>2, <2>3, <2>7, <2>9 DEF Cell
<1>17. Made(c, k, f, r, p)
  <2>1. ASSUME NEW t \in r .. r + k - 1 PROVE Cell(p, t) \in Bytes
    <3>1. PICK i \in 1 .. k : t = r + i - 1
      <4>1. t - r + 1 \in 1 .. k /\ t = r + (t - r + 1) - 1 OBVIOUS
      <4> QED BY <4>1
    <3>2. o + (m + i) - 1 \in o .. o + n - 1 BY <1>6, <1>7
    <3> QED BY <1>2, <1>16, <3>1, <3>2 DEF Made
  <2> QED BY <1>4, <1>10, <1>14, <1>15, <2>1 DEF Made
<1>18. BufferOK(c) BY <1>14, <1>17 DEF BufferOK
<1>19. Contents(c) = SubSeq(Contents(b), m + 1, n)
  <2>1. /\ Contents(c) \in Seq(Bytes) /\ Len(Contents(c)) = k
        /\ \A i \in 1 .. k : Contents(c)[i] = Cell(p, r + i - 1)
    BY <1>14, <1>17, ContentsAre
  <2>2. /\ Contents(b) \in Seq(Bytes) /\ Len(Contents(b)) = n
        /\ \A i \in 1 .. n : Contents(b)[i] = Cell(q, o + i - 1)
    BY <1>2, ContentsAre
  <2> DEFINE w == SubSeq(Contents(b), m + 1, n)
  <2>3. /\ w \in Seq(Bytes) /\ Len(w) = k
        /\ \A i \in 1 .. k : w[i] = Contents(b)[m + i]
    BY <1>6, <1>7, <2>2
  <2> HIDE DEF w, c
  <2>4. ASSUME NEW i \in 1 .. k PROVE Contents(c)[i] = w[i]
    <3>1. m + i \in 1 .. n BY <1>6, <1>7
    <3> QED BY <1>16, <2>1, <2>2, <2>3, <3>1
  <2>5. Contents(c) = w BY <2>1, <2>3, <2>4
  <2> QED BY <2>5 DEF w
<1>20. /\ b.size = n /\ c.size = b.size - m
       /\ Len(c.blocks) = Len(b.blocks) - ((b.offset + m) \div BlockSize)
  BY <1>4, <1>5, <1>7, <1>8, <1>9, <1>14
<1> QED BY <1>13, <1>18, <1>19, <1>20

-----------------------------------------------------------------------------
(* The matcher.                                                            *)

(* The bytes of a blank line.                                              *)
LEMMA BlankIs ==
  ASSUME NEW T \in Seq(Bytes), NEW m \in Int
  PROVE  Stream!BlankLineAt(T, m) <=> /\ m \in 4 .. Len(T)
                                      /\ T[m - 3] = CR /\ T[m - 2] = LF
                                      /\ T[m - 1] = CR /\ T[m] = LF
<1>1. CASE m \notin 4 .. Len(T) BY <1>1 DEF Stream!BlankLineAt
<1>2. CASE m \in 4 .. Len(T)
  <2> DEFINE s == SubSeq(T, m - 3, m)
  <2>1. /\ s \in Seq(Bytes) /\ Len(s) = 4
        /\ s[1] = T[m - 3] /\ s[2] = T[m - 2] /\ s[3] = T[m - 1]
        /\ s[4] = T[m]
    BY <1>2
  <2> HIDE DEF s
  <2>2. s = <<CR, LF, CR, LF>>
        <=> s[1] = CR /\ s[2] = LF /\ s[3] = CR /\ s[4] = LF
    BY <2>1
  <2>3. Stream!BlankLineAt(T, m) <=> s = <<CR, LF, CR, LF>>
    BY <1>2 DEF Stream!BlankLineAt, s
  <2> QED BY <1>2, <2>1, <2>2, <2>3
<1> QED BY <1>1, <1>2

(* The status that belongs to the first n bytes of T: 4 if there is a      *)
(* blank line among them, else how much of one they end with.              *)
BlankUpTo(T, n) == \E m \in 1 .. n : Stream!BlankLineAt(T, m)

StatusAt(T, n) ==
    IF BlankUpTo(T, n) THEN 4
    ELSE IF n >= 3 /\ T[n - 2] = CR /\ T[n - 1] = LF /\ T[n] = CR THEN 3
    ELSE IF n >= 2 /\ T[n - 1] = CR /\ T[n] = LF THEN 2
    ELSE IF n >= 1 /\ T[n] = CR THEN 1
    ELSE 0

(* The matcher computes the status of one byte more.                       *)
LEMMA Matches ==
  ASSUME NEW T \in Seq(Bytes), NEW n \in Nat, n + 1 <= Len(T)
  PROVE  StatusAt(T, n + 1) = Match(StatusAt(T, n), T[n + 1])
<1>1. CR # LF BY BytesAssumption
<1>2. BlankUpTo(T, n + 1) <=> BlankUpTo(T, n) \/ Stream!BlankLineAt(T, n + 1)
  BY DEF BlankUpTo
<1>3. PICK k \in Nat : k = n + 1 OBVIOUS
<1>4. Stream!BlankLineAt(T, k)
        <=> /\ n >= 3 /\ T[n - 2] = CR /\ T[n - 1] = LF
            /\ T[n] = CR /\ T[k] = LF
  <2>1. k \in 4 .. Len(T) <=> n >= 3 BY <1>3
  <2>2. k - 3 = n - 2 /\ k - 2 = n - 1 /\ k - 1 = n BY <1>3
  <2> QED BY <2>1, <2>2, BlankIs
<1>5. CASE BlankUpTo(T, n) BY <1>2, <1>5 DEF StatusAt, Match
<1>6. CASE ~BlankUpTo(T, n)
  <2>1. StatusAt(T, k) =
          IF Stream!BlankLineAt(T, k) THEN 4
          ELSE IF n >= 2 /\ T[n - 1] = CR /\ T[n] = LF /\ T[k] = CR THEN 3
          ELSE IF n >= 1 /\ T[n] = CR /\ T[k] = LF THEN 2
          ELSE IF T[k] = CR THEN 1 ELSE 0
    <3>1. k - 2 = n - 1 /\ k - 1 = n BY <1>3
    <3>2. k >= 3 <=> n >= 2 BY <1>3
    <3>3. k >= 2 <=> n >= 1 BY <1>3
    <3>4. k >= 1 BY <1>3
    <3> QED BY <1>2, <1>3, <1>6, <3>1, <3>2, <3>3, <3>4 DEF StatusAt
  <2>2. StatusAt(T, n) =
          IF n >= 3 /\ T[n - 2] = CR /\ T[n - 1] = LF /\ T[n] = CR THEN 3
          ELSE IF n >= 2 /\ T[n - 1] = CR /\ T[n] = LF THEN 2
          ELSE IF n >= 1 /\ T[n] = CR THEN 1 ELSE 0
    BY <1>6 DEF StatusAt
  <2>3. n >= 3 => n >= 2 OBVIOUS
  <2>4. n >= 2 => n >= 1 OBVIOUS
  <2>5. StatusAt(T, k) = Match(StatusAt(T, n), T[k])
    BY <1>1, <1>4, <2>1, <2>2, <2>3, <2>4 DEF Match
  <2> QED BY <1>3, <2>5
<1> QED BY <1>5, <1>6

(* Scanning some bytes of T from the status before them computes the       *)
(* status after each.                                                      *)
LEMMA Scans ==
  ASSUME NEW T \in Seq(Bytes), NEW k \in Nat, NEW data \in Seq(Bytes),
         k + Len(data) <= Len(T),
         \A i \in 1 .. Len(data) : T[k + i] = data[i]
  PROVE  /\ DOMAIN Scan(StatusAt(T, k), data) = 0 .. Len(data)
         /\ \A i \in 0 .. Len(data) :
               Scan(StatusAt(T, k), data)[i] = StatusAt(T, k + i)
<1> DEFINE st == StatusAt(T, k)
           N == Len(data)
           Step(f) == [i \in 0 .. N |->
                         IF i = 0 THEN st ELSE Match(f[i - 1], data[i])]
           w == [i \in 0 .. N |-> StatusAt(T, k + i)]
           at == CHOOSE f : f = Step(f)
<1>1. N \in Nat OBVIOUS
<1>2. Scan(st, data) = at BY DEF Scan
<1>3. w = Step(w)
  <2>1. \A i \in 0 .. N : w[i] = StatusAt(T, k + i) OBVIOUS
  <2> SUFFICES ASSUME NEW i \in 0 .. N PROVE w[i] = Step(w)[i]
    OBVIOUS
  <2>2. i \in Nat /\ i <= N BY <1>1
  <2>3. CASE i = 0
    <3>1. k + 0 = k OBVIOUS
    <3> QED BY <1>1, <2>1, <2>3, <3>1
  <2>4. CASE i # 0
    <3>1. PICK j \in Nat : j = i - 1 /\ j \in 0 .. N BY <1>1, <2>2, <2>4
    <3>2. PICK n \in Nat : n = k + j BY <3>1
    <3>3. n + 1 = k + i /\ n + 1 <= Len(T) BY <1>1, <2>2, <3>1, <3>2
    <3>4. T[n + 1] = data[i] BY <2>2, <2>4, <3>3
    <3>5. StatusAt(T, k + i) = Match(StatusAt(T, k + j), data[i])
      <4>1. StatusAt(T, n + 1) = Match(StatusAt(T, n), T[n + 1])
        BY <3>3, Matches
      <4> QED BY <3>2, <3>3, <3>4, <4>1
    <3>6. w[i] = Match(w[j], data[i]) BY <2>1, <3>1, <3>5
    <3> HIDE DEF w
    <3> QED BY <2>4, <3>1, <3>6
  <2> QED BY <2>3, <2>4
<1> HIDE DEF Step
<1>4. at = Step(at) BY <1>3
<1> HIDE DEF at
<1>5. DOMAIN at = 0 .. N BY <1>4 DEF Step
<1>6. \A i \in 0 .. N : at[i] = w[i]
  <2> DEFINE S == {i \in 0 .. N : at[i] # w[i]}
  <2> SUFFICES ASSUME S # {} PROVE FALSE OBVIOUS
  <2>1. S \subseteq Nat BY <1>1
  <2>2. PICK n \in S : \A m \in S : n <= m BY <2>1, LeastOf
  <2>3. n \in 0 .. N /\ at[n] # w[n] BY <2>2
  <2>4. \A f : n \in 0 .. N =>
           Step(f)[n] = IF n = 0 THEN st ELSE Match(f[n - 1], data[n])
    BY DEF Step
  <2>5. CASE n = 0 BY <1>3, <1>4, <2>3, <2>4, <2>5
  <2>6. CASE n # 0
    <3>1. n - 1 \in 0 .. N /\ ~(n <= n - 1) BY <1>1, <2>3, <2>6
    <3>2. n - 1 \notin S BY <2>2, <3>1
    <3>3. at[n - 1] = w[n - 1] BY <3>1, <3>2
    <3> HIDE DEF w, S, st
    <3> QED BY <1>3, <1>4, <2>3, <2>4, <2>6, <3>3
  <2> QED BY <2>5, <2>6
<1>7. \A i \in 0 .. N : w[i] = StatusAt(T, k + i) OBVIOUS
<1> HIDE DEF w
<1> QED BY <1>2, <1>5, <1>6, <1>7

(* Two sequences have the same statuses as far as they agree.              *)
LEMMA Prefix ==
  ASSUME NEW T \in Seq(Bytes), NEW U \in Seq(Bytes), NEW n \in Nat,
         n <= Len(T), n <= Len(U), \A i \in 1 .. n : T[i] = U[i]
  PROVE  /\ \A m \in 1 .. n :
               Stream!BlankLineAt(T, m) <=> Stream!BlankLineAt(U, m)
         /\ StatusAt(T, n) = StatusAt(U, n)
<1>1. ASSUME NEW m \in 1 .. n
      PROVE  Stream!BlankLineAt(T, m) <=> Stream!BlankLineAt(U, m)
  <2>1. m \in Int /\ (m \in 4 .. Len(T) <=> m >= 4)
        /\ (m \in 4 .. Len(U) <=> m >= 4)
    OBVIOUS
  <2>2. m >= 4 => T[m - 3] = U[m - 3] /\ T[m - 2] = U[m - 2]
                  /\ T[m - 1] = U[m - 1] /\ T[m] = U[m]
    OBVIOUS
  <2>3. Stream!BlankLineAt(T, m) <=> /\ m >= 4
                                     /\ T[m - 3] = CR /\ T[m - 2] = LF
                                     /\ T[m - 1] = CR /\ T[m] = LF
    BY <2>1, BlankIs
  <2>4. Stream!BlankLineAt(U, m) <=> /\ m >= 4
                                     /\ U[m - 3] = CR /\ U[m - 2] = LF
                                     /\ U[m - 1] = CR /\ U[m] = LF
    BY <2>1, BlankIs
  <2> QED BY <2>2, <2>3, <2>4
<1>2. BlankUpTo(T, n) <=> BlankUpTo(U, n) BY <1>1 DEF BlankUpTo
<1>3. n >= 3 => T[n - 2] = U[n - 2] OBVIOUS
<1>4. n >= 2 => T[n - 1] = U[n - 1] OBVIOUS
<1>5. n >= 1 => T[n] = U[n] OBVIOUS
<1>6. StatusAt(T, n) = StatusAt(U, n)
  BY <1>2, <1>3, <1>4, <1>5 DEF StatusAt
<1> QED BY <1>1, <1>6

(* Nothing found means that there is no blank line yet; what is found      *)
(* first is where the first blank line ends.                               *)
FindsFirst(T, k, N, scan) ==
    /\ Found(scan) = {} =>
          scan[N] = StatusAt(T, Len(T)) /\ StatusAt(T, Len(T)) # 4
    /\ Found(scan) # {} =>
          /\ First(Found(scan)) \in 1 .. N
          /\ Stream!FirstBlankLineAt(T, k + First(Found(scan)))

LEMMA Finds ==
  ASSUME NEW T \in Seq(Bytes), NEW k \in Nat, NEW data \in Seq(Bytes),
         k + Len(data) = Len(T),
         \A i \in 1 .. Len(data) : T[k + i] = data[i],
         StatusAt(T, k) # 4,
         NEW scan, scan = Scan(StatusAt(T, k), data)
  PROVE  FindsFirst(T, k, Len(data), scan)
<1>1. PICK N \in Nat : N = Len(data) OBVIOUS
<1>2. /\ DOMAIN scan = 0 .. N
      /\ \A i \in 0 .. N : scan[i] = StatusAt(T, k + i)
  <2>1. k + Len(data) <= Len(T) OBVIOUS
  <2>2. /\ DOMAIN Scan(StatusAt(T, k), data) = 0 .. Len(data)
        /\ \A i \in 0 .. Len(data) :
              Scan(StatusAt(T, k), data)[i] = StatusAt(T, k + i)
    BY <2>1, Scans, Zenon
  <2> QED BY <1>1, <2>2
<1>3. \A n : StatusAt(T, n) = 4 <=> BlankUpTo(T, n) BY DEF StatusAt
<1>4. ~BlankUpTo(T, k) BY <1>3
<1>5. ASSUME Found(scan) = {}
      PROVE  scan[Len(data)] = StatusAt(T, Len(T)) /\ StatusAt(T, Len(T)) # 4
  <2>1. N \in 0 .. N BY <1>1
  <2>2. scan[N] # 4 BY <1>2, <1>5, <2>1 DEF Found
  <2>3. scan[N] = StatusAt(T, k + N) BY <1>2, <2>1
  <2> QED BY <1>1, <2>2, <2>3
<1>6. ASSUME Found(scan) # {}
      PROVE  /\ First(Found(scan)) \in 1 .. Len(data)
             /\ Stream!FirstBlankLineAt(T, k + First(Found(scan)))
  <2> DEFINE S == Found(scan)
  <2>1. S \subseteq 0 .. N /\ \A i \in 0 .. N : i \in S <=> scan[i] = 4
    BY <1>2 DEF Found
  <2>2. S \subseteq Nat BY <1>1, <2>1
  <2> HIDE DEF S
  <2>3. \E i \in S : \A j \in S : i <= j
    <3>1. S # {} BY <1>6 DEF S
    <3> QED BY <2>2, <3>1, LeastOf
  <2>4. PICK i : i = First(S) OBVIOUS
  <2>5. i \in S /\ \A j \in S : i <= j BY <2>3, <2>4, Zenon DEF First
  <2>6. i \in Nat /\ i <= N /\ BlankUpTo(T, k + i)
    BY <1>1, <1>2, <1>3, <2>1, <2>5
  <2>7. i # 0
    <3>1. k + 0 = k OBVIOUS
    <3> QED BY <1>4, <2>6, <3>1
  <2>8. PICK n \in Nat : n = k + i BY <2>6
  <2>9. ~BlankUpTo(T, n - 1)
    <3>1. PICK j \in Nat : j = i - 1 BY <2>6, <2>7
    <3>2. j \in 0 .. N /\ ~(i <= j) BY <2>6, <3>1
    <3>3. scan[j] # 4 BY <2>1, <2>5, <3>2
    <3>4. ~BlankUpTo(T, k + j) BY <1>2, <1>3, <3>2, <3>3
    <3>5. k + j = n - 1 BY <2>6, <2>8, <3>1
    <3> QED BY <3>4, <3>5
  <2>10. \A m \in 1 .. n - 1 : ~Stream!BlankLineAt(T, m)
    BY <2>9 DEF BlankUpTo
  <2>11. PICK m \in 1 .. n : Stream!BlankLineAt(T, m)
    BY <2>6, <2>8 DEF BlankUpTo
  <2>12. m = n BY <2>8, <2>10, <2>11
  <2>13. Stream!FirstBlankLineAt(T, n)
    BY <2>10, <2>11, <2>12 DEF Stream!FirstBlankLineAt
  <2>14. i \in 1 .. Len(data) BY <1>1, <2>6, <2>7
  <2> QED BY <2>4, <2>8, <2>13, <2>14 DEF S
<1> QED BY <1>5, <1>6 DEF FindsFirst

-----------------------------------------------------------------------------
(* Sequences.                                                              *)

(* v is C followed by s;                                                   *)
Joins(v, C, s) == /\ v \in Seq(Bytes) /\ Len(v) = Len(C) + Len(s)
                  /\ \A i \in 1 .. Len(C) : v[i] = C[i]
                  /\ \A i \in 1 .. Len(s) : v[Len(C) + i] = s[i]

(* v is s behind the first m as far as the e-th.                           *)
Cuts(v, s, m, e) == /\ v \in Seq(Bytes) /\ Len(v) = e - m
                    /\ \A i \in 1 .. e - m : v[i] = s[m + i]

LEMMA Joined == \A C, s \in Seq(Bytes) : Joins(C \o s, C, s)
<1> SUFFICES ASSUME NEW C \in Seq(Bytes), NEW s \in Seq(Bytes)
             PROVE  Joins(C \o s, C, s)
  OBVIOUS
<1>1. C \o s \in Seq(Bytes) /\ Len(C \o s) = Len(C) + Len(s) OBVIOUS
<1>2. \A i \in 1 .. Len(C) : (C \o s)[i] = C[i] OBVIOUS
<1>3. \A i \in 1 .. Len(s) : (C \o s)[Len(C) + i] = s[i] OBVIOUS
<1> QED BY <1>1, <1>2, <1>3 DEF Joins

LEMMA CutOut ==
  \A s \in Seq(Bytes) : \A m, e \in Nat :
     m <= e /\ e <= Len(s) => Cuts(SubSeq(s, m + 1, e), s, m, e)
<1> SUFFICES ASSUME NEW s \in Seq(Bytes), NEW m \in Nat, NEW e \in Nat,
                    m <= e, e <= Len(s)
             PROVE  Cuts(SubSeq(s, m + 1, e), s, m, e)
  OBVIOUS
<1> DEFINE v == SubSeq(s, m + 1, e)
<1>1. v \in Seq(Bytes) /\ Len(v) = e - m OBVIOUS
<1>2. \A i \in 1 .. e - m : v[i] = s[m + i] OBVIOUS
<1> QED BY <1>1, <1>2 DEF Cuts

LEMMA SameBytes ==
  ASSUME NEW x \in Seq(Bytes), NEW y \in Seq(Bytes), NEW n \in Nat,
         Len(x) = n, Len(y) = n, \A i \in 1 .. n : x[i] = y[i]
  PROVE  x = y
OBVIOUS

(* Reading moves bytes from one end to another.                            *)
LEMMA Moved ==
  ASSUME NEW C \in Seq(Bytes), NEW s \in Seq(Bytes), NEW n \in 0 .. Len(s)
  PROVE  (C \o SubSeq(s, 1, n)) \o SubSeq(s, n + 1, Len(s)) = C \o s
<1>1. PICK a \in Nat : a = Len(C) OBVIOUS
<1>2. PICK z \in Nat : z = Len(s) OBVIOUS
<1>3. n \in Nat /\ n <= z BY <1>2
<1>4. PICK d \in Seq(Bytes) : /\ d = SubSeq(s, 1, n) /\ Len(d) = n
                              /\ \A i \in 1 .. n : d[i] = s[i]
  <2>1. PICK d : d = SubSeq(s, 0 + 1, n) OBVIOUS
  <2>2. d \in Seq(Bytes) /\ Len(d) = n - 0
        /\ \A i \in 1 .. n - 0 : d[i] = s[0 + i]
    <3>1. PICK o \in Nat : o = 0 OBVIOUS
    <3>2. Cuts(d, s, o, n) BY <1>2, <1>3, <2>1, <3>1, CutOut
    <3> QED BY <1>3, <3>1, <3>2 DEF Cuts
  <2>3. n - 0 = n /\ 0 + 1 = 1 /\ \A i \in 1 .. n : 0 + i = i BY <1>3
  <2> QED BY <2>1, <2>2, <2>3
<1>5. PICK u \in Seq(Bytes) : /\ u = SubSeq(s, n + 1, z) /\ Len(u) = z - n
                              /\ \A i \in 1 .. z - n : u[i] = s[n + i]
  <2>1. PICK u : u = SubSeq(s, n + 1, z) OBVIOUS
  <2>2. /\ u \in Seq(Bytes) /\ Len(u) = z - n
        /\ \A i \in 1 .. z - n : u[i] = s[n + i]
    <3>1. Cuts(u, s, n, z) BY <1>2, <1>3, <2>1, CutOut
    <3> QED BY <1>2, <1>3, <2>1, <3>1 DEF Cuts
  <2> QED BY <2>1, <2>2
<1>6. PICK v \in Seq(Bytes) : /\ v = C \o d /\ Len(v) = a + n
                              /\ \A i \in 1 .. a : v[i] = C[i]
                              /\ \A i \in 1 .. n : v[a + i] = d[i]
  <2>1. PICK v : v = C \o d OBVIOUS
  <2>2. /\ v \in Seq(Bytes) /\ Len(v) = a + n
        /\ \A i \in 1 .. a : v[i] = C[i]
        /\ \A i \in 1 .. n : v[a + i] = d[i]
    <3>1. Joins(v, C, d) BY <1>1, <1>3, <1>4, <2>1, Joined
    <3> QED BY <1>1, <1>3, <1>4, <2>1, <3>1 DEF Joins
  <2> QED BY <2>1, <2>2
<1>7. PICK x \in Seq(Bytes) : /\ x = v \o u /\ Len(x) = a + z
                              /\ \A i \in 1 .. a + n : x[i] = v[i]
                              /\ \A i \in 1 .. z - n : x[a + n + i] = u[i]
  <2>1. PICK x : x = v \o u OBVIOUS
  <2>2. PICK g \in Nat : g = a + n BY <1>3
  <2>3. PICK h \in Nat : h = z - n BY <1>3
  <2>4. /\ x \in Seq(Bytes) /\ Len(x) = g + h
        /\ \A i \in 1 .. g : x[i] = v[i]
        /\ \A i \in 1 .. h : x[g + i] = u[i]
    <3>1. Joins(x, v, u) BY <1>5, <1>6, <2>1, <2>2, <2>3, Joined
    <3> QED BY <1>5, <1>6, <2>1, <2>2, <2>3, <3>1 DEF Joins
  <2>5. g + h = a + z BY <1>3, <2>2, <2>3
  <2> QED BY <2>1, <2>2, <2>3, <2>4, <2>5
<1>8. PICK y \in Seq(Bytes) : /\ y = C \o s /\ Len(y) = a + z
                              /\ \A i \in 1 .. a : y[i] = C[i]
                              /\ \A i \in 1 .. z : y[a + i] = s[i]
  <2>1. PICK y : y = C \o s OBVIOUS
  <2>2. /\ y \in Seq(Bytes) /\ Len(y) = a + z
        /\ \A i \in 1 .. a : y[i] = C[i]
        /\ \A i \in 1 .. z : y[a + i] = s[i]
    <3>1. Joins(y, C, s) BY <1>1, <1>2, <2>1, Joined
    <3> QED BY <1>1, <1>2, <2>1, <3>1 DEF Joins
  <2> QED BY <2>1, <2>2
<1>9. ASSUME NEW i \in 1 .. a + z PROVE x[i] = y[i]
  <2>1. CASE i <= a BY <1>6, <1>7, <1>8, <2>1
  <2>2. CASE a < i /\ i <= a + n
    <3>1. PICK j \in 1 .. n : i = a + j
      <4>1. i - a \in 1 .. n /\ i = a + (i - a) BY <1>3, <2>2
      <4> QED BY <4>1
    <3>2. i \in 1 .. a + n /\ j \in 1 .. z BY <1>3, <2>2, <3>1
    <3>3. x[i] = s[j] BY <1>4, <1>6, <1>7, <3>1, <3>2
    <3>4. y[i] = s[j] BY <1>8, <3>1, <3>2
    <3> QED BY <3>3, <3>4
  <2>3. CASE a + n < i
    <3>1. PICK j \in 1 .. z - n : i = a + n + j
      <4>1. i - (a + n) \in 1 .. z - n /\ i = a + n + (i - (a + n))
        BY <1>3, <2>3
      <4> QED BY <4>1
    <3>2. n + j \in 1 .. z /\ a + (n + j) = i BY <1>3, <3>1
    <3>3. x[i] = s[n + j] BY <1>5, <1>7, <3>1
    <3>4. y[i] = s[n + j] BY <1>8, <3>2
    <3> QED BY <3>3, <3>4
  <2> QED BY <1>3, <2>1, <2>2, <2>3
<1>10. x = y
  <2>1. PICK g \in Nat : g = a + z OBVIOUS
  <2> QED BY <1>7, <1>8, <1>9, <2>1, SameBytes
<1> QED BY <1>2, <1>4, <1>5, <1>6, <1>7, <1>8, <1>10

(* Dropping bytes from the first of two parts, or all of it and then from  *)
(* the second, is dropping them from both.                                 *)
LEMMA Dropped ==
  ASSUME NEW C \in Seq(Bytes), NEW u \in Seq(Bytes), NEW n \in 0 .. Len(C)
  PROVE  SubSeq(C, n + 1, Len(C)) \o u
           = SubSeq(C \o u, n + 1, Len(C \o u))
<1>1. PICK a \in Nat : a = Len(C) OBVIOUS
<1>2. PICK z \in Nat : z = Len(u) OBVIOUS
<1>3. n \in Nat /\ n <= a BY <1>1
<1>4. PICK v \in Seq(Bytes) : /\ v = SubSeq(C, n + 1, a) /\ Len(v) = a - n
                              /\ \A i \in 1 .. a - n : v[i] = C[n + i]
  <2>1. PICK v : v = SubSeq(C, n + 1, a) OBVIOUS
  <2>2. /\ v \in Seq(Bytes) /\ Len(v) = a - n
        /\ \A i \in 1 .. a - n : v[i] = C[n + i]
    <3>1. Cuts(v, C, n, a) BY <1>1, <1>3, <2>1, CutOut
    <3> QED BY <1>1, <1>3, <2>1, <3>1 DEF Cuts
  <2> QED BY <2>1, <2>2
<1>5. PICK x \in Seq(Bytes) : /\ x = v \o u /\ Len(x) = (a - n) + z
                              /\ \A i \in 1 .. a - n : x[i] = v[i]
                              /\ \A i \in 1 .. z : x[(a - n) + i] = u[i]
  <2>1. PICK x : x = v \o u OBVIOUS
  <2>2. PICK g \in Nat : g = a - n BY <1>3
  <2>3. /\ x \in Seq(Bytes) /\ Len(x) = g + z
        /\ \A i \in 1 .. g : x[i] = v[i]
        /\ \A i \in 1 .. z : x[g + i] = u[i]
    <3>1. Joins(x, v, u) BY <1>2, <1>4, <2>1, <2>2, Joined
    <3> QED BY <1>2, <1>4, <2>1, <2>2, <3>1 DEF Joins
  <2> QED BY <2>1, <2>2, <2>3
<1>6. PICK w \in Seq(Bytes) : /\ w = C \o u /\ Len(w) = a + z
                              /\ \A i \in 1 .. a : w[i] = C[i]
                              /\ \A i \in 1 .. z : w[a + i] = u[i]
  <2>1. PICK w : w = C \o u OBVIOUS
  <2>2. /\ w \in Seq(Bytes) /\ Len(w) = a + z
        /\ \A i \in 1 .. a : w[i] = C[i]
        /\ \A i \in 1 .. z : w[a + i] = u[i]
    <3>1. Joins(w, C, u) BY <1>1, <1>2, <2>1, Joined
    <3> QED BY <1>1, <1>2, <2>1, <3>1 DEF Joins
  <2> QED BY <2>1, <2>2
<1>7. PICK y \in Seq(Bytes) : /\ y = SubSeq(w, n + 1, a + z)
                              /\ Len(y) = (a - n) + z
                              /\ \A i \in 1 .. (a - n) + z : y[i] = w[n + i]
  <2>1. PICK y : y = SubSeq(w, n + 1, a + z) OBVIOUS
  <2>2. PICK g \in Nat : g = a + z OBVIOUS
  <2>3. n <= g /\ g - n = (a - n) + z BY <1>3, <2>2
  <2>4. /\ y \in Seq(Bytes) /\ Len(y) = g - n
        /\ \A i \in 1 .. g - n : y[i] = w[n + i]
    <3>1. y = SubSeq(w, n + 1, g) BY <2>1, <2>2
    <3>2. g <= Len(w) BY <1>6, <2>2
    <3>3. Cuts(y, w, n, g) BY <1>3, <2>3, <3>1, <3>2, CutOut
    <3> QED BY <3>3 DEF Cuts
  <2> QED BY <2>1, <2>3, <2>4
<1>8. ASSUME NEW i \in 1 .. (a - n) + z PROVE x[i] = y[i]
  <2>1. CASE i <= a - n
    <3>1. i \in 1 .. a - n /\ n + i \in 1 .. a BY <1>3, <2>1
    <3> QED BY <1>4, <1>5, <1>6, <1>7, <3>1
  <2>2. CASE i > a - n
    <3>1. PICK j \in 1 .. z : i = (a - n) + j
      <4>1. i - (a - n) \in 1 .. z /\ i = (a - n) + (i - (a - n))
        BY <1>3, <2>2
      <4> QED BY <4>1
    <3>2. n + i = a + j BY <1>3, <3>1
    <3>3. y[i] = u[j] BY <1>6, <1>7, <3>2
    <3>4. x[i] = u[j] BY <1>5, <3>1
    <3> QED BY <3>3, <3>4
  <2> QED BY <1>3, <2>1, <2>2
<1>9. x = y
  <2>1. PICK g \in Nat : g = (a - n) + z BY <1>3
  <2> QED BY <1>5, <1>7, <1>8, <2>1, SameBytes
<1> QED BY <1>1, <1>4, <1>5, <1>6, <1>7, <1>9

LEMMA DroppedAll ==
  ASSUME NEW C \in Seq(Bytes), NEW u \in Seq(Bytes),
         NEW d \in 0 .. Len(u)
  PROVE  SubSeq(u, d + 1, Len(u))
           = SubSeq(C \o u, Len(C) + d + 1, Len(C \o u))
<1>1. PICK a \in Nat : a = Len(C) OBVIOUS
<1>2. PICK z \in Nat : z = Len(u) OBVIOUS
<1>3. d \in Nat /\ d <= z BY <1>2
<1>4. PICK x \in Seq(Bytes) : /\ x = SubSeq(u, d + 1, z) /\ Len(x) = z - d
                              /\ \A i \in 1 .. z - d : x[i] = u[d + i]
  <2>1. PICK x : x = SubSeq(u, d + 1, z) OBVIOUS
  <2>2. /\ x \in Seq(Bytes) /\ Len(x) = z - d
        /\ \A i \in 1 .. z - d : x[i] = u[d + i]
    <3>1. Cuts(x, u, d, z) BY <1>2, <1>3, <2>1, CutOut
    <3> QED BY <1>2, <1>3, <2>1, <3>1 DEF Cuts
  <2> QED BY <2>1, <2>2
<1>5. PICK w \in Seq(Bytes) : /\ w = C \o u /\ Len(w) = a + z
                              /\ \A i \in 1 .. z : w[a + i] = u[i]
  <2>1. PICK w : w = C \o u OBVIOUS
  <2>2. /\ w \in Seq(Bytes) /\ Len(w) = a + z
        /\ \A i \in 1 .. z : w[a + i] = u[i]
    <3>1. Joins(w, C, u) BY <1>1, <1>2, <2>1, Joined
    <3> QED BY <1>1, <1>2, <2>1, <3>1 DEF Joins
  <2> QED BY <2>1, <2>2
<1>6. PICK y \in Seq(Bytes) : /\ y = SubSeq(w, a + d + 1, a + z)
                              /\ Len(y) = z - d
                              /\ \A i \in 1 .. z - d : y[i] = w[a + d + i]
  <2>1. PICK y : y = SubSeq(w, a + d + 1, a + z) OBVIOUS
  <2>2. PICK g \in Nat : g = a + z OBVIOUS
  <2>3. PICK m \in Nat : m = a + d BY <1>3
  <2>4. m <= g /\ g - m = z - d BY <1>3, <2>2, <2>3
  <2>5. /\ y \in Seq(Bytes) /\ Len(y) = g - m
        /\ \A i \in 1 .. g - m : y[i] = w[m + i]
    <3>1. y = SubSeq(w, m + 1, g) BY <2>1, <2>2, <2>3
    <3>2. g <= Len(w) BY <1>5, <2>2
    <3>3. Cuts(y, w, m, g) BY <2>4, <3>1, <3>2, CutOut
    <3> QED BY <3>3 DEF Cuts
  <2> QED BY <2>1, <2>3, <2>4, <2>5
<1>7. ASSUME NEW i \in 1 .. z - d PROVE x[i] = y[i]
  <2>1. d + i \in 1 .. z /\ a + (d + i) = a + d + i BY <1>3
  <2> QED BY <1>4, <1>5, <1>6, <2>1
<1>8. x = y
  <2>1. PICK g \in Nat : g = z - d BY <1>3
  <2> QED BY <1>4, <1>6, <1>7, <2>1, SameBytes
<1> QED BY <1>1, <1>2, <1>4, <1>5, <1>6, <1>8

(* Cutting twice is cutting once.                                          *)
LEMMA CutTwice ==
  \A r \in Seq(Bytes) : \A n, m \in Nat :
     n + m <= Len(r) => SubSeq(SubSeq(r, n + 1, Len(r)), m + 1, Len(r) - n)
                          = SubSeq(r, n + m + 1, Len(r))
<1> SUFFICES ASSUME NEW r \in Seq(Bytes), NEW n \in Nat, NEW m \in Nat,
                    n + m <= Len(r)
             PROVE  SubSeq(SubSeq(r, n + 1, Len(r)), m + 1, Len(r) - n)
                      = SubSeq(r, n + m + 1, Len(r))
  OBVIOUS
<1>1. PICK L \in Nat : L = Len(r) OBVIOUS
<1>2. PICK s : s = SubSeq(r, n + 1, L) OBVIOUS
<1>3. PICK k \in Nat : k = L - n
  <2>1. n <= L BY <1>1
  <2> QED BY <2>1
<1>4. n <= L /\ m <= k /\ L <= Len(r) /\ k = L - n BY <1>1, <1>3
<1>5. Cuts(s, r, n, L) BY <1>4, <1>2, CutOut
<1>6. s \in Seq(Bytes) /\ Len(s) = k /\ \A i \in 1 .. k : s[i] = r[n + i]
  BY <1>4, <1>5 DEF Cuts
<1>7. PICK a \in Nat : a = n + m OBVIOUS
<1>8. PICK g \in Nat : g = k - m BY <1>4
<1>9. PICK x : x = SubSeq(s, m + 1, k) OBVIOUS
<1>10. x \in Seq(Bytes) /\ Len(x) = g /\ \A i \in 1 .. g : x[i] = s[m + i]
  <2>1. k <= Len(s) BY <1>6
  <2>2. Cuts(x, s, m, k) BY <1>4, <1>6, <1>9, <2>1, CutOut
  <2> QED BY <1>8, <2>2 DEF Cuts
<1>11. PICK y : y = SubSeq(r, a + 1, L) OBVIOUS
<1>12. y \in Seq(Bytes) /\ Len(y) = g /\ \A i \in 1 .. g : y[i] = r[a + i]
  <2>1. a <= L /\ L - a = g BY <1>4, <1>7, <1>8
  <2>2. Cuts(y, r, a, L) BY <1>4, <1>11, <2>1, CutOut
  <2> QED BY <2>1, <2>2 DEF Cuts
<1>13. ASSUME NEW i \in 1 .. g PROVE x[i] = y[i]
  <2>1. m + i \in 1 .. k /\ n + (m + i) = a + i BY <1>4, <1>7, <1>8
  <2> QED BY <1>6, <1>10, <1>12, <2>1
<1>14. x = y BY <1>10, <1>12, <1>13, SameBytes
<1> QED BY <1>1, <1>2, <1>3, <1>7, <1>9, <1>11, <1>14

-----------------------------------------------------------------------------
(* The transceiver.                                                        *)

(* A read is outstanding with room for it and the status that belongs to   *)
(* what has been received, which holds no blank line; between reads all of *)
(* it is in one block.                                                     *)
ScanInv ==
    /\ BufferOK(buffer)
    /\ stream \in Seq(Bytes)
    /\ reading => /\ buffer.capacity > 0
                  /\ status = StatusAt(Contents(buffer), buffer.size)
                  /\ status # 4
    /\ ~reading => Len(buffer.blocks) <= 1

rest == Contents(buffer) \o stream

(* The parts of a buffer.                                                  *)
LEMMA BufferParts ==
  ASSUME NEW b, BufferOK(b)
  PROVE  /\ b.size \in Nat /\ b.capacity \in Nat /\ b.offset \in Nat
         /\ Contents(b) \in Seq(Bytes) /\ Len(Contents(b)) = b.size
         /\ Len(b.blocks) \in Nat
         /\ b.offset + b.size + b.capacity = BlockSize * Len(b.blocks)
         /\ b.capacity <= BlockSize
         /\ \A m \in 0 .. b.size : Data(b, m) = SubSeq(Contents(b), 1, m)
<1>1. PICK n, f, o \in Nat : \E q \in Seq(Block) : Made(b, n, f, o, q)
  BY DEF BufferOK
<1>2. PICK q \in Seq(Block) : Made(b, n, f, o, q) BY <1>1
<1>3. b.size = n /\ b.capacity = f /\ b.offset = o /\ b.blocks = q
      /\ f <= BlockSize /\ o + n + f = BlockSize * Len(q)
  BY <1>2 DEF Made
<1>4. /\ Contents(b) \in Seq(Bytes) /\ Len(Contents(b)) = n
      /\ \A m \in 0 .. n : Data(b, m) = SubSeq(Contents(b), 1, m)
  BY <1>2, ContentsAre
<1> QED BY <1>3, <1>4

(* Nothing is scanned yet.                                                 *)
LEMMA NoBytes == \A T : StatusAt(T, 0) = 0
<1>1. \A T : ~BlankUpTo(T, 0) BY DEF BlankUpTo
<1>2. ~(0 >= 3) /\ ~(0 >= 2) /\ ~(0 >= 1) OBVIOUS
<1> QED BY <1>1, <1>2 DEF StatusAt

(* Without more than one block all of the contents are in the first.       *)
LEMMA OneBlock ==
  ASSUME NEW b, BufferOK(b), Len(b.blocks) <= 1
  PROVE  FirstBlock(b) = Contents(b)
<1>1. BlockSize \in Nat /\ BlockSize >= 1 BY BlockSizeAssumption
<1>2. /\ b.size \in Nat /\ b.capacity \in Nat /\ b.offset \in Nat
      /\ Len(b.blocks) \in Nat
      /\ b.offset + b.size + b.capacity = BlockSize * Len(b.blocks)
  BY BufferParts
<1>3. PICK L \in Nat : L = Len(b.blocks) BY <1>2
<1>4. L = 0 \/ L = 1
  <2>1. L <= 1 BY <1>3, Zenon
  <2> QED BY <2>1
<1>5. BlockSize * L <= BlockSize BY <1>1, <1>4
<1>6. b.size <= BlockSize - b.offset BY <1>1, <1>2, <1>3, <1>5
<1> QED BY <1>6 DEF FirstBlock

(* The next read: the stream is as before and a read is outstanding.       *)
LEMMA ReadsOn ==
  ASSUME NEW b, BufferOK(b), NEW unread \in Seq(Bytes), NEW st,
         st = StatusAt(Contents(b), b.size), st # 4, ReadOn(b, st, unread)
  PROVE  /\ ScanInv' /\ header' = header
         /\ rest' = Contents(b) \o unread
<1>1. /\ BufferOK(Reserve(b)) /\ Contents(Reserve(b)) = Contents(b)
      /\ Reserve(b).size = b.size /\ Reserve(b).capacity > 0
  BY ReserveKeeps
<1>2. /\ buffer' = Reserve(b) /\ status' = st /\ stream' = unread
      /\ reading' = TRUE /\ header' = header
  BY DEF ReadOn
<1> QED BY <1>1, <1>2 DEF ScanInv, rest

(* A header is handed over: the stream loses it and its body, and what is  *)
(* left of the buffer is in one block.                                     *)
LEMMA Hands ==
  ASSUME NEW b, BufferOK(b), NEW unread \in Seq(Bytes), NEW n \in 1 .. b.size,
         Len(b.blocks) <= 1 + ((b.offset + n) \div BlockSize),
         Stream!FirstBlankLineAt(Contents(b), n),
         NEW r, r = Contents(b) \o unread, Hand(b, n, unread)
  PROVE  /\ ScanInv'
         /\ \E m \in 1 .. Len(r), body \in 0 .. MaxBody :
               /\ Stream!FirstBlankLineAt(r, m)
               /\ header' = SubSeq(r, 1, m)
               /\ m + body <= Len(r)
               /\ rest' = SubSeq(r, m + body + 1, Len(r))
<1> DEFINE c == Consume(b, n)
<1>1. PICK body \in 0 .. MaxBody :
         LET take == IF c.size < body THEN c.size ELSE body
         IN /\ body - take <= Len(unread)
            /\ buffer' = Consume(c, take)
            /\ stream' = SubSeq(unread, body - take + 1, Len(unread))
  BY DEF Hand
<1>2. body \in Nat BY BoundsAssumption
<1>3. header' = Data(b, n) /\ reading' = FALSE BY DEF Hand
<1>4. /\ b.size \in Nat /\ b.offset \in Nat /\ Contents(b) \in Seq(Bytes)
      /\ Len(Contents(b)) = b.size /\ Len(b.blocks) \in Nat
      /\ \A m \in 0 .. b.size : Data(b, m) = SubSeq(Contents(b), 1, m)
  BY BufferParts
<1>5. PICK z \in Nat : z = b.size BY <1>4
<1>6. PICK C \in Seq(Bytes) : C = Contents(b) /\ Len(C) = z BY <1>4, <1>5
<1>7. n \in Nat /\ 1 <= n /\ n <= z /\ n \in 0 .. b.size BY <1>5
<1>8. /\ BufferOK(c) /\ Contents(c) = SubSeq(C, n + 1, z)
      /\ c.size = z - n
      /\ Len(c.blocks) = Len(b.blocks) - ((b.offset + n) \div BlockSize)
  BY <1>5, <1>6, <1>7, ConsumeDrops
<1>9. PICK y \in Nat : y = Len(unread) OBVIOUS
<1>10. /\ r \in Seq(Bytes) /\ Len(r) = z + y
       /\ \A i \in 1 .. z : r[i] = C[i]
  <2>1. Joins(r, C, unread) BY <1>6, Joined
  <2> QED BY <1>6, <1>9, <2>1 DEF Joins
<1>11. header' = SubSeq(r, 1, n)
  <2>1. header' = SubSeq(C, 1, n) BY <1>3, <1>4, <1>6, <1>7
  <2>2. PICK o \in Nat : o = 0 OBVIOUS
  <2>3. o <= n /\ n <= Len(C) /\ n <= Len(r) BY <1>6, <1>7, <1>10, <2>2
  <2>4. /\ Cuts(SubSeq(C, o + 1, n), C, o, n)
        /\ Cuts(SubSeq(r, o + 1, n), r, o, n)
    BY <1>7, <1>10, <2>3, CutOut
  <2>5. o + 1 = 1 /\ n - o = n BY <1>7, <2>2
  <2>6. PICK u \in Seq(Bytes) : u = SubSeq(C, 1, n) /\ Len(u) = n
                                /\ \A i \in 1 .. n : u[i] = C[o + i]
    BY <2>4, <2>5 DEF Cuts
  <2>7. PICK v \in Seq(Bytes) : v = SubSeq(r, 1, n) /\ Len(v) = n
                                /\ \A i \in 1 .. n : v[i] = r[o + i]
    BY <2>4, <2>5 DEF Cuts
  <2>8. ASSUME NEW i \in 1 .. n PROVE u[i] = v[i]
    <3>1. o + i = i /\ i \in 1 .. z BY <1>7, <2>2
    <3> QED BY <1>10, <2>6, <2>7, <3>1
  <2>9. u = v BY <1>7, <2>6, <2>7, <2>8, SameBytes
  <2> QED BY <2>1, <2>6, <2>7, <2>9
<1>12. Stream!FirstBlankLineAt(r, n)
  <2>1. Stream!BlankLineAt(C, n) /\ \A m \in 1 .. n - 1 : ~Stream!BlankLineAt(C, m)
    BY <1>6 DEF Stream!FirstBlankLineAt
  <2>2. \A m \in 1 .. n : Stream!BlankLineAt(C, m) <=> Stream!BlankLineAt(r, m)
    <3>1. n <= Len(C) /\ n <= Len(r) BY <1>6, <1>7, <1>10
    <3>2. ASSUME NEW i \in 1 .. n PROVE C[i] = r[i]
      <4>1. i \in 1 .. z BY <1>7
      <4> QED BY <1>10, <4>1
    <3> QED BY <1>7, <1>10, <3>1, <3>2, Prefix
  <2>3. n \in 1 .. n /\ \A m \in 1 .. n - 1 : m \in 1 .. n BY <1>7
  <2> QED BY <2>1, <2>2, <2>3 DEF Stream!FirstBlankLineAt
<1>13. /\ BufferOK(buffer') /\ Len((buffer').blocks) <= 1
       /\ stream' \in Seq(Bytes) /\ n + body <= z + y
       /\ rest' = SubSeq(r, n + body + 1, z + y)
  <2> HIDE DEF c
  <2>1. PICK k \in Nat : k = c.size /\ k = z - n BY <1>7, <1>8
  <2>2. PICK v \in Seq(Bytes) : v = Contents(c) /\ Len(v) = k
    BY <1>8, <2>1, BufferParts
  <2>3. Len(c.blocks) \in Int /\ Len(c.blocks) <= 1
    <3>1. PICK d \in Nat : d = (b.offset + n) \div BlockSize
      <4>1. PICK w \in Nat : w = b.offset BY <1>4
      <4>2. PICK e \in Nat : e = w + n BY <1>7
      <4>3. e \div BlockSize \in Nat BY Split, Zenon
      <4> QED BY <4>1, <4>2, <4>3
    <3>2. PICK a \in Nat : a = Len(b.blocks) BY <1>4
    <3>3. a <= 1 + d BY <3>1, <3>2
    <3>4. Len(c.blocks) = a - d BY <1>8, <3>1, <3>2
    <3> QED BY <3>3, <3>4
  <2>4. \A t \in 0 .. k :
           /\ BufferOK(Consume(c, t))
           /\ Contents(Consume(c, t)) = SubSeq(v, t + 1, k)
           /\ Len(Consume(c, t).blocks) <= 1
    <3> SUFFICES ASSUME NEW t \in 0 .. k
                 PROVE  /\ BufferOK(Consume(c, t))
                        /\ Contents(Consume(c, t)) = SubSeq(v, t + 1, k)
                        /\ Len(Consume(c, t).blocks) <= 1
      OBVIOUS
    <3>1. /\ BufferOK(Consume(c, t))
          /\ Contents(Consume(c, t)) = SubSeq(v, t + 1, k)
          /\ Len(Consume(c, t).blocks)
               = Len(c.blocks) - ((c.offset + t) \div BlockSize)
      BY <1>8, <2>1, <2>2, ConsumeDrops
    <3>2. PICK d \in Nat : d = (c.offset + t) \div BlockSize
      <4>1. PICK w \in Nat : w = c.offset BY <1>8, BufferParts
      <4>2. PICK e \in Nat : e = w + t OBVIOUS
      <4>3. e \div BlockSize \in Nat BY Split, Zenon
      <4> QED BY <4>1, <4>2, <4>3
    <3> QED BY <2>3, <3>1, <3>2
  <2>5. PICK s : s = v \o unread OBVIOUS
  <2>6. s \in Seq(Bytes) /\ Len(s) = k + y
    <3>1. Joins(s, v, unread) BY <2>2, <2>5, Joined
    <3> QED BY <1>9, <2>2, <3>1 DEF Joins
  <2>7. s = SubSeq(r, n + 1, z + y)
    <3>1. n \in 0 .. Len(C) BY <1>6, <1>7
    <3>2. SubSeq(C, n + 1, Len(C)) \o unread
            = SubSeq(C \o unread, n + 1, Len(C \o unread))
      BY <3>1, Dropped
    <3> QED BY <1>6, <1>8, <1>10, <2>2, <2>5, <3>2
  <2>8. ASSUME n + body <= z + y
        PROVE  SubSeq(s, body + 1, k + y) = SubSeq(r, n + body + 1, z + y)
    <3>1. n + body <= Len(r) BY <1>10, <2>8
    <3>2. SubSeq(SubSeq(r, n + 1, Len(r)), body + 1, Len(r) - n)
            = SubSeq(r, n + body + 1, Len(r))
      BY <1>2, <1>7, <1>10, <3>1, CutTwice
    <3>3. Len(r) = z + y /\ Len(r) - n = k + y
      BY <1>7, <1>9, <1>10, <2>1
    <3> QED BY <2>7, <3>2, <3>3
  <2>9. CASE ~(k < body)
    <3>1. body \in 0 .. k /\ body - body = 0 BY <1>2, <2>9
    <3>2. buffer' = Consume(c, body) /\ stream' = SubSeq(unread, 0 + 1, y)
      BY <1>1, <1>2, <1>9, <2>1, <2>9, <3>1
    <3>3. stream' = unread BY <1>9, <3>2
    <3>4. rest' = SubSeq(v, body + 1, k) \o unread
      BY <2>4, <3>1, <3>2, <3>3 DEF rest
    <3>5. rest' = SubSeq(s, body + 1, k + y)
      <4>1. body \in 0 .. Len(v) BY <2>2, <3>1
      <4>2. SubSeq(v, body + 1, Len(v)) \o unread
              = SubSeq(v \o unread, body + 1, Len(v \o unread))
        BY <4>1, Dropped
      <4> QED BY <2>2, <2>5, <2>6, <3>4, <4>2
    <3>6. n + body <= z + y BY <1>2, <1>7, <1>9, <2>1, <3>1
    <3>7. rest' = SubSeq(r, n + body + 1, z + y)
      BY <2>8, <3>5, <3>6
    <3> QED BY <2>4, <3>1, <3>2, <3>3, <3>6, <3>7
  <2>10. CASE k < body
    <3>1. k \in 0 .. k OBVIOUS
    <3>2. PICK d \in Nat : d = body - k BY <1>2, <2>10
    <3>3. /\ buffer' = Consume(c, k) /\ stream' = SubSeq(unread, d + 1, y)
          /\ d <= y
      BY <1>1, <1>2, <1>9, <2>1, <2>10, <3>2
    <3>4. d \in 0 .. Len(unread) BY <1>9, <3>3
    <3>5. stream' \in Seq(Bytes)
      <4>1. Cuts(stream', unread, d, y) BY <1>9, <3>3, CutOut
      <4> QED BY <4>1 DEF Cuts
    <3>6. rest' = stream'
      <4>1. Contents(buffer') = SubSeq(v, k + 1, k) BY <2>4, <3>1, <3>3
      <4>2. SubSeq(v, k + 1, k) = << >> BY <2>2
      <4> QED BY <3>5, <4>1, <4>2 DEF rest
    <3>7. stream' = SubSeq(s, body + 1, k + y)
      <4>1. SubSeq(unread, d + 1, Len(unread))
              = SubSeq(v \o unread, Len(v) + d + 1, Len(v \o unread))
        BY <2>2, <3>4, DroppedAll
      <4>2. Len(v) + d + 1 = body + 1 BY <1>2, <2>2, <3>2
      <4> QED BY <1>9, <2>5, <2>6, <3>3, <4>1, <4>2
    <3>8. n + body <= z + y BY <1>2, <1>7, <1>9, <2>1, <3>2, <3>3
    <3>9. rest' = SubSeq(r, n + body + 1, z + y)
      BY <2>8, <3>6, <3>7, <3>8
    <3> QED BY <2>4, <3>1, <3>3, <3>5, <3>8, <3>9
  <2> QED BY <2>9, <2>10
<1>14. ScanInv' BY <1>3, <1>13 DEF ScanInv
<1>15. n \in 1 .. Len(r) /\ n + body <= Len(r)
       /\ rest' = SubSeq(r, n + body + 1, Len(r))
  BY <1>7, <1>9, <1>10, <1>13
<1> QED BY <1>11, <1>12, <1>14, <1>15

-----------------------------------------------------------------------------
(* The theorem.                                                            *)

LEMMA Starts == Init => ScanInv /\ Stream!Init
<1> SUFFICES ASSUME Init PROVE ScanInv /\ Stream!Init OBVIOUS
<1>1. buffer = Empty /\ reading = FALSE /\ header = << >>
      /\ stream \in [1 .. Length -> Bytes]
  BY DEF Init
<1>2. stream \in Seq(Bytes) BY <1>1, BoundsAssumption
<1>3. BlockSize \in Nat /\ BlockSize >= 1 BY BlockSizeAssumption
<1>4. Made(Empty, 0, 0, 0, << >>) BY <1>3 DEF Made, Empty
<1>5. BufferOK(Empty)
  <2>1. 0 \in Nat /\ << >> \in Seq(Block) OBVIOUS
  <2> QED BY <1>4, <2>1, Zenon DEF BufferOK
<1>6. Contents(Empty) = << >>
  <2>1. Empty.size = 0 BY DEF Empty
  <2>2. Contents(Empty) \in Seq(Bytes) /\ Len(Contents(Empty)) = 0
    BY <1>5, <2>1, BufferParts
  <2> QED BY <2>2
<1>7. Contents(buffer) \o stream = stream BY <1>1, <1>2, <1>6
<1>8. Len(buffer.blocks) <= 1 BY <1>1 DEF Empty
<1> QED BY <1>1, <1>2, <1>5, <1>7, <1>8 DEF ScanInv, Stream!Init

(* What a header handed over does to the stream.                           *)
Takes(r) ==
    \E m \in 1 .. Len(r), body \in 0 .. MaxBody :
       /\ Stream!FirstBlankLineAt(r, m)
       /\ header' = SubSeq(r, 1, m)
       /\ m + body <= Len(r)
       /\ rest' = SubSeq(r, m + body + 1, Len(r))

LEMMA TakesNext == Takes(rest) => Stream!Next
BY DEF Takes, rest, Stream!Next, Stream!Take

(* async_receive                                                           *)
LEMMA Receives ==
  ScanInv /\ Receive => ScanInv' /\ (Takes(rest) \/ UNCHANGED <<rest, header>>)
<1> SUFFICES ASSUME ScanInv, Receive
             PROVE  ScanInv' /\ (Takes(rest) \/ UNCHANGED <<rest, header>>)
  OBVIOUS
<1>1. PICK b : b = buffer OBVIOUS
<1>2. PICK u \in Seq(Bytes) : u = stream BY DEF ScanInv
<1>3. BufferOK(b) /\ Len(b.blocks) <= 1 BY <1>1 DEF ScanInv, Receive
<1>4. PICK C \in Seq(Bytes) : C = Contents(b) /\ Len(C) = b.size
  BY <1>3, BufferParts
<1>5. PICK scan : scan = Scan(0, C) OBVIOUS
<1>6. IF Found(scan) = {} THEN ReadOn(b, scan[Len(C)], u)
                          ELSE Hand(b, First(Found(scan)), u)
  <2>1. FirstBlock(b) = C BY <1>3, <1>4, OneBlock
  <2> QED BY <1>1, <1>2, <1>5, <2>1 DEF Receive
<1>7. /\ Found(scan) = {} =>
            scan[Len(C)] = StatusAt(C, Len(C)) /\ StatusAt(C, Len(C)) # 4
      /\ Found(scan) # {} => /\ First(Found(scan)) \in 1 .. Len(C)
                             /\ Stream!FirstBlankLineAt(C, First(Found(scan)))
  <2>1. PICK k \in Nat : k = 0 OBVIOUS
  <2>2. StatusAt(C, k) = 0 BY <2>1, NoBytes
  <2>3. k + Len(C) = Len(C) /\ \A i \in 1 .. Len(C) : C[k + i] = C[i]
    BY <2>1
  <2>4. /\ Found(scan) = {} =>
              scan[Len(C)] = StatusAt(C, Len(C)) /\ StatusAt(C, Len(C)) # 4
        /\ Found(scan) # {} =>
              /\ First(Found(scan)) \in 1 .. Len(C)
              /\ Stream!FirstBlankLineAt(C, k + First(Found(scan)))
    <3>1. StatusAt(C, k) # 4 /\ scan = Scan(StatusAt(C, k), C)
      BY <1>5, <2>2
    <3>2. FindsFirst(C, k, Len(C), scan) BY <2>3, <3>1, Finds
    <3> QED BY <3>2 DEF FindsFirst
  <2>5. First(Found(scan)) \in 1 .. Len(C)
          => k + First(Found(scan)) = First(Found(scan))
    BY <2>1
  <2> QED BY <2>4, <2>5
<1>8. rest = C \o u BY <1>1, <1>2, <1>4 DEF rest
<1>9. CASE Found(scan) = {}
  <2>1. PICK st : st = scan[Len(C)] OBVIOUS
  <2>2. st = StatusAt(Contents(b), b.size) /\ st # 4 /\ ReadOn(b, st, u)
    BY <1>4, <1>6, <1>7, <1>9, <2>1
  <2>3. ScanInv' /\ header' = header /\ rest' = Contents(b) \o u
    BY <1>3, <2>2, ReadsOn
  <2> QED BY <1>4, <1>8, <2>3
<1>10. CASE Found(scan) # {}
  <2>1. PICK n \in 1 .. b.size : n = First(Found(scan))
    BY <1>4, <1>7, <1>10
  <2>2. Stream!FirstBlankLineAt(Contents(b), n) /\ Hand(b, n, u)
    BY <1>4, <1>6, <1>7, <1>10, <2>1
  <2>3. Len(b.blocks) <= 1 + ((b.offset + n) \div BlockSize)
    <3>1. PICK w \in Nat : w = b.offset BY <1>3, BufferParts
    <3>2. PICK z \in Nat : z = b.size BY <1>3, BufferParts
    <3>3. PICK e \in Nat : e = w + n BY <3>2
    <3>4. e \div BlockSize \in Nat BY Split, Zenon
    <3>5. PICK a \in Nat : a = Len(b.blocks) BY <1>3, BufferParts
    <3>6. a <= 1 BY <1>3, <3>5
    <3> QED BY <3>1, <3>3, <3>4, <3>5, <3>6
  <2>4. PICK r : r = Contents(b) \o u OBVIOUS
  <2>5. ScanInv' /\ Takes(r) BY <1>3, <2>2, <2>3, <2>4, Hands DEF Takes
  <2> QED BY <1>4, <1>8, <2>4, <2>5
<1> QED BY <1>9, <1>10

(* _header_receiving_handler                                               *)
LEMMA Handles ==
  ScanInv /\ Handle => ScanInv' /\ (Takes(rest) \/ UNCHANGED <<rest, header>>)
<1> SUFFICES ASSUME ScanInv, Handle
             PROVE  ScanInv' /\ (Takes(rest) \/ UNCHANGED <<rest, header>>)
  OBVIOUS
<1>1. PICK b0 : b0 = buffer OBVIOUS
<1>2. PICK s \in Seq(Bytes) : s = stream BY DEF ScanInv
<1>3. BufferOK(b0) /\ status = StatusAt(Contents(b0), b0.size) /\ status # 4
  BY <1>1 DEF ScanInv, Handle
<1>4. PICK z \in Nat : z = b0.size BY <1>3, BufferParts
<1>5. PICK C \in Seq(Bytes) : C = Contents(b0) /\ Len(C) = z
  BY <1>3, <1>4, BufferParts
<1>6. PICK n \in 1 .. Len(s) :
         /\ n <= b0.capacity
         /\ LET data   == SubSeq(s, 1, n)
                unread == SubSeq(s, n + 1, Len(s))
                scan   == Scan(status, data)
            IN IF Found(scan) = {}
               THEN ReadOn(Write(b0, data), scan[n], unread)
               ELSE Hand(Write(b0, data), z + First(Found(scan)), unread)
  BY <1>1, <1>2, <1>4 DEF Handle
<1>7. PICK d \in Seq(Bytes) : d = SubSeq(s, 1, n) /\ Len(d) = n
  <2>1. PICK o \in Nat : o = 0 OBVIOUS
  <2>2. o <= n /\ n <= Len(s) /\ n \in Nat BY <2>1
  <2>3. Cuts(SubSeq(s, o + 1, n), s, o, n) BY <2>2, CutOut
  <2>4. o + 1 = 1 /\ n - o = n BY <2>1
  <2> QED BY <2>3, <2>4 DEF Cuts
<1>8. PICK u \in Seq(Bytes) : u = SubSeq(s, n + 1, Len(s))
  <2>1. n <= Len(s) /\ n \in Nat /\ Len(s) \in Nat /\ Len(s) <= Len(s)
    OBVIOUS
  <2>2. Cuts(SubSeq(s, n + 1, Len(s)), s, n, Len(s)) BY <2>1, CutOut
  <2> QED BY <2>2 DEF Cuts
<1>9. PICK scan : scan = Scan(status, d) OBVIOUS
<1>10. PICK b : b = Write(b0, d) OBVIOUS
<1>11. IF Found(scan) = {} THEN ReadOn(b, scan[n], u)
                           ELSE Hand(b, z + First(Found(scan)), u)
  BY <1>6, <1>7, <1>8, <1>9, <1>10
<1>12. /\ BufferOK(b) /\ Contents(b) = C \o d /\ b.size = z + n
       /\ b.offset = b0.offset /\ Len(b.blocks) = Len(b0.blocks)
  <2>1. Len(d) > 0 /\ Len(d) <= b0.capacity BY <1>6, <1>7
  <2> QED BY <1>3, <1>4, <1>5, <1>7, <1>10, <2>1, WriteAppends
<1>13. PICK T \in Seq(Bytes) : /\ T = C \o d /\ Len(T) = z + n
                               /\ \A i \in 1 .. z : T[i] = C[i]
                               /\ \A i \in 1 .. n : T[z + i] = d[i]
  <2>1. PICK t : t = C \o d OBVIOUS
  <2>2. Joins(t, C, d) BY <2>1, Joined
  <2>3. /\ t \in Seq(Bytes) /\ Len(t) = z + n
        /\ \A i \in 1 .. z : t[i] = C[i]
        /\ \A i \in 1 .. n : t[z + i] = d[i]
    BY <1>5, <1>7, <2>2 DEF Joins
  <2> QED BY <2>1, <2>3
<1>14. status = StatusAt(T, z)
  <2>1. z <= Len(C) /\ z <= Len(T) BY <1>5, <1>13
  <2>2. StatusAt(C, z) = StatusAt(T, z) BY <1>13, <2>1, Prefix
  <2> QED BY <1>3, <1>4, <1>5, <2>2
<1>15. /\ Found(scan) = {} =>
             scan[Len(d)] = StatusAt(T, Len(T)) /\ StatusAt(T, Len(T)) # 4
       /\ Found(scan) # {} =>
             /\ First(Found(scan)) \in 1 .. Len(d)
             /\ Stream!FirstBlankLineAt(T, z + First(Found(scan)))
  <2>1. z + Len(d) = Len(T) /\ \A i \in 1 .. Len(d) : T[z + i] = d[i]
    BY <1>7, <1>13
  <2>2. StatusAt(T, z) # 4 /\ scan = Scan(StatusAt(T, z), d)
    BY <1>3, <1>9, <1>14
  <2>3. FindsFirst(T, z, Len(d), scan) BY <2>1, <2>2, Finds
  <2> QED BY <2>3 DEF FindsFirst
<1>16. rest = C \o s BY <1>1, <1>2, <1>5 DEF rest
<1>17. T \o u = C \o s
  <2>1. n \in 0 .. Len(s) OBVIOUS
  <2> QED BY <1>7, <1>8, <1>13, <2>1, Moved
<1>18. CASE Found(scan) = {}
  <2>1. PICK st : st = scan[n] OBVIOUS
  <2>2. st = StatusAt(Contents(b), b.size) /\ st # 4 /\ ReadOn(b, st, u)
    BY <1>7, <1>11, <1>12, <1>13, <1>15, <1>18, <2>1
  <2>3. ScanInv' /\ header' = header /\ rest' = Contents(b) \o u
    BY <1>12, <2>2, ReadsOn
  <2> QED BY <1>12, <1>13, <1>16, <1>17, <2>3
<1>19. CASE Found(scan) # {}
  <2>1. PICK i \in 1 .. n : i = First(Found(scan)) BY <1>7, <1>15, <1>19
  <2>2. PICK m \in 1 .. b.size : m = z + i
    <3>1. z + i \in 1 .. z + n OBVIOUS
    <3> QED BY <1>12, <3>1
  <2>3. Stream!FirstBlankLineAt(Contents(b), m) /\ Hand(b, m, u)
    BY <1>11, <1>12, <1>13, <1>15, <1>19, <2>1, <2>2
  <2>4. Len(b.blocks) <= 1 + ((b.offset + m) \div BlockSize)
    <3>1. PICK w \in Nat : w = b0.offset BY <1>3, BufferParts
    <3>2. PICK L \in Nat : L = Len(b0.blocks) BY <1>3, BufferParts
    <3>3. PICK f \in Nat : /\ f = b0.capacity /\ f <= BlockSize
                           /\ w + z + f = BlockSize * L
      BY <1>3, <1>4, <3>1, <3>2, BufferParts
    <3>4. PICK e \in Nat : e = w + m BY <2>2
    <3>5. BlockSize \in Nat BY BlockSizeAssumption
    <3>6. CASE L = 0
      <4>1. e \div BlockSize \in Nat BY Split, Zenon
      <4> QED BY <1>12, <3>1, <3>2, <3>4, <3>6, <4>1
    <3>7. CASE L > 0
      <4>1. PICK k \in Nat : k = L - 1 BY <3>7
      <4>2. BlockSize * L = BlockSize * k + BlockSize BY <3>5, <4>1
      <4>3. PICK x \in Nat : x = BlockSize * k BY <3>5
      <4>4. w + z + f = x + BlockSize BY <3>3, <4>2, <4>3
      <4>5. e >= x BY <2>2, <3>3, <3>4, <3>5, <4>4
      <4>6. e >= BlockSize * k BY <4>3, <4>5
      <4>7. PICK q \in Nat : q = e \div BlockSize BY Split, Zenon
      <4>8. q >= k BY <4>6, <4>7, Below
      <4>9. L <= 1 + q BY <4>1, <4>8
      <4> QED BY <1>12, <3>1, <3>2, <3>4, <4>7, <4>9
    <3> QED BY <3>6, <3>7
  <2>5. PICK r : r = Contents(b) \o u OBVIOUS
  <2>6. ScanInv' /\ Takes(r) BY <1>12, <2>3, <2>4, <2>5, Hands DEF Takes
  <2> QED BY <1>12, <1>13, <1>16, <1>17, <2>5, <2>6
<1> QED BY <1>18, <1>19

(* Whatever the sizes of the blocks and of the reads, the headers handed   *)
(* over are those of the stream cut at its first blank lines, with the     *)
(* bodies between them dropped and no other byte lost, repeated or         *)
(* overwritten (async_receive, _header_receiving_handler, header_matcher,  *)
(* linked_buffer).                                                         *)
THEOREM ScanRefines == Spec => TakesHeaders
<1>1. Init => ScanInv /\ Stream!Init BY Starts
<1>2. ScanInv /\ [Next]_vars => ScanInv' /\ [Stream!Next]_(Stream!vars)
  <2> SUFFICES ASSUME ScanInv, [Next]_vars
               PROVE  ScanInv' /\ (Stream!Next \/ UNCHANGED <<rest, header>>)
    BY DEF Stream!vars, rest
  <2>1. CASE Receive BY <2>1, Receives, TakesNext
  <2>2. CASE Handle BY <2>2, Handles, TakesNext
  <2>3. CASE UNCHANGED vars BY <2>3 DEF vars, ScanInv, rest
  <2> QED BY <2>1, <2>2, <2>3 DEF Next
<1> QED BY <1>1, <1>2, PTL DEF Spec, TakesHeaders, Stream!Spec

=============================================================================
