------------------------- MODULE TimingWheelProofs -------------------------
(***************************************************************************)
(* The timing wheel keeps its promise for any number of slots, sessions    *)
(* and nodes.                                                              *)
(*                                                                         *)
(* Ring finds the nodes of a slot as the code does, by following pointers. *)
(* The invariant names them without: some function r gives for each slot   *)
(* the sequence of its nodes, and the pointers link exactly these.  The    *)
(* first lemmas are about one such sequence and the pointers around it,    *)
(* the next about what the three operations do to r, the last about the    *)
(* ticks that are left to each owner.                                      *)
(***************************************************************************)
EXTENDS TimingWheel, SequenceTheorems, FiniteSetTheorems,
        WellFoundedInduction, TLAPS

(* The cells of a ring in the order of their pointers: its head, the nodes *)
(* of q, and the head again.                                               *)
At(h, q, i) == IF i \in 1 .. Len(q) THEN q[i] ELSE h

(* The ring at h is linked both ways and has the nodes of q.               *)
Linked(nx, pv, h, q) ==
    \A i \in 0 .. Len(q) : /\ nx[At(h, q, i)] = At(h, q, i + 1)
                           /\ pv[At(h, q, i + 1)] = At(h, q, i)

Once(q) == \A i, j \in 1 .. Len(q) : q[i] = q[j] => i = j

Members(q) == {q[i] : i \in 1 .. Len(q)}

(* Some element of a set of numbers is the least.                          *)
LEMMA LeastOf ==
  ASSUME NEW S, S \subseteq Nat, S # {}
  PROVE  \E n \in S : \A m \in S : n <= m
<1> DEFINE R == OpToRel(<, Nat)
<1>1. IsWellFoundedOn(R, Nat) BY NatLessThanWellFounded
<1>2. PICK n \in S : \A m \in S : <<m, n>> \notin R
  BY <1>1, WFMin, Zenon
<1>3. \A m \in S : ~(m < n) BY <1>2 DEF OpToRel
<1> QED BY <1>3

(* A ring has no more nodes than there are.                                *)
LEMMA RingSize ==
  ASSUME NEW q \in Seq(Nodes), Once(q)
  PROVE  Len(q) \in Nat /\ Cardinality(Nodes) \in Nat
         /\ Len(q) <= Cardinality(Nodes)
<1>1. Len(q) \in Nat /\ q \in [1 .. Len(q) -> Nodes] OBVIOUS
<1>2. IsInjective(q) BY <1>1 DEF IsInjective, Once
<1>3. q \in Injection(1 .. Len(q), Nodes) BY <1>1, <1>2 DEF Injection
<1>4. IsFiniteSet(Nodes) BY NodesAssumption
<1>5. Cardinality(1 .. Len(q)) <= Cardinality(Nodes)
  BY <1>3, <1>4, FS_Injection
<1>6. Cardinality(1 .. Len(q)) = Len(q)
  <2>1. 1 \in Int /\ Len(q) \in Int BY <1>1
  <2>2. Cardinality(1 .. Len(q)) = IF 1 > Len(q) THEN 0 ELSE Len(q) - 1 + 1
    BY <2>1, FS_Interval
  <2> QED BY <1>1, <2>2
<1>7. Cardinality(Nodes) \in Nat BY <1>4, FS_CardinalityType
<1> QED BY <1>1, <1>5, <1>6, <1>7

(* Following next from the head meets the nodes of the ring, all of them   *)
(* and no others.                                                          *)
LEMMA RingNodes ==
  \A h \in Heads : \A q \in Seq(Nodes) :
     Once(q) /\ Linked(next, previous, h, q) => Ring(h) = Members(q)
<1> SUFFICES ASSUME NEW h \in Heads, NEW q \in Seq(Nodes), Once(q),
                    Linked(next, previous, h, q)
             PROVE  Ring(h) = Members(q)
  OBVIOUS
<1> DEFINE N == Cardinality(Nodes)
           L == Len(q)
           Step(f) == [k \in 0 .. N |->
                         IF k = 0 THEN next[h]
                         ELSE IF f[k - 1] = h THEN h ELSE next[f[k - 1]]]
           w == [k \in 0 .. N |-> At(h, q, k + 1)]
           at == CHOOSE f : f = Step(f)
<1>1. L \in Nat /\ N \in Nat /\ L <= N BY RingSize
<1>2. \A i \in 1 .. L : q[i] # h BY NodesAssumption
<1>3. Ring(h) = {at[k] : k \in DOMAIN at} \ {h}
  BY DEF Ring
<1>4. w = Step(w)
  <2>1. \A k \in 0 .. N : w[k] = At(h, q, k + 1) OBVIOUS
  <2> SUFFICES ASSUME NEW k \in 0 .. N PROVE w[k] = Step(w)[k]
    OBVIOUS
  <2>2. k \in Nat /\ k <= N BY <1>1
  <2>3. CASE k = 0
    <3>1. next[At(h, q, 0)] = At(h, q, 1) BY <1>1 DEF Linked
    <3>2. At(h, q, 0) = h BY <1>1 DEF At
    <3> QED BY <1>1, <2>1, <2>3, <3>1, <3>2
  <2>4. CASE k # 0
    <3>1. k - 1 \in 0 .. N /\ (k - 1) + 1 = k BY <1>1, <2>2, <2>4
    <3>2. w[k - 1] = At(h, q, k) BY <2>1, <3>1
    <3>3. CASE k <= L
      <4>1. At(h, q, k) = q[k] /\ q[k] # h BY <1>1, <1>2, <2>2, <2>4, <3>3 DEF At
      <4>2. next[At(h, q, k)] = At(h, q, k + 1)
        BY <1>1, <2>2, <3>3 DEF Linked
      <4> HIDE DEF w
      <4> QED BY <2>1, <2>4, <3>2, <4>1, <4>2
    <3>4. CASE k > L
      <4>1. At(h, q, k) = h /\ At(h, q, k + 1) = h
        BY <1>1, <2>2, <3>4 DEF At
      <4> HIDE DEF w
      <4> QED BY <2>1, <2>4, <3>2, <4>1
    <3> QED BY <1>1, <2>2, <3>3, <3>4
  <2> QED BY <2>3, <2>4
<1> HIDE DEF Step
<1>5. at = Step(at) BY <1>4
<1> HIDE DEF at
<1>6. at = w
  <2> DEFINE S == {k \in 0 .. N : at[k] # w[k]}
  <2>1. at \in [0 .. N -> {at[k] : k \in 0 .. N}] /\ DOMAIN at = 0 .. N
    <3>1. DOMAIN at = 0 .. N BY <1>5 DEF Step
    <3>2. at = [k \in 0 .. N |-> at[k]] BY <1>5 DEF Step
    <3> QED BY <3>1, <3>2
  <2>2. S = {}
    <3> SUFFICES ASSUME S # {} PROVE FALSE OBVIOUS
    <3>1. S \subseteq Nat BY <1>1
    <3>2. PICK n \in S : \A m \in S : n <= m BY <3>1, LeastOf
    <3>3. n \in 0 .. N /\ at[n] # w[n] BY <3>2
    <3>4. \A f : n \in 0 .. N =>
             Step(f)[n] = IF n = 0 THEN next[h]
                          ELSE IF f[n - 1] = h THEN h ELSE next[f[n - 1]]
      BY DEF Step
    <3>5. CASE n = 0 BY <1>4, <1>5, <3>3, <3>4, <3>5
    <3>6. CASE n # 0
      <4>1. n - 1 \in 0 .. N /\ ~(n <= n - 1) BY <1>1, <3>3, <3>6
      <4>2. n - 1 \notin S BY <3>2, <4>1
      <4>3. at[n - 1] = w[n - 1] BY <4>1, <4>2
      <4> HIDE DEF w, S
      <4> QED BY <1>4, <1>5, <3>3, <3>4, <3>6, <4>3
    <3> QED BY <3>5, <3>6
  <2>3. \A k \in 0 .. N : at[k] = w[k] BY <2>2
  <2>4. at = [k \in 0 .. N |-> at[k]] BY <2>1
  <2>5. w = [k \in 0 .. N |-> w[k]] OBVIOUS
  <2> QED BY <2>3, <2>4, <2>5
<1>7. Ring(h) = {At(h, q, k + 1) : k \in 0 .. N} \ {h} BY <1>3, <1>6
<1>8. ASSUME NEW x \in Ring(h) PROVE x \in Members(q)
  <2>1. PICK k \in 0 .. N : x = At(h, q, k + 1) BY <1>7, <1>8
  <2>2. k + 1 \in 1 .. L BY <1>7, <1>8, <2>1 DEF At
  <2> QED BY <2>1, <2>2 DEF At, Members
<1>9. ASSUME NEW x \in Members(q) PROVE x \in Ring(h)
  <2>1. PICK i \in 1 .. L : x = q[i] BY <1>9 DEF Members
  <2>2. i - 1 \in 0 .. N /\ (i - 1) + 1 = i BY <1>1, <2>1
  <2>3. x = At(h, q, i) /\ x # h BY <1>2, <2>1 DEF At
  <2> QED BY <1>7, <2>2, <2>3
<1> QED BY <1>8, <1>9

-----------------------------------------------------------------------------
(* One ring.                                                               *)

(* The cells of a ring are different.                                      *)
LEMMA CellsDiffer ==
  ASSUME NEW h \in Heads, NEW q \in Seq(Nodes), Once(q)
  PROVE  /\ Len(q) \in Nat
         /\ \A i, j \in 0 .. Len(q) : At(h, q, i) = At(h, q, j) => i = j
         /\ \A i, j \in 1 .. Len(q) + 1 : At(h, q, i) = At(h, q, j) => i = j
         /\ \A i : i \notin 1 .. Len(q) => At(h, q, i) = h
         /\ \A i \in 1 .. Len(q) : At(h, q, i) = q[i] /\ q[i] # h
                                   /\ q[i] \in Nodes
         /\ \A i : At(h, q, i) \in Cells
<1>1. Len(q) \in Nat OBVIOUS
<1>2. \A i \in 1 .. Len(q) : q[i] # h /\ q[i] \in Nodes BY NodesAssumption
<1>3. \A i : i \notin 1 .. Len(q) => At(h, q, i) = h BY DEF At
<1>4. \A i \in 1 .. Len(q) : At(h, q, i) = q[i] BY DEF At
<1>5. \A i : At(h, q, i) \in Cells BY <1>2, <1>3, <1>4 DEF Cells
<1>6. \A i, j \in 0 .. Len(q) : At(h, q, i) = At(h, q, j) => i = j
  BY <1>1, <1>2, <1>3, <1>4 DEF Once
<1>7. \A i, j \in 1 .. Len(q) + 1 : At(h, q, i) = At(h, q, j) => i = j
  BY <1>1, <1>2, <1>3, <1>4 DEF Once
<1> QED BY <1>1, <1>2, <1>3, <1>4, <1>5, <1>6, <1>7

(* A ring none of whose cells is changed.                                  *)
LEMMA Untouched ==
  ASSUME NEW h, NEW q \in Seq(Nodes), NEW nx, NEW pv, NEW nx2, NEW pv2,
         Linked(nx, pv, h, q),
         \A i \in 0 .. Len(q) + 1 : /\ nx2[At(h, q, i)] = nx[At(h, q, i)]
                                    /\ pv2[At(h, q, i)] = pv[At(h, q, i)]
  PROVE  Linked(nx2, pv2, h, q)
<1>1. Len(q) \in Nat OBVIOUS
<1> SUFFICES ASSUME NEW i \in 0 .. Len(q)
             PROVE  /\ nx2[At(h, q, i)] = At(h, q, i + 1)
                    /\ pv2[At(h, q, i + 1)] = At(h, q, i)
  BY DEF Linked
<1>2. i \in 0 .. Len(q) + 1 /\ i + 1 \in 0 .. Len(q) + 1 BY <1>1
<1>3. /\ nx[At(h, q, i)] = At(h, q, i + 1)
      /\ pv[At(h, q, i + 1)] = At(h, q, i)
  BY DEF Linked
<1> QED BY <1>2, <1>3

(* The sequence with n in front.                                           *)
Fronted(n, q) == [i \in 1 .. Len(q) + 1 |-> IF i = 1 THEN n ELSE q[i - 1]]

(* The sequence without its k-th element.                                  *)
Without(k, q) == [i \in 1 .. Len(q) - 1 |-> IF i < k THEN q[i] ELSE q[i + 1]]

(* A node in front comes after the head, and the ring has one node more.   *)
LEMMA FrontedIs ==
  ASSUME NEW n \in Nodes, NEW q \in Seq(Nodes), NEW h
  PROVE  /\ Fronted(n, q) \in Seq(Nodes) /\ Len(Fronted(n, q)) = Len(q) + 1
         /\ At(h, Fronted(n, q), 0) = h /\ At(h, Fronted(n, q), 1) = n
         /\ Members(Fronted(n, q)) = Members(q) \cup {n}
         /\ Once(q) /\ n \notin Members(q) => Once(Fronted(n, q))
<1> DEFINE f == Fronted(n, q)
<1>1. Len(q) \in Nat OBVIOUS
<1>2. f \in Seq(Nodes) /\ Len(f) = Len(q) + 1
  <2>1. \A i \in 1 .. Len(q) + 1 : (IF i = 1 THEN n ELSE q[i - 1]) \in Nodes
    BY <1>1
  <2> QED BY <1>1, <2>1 DEF Fronted
<1>3. \A i \in 1 .. Len(q) + 1 : f[i] = IF i = 1 THEN n ELSE q[i - 1]
  BY DEF Fronted
<1> HIDE DEF f
<1>4. At(h, f, 0) = h /\ At(h, f, 1) = n BY <1>1, <1>2, <1>3 DEF At
<1>6. Members(f) = Members(q) \cup {n}
  <2>1. ASSUME NEW x \in Members(f) PROVE x \in Members(q) \cup {n}
    <3>1. PICK i \in 1 .. Len(q) + 1 : x = f[i] BY <1>2, <2>1 DEF Members
    <3>2. CASE i = 1 BY <1>3, <3>1, <3>2
    <3>3. CASE i # 1
      <4>1. i - 1 \in 1 .. Len(q) BY <1>1, <3>1, <3>3
      <4> QED BY <1>3, <3>1, <3>3, <4>1 DEF Members
    <3> QED BY <3>2, <3>3
  <2>2. n \in Members(f)
    <3>1. 1 \in 1 .. Len(f) /\ 1 \in 1 .. Len(q) + 1 BY <1>1, <1>2
    <3> QED BY <1>3, <3>1 DEF Members
  <2>3. ASSUME NEW x \in Members(q) PROVE x \in Members(f)
    <3>1. PICK i \in 1 .. Len(q) : x = q[i] BY <2>3 DEF Members
    <3>2. /\ i + 1 \in 1 .. Len(q) + 1 /\ i + 1 # 1 /\ (i + 1) - 1 = i
          /\ i + 1 \in 1 .. Len(f)
      BY <1>1, <1>2
    <3>3. f[i + 1] = q[i] BY <1>3, <3>2
    <3> QED BY <3>1, <3>2, <3>3 DEF Members
  <2> QED BY <2>1, <2>2, <2>3
<1>7. ASSUME Once(q), n \notin Members(q) PROVE Once(f)
  <2> SUFFICES ASSUME NEW i \in 1 .. Len(f), NEW j \in 1 .. Len(f),
                      f[i] = f[j]
               PROVE  i = j
    BY DEF Once
  <2>1. i \in 1 .. Len(q) + 1 /\ j \in 1 .. Len(q) + 1 BY <1>2
  <2>2. \A k \in 1 .. Len(q) : q[k] # n BY <1>7 DEF Members
  <2>3. CASE i = 1 \/ j = 1 BY <1>1, <1>3, <2>1, <2>2, <2>3
  <2>4. CASE i # 1 /\ j # 1
    <3>1. i - 1 \in 1 .. Len(q) /\ j - 1 \in 1 .. Len(q) BY <1>1, <2>1, <2>4
    <3>2. q[i - 1] = q[j - 1] BY <1>3, <2>1, <2>4
    <3>3. i - 1 = j - 1 BY <1>7, <3>1, <3>2 DEF Once
    <3> QED BY <2>1, <3>3
  <2> QED BY <2>3, <2>4
<1> QED BY <1>2, <1>4, <1>6, <1>7 DEF f

(* Its cells are those of the old ring, one place further on.              *)
LEMMA FrontedAt ==
  ASSUME NEW n \in Nodes, NEW q \in Seq(Nodes), NEW h
  PROVE  \A i \in 1 .. Len(q) + 1 : At(h, Fronted(n, q), i + 1) = At(h, q, i)
<1> DEFINE f == Fronted(n, q)
<1>1. Len(q) \in Nat OBVIOUS
<1>2. Len(f) = Len(q) + 1 BY FrontedIs
<1>3. \A i \in 1 .. Len(q) + 1 : f[i] = IF i = 1 THEN n ELSE q[i - 1]
  BY DEF Fronted
<1> HIDE DEF f
<1>4. ASSUME NEW i \in 1 .. Len(q) + 1 PROVE At(h, f, i + 1) = At(h, q, i)
  <2>1. CASE i \in 1 .. Len(q)
    <3>1. /\ i + 1 \in 1 .. Len(q) + 1 /\ i + 1 # 1 /\ (i + 1) - 1 = i
          /\ i + 1 \in 1 .. Len(f)
      BY <1>1, <1>2, <2>1
    <3>2. f[i + 1] = q[i] BY <1>3, <3>1
    <3> QED BY <2>1, <3>1, <3>2 DEF At
  <2>2. CASE i = Len(q) + 1
    <3>1. i \notin 1 .. Len(q) /\ i + 1 \notin 1 .. Len(f) BY <1>1, <1>2, <2>2
    <3> QED BY <3>1 DEF At
  <2> QED BY <1>1, <2>1, <2>2
<1> QED BY <1>4 DEF f

(* The same for the sequence without its k-th element.                     *)
LEMMA WithoutIs ==
  ASSUME NEW q \in Seq(Nodes), NEW k \in 1 .. Len(q), Once(q), NEW h
  PROVE  /\ Without(k, q) \in Seq(Nodes)
         /\ Len(Without(k, q)) = Len(q) - 1
         /\ \A i \in 0 .. Len(q) :
               At(h, Without(k, q), i) = IF i < k THEN At(h, q, i)
                                                  ELSE At(h, q, i + 1)
         /\ Members(Without(k, q)) = Members(q) \ {q[k]}
         /\ Once(Without(k, q))
<1> DEFINE f == Without(k, q)
<1>1. Len(q) \in Nat /\ k \in Nat /\ k >= 1 /\ k <= Len(q) OBVIOUS
<1>2. f \in Seq(Nodes) /\ Len(f) = Len(q) - 1
  <2>1. \A i \in 1 .. Len(q) - 1 : (IF i < k THEN q[i] ELSE q[i + 1]) \in Nodes
    BY <1>1
  <2>2. Len(q) - 1 \in Nat BY <1>1
  <2> QED BY <2>1, <2>2 DEF Without
<1>3. \A i \in 1 .. Len(q) - 1 : f[i] = IF i < k THEN q[i] ELSE q[i + 1]
  BY DEF Without
<1> HIDE DEF f
<1>4. ASSUME NEW i \in 0 .. Len(q)
      PROVE  At(h, f, i) = IF i < k THEN At(h, q, i) ELSE At(h, q, i + 1)
  <2>1. CASE i \in 1 .. Len(q) - 1
    <3>1. i \in 1 .. Len(q) /\ i + 1 \in 1 .. Len(q) BY <1>1, <2>1
    <3> QED BY <1>2, <1>3, <2>1, <3>1 DEF At
  <2>2. CASE i = 0 BY <1>1, <2>2 DEF At
  <2>3. CASE i = Len(q)
    <3>1. i \notin 1 .. Len(f) /\ i + 1 \notin 1 .. Len(q) /\ ~(i < k)
      BY <1>1, <1>2, <2>3
    <3> QED BY <3>1 DEF At
  <2> QED BY <1>1, <2>1, <2>2, <2>3
<1>5. ASSUME NEW x \in Members(f) PROVE x \in Members(q) \ {q[k]}
  <2>1. PICK i \in 1 .. Len(q) - 1 : x = f[i] BY <1>2, <1>5 DEF Members
  <2>2. i \in 1 .. Len(q) /\ i + 1 \in 1 .. Len(q) /\ i \in Int BY <1>1, <2>1
  <2>3. CASE i < k
    <3>1. x = q[i] /\ i # k BY <1>1, <1>3, <2>1, <2>2, <2>3
    <3> QED BY <2>2, <3>1 DEF Members, Once
  <2>4. CASE ~(i < k)
    <3>1. x = q[i + 1] /\ i + 1 # k BY <1>1, <1>3, <2>1, <2>2, <2>4
    <3> QED BY <2>2, <3>1 DEF Members, Once
  <2> QED BY <2>3, <2>4
<1>6. ASSUME NEW x \in Members(q), x # q[k] PROVE x \in Members(f)
  <2>1. PICK i \in 1 .. Len(q) : x = q[i] BY <1>6 DEF Members
  <2>2. CASE i < k
    <3>1. i \in 1 .. Len(q) - 1 BY <1>1, <2>1, <2>2
    <3>2. f[i] = q[i] BY <1>3, <2>2, <3>1
    <3> QED BY <1>2, <2>1, <3>1, <3>2 DEF Members
  <2>3. CASE i > k
    <3>1. i - 1 \in 1 .. Len(q) - 1 /\ ~(i - 1 < k) /\ (i - 1) + 1 = i
      BY <1>1, <2>1, <2>3
    <3>2. f[i - 1] = q[i] BY <1>3, <3>1
    <3> QED BY <1>2, <2>1, <3>1, <3>2 DEF Members
  <2> QED BY <1>1, <1>6, <2>1, <2>2, <2>3
<1>7. Members(f) = Members(q) \ {q[k]} BY <1>5, <1>6
<1>8. Once(f)
  <2> SUFFICES ASSUME NEW i \in 1 .. Len(f), NEW j \in 1 .. Len(f),
                      f[i] = f[j]
               PROVE  i = j
    BY DEF Once
  <2>1. i \in 1 .. Len(q) - 1 /\ j \in 1 .. Len(q) - 1 BY <1>2
  <2> DEFINE a(m) == IF m < k THEN m ELSE m + 1
  <2>2. a(i) \in 1 .. Len(q) /\ a(j) \in 1 .. Len(q) BY <1>1, <2>1
  <2>3. q[a(i)] = q[a(j)] BY <1>3, <2>1
  <2>4. a(i) = a(j) BY <2>2, <2>3 DEF Once
  <2> QED BY <1>1, <2>1, <2>4
<1> QED BY <1>2, <1>4, <1>7, <1>8 DEF f

(* timing_wheel::set links a new node behind the head.                     *)
LEMMA Inserted ==
  ASSUME NEW h \in Heads, NEW q \in Seq(Nodes), Once(q), NEW n \in Nodes,
         n \notin Members(q),
         NEW nx \in [Cells -> Cells \cup {Null}],
         NEW pv \in [Cells -> Cells \cup {Null}], Linked(nx, pv, h, q)
  PROVE  Linked([nx EXCEPT ![n] = nx[h], ![h] = n],
                [pv EXCEPT ![n] = h, ![nx[h]] = n], h, Fronted(n, q))
<1> DEFINE f == Fronted(n, q)
           L == Len(q)
           A(i) == At(h, q, i)
           B(i) == At(h, f, i)
           nx2 == [nx EXCEPT ![n] = nx[h], ![h] = n]
           pv2 == [pv EXCEPT ![n] = h, ![nx[h]] = n]
<1>1. /\ L \in Nat
      /\ \A i, j \in 0 .. L : A(i) = A(j) => i = j
      /\ \A i, j \in 1 .. L + 1 : A(i) = A(j) => i = j
      /\ \A i : i \notin 1 .. L => A(i) = h
      /\ \A i \in 1 .. L : A(i) = q[i]
      /\ \A i : A(i) \in Cells
  BY CellsDiffer
<1>2. /\ Len(f) = L + 1 /\ B(0) = h /\ B(1) = n
      /\ \A i \in 1 .. L + 1 : B(i + 1) = A(i)
  <2>1. Len(Fronted(n, q)) = Len(q) + 1
    BY FrontedIs
  <2>2. At(h, Fronted(n, q), 0) = h /\ At(h, Fronted(n, q), 1) = n
    BY FrontedIs
  <2>3. \A i \in 1 .. Len(q) + 1 :
           At(h, Fronted(n, q), i + 1) = At(h, q, i)
    BY FrontedAt
  <2> QED BY <2>1, <2>2, <2>3
<1>3. n # h /\ n \in Cells /\ h \in Cells BY NodesAssumption DEF Cells
<1>4. \A i \in 1 .. L : q[i] # n BY DEF Members
<1>5. \A i : A(i) # n BY <1>1, <1>3, <1>4
<1>6. \A i \in 0 .. L : nx[A(i)] = A(i + 1) /\ pv[A(i + 1)] = A(i)
  BY DEF Linked
<1>7. A(0) = h /\ nx[h] = A(1) BY <1>1, <1>6
<1>8. /\ nx2[h] = n /\ nx2[n] = A(1)
      /\ \A x \in Cells \ {n, h} : nx2[x] = nx[x]
      /\ pv2[n] = h /\ pv2[A(1)] = n
      /\ \A x \in Cells \ {n, A(1)} : pv2[x] = pv[x]
  BY <1>1, <1>3, <1>5, <1>7
<1> HIDE DEF nx2, pv2, A, B, f
<1>9. ASSUME NEW i \in 0 .. L + 1
      PROVE  nx2[B(i)] = B(i + 1) /\ pv2[B(i + 1)] = B(i)
  <2>1. CASE i = 0 BY <1>2, <1>8, <2>1
  <2>2. CASE i = 1
    <3>1. 1 \in 1 .. L + 1 BY <1>1
    <3>2. B(1 + 1) = A(1) BY <1>2, <3>1
    <3> QED BY <1>2, <1>8, <2>2, <3>2
  <2>3. CASE i # 0 /\ i # 1
    <3>1. PICK j \in 1 .. L : j + 1 = i
      <4>1. i - 1 \in 1 .. L /\ (i - 1) + 1 = i BY <1>1, <2>3
      <4> QED BY <4>1
    <3>2. /\ j \in 1 .. L + 1 /\ j + 1 \in 1 .. L + 1 /\ j \in 0 .. L
          /\ j + 1 # 1
      BY <1>1, <3>1
    <3>3. B(j + 1) = A(j) /\ B((j + 1) + 1) = A(j + 1) BY <1>2, <3>2
    <3>4. A(j) \in Cells \ {n, h}
      <4>1. A(j) # h
        <5>1. A(j) # A(0) BY <1>1, <3>1, <3>2
        <5> QED BY <1>7, <5>1
      <4> QED BY <1>1, <1>5, <4>1
    <3>5. A(j + 1) \in Cells \ {n, A(1)}
      <4>1. 1 \in 1 .. L + 1 BY <1>1
      <4> QED BY <1>1, <1>5, <3>2, <4>1
    <3>6. nx2[A(j)] = A(j + 1) /\ pv2[A(j + 1)] = A(j)
      BY <1>6, <1>8, <3>2, <3>4, <3>5
    <3> QED BY <3>1, <3>3, <3>6
  <2> QED BY <2>1, <2>2, <2>3
<1>10. Linked(nx2, pv2, h, f) BY <1>2, <1>9 DEF Linked, B
<1> QED BY <1>10 DEF nx2, pv2, f

(* timing_wheel::cancel takes a node out of its ring, wherever it is.      *)
LEMMA Removed ==
  ASSUME NEW h \in Heads, NEW q \in Seq(Nodes), Once(q),
         NEW k \in 1 .. Len(q), NEW n, n = q[k],
         NEW nx \in [Cells -> Cells \cup {Null}],
         NEW pv \in [Cells -> Cells \cup {Null}], Linked(nx, pv, h, q)
  PROVE  Linked([nx EXCEPT ![pv[n]] = nx[n], ![n] = Null],
                [pv EXCEPT ![nx[n]] = pv[n], ![n] = Null], h, Without(k, q))
<1> DEFINE f == Without(k, q)
           L == Len(q)
           A(i) == At(h, q, i)
           B(i) == At(h, f, i)
           nx2 == [nx EXCEPT ![pv[n]] = nx[n], ![n] = Null]
           pv2 == [pv EXCEPT ![nx[n]] = pv[n], ![n] = Null]
<1>1. /\ L \in Nat
      /\ \A i, j \in 0 .. L : A(i) = A(j) => i = j
      /\ \A i, j \in 1 .. L + 1 : A(i) = A(j) => i = j
      /\ \A i \in 1 .. L : A(i) = q[i]
      /\ \A i : A(i) \in Cells
  BY CellsDiffer
<1>2. /\ Len(f) = L - 1
      /\ \A i \in 0 .. L : B(i) = IF i < k THEN A(i) ELSE A(i + 1)
  BY WithoutIs
<1>3. k \in Nat /\ k >= 1 /\ k <= L /\ A(k) = n BY <1>1
<1>4. \A i \in 0 .. L : nx[A(i)] = A(i + 1) /\ pv[A(i + 1)] = A(i)
  BY DEF Linked
<1>5. nx[n] = A(k + 1) /\ pv[n] = A(k - 1)
  <2>1. k \in 0 .. L /\ k - 1 \in 0 .. L /\ (k - 1) + 1 = k BY <1>1, <1>3
  <2>2. nx[A(k)] = A(k + 1) /\ pv[A((k - 1) + 1)] = A(k - 1) BY <1>4, <2>1
  <2> QED BY <1>3, <2>1, <2>2
<1>6. A(k - 1) # n /\ A(k + 1) # n
  <2>1. k \in 0 .. L /\ k - 1 \in 0 .. L /\ k - 1 # k BY <1>1, <1>3
  <2>2. k \in 1 .. L + 1 /\ k + 1 \in 1 .. L + 1 /\ k + 1 # k BY <1>1, <1>3
  <2> QED BY <1>1, <1>3, <2>1, <2>2
<1>7. /\ nx2[A(k - 1)] = A(k + 1)
      /\ \A x \in Cells \ {n, A(k - 1)} : nx2[x] = nx[x]
      /\ pv2[A(k + 1)] = A(k - 1)
      /\ \A x \in Cells \ {n, A(k + 1)} : pv2[x] = pv[x]
  BY <1>1, <1>5, <1>6
<1> HIDE DEF nx2, pv2, A, B, f
<1>8. ASSUME NEW i \in 0 .. L - 1
      PROVE  nx2[B(i)] = B(i + 1) /\ pv2[B(i + 1)] = B(i)
  <2>0. i \in 0 .. L /\ i + 1 \in 0 .. L /\ i \in Int BY <1>1, <1>3
  <2>1. CASE i + 1 < k
    <3>1. B(i) = A(i) /\ B(i + 1) = A(i + 1) BY <1>2, <1>3, <2>0, <2>1
    <3>2. A(i) \in Cells \ {n, A(k - 1)}
      <4>1. k \in 0 .. L /\ k - 1 \in 0 .. L /\ i # k /\ i # k - 1
        BY <1>1, <1>3, <2>0, <2>1
      <4> QED BY <1>1, <1>3, <2>0, <4>1
    <3>3. A(i + 1) \in Cells \ {n, A(k + 1)}
      <4>1. /\ k \in 1 .. L + 1 /\ k + 1 \in 1 .. L + 1
            /\ i + 1 \in 1 .. L + 1 /\ i + 1 # k /\ i + 1 # k + 1
        BY <1>1, <1>3, <2>0, <2>1
      <4> QED BY <1>1, <1>3, <4>1
    <3> QED BY <1>4, <1>7, <2>0, <3>1, <3>2, <3>3
  <2>2. CASE i + 1 = k
    <3>1. i < k /\ ~(i + 1 < k) /\ i = k - 1 BY <1>3, <2>0, <2>2
    <3>2. B(i) = A(k - 1) BY <1>2, <2>0, <3>1
    <3>3. B(i + 1) = A(k + 1) BY <1>2, <2>0, <2>2, <3>1
    <3> QED BY <1>7, <3>2, <3>3
  <2>3. CASE i + 1 > k
    <3>1. PICK j \in 0 .. L : j = i + 1 BY <2>0
    <3>2. B(i) = A(j) /\ B(i + 1) = A(j + 1)
      <4>1. ~(i < k) /\ ~(i + 1 < k) BY <1>3, <2>0, <2>3
      <4> QED BY <1>2, <2>0, <3>1, <4>1
    <3>3. A(j) \in Cells \ {n, A(k - 1)}
      <4>1. k \in 0 .. L /\ k - 1 \in 0 .. L /\ j # k /\ j # k - 1
        BY <1>1, <1>3, <2>0, <2>3, <3>1
      <4> QED BY <1>1, <1>3, <3>1, <4>1
    <3>4. A(j + 1) \in Cells \ {n, A(k + 1)}
      <4>1. /\ k \in 1 .. L + 1 /\ k + 1 \in 1 .. L + 1
            /\ j + 1 \in 1 .. L + 1 /\ j + 1 # k /\ j + 1 # k + 1
        BY <1>1, <1>3, <2>0, <2>3, <3>1
      <4> QED BY <1>1, <1>3, <4>1
    <3> QED BY <1>4, <1>7, <3>1, <3>2, <3>3, <3>4
  <2> QED BY <1>3, <2>0, <2>1, <2>2, <2>3
<1>9. \A i \in 0 .. Len(f) : /\ nx2[At(h, f, i)] = At(h, f, i + 1)
                             /\ pv2[At(h, f, i + 1)] = At(h, f, i)
  BY <1>2, <1>8 DEF B
<1>10. Linked(nx2, pv2, h, f) BY <1>9 DEF Linked
<1> QED BY <1>10 DEF nx2, pv2, f

-----------------------------------------------------------------------------
(* The wheel.                                                              *)

(* Who is where: every slot is in the wheel once, an owner that has set    *)
(* its timer knows its node, and no other node has a handler.              *)
WTyped ==
    /\ wheel \in Seq(Heads) /\ Len(wheel) = Slots
    /\ \A i, j \in 1 .. Slots : wheel[i] = wheel[j] => i = j
    /\ \A h \in Heads : \E i \in 1 .. Slots : wheel[i] = h
    /\ next \in [Cells -> Cells \cup {Null}]
    /\ previous \in [Cells -> Cells \cup {Null}]
    /\ handler \in [Nodes -> Owners \cup {Null}]
    /\ tk \in [Owners -> Nodes \cup {Null}]
    /\ armed \subseteq Owners
    /\ \A o \in armed : tk[o] \in Nodes /\ handler[tk[o]] = o
    /\ \A n \in Nodes : handler[n] # Null => /\ handler[n] \in armed
                                             /\ tk[handler[n]] = n

(* r gives the nodes of each slot in their order: every ring is linked     *)
(* both ways, no two share a node, and together they have all nodes with   *)
(* a handler.                                                              *)
Placed(r) ==
    /\ r \in [Heads -> Seq(Nodes)]
    /\ \A h \in Heads : Once(r[h]) /\ Linked(next, previous, h, r[h])
    /\ \A h, g \in Heads : h # g => Members(r[h]) \cap Members(r[g]) = {}
    /\ \A n \in Nodes : handler[n] # Null
                        <=> \E h \in Heads : n \in Members(r[h])

WInv == WTyped /\ \E r : Placed(r)

(* Ring follows the pointers and finds what r says.                        *)
LEMMA RingsPlaced ==
  \A r : Placed(r) => \A h \in Heads : Ring(h) = Members(r[h])
BY RingNodes DEF Placed

(* No two rings share a cell.                                              *)
LEMMA RingsApart ==
  ASSUME NEW r, Placed(r), NEW h \in Heads, NEW g \in Heads, h # g
  PROVE  \A i, j : At(h, r[h], i) # At(g, r[g], j)
<1>1. r[h] \in Seq(Nodes) /\ r[g] \in Seq(Nodes) BY DEF Placed
<1>2. \A i : At(h, r[h], i) = h \/ At(h, r[h], i) \in Members(r[h])
  BY DEF At, Members
<1>3. \A i : At(g, r[g], i) = g \/ At(g, r[g], i) \in Members(r[g])
  BY DEF At, Members
<1>4. Members(r[h]) \subseteq Nodes /\ Members(r[g]) \subseteq Nodes
  BY <1>1 DEF Members
<1>5. h \notin Nodes /\ g \notin Nodes BY NodesAssumption
<1>6. Members(r[h]) \cap Members(r[g]) = {} BY DEF Placed
<1> QED BY <1>2, <1>3, <1>4, <1>5, <1>6

(* The slot of an owner's node is the only one that has it.                *)
LEMMA LeftIs ==
  \A r : WTyped /\ Placed(r) =>
     \A o \in Owners :
        /\ o \notin armed => Left(o) = 0
        /\ o \in armed => /\ Left(o) \in 1 .. Slots
                          /\ tk[o] \in Members(r[wheel[Left(o)]])
                          /\ \A i \in 1 .. Slots :
                                tk[o] \in Members(r[wheel[i]]) => i = Left(o)
<1> SUFFICES ASSUME NEW r, WTyped, Placed(r), NEW o \in Owners
             PROVE  /\ o \notin armed => Left(o) = 0
                    /\ o \in armed =>
                          /\ Left(o) \in 1 .. Slots
                          /\ tk[o] \in Members(r[wheel[Left(o)]])
                          /\ \A i \in 1 .. Slots :
                                tk[o] \in Members(r[wheel[i]]) => i = Left(o)
  BY Zenon
<1>1. o \notin armed => Left(o) = 0 BY DEF Left
<1>2. ASSUME o \in armed
      PROVE  /\ Left(o) \in 1 .. Slots
             /\ tk[o] \in Members(r[wheel[Left(o)]])
             /\ \A i \in 1 .. Slots :
                   tk[o] \in Members(r[wheel[i]]) => i = Left(o)
  <2>1. Left(o) = CHOOSE i \in 1 .. Slots : tk[o] \in Ring(wheel[i])
    BY <1>2 DEF Left
  <2>2. \A i \in 1 .. Slots : wheel[i] \in Heads BY DEF WTyped
  <2>3. \A i \in 1 .. Slots : Ring(wheel[i]) = Members(r[wheel[i]])
    BY <2>2, RingsPlaced
  <2>4. \E i \in 1 .. Slots : tk[o] \in Ring(wheel[i])
    <3>1. tk[o] \in Nodes /\ handler[tk[o]] = o BY <1>2 DEF WTyped
    <3>2. o # Null BY NullAssumption
    <3>3. PICK h \in Heads : tk[o] \in Members(r[h])
      BY <3>1, <3>2 DEF Placed
    <3>4. PICK i \in 1 .. Slots : wheel[i] = h BY DEF WTyped
    <3> QED BY <2>3, <3>3, <3>4
  <2>5. Left(o) \in 1 .. Slots /\ tk[o] \in Ring(wheel[Left(o)])
    BY <2>1, <2>4, Zenon
  <2>6. tk[o] \in Members(r[wheel[Left(o)]]) BY <2>3, <2>5
  <2>7. ASSUME NEW i \in 1 .. Slots, tk[o] \in Members(r[wheel[i]])
        PROVE  i = Left(o)
    <3>1. wheel[i] = wheel[Left(o)] BY <2>2, <2>5, <2>6, <2>7 DEF Placed
    <3> QED BY <2>5, <3>1 DEF WTyped
  <2> QED BY <2>5, <2>6, <2>7
<1> QED BY <1>1, <1>2

-----------------------------------------------------------------------------
(* What the steps do to the ticks that are left.                           *)

(* The first and the last slot are slots.                                  *)
LEMMA EndSlots == WTyped => /\ 1 \in 1 .. Slots /\ Slots \in 1 .. Slots
                        /\ Front \in Heads /\ Back \in Heads
BY SlotsAssumption DEF WTyped, Front, Back

(* The nodes of the slots go from r to s when the owner o takes the node n *)
(* and puts it into the last slot,                                         *)
Puts(r, s, o, n) ==
    /\ handler[n] = Null
    /\ handler' = [handler EXCEPT ![n] = o]
    /\ tk' = [tk EXCEPT ![o] = n]
    /\ next' \in [Cells -> Cells \cup {Null}]
    /\ previous' \in [Cells -> Cells \cup {Null}]
    /\ \A g \in Heads : Members(s[g]) = IF g = Back THEN Members(r[g]) \cup {n}
                                                    ELSE Members(r[g])
    /\ Placed(s)'

(* when it takes its node out of the slot it is in,                        *)
Takes(r, s, o, n) ==
    /\ tk[o] = n
    /\ handler' = [handler EXCEPT ![n] = Null]
    /\ next' \in [Cells -> Cells \cup {Null}]
    /\ previous' \in [Cells -> Cells \cup {Null}]
    /\ \A g \in Heads : Members(s[g]) = Members(r[g]) \ {n}
    /\ Placed(s)'

(* and when the first slot is emptied.                                     *)
Empties(r, s) ==
    /\ next' \in [Cells -> Cells \cup {Null}]
    /\ previous' \in [Cells -> Cells \cup {Null}]
    /\ \A g \in Heads : Members(s[g]) = IF g = Front THEN {} ELSE Members(r[g])
    /\ Placed(s)'

(* timing_wheel::set puts the node of the owner into the last slot.        *)
LEMMA SetPlaces ==
  ASSUME WTyped, NEW r, Placed(r), NEW o \in Owners, Set(o)
  PROVE  \E n \in Nodes : \E s : Puts(r, s, o, n)
<1>1. PICK n \in Nodes :
         /\ handler[n] = Null
         /\ next' = [next EXCEPT ![n] = next[Back], ![Back] = n]
         /\ previous' = [previous EXCEPT ![n] = Back, ![next[Back]] = n]
         /\ handler' = [handler EXCEPT ![n] = o]
         /\ tk' = [tk EXCEPT ![o] = n]
  BY DEF Set
<1>2. PICK h \in Heads : h = Back BY EndSlots
<1> DEFINE r2 == [r EXCEPT ![h] = Fronted(n, @)]
<1>3. r \in [Heads -> Seq(Nodes)] BY DEF Placed
<1>4. /\ Fronted(n, r[h]) \in Seq(Nodes)
      /\ Members(Fronted(n, r[h])) = Members(r[h]) \cup {n}
  BY <1>3, FrontedIs
<1>5. \A g \in Heads : n \notin Members(r[g]) BY <1>1 DEF Placed
<1>6. Once(Fronted(n, r[h]))
  <2>1. r[h] \in Seq(Nodes) /\ Once(r[h]) /\ n \notin Members(r[h])
    BY <1>3, <1>5 DEF Placed
  <2> QED BY <2>1, FrontedIs
<1>7. /\ next \in [Cells -> Cells \cup {Null}]
      /\ previous \in [Cells -> Cells \cup {Null}]
  BY DEF WTyped
<1>8. Linked(next', previous', h, Fronted(n, r[h]))
  <2>1. r[h] \in Seq(Nodes) /\ Once(r[h]) /\ n \notin Members(r[h])
        /\ Linked(next, previous, h, r[h])
    BY <1>3, <1>5 DEF Placed
  <2> QED BY <1>1, <1>2, <1>7, <2>1, Inserted
<1>9. next[h] = At(h, r[h], 1)
  <2>1. r[h] \in Seq(Nodes) /\ Linked(next, previous, h, r[h])
    BY <1>3 DEF Placed
  <2>2. Len(r[h]) \in Nat BY <2>1
  <2>3. next[At(h, r[h], 0)] = At(h, r[h], 1) BY <2>1, <2>2 DEF Linked
  <2>4. At(h, r[h], 0) = h BY DEF At
  <2> QED BY <2>3, <2>4
<1>10. n \in Cells /\ h \in Cells /\ next[h] \in Cells
  <2>1. r[h] \in Seq(Nodes) BY <1>3
  <2>2. At(h, r[h], 1) \in Heads \cup Nodes BY <2>1 DEF At
  <2> QED BY <1>9, <2>2 DEF Cells
<1>11. /\ next' \in [Cells -> Cells \cup {Null}]
       /\ previous' \in [Cells -> Cells \cup {Null}]
  BY <1>1, <1>2, <1>7, <1>10
<1>12. ASSUME NEW g \in Heads, g # h
       PROVE  Linked(next', previous', g, r[g])
  <2>1. r[g] \in Seq(Nodes) /\ Linked(next, previous, g, r[g])
    BY <1>3 DEF Placed
  <2>2. ASSUME NEW i \in 0 .. Len(r[g]) + 1
        PROVE  /\ next'[At(g, r[g], i)] = next[At(g, r[g], i)]
               /\ previous'[At(g, r[g], i)] = previous[At(g, r[g], i)]
    <3> DEFINE c == At(g, r[g], i)
    <3>1. c # next[h] BY <1>9, <1>12, RingsApart
    <3>2. c # h
      <4>1. At(h, r[h], 0) = h BY DEF At
      <4> QED BY <4>1, <1>12, RingsApart
    <3>3. c # n
      <4>1. c = g \/ c \in Members(r[g]) BY DEF At, Members
      <4>2. g # n BY NodesAssumption
      <4> QED BY <1>5, <4>1, <4>2
    <3>4. c \in Cells BY <2>1 DEF At, Cells
    <3> HIDE DEF c
    <3>5. next'[c] = next[c] /\ previous'[c] = previous[c]
      BY <1>1, <1>2, <1>7, <3>1, <3>2, <3>3, <3>4
    <3> QED BY <3>5 DEF c
  <2> QED BY <2>1, <2>2, Untouched
<1>13. /\ r2 \in [Heads -> Seq(Nodes)] /\ r2[h] = Fronted(n, r[h])
       /\ \A g \in Heads : g # h => r2[g] = r[g]
  BY <1>3, <1>4
<1> HIDE DEF r2
<1>14. \A g \in Heads : Once(r2[g]) /\ Linked(next', previous', g, r2[g])
  BY <1>6, <1>8, <1>12, <1>13 DEF Placed
<1>15. \A g \in Heads : Members(r2[g]) = IF g = h THEN Members(r[g]) \cup {n}
                                                  ELSE Members(r[g])
  BY <1>4, <1>13
<1>16. \A f, g \in Heads : f # g => Members(r2[f]) \cap Members(r2[g]) = {}
  <2>1. \A f, g \in Heads : f # g => Members(r[f]) \cap Members(r[g]) = {}
    BY DEF Placed
  <2> QED BY <1>5, <1>15, <2>1
<1>17. \A m \in Nodes : handler'[m] # Null
                        <=> \E g \in Heads : m \in Members(r2[g])
  <2>1. \A m \in Nodes : handler[m] # Null
                         <=> \E g \in Heads : m \in Members(r[g])
    BY DEF Placed
  <2>2. handler \in [Nodes -> Owners \cup {Null}] /\ o # Null
    BY NullAssumption DEF WTyped
  <2>3. \A m \in Nodes : handler'[m] = IF m = n THEN o ELSE handler[m]
    BY <1>1, <2>2
  <2> QED BY <1>15, <2>1, <2>2, <2>3
<1>18. Placed(r2)' BY <1>13, <1>14, <1>16, <1>17 DEF Placed
<1>19. \A g \in Heads :
          Members(r2[g]) = IF g = Back THEN Members(r[g]) \cup {n}
                                       ELSE Members(r[g])
  BY <1>2, <1>15
<1> QED BY <1>1, <1>11, <1>18, <1>19, Zenon DEF Puts

(* timing_wheel::cancel takes the owner's node out of the ring it is in.   *)
LEMMA CancelPlaces ==
  ASSUME WTyped, NEW r, Placed(r), NEW o \in Owners, Cancel(o)
  PROVE  \E n \in Nodes : \E s : Takes(r, s, o, n)
<1>1. PICK n \in Nodes : n = tk[o] /\ handler[n] = o
  BY DEF Cancel, WTyped
<1>2. /\ next' = [next EXCEPT ![previous[n]] = next[n], ![n] = Null]
      /\ previous' = [previous EXCEPT ![next[n]] = previous[n], ![n] = Null]
      /\ handler' = [handler EXCEPT ![n] = Null]
  BY <1>1 DEF Cancel
<1>3. PICK h \in Heads : n \in Members(r[h])
  BY <1>1, NullAssumption DEF Placed
<1>4. r \in [Heads -> Seq(Nodes)] BY DEF Placed
<1>5. PICK k \in 1 .. Len(r[h]) : n = r[h][k] BY <1>3 DEF Members
<1> DEFINE q == r[h]
           r2 == [r EXCEPT ![h] = Without(k, q)]
<1>6. q \in Seq(Nodes) /\ Once(q) /\ Linked(next, previous, h, q)
  BY <1>4 DEF Placed
<1>7. /\ Without(k, q) \in Seq(Nodes) /\ Once(Without(k, q))
      /\ Members(Without(k, q)) = Members(q) \ {n}
  BY <1>5, <1>6, WithoutIs
<1>8. /\ next \in [Cells -> Cells \cup {Null}]
      /\ previous \in [Cells -> Cells \cup {Null}]
  BY DEF WTyped
<1>9. Linked(next', previous', h, Without(k, q))
  BY <1>2, <1>5, <1>6, <1>8, Removed
<1>10. /\ next[n] = At(h, q, k + 1) /\ previous[n] = At(h, q, k - 1)
       /\ n = At(h, q, k)
  <2>1. Len(q) \in Nat BY <1>6
  <2>2. k \in 0 .. Len(q) /\ k - 1 \in 0 .. Len(q) /\ (k - 1) + 1 = k
    BY <1>5, <2>1
  <2>3. At(h, q, k) = n BY <1>5 DEF At
  <2>4. /\ next[At(h, q, k)] = At(h, q, k + 1)
        /\ previous[At(h, q, (k - 1) + 1)] = At(h, q, k - 1)
    BY <1>6, <2>2 DEF Linked
  <2> QED BY <2>2, <2>3, <2>4
<1>11. n \in Cells /\ next[n] \in Cells /\ previous[n] \in Cells
  <2>1. \A i : At(h, q, i) \in Heads \cup Nodes BY <1>6 DEF At
  <2> QED BY <1>10, <2>1 DEF Cells
<1>12. /\ next' \in [Cells -> Cells \cup {Null}]
       /\ previous' \in [Cells -> Cells \cup {Null}]
  BY <1>2, <1>8, <1>11
<1>13. ASSUME NEW g \in Heads, g # h
       PROVE  Linked(next', previous', g, r[g])
  <2>1. r[g] \in Seq(Nodes) /\ Linked(next, previous, g, r[g])
    BY <1>4 DEF Placed
  <2>2. ASSUME NEW i \in 0 .. Len(r[g]) + 1
        PROVE  /\ next'[At(g, r[g], i)] = next[At(g, r[g], i)]
               /\ previous'[At(g, r[g], i)] = previous[At(g, r[g], i)]
    <3> DEFINE c == At(g, r[g], i)
    <3>1. \A j : c # At(h, r[h], j) BY <1>13, RingsApart
    <3>2. c # n /\ c # next[n] /\ c # previous[n] BY <1>10, <3>1
    <3>3. c \in Cells BY <2>1 DEF At, Cells
    <3> HIDE DEF c
    <3>4. next'[c] = next[c] /\ previous'[c] = previous[c]
      BY <1>2, <1>8, <1>11, <3>2, <3>3
    <3> QED BY <3>4 DEF c
  <2> QED BY <2>1, <2>2, Untouched
<1>14. /\ r2 \in [Heads -> Seq(Nodes)] /\ r2[h] = Without(k, q)
       /\ \A g \in Heads : g # h => r2[g] = r[g]
  BY <1>4, <1>7
<1> HIDE DEF r2
<1>15. \A g \in Heads : Once(r2[g]) /\ Linked(next', previous', g, r2[g])
  BY <1>7, <1>9, <1>13, <1>14 DEF Placed
<1>16. \A f, g \in Heads : f # g => Members(r[f]) \cap Members(r[g]) = {}
  BY DEF Placed
<1>17. \A g \in Heads : Members(r2[g]) = Members(r[g]) \ {n}
  BY <1>3, <1>7, <1>14, <1>16
<1>18. \A f, g \in Heads : f # g => Members(r2[f]) \cap Members(r2[g]) = {}
  BY <1>16, <1>17
<1>19. \A m \in Nodes : handler'[m] # Null
                        <=> \E g \in Heads : m \in Members(r2[g])
  <2>1. \A m \in Nodes : handler[m] # Null
                         <=> \E g \in Heads : m \in Members(r[g])
    BY DEF Placed
  <2>2. handler \in [Nodes -> Owners \cup {Null}] BY DEF WTyped
  <2>3. \A m \in Nodes : handler'[m] = IF m = n THEN Null ELSE handler[m]
    BY <1>2, <2>2
  <2> QED BY <1>17, <2>1, <2>3
<1>20. Placed(r2)' BY <1>14, <1>15, <1>18, <1>19 DEF Placed
<1> QED BY <1>1, <1>2, <1>12, <1>17, <1>20, Zenon DEF Takes

(* A tick empties the first slot and leaves the others as they are.        *)
LEMMA TickPlaces ==
  ASSUME WTyped, NEW r, Placed(r), RunFront
  PROVE  \E s : Empties(r, s)
<1>1. PICK h \in Heads : h = Front BY EndSlots
<1>2. r \in [Heads -> Seq(Nodes)] BY DEF Placed
<1> DEFINE M == Members(r[h])
           r2 == [r EXCEPT ![h] = <<>>]
<1>3. Ring(Front) = M BY <1>1, RingsPlaced
<1>4. M \subseteq Nodes BY <1>2 DEF Members
<1>5. /\ next \in [Cells -> Cells \cup {Null}]
      /\ previous \in [Cells -> Cells \cup {Null}]
      /\ h \in Cells /\ Nodes \subseteq Cells /\ Heads \subseteq Cells
  BY DEF WTyped, Cells
<1> HIDE DEF M
<1>6. /\ next' = [x \in Cells |-> IF x = h THEN x
                                  ELSE IF x \in M THEN Null ELSE next[x]]
      /\ previous' = [x \in Cells |-> IF x = h THEN x
                                      ELSE IF x \in M THEN Null
                                      ELSE previous[x]]
  BY <1>1, <1>3 DEF RunFront, Emptied
<1>7. handler' = [n \in Nodes |-> IF n \in M THEN Null ELSE handler[n]]
  BY <1>3 DEF RunFront
<1>8. /\ next' \in [Cells -> Cells \cup {Null}]
      /\ previous' \in [Cells -> Cells \cup {Null}]
  BY <1>5, <1>6
<1>9. Linked(next', previous', h, <<>>)
  <2>1. next'[h] = h /\ previous'[h] = h BY <1>5, <1>6
  <2>2. \A i : At(h, <<>>, i) = h BY DEF At
  <2> QED BY <2>1, <2>2 DEF Linked
<1>10. ASSUME NEW g \in Heads, g # h
       PROVE  Linked(next', previous', g, r[g])
  <2>1. r[g] \in Seq(Nodes) /\ Linked(next, previous, g, r[g])
    BY <1>2 DEF Placed
  <2>2. ASSUME NEW i \in 0 .. Len(r[g]) + 1
        PROVE  /\ next'[At(g, r[g], i)] = next[At(g, r[g], i)]
               /\ previous'[At(g, r[g], i)] = previous[At(g, r[g], i)]
    <3> DEFINE c == At(g, r[g], i)
    <3>1. \A j : At(h, r[h], j) # c BY <1>10, RingsApart
    <3>2. c # h
      <4>1. At(h, r[h], 0) = h BY DEF At
      <4> QED BY <3>1, <4>1
    <3>3. c \notin M
      <4> SUFFICES ASSUME c \in M PROVE FALSE OBVIOUS
      <4>1. PICK j \in 1 .. Len(r[h]) : c = r[h][j] BY DEF M, Members
      <4>2. At(h, r[h], j) = c BY <4>1 DEF At
      <4> QED BY <3>1, <4>2
    <3>4. c \in Cells BY <2>1 DEF At, Cells
    <3> HIDE DEF c
    <3>5. next'[c] = next[c] /\ previous'[c] = previous[c]
      BY <1>6, <3>2, <3>3, <3>4
    <3> QED BY <3>5 DEF c
  <2> QED BY <2>1, <2>2, Untouched
<1>11. /\ r2 \in [Heads -> Seq(Nodes)] /\ r2[h] = <<>>
       /\ \A g \in Heads : g # h => r2[g] = r[g]
  BY <1>2
<1> HIDE DEF r2
<1>12. \A g \in Heads : Once(r2[g]) /\ Linked(next', previous', g, r2[g])
  <2>1. Once(<<>>) BY DEF Once
  <2> QED BY <1>9, <1>10, <1>11, <2>1 DEF Placed
<1>13. Members(<<>>) = {} BY DEF Members
<1>14. \A g \in Heads : Members(r2[g]) = IF g = h THEN {} ELSE Members(r[g])
  BY <1>11, <1>13
<1>15. \A f, g \in Heads : f # g => Members(r[f]) \cap Members(r[g]) = {}
  BY DEF Placed
<1>16. \A f, g \in Heads : f # g => Members(r2[f]) \cap Members(r2[g]) = {}
  BY <1>14, <1>15
<1>17. \A m \in Nodes : handler'[m] # Null
                        <=> \E g \in Heads : m \in Members(r2[g])
  <2>1. \A m \in Nodes : handler[m] # Null
                         <=> \E g \in Heads : m \in Members(r[g])
    BY DEF Placed
  <2>2. \A m \in Nodes : handler'[m] = IF m \in M THEN Null ELSE handler[m]
    BY <1>7
  <2>3. ASSUME NEW m \in Nodes, handler'[m] # Null
        PROVE  \E g \in Heads : m \in Members(r2[g])
    <3>1. m \notin M /\ handler[m] # Null BY <2>2, <2>3
    <3>2. PICK g \in Heads : m \in Members(r[g]) BY <2>1, <3>1
    <3>3. g # h BY <3>1, <3>2 DEF M
    <3> QED BY <1>14, <3>2, <3>3
  <2>4. ASSUME NEW m \in Nodes, NEW g \in Heads, m \in Members(r2[g])
        PROVE  handler'[m] # Null
    <3>1. g # h /\ m \in Members(r[g]) BY <1>14, <2>4
    <3>2. m \notin M BY <1>15, <3>1 DEF M
    <3> QED BY <2>1, <2>2, <3>1, <3>2
  <2> QED BY <2>3, <2>4
<1>18. Placed(r2)' BY <1>11, <1>12, <1>16, <1>17 DEF Placed
<1>19. \A g \in Heads :
          Members(r2[g]) = IF g = Front THEN {} ELSE Members(r[g])
  BY <1>1, <1>14
<1> QED BY <1>8, <1>18, <1>19, Zenon DEF Empties

(* An owner that has its node in the slot at place i has i ticks left.     *)
FindsLeft ==
  \A s : WTyped /\ Placed(s) =>
     \A p \in Owners : \A i \in 1 .. Slots :
        p \in armed /\ tk[p] \in Members(s[wheel[i]]) => Left(p) = i

(* The place is unique, so this is what Left chooses.                      *)
LEMMA LeftAt == FindsLeft
BY LeftIs, Zenon DEF FindsLeft

(* Each step keeps the invariant and is a step of the promise: a set gives *)
(* its owner all Slots ticks and takes none from the others,               *)
LEMMA SetKeeps ==
  ASSUME WInv, NEW o \in Owners, Set(o)
  PROVE  WInv' /\ Promise!Set(o) /\ ran' = {}
<1>1. PICK r : Placed(r) BY DEF WInv
<1>2. WTyped BY DEF WInv
<1>3. PICK n \in Nodes : \E s : Puts(r, s, o, n)
  BY <1>1, <1>2, SetPlaces
<1>4. PICK r2 : Puts(r, r2, o, n) BY <1>3
<1>5. /\ handler[n] = Null
      /\ handler' = [handler EXCEPT ![n] = o]
      /\ tk' = [tk EXCEPT ![o] = n]
      /\ next' \in [Cells -> Cells \cup {Null}]
      /\ previous' \in [Cells -> Cells \cup {Null}]
      /\ \A g \in Heads :
            Members(r2[g]) = IF g = Back THEN Members(r[g]) \cup {n}
                                         ELSE Members(r[g])
      /\ Placed(r2)'
  BY <1>4 DEF Puts
<1>6. o \notin armed /\ armed' = armed \cup {o} /\ ran' = {} /\ wheel' = wheel
  BY DEF Set
<1>7. WTyped'
  <2>1. /\ wheel' \in Seq(Heads) /\ Len(wheel') = Slots
        /\ \A i, j \in 1 .. Slots : wheel'[i] = wheel'[j] => i = j
        /\ \A h \in Heads : \E i \in 1 .. Slots : wheel'[i] = h
    BY <1>2, <1>6 DEF WTyped
  <2>2. /\ handler' \in [Nodes -> Owners \cup {Null}]
        /\ tk' \in [Owners -> Nodes \cup {Null}]
        /\ armed' \subseteq Owners
    BY <1>5, <1>2, <1>6 DEF WTyped
  <2>3. /\ \A m \in Nodes : handler'[m] = IF m = n THEN o ELSE handler[m]
        /\ \A p \in Owners : tk'[p] = IF p = o THEN n ELSE tk[p]
    BY <1>5, <1>2 DEF WTyped
  <2>4. ASSUME NEW p \in armed'
        PROVE  tk'[p] \in Nodes /\ handler'[tk'[p]] = p
    <3>1. CASE p = o BY <2>3, <3>1
    <3>2. CASE p # o
      <4>1. p \in armed /\ p \in Owners BY <1>2, <1>6, <3>2 DEF WTyped
      <4>2. tk[p] \in Nodes /\ handler[tk[p]] = p BY <1>2, <4>1 DEF WTyped
      <4>3. p # Null BY <4>1, NullAssumption
      <4> QED BY <1>5, <2>3, <3>2, <4>1, <4>2, <4>3
    <3> QED BY <3>1, <3>2
  <2>5. ASSUME NEW m \in Nodes, handler'[m] # Null
        PROVE  handler'[m] \in armed' /\ tk'[handler'[m]] = m
    <3>1. CASE m = n BY <1>6, <2>3, <3>1
    <3>2. CASE m # n
      <4>1. handler[m] \in armed /\ tk[handler[m]] = m
        BY <1>2, <2>3, <2>5, <3>2 DEF WTyped
      <4>2. handler[m] # o /\ handler[m] \in Owners
        BY <1>2, <1>6, <4>1 DEF WTyped
      <4> QED BY <1>6, <2>3, <3>2, <4>1, <4>2
    <3> QED BY <3>1, <3>2
  <2> QED BY <1>5, <2>1, <2>2, <2>4, <2>5 DEF WTyped
<1>8. WInv' BY <1>5, <1>7 DEF WInv
<1>9. FindsLeft'
  BY LeftAt, PTL
<1>10. \A p \in Owners : \A i \in 1 .. Slots :
         p \in armed' /\ tk'[p] \in Members(r2[wheel'[i]]) => Left(p)' = i
  BY <1>5, <1>7, <1>9 DEF FindsLeft
<1>11. Left(o) = 0 BY <1>1, <1>2, <1>6, LeftIs
<1>12. Left(o)' = Slots
  <2>1. tk'[o] = n BY <1>5, <1>2 DEF WTyped
  <2>2. n \in Members(r2[Back]) BY <1>5, <1>2, EndSlots
  <2> QED BY <1>2, <1>6, <1>10, <2>1, <2>2, EndSlots DEF Back
<1>13. ASSUME NEW p \in Owners, p # o PROVE Left(p)' = Left(p)
  <2>1. CASE p \in armed
    <3>1. Left(p) \in 1 .. Slots /\ tk[p] \in Members(r[wheel[Left(p)]])
      BY <1>1, <1>2, <2>1, LeftIs
    <3>2. PICK i \in 1 .. Slots : i = Left(p) BY <3>1
    <3>3. wheel[i] \in Heads BY <1>2 DEF WTyped
    <3>4. tk[p] \in Members(r2[wheel[i]]) BY <1>5, <3>1, <3>2, <3>3
    <3>5. tk'[p] = tk[p] BY <1>5, <1>2, <1>13 DEF WTyped
    <3> QED BY <1>6, <1>10, <2>1, <3>2, <3>4, <3>5
  <2>2. CASE p \notin armed
    <3>1. Left(p) = 0 BY <2>2 DEF Left
    <3>2. p \notin armed' BY <1>6, <1>13, <2>2
    <3>3. Left(p)' = 0 BY <3>2 DEF Left
    <3> QED BY <3>1, <3>3
  <2> QED BY <2>1, <2>2
<1>14. Promise!Set(o)
  <2>1. [p \in Owners |-> Left(p)]'
          = [[p \in Owners |-> Left(p)] EXCEPT ![o] = Slots]
    BY <1>12, <1>13
  <2> QED BY <1>11, <2>1 DEF Promise!Set
<1> QED BY <1>6, <1>8, <1>14

(* a cancel leaves its owner none and the others theirs,                   *)
LEMMA CancelKeeps ==
  ASSUME WInv, NEW o \in Owners, Cancel(o)
  PROVE  WInv' /\ Promise!Cancel(o) /\ ran' = {}
<1>1. WTyped BY DEF WInv
<1>2. PICK r : Placed(r) BY DEF WInv
<1>3. PICK n \in Nodes : \E s : Takes(r, s, o, n)
  BY <1>1, <1>2, CancelPlaces
<1>4. PICK r2 : Takes(r, r2, o, n) BY <1>3
<1>5. /\ tk[o] = n
      /\ handler' = [handler EXCEPT ![n] = Null]
      /\ next' \in [Cells -> Cells \cup {Null}]
      /\ previous' \in [Cells -> Cells \cup {Null}]
      /\ \A g \in Heads : Members(r2[g]) = Members(r[g]) \ {n}
      /\ Placed(r2)'
  BY <1>4 DEF Takes
<1>6. /\ o \in armed /\ armed' = armed \ {o} /\ ran' = {}
      /\ wheel' = wheel /\ tk' = tk
  BY DEF Cancel
<1>7. \A p \in armed : p # o => tk[p] # n
  BY <1>1, <1>5, <1>6 DEF WTyped
<1>8. WTyped'
  <2>1. /\ wheel' \in Seq(Heads) /\ Len(wheel') = Slots
        /\ \A i, j \in 1 .. Slots : wheel'[i] = wheel'[j] => i = j
        /\ \A h \in Heads : \E i \in 1 .. Slots : wheel'[i] = h
    BY <1>1, <1>6 DEF WTyped
  <2>2. /\ handler' \in [Nodes -> Owners \cup {Null}]
        /\ tk' \in [Owners -> Nodes \cup {Null}]
        /\ armed' \subseteq Owners
    BY <1>1, <1>5, <1>6 DEF WTyped
  <2>3. \A m \in Nodes : handler'[m] = IF m = n THEN Null ELSE handler[m]
    BY <1>1, <1>5 DEF WTyped
  <2>4. ASSUME NEW p \in armed'
        PROVE  tk'[p] \in Nodes /\ handler'[tk'[p]] = p
    BY <1>1, <1>6, <1>7, <2>3 DEF WTyped
  <2>5. ASSUME NEW m \in Nodes, handler'[m] # Null
        PROVE  handler'[m] \in armed' /\ tk'[handler'[m]] = m
    BY <1>1, <1>5, <1>6, <2>3, <2>5 DEF WTyped
  <2> QED BY <1>5, <2>1, <2>2, <2>4, <2>5 DEF WTyped
<1>9. WInv' BY <1>5, <1>8 DEF WInv
<1>10. FindsLeft' BY LeftAt, PTL
<1>11. \A p \in Owners : \A i \in 1 .. Slots :
          p \in armed' /\ tk'[p] \in Members(r2[wheel'[i]]) => Left(p)' = i
  BY <1>5, <1>8, <1>10 DEF FindsLeft
<1>12. Left(o) > 0
  <2>1. Left(o) \in 1 .. Slots BY <1>1, <1>2, <1>6, LeftIs
  <2> QED BY <2>1
<1>13. Left(o)' = 0 BY <1>6 DEF Left
<1>14. ASSUME NEW p \in Owners, p # o PROVE Left(p)' = Left(p)
  <2>1. CASE p \in armed
    <3>1. Left(p) \in 1 .. Slots /\ tk[p] \in Members(r[wheel[Left(p)]])
      BY <1>1, <1>2, <2>1, LeftIs
    <3>2. PICK i \in 1 .. Slots : i = Left(p) BY <3>1
    <3>3. wheel[i] \in Heads BY <1>1 DEF WTyped
    <3>4. tk[p] \in Members(r2[wheel[i]])
      BY <1>5, <1>7, <1>14, <2>1, <3>1, <3>2, <3>3
    <3> QED BY <1>6, <1>11, <1>14, <2>1, <3>2, <3>4
  <2>2. CASE p \notin armed
    <3>1. Left(p) = 0 BY <2>2 DEF Left
    <3>2. p \notin armed' BY <1>6, <2>2
    <3>3. Left(p)' = 0 BY <3>2 DEF Left
    <3> QED BY <3>1, <3>3
  <2> QED BY <2>1, <2>2
<1>15. Promise!Cancel(o)
  <2>1. [p \in Owners |-> Left(p)]'
          = [[p \in Owners |-> Left(p)] EXCEPT ![o] = 0]
    BY <1>13, <1>14
  <2> QED BY <1>12, <2>1 DEF Promise!Cancel
<1> QED BY <1>6, <1>9, <1>15

(* The first slot goes to the end, empty, and the others move up by one.   *)
LEMMA WheelTurned ==
  ASSUME WTyped, wheel' = Append(Tail(wheel), Front)
  PROVE  /\ wheel' \in Seq(Heads) /\ Len(wheel') = Slots
         /\ \A i \in 1 .. Slots :
               wheel'[i] = IF i = Slots THEN wheel[1] ELSE wheel[i + 1]
         /\ \A i, j \in 1 .. Slots : wheel'[i] = wheel'[j] => i = j
         /\ \A h \in Heads : \E i \in 1 .. Slots : wheel'[i] = h
<1>1. /\ wheel \in Seq(Heads) /\ Len(wheel) = Slots /\ Slots \in Nat
      /\ Slots >= 1 /\ Front \in Heads
  BY EndSlots, SlotsAssumption DEF WTyped
<1>2. /\ Tail(wheel) \in Seq(Heads) /\ Len(Tail(wheel)) = Slots - 1
      /\ \A i \in 1 .. Slots - 1 : Tail(wheel)[i] = wheel[i + 1]
  <2>1. wheel # <<>> BY <1>1
  <2> QED BY <1>1, <2>1
<1>3. /\ wheel' \in Seq(Heads) /\ Len(wheel') = Slots
      /\ wheel'[Slots] = Front
      /\ \A i \in 1 .. Slots - 1 : wheel'[i] = Tail(wheel)[i]
  BY <1>1, <1>2
<1>4. \A i \in 1 .. Slots :
         wheel'[i] = IF i = Slots THEN wheel[1] ELSE wheel[i + 1]
  BY <1>1, <1>2, <1>3 DEF Front
<1>5. ASSUME NEW i \in 1 .. Slots, NEW j \in 1 .. Slots, wheel'[i] = wheel'[j]
      PROVE  i = j
  <2> DEFINE a(m) == IF m = Slots THEN 1 ELSE m + 1
  <2>1. a(i) \in 1 .. Slots /\ a(j) \in 1 .. Slots BY <1>1
  <2>2. wheel[a(i)] = wheel[a(j)] BY <1>4, <1>5
  <2>3. a(i) = a(j) BY <2>1, <2>2 DEF WTyped
  <2> QED BY <1>1, <2>3
<1>6. ASSUME NEW h \in Heads PROVE \E i \in 1 .. Slots : wheel'[i] = h
  <2>1. PICK j \in 1 .. Slots : wheel[j] = h BY DEF WTyped
  <2>2. CASE j = 1 BY <1>1, <1>4, <2>1, <2>2
  <2>3. CASE j # 1
    <3>1. j - 1 \in 1 .. Slots /\ j - 1 # Slots /\ (j - 1) + 1 = j
      BY <1>1, <2>1, <2>3
    <3>2. wheel'[j - 1] = h BY <1>4, <2>1, <3>1
    <3> QED BY <3>1, <3>2
  <2> QED BY <2>2, <2>3
<1> QED BY <1>3, <1>4, <1>5, <1>6

(* and a tick takes one from each and runs the handlers of those that had  *)
(* one left.                                                               *)
LEMMA TickKeeps ==
  ASSUME WInv, Tick
  PROVE  WInv' /\ Promise!Tick /\ ran' = Promise!Due
<1>1. WTyped BY DEF WInv
<1>2. PICK r : Placed(r) BY DEF WInv
<1>3. RunFront /\ wheel' = Append(Tail(wheel), Front) BY DEF Tick
<1>4. PICK r2 : Empties(r, r2) BY <1>1, <1>2, <1>3, TickPlaces
<1>5. /\ next' \in [Cells -> Cells \cup {Null}]
      /\ previous' \in [Cells -> Cells \cup {Null}]
      /\ \A g \in Heads :
            Members(r2[g]) = IF g = Front THEN {} ELSE Members(r[g])
      /\ Placed(r2)'
  BY <1>4 DEF Empties
<1> DEFINE M == Members(r[Front])
<1>6. Ring(Front) = M BY <1>1, <1>2, EndSlots, RingsPlaced
<1>7. M \subseteq Nodes
  <2>1. r[Front] \in Seq(Nodes) BY <1>1, <1>2, EndSlots DEF Placed
  <2> QED BY <2>1 DEF Members
<1>8. \A n \in M : handler[n] # Null BY <1>1, <1>2, <1>7, EndSlots DEF Placed
<1> HIDE DEF M
<1>9. /\ ran' = {handler[n] : n \in M} /\ armed' = armed \ ran' /\ tk' = tk
      /\ handler' = [n \in Nodes |-> IF n \in M THEN Null ELSE handler[n]]
  BY <1>3, <1>6 DEF RunFront
<1>10. \A p \in armed : p \in ran' <=> tk[p] \in M
  <2>1. ASSUME NEW p \in armed, p \in ran' PROVE tk[p] \in M
    <3>1. PICK n \in M : p = handler[n] BY <1>9, <2>1
    <3>2. tk[handler[n]] = n BY <1>1, <1>7, <1>8, <3>1 DEF WTyped
    <3> QED BY <3>1, <3>2
  <2>2. ASSUME NEW p \in armed, tk[p] \in M PROVE p \in ran'
    <3>1. handler[tk[p]] = p BY <1>1, <2>2 DEF WTyped
    <3> QED BY <1>9, <2>2, <3>1
  <2> QED BY <2>1, <2>2
<1>11. ran' \subseteq armed BY <1>1, <1>7, <1>8, <1>9 DEF WTyped
<1>12. WTyped'
  <2>1. /\ wheel' \in Seq(Heads) /\ Len(wheel') = Slots
        /\ \A i, j \in 1 .. Slots : wheel'[i] = wheel'[j] => i = j
        /\ \A h \in Heads : \E i \in 1 .. Slots : wheel'[i] = h
    BY <1>1, <1>3, WheelTurned
  <2>2. /\ handler' \in [Nodes -> Owners \cup {Null}]
        /\ tk' \in [Owners -> Nodes \cup {Null}]
        /\ armed' \subseteq Owners
    BY <1>1, <1>9 DEF WTyped
  <2>3. \A n \in Nodes : handler'[n] = IF n \in M THEN Null ELSE handler[n]
    BY <1>9
  <2>4. ASSUME NEW p \in armed'
        PROVE  tk'[p] \in Nodes /\ handler'[tk'[p]] = p
    <3>1. p \in armed /\ tk[p] \notin M BY <1>9, <1>10, <2>4
    <3>2. tk[p] \in Nodes /\ handler[tk[p]] = p BY <1>1, <3>1 DEF WTyped
    <3> QED BY <1>9, <2>3, <3>1, <3>2
  <2>5. ASSUME NEW n \in Nodes, handler'[n] # Null
        PROVE  handler'[n] \in armed' /\ tk'[handler'[n]] = n
    <3>1. n \notin M /\ handler'[n] = handler[n] BY <2>3, <2>5
    <3>2. handler[n] \in armed /\ tk[handler[n]] = n
      BY <1>1, <2>5, <3>1 DEF WTyped
    <3> QED BY <1>9, <1>10, <3>1, <3>2
  <2> QED BY <1>5, <2>1, <2>2, <2>4, <2>5 DEF WTyped
<1>13. WInv' BY <1>5, <1>12 DEF WInv
<1>14. FindsLeft' BY LeftAt, PTL
<1>15. \A p \in Owners : \A i \in 1 .. Slots :
          p \in armed' /\ tk'[p] \in Members(r2[wheel'[i]]) => Left(p)' = i
  BY <1>5, <1>12, <1>14 DEF FindsLeft
<1>16. \A p \in Owners : p \in ran' <=> Left(p) = 1
  <2>1. ASSUME NEW p \in Owners, p \in ran' PROVE Left(p) = 1
    <3>1. tk[p] \in Members(r[wheel[1]]) BY <1>10, <1>11, <2>1 DEF M, Front
    <3> QED BY <1>1, <1>2, <1>11, <2>1, <3>1, LeftIs, EndSlots
  <2>2. ASSUME NEW p \in Owners, Left(p) = 1 PROVE p \in ran'
    <3>1. p \in armed BY <2>2 DEF Left
    <3>2. tk[p] \in Members(r[wheel[Left(p)]]) BY <1>1, <1>2, <3>1, LeftIs
    <3> QED BY <1>10, <2>2, <3>1, <3>2 DEF M, Front
  <2> QED BY <2>1, <2>2
<1>17. ran' = Promise!Due
  <2>1. ran' \subseteq Owners BY <1>1, <1>11 DEF WTyped
  <2> QED BY <1>16, <2>1 DEF Promise!Due
<1>18. ASSUME NEW p \in Owners
       PROVE  Left(p)' = IF Left(p) = 0 THEN 0 ELSE Left(p) - 1
  <2>1. CASE p \notin armed
    <3>1. Left(p) = 0 BY <2>1 DEF Left
    <3>2. p \notin armed' BY <1>9, <2>1
    <3>3. Left(p)' = 0 BY <3>2 DEF Left
    <3> QED BY <3>1, <3>3
  <2>2. CASE p \in ran'
    <3>1. Left(p) = 1 BY <1>16, <2>2
    <3>2. p \notin armed' BY <1>9, <2>2
    <3>3. Left(p)' = 0 BY <3>2 DEF Left
    <3> QED BY <3>1, <3>3
  <2>3. CASE p \in armed /\ p \notin ran'
    <3>1. Left(p) \in 1 .. Slots /\ tk[p] \in Members(r[wheel[Left(p)]])
      BY <1>1, <1>2, <2>3, LeftIs
    <3>2. PICK i \in 1 .. Slots : i = Left(p) BY <3>1
    <3>3. i # 1 BY <1>16, <2>3, <3>2
    <3>4. PICK j \in 1 .. Slots : j = i - 1 /\ j # Slots /\ j + 1 = i
      <4>1. i - 1 \in 1 .. Slots /\ i - 1 # Slots /\ (i - 1) + 1 = i
        BY <3>2, <3>3, SlotsAssumption
      <4> QED BY <4>1
    <3>5. wheel'[j] = wheel[i] BY <1>1, <1>3, <3>4, WheelTurned
    <3>6. wheel[i] \in Heads /\ wheel[i] # Front
      <4>1. 1 \in 1 .. Slots BY <1>1, EndSlots
      <4> QED BY <1>1, <3>3, <4>1 DEF WTyped, Front
    <3>7. tk'[p] \in Members(r2[wheel'[j]])
      BY <1>5, <1>9, <3>1, <3>2, <3>5, <3>6
    <3>8. Left(p)' = j BY <1>9, <1>15, <2>3, <3>7
    <3>9. i # 0 BY <3>2
    <3> QED BY <3>2, <3>4, <3>8, <3>9
  <2> QED BY <2>1, <2>2, <2>3
<1>19. Promise!Tick
  <2>1. [p \in Owners |-> Left(p)]'
          = [p \in Owners |-> IF Left(p) = 0 THEN 0 ELSE Left(p) - 1]
    BY <1>18
  <2> QED BY <2>1 DEF Promise!Tick
<1> QED BY <1>13, <1>17, <1>19

(* The wheel starts empty.                                                 *)
LEMMA WheelStarts == Init => WInv /\ Promise!Init
<1> SUFFICES ASSUME Init PROVE WInv /\ Promise!Init OBVIOUS
<1>1. /\ wheel = [i \in 1 .. Slots |-> i]
      /\ next = [x \in Cells |-> IF x \in Heads THEN x ELSE Null]
      /\ previous = next
      /\ handler = [n \in Nodes |-> Null]
      /\ tk = [o \in Owners |-> Null] /\ armed = {}
  BY DEF Init
<1>2. /\ wheel \in Seq(Heads) /\ Len(wheel) = Slots
      /\ \A i \in 1 .. Slots : wheel[i] = i
  <2>1. Slots \in Nat /\ wheel \in [1 .. Slots -> Heads]
    BY <1>1, SlotsAssumption DEF Heads
  <2> QED BY <1>1, <2>1
<1>3. Heads \subseteq Cells BY DEF Cells
<1>4. WTyped
  <2>1. \A h \in Heads : \E i \in 1 .. Slots : wheel[i] = h
    BY <1>2 DEF Heads
  <2>2. \A i, j \in 1 .. Slots : wheel[i] = wheel[j] => i = j BY <1>2
  <2>3. /\ next \in [Cells -> Cells \cup {Null}]
        /\ previous \in [Cells -> Cells \cup {Null}]
        /\ handler \in [Nodes -> Owners \cup {Null}]
        /\ tk \in [Owners -> Nodes \cup {Null}]
    BY <1>1
  <2>4. armed = {} /\ \A n \in Nodes : handler[n] = Null BY <1>1
  <2> QED BY <1>2, <2>1, <2>2, <2>3, <2>4 DEF WTyped
<1> DEFINE r == [h \in Heads |-> <<>>]
<1>5. Placed(r)
  <2>1. r \in [Heads -> Seq(Nodes)] OBVIOUS
  <2>2. \A h \in Heads : r[h] = <<>> OBVIOUS
  <2>3. Once(<<>>) /\ Members(<<>>) = {} BY DEF Once, Members
  <2>4. ASSUME NEW h \in Heads PROVE Linked(next, previous, h, <<>>)
    <3>1. next[h] = h /\ previous[h] = h BY <1>1, <1>3
    <3>2. \A i : At(h, <<>>, i) = h BY DEF At
    <3> QED BY <3>1, <3>2 DEF Linked
  <2>5. \A n \in Nodes : handler[n] = Null BY <1>1
  <2> HIDE DEF r
  <2> QED BY <2>1, <2>2, <2>3, <2>4, <2>5 DEF Placed
<1>6. WInv BY <1>4, <1>5 DEF WInv
<1>7. Promise!Init
  <2>1. \A o \in Owners : Left(o) = 0 BY <1>1 DEF Left
  <2> QED BY <2>1 DEF Promise!Init
<1> QED BY <1>6, <1>7

(* The pointers of the wheel never go wrong: with every ring linked both   *)
(* ways, each slot in the wheel once and each node with a handler in one   *)
(* ring, whatever is set, canceled and run (timing_wheel.cpp:16-57).       *)
THEOREM WheelInvariance == Spec => []WInv
<1>1. WInv /\ [Next]_vars => WInv'
  <2> SUFFICES ASSUME WInv, [Next]_vars PROVE WInv' OBVIOUS
  <2>1. CASE Tick BY <2>1, TickKeeps
  <2>2. ASSUME NEW o \in Owners, Set(o) PROVE WInv' BY <2>2, SetKeeps
  <2>3. ASSUME NEW o \in Owners, Cancel(o) PROVE WInv' BY <2>3, CancelKeeps
  <2>4. CASE UNCHANGED vars
    <3>1. WTyped' BY <2>4 DEF WInv, WTyped, vars
    <3>2. ASSUME NEW r, Placed(r) PROVE Placed(r)'
      BY <2>4, <3>2 DEF Placed, vars
    <3> QED BY <3>1, <3>2 DEF WInv
  <2> QED BY <2>1, <2>2, <2>3, <2>4 DEF Next
<1>2. Init => WInv BY WheelStarts
<1> QED BY <1>1, <1>2, PTL DEF Spec

(* A tick runs the handlers of the timers it ends and no others, not even  *)
(* one that was canceled in the same second; nothing else runs one         *)
(* (timing_wheel.cpp:16-25).                                               *)
THEOREM DueSafe == Spec => RunsWhenDue
<1>1. WInv /\ [Next]_vars
      => [IF Tick THEN ran' = Promise!Due ELSE ran' = {}]_vars
  <2> SUFFICES ASSUME WInv, Next
               PROVE  IF Tick THEN ran' = Promise!Due ELSE ran' = {}
    OBVIOUS
  <2>1. CASE Tick BY <2>1, TickKeeps
  <2>2. ASSUME ~Tick PROVE ran' = {}
    <3>1. PICK o \in Owners : Set(o) \/ Cancel(o) BY <2>2 DEF Next
    <3> QED BY <3>1 DEF Set, Cancel
  <2> QED BY <2>1, <2>2
<1> QED BY <1>1, WheelInvariance, PTL DEF Spec, RunsWhenDue

(* The wheel implements Timeouts: a timer is in the slot its time puts it  *)
(* in, for any number of slots, sessions and nodes and any sequence of     *)
(* sets, cancels and ticks (timing_wheel.cpp:16-57).                       *)
THEOREM WheelRefines == Spec => Promise!Spec
<1> DEFINE L == [o \in Owners |-> Left(o)]
<1>1. WInv /\ [Next]_vars => [Promise!Next]_L
  <2> SUFFICES ASSUME WInv, [Next]_vars PROVE [Promise!Next]_L OBVIOUS
  <2>1. CASE Tick
    <3>1. Promise!Tick BY <2>1, TickKeeps
    <3> QED BY <3>1 DEF Promise!Next
  <2>2. ASSUME NEW o \in Owners, Set(o) PROVE Promise!Next
    <3>1. Promise!Set(o) BY <2>2, SetKeeps
    <3> QED BY <3>1 DEF Promise!Next
  <2>3. ASSUME NEW o \in Owners, Cancel(o) PROVE Promise!Next
    <3>1. Promise!Cancel(o) BY <2>3, CancelKeeps
    <3> QED BY <3>1 DEF Promise!Next
  <2>4. CASE UNCHANGED vars
    BY <2>4 DEF vars, Left, Ring
  <2> QED BY <2>1, <2>2, <2>3, <2>4 DEF Next
<1>2. Init => Promise!Init BY WheelStarts
<1> QED BY <1>1, <1>2, WheelInvariance, PTL DEF Spec, Promise!Spec

=============================================================================
