---------------------------- MODULE ServerProofs ----------------------------
(***************************************************************************)
(* The distribution of connections is fair, and every connection has one   *)
(* owner, for any number of listeners, workers and clients.                *)
(***************************************************************************)
EXTENDS Server, FiniteSetTheorems, SequenceTheorems, TLAPS

(* The queue of workers is sorted by what they were given, and the last    *)
(* has at most one connection more than the first.                         *)
Sorted == \A i, j \in DOMAIN order : i < j =>
             /\ given[order[i]] <= given[order[j]]
             /\ given[order[j]] <= given[order[i]] + 1

SInv == TypeOK /\ OneOwner /\ Sorted

(* There is a worker.                                                      *)
LEMMA WorkerCount == Cardinality(Workers) \in Nat \ {0}
BY WorkersAssumption, FS_CardinalityType, FS_EmptySet

(* Moving the front worker to the back leaves an order of the workers.     *)
LEMMA Rotation ==
  ASSUME NEW q \in Orders
  PROVE  LET n == Cardinality(Workers)
             r == Append(Tail(q), Head(q))
         IN  /\ r \in Orders
             /\ DOMAIN q = 1 .. n /\ DOMAIN r = 1 .. n
             /\ Head(q) = q[1] /\ r[n] = q[1]
             /\ \A i \in 1 .. n - 1 : r[i] = q[i + 1]
<1> DEFINE n == Cardinality(Workers)
           r == Append(Tail(q), Head(q))
<1>1. n \in Nat /\ n > 0 BY WorkerCount
<1>2. q \in Seq(Workers) /\ Len(q) = n /\ DOMAIN q = 1 .. n
  BY <1>1 DEF Orders
<1>3. /\ r \in Seq(Workers) /\ Len(r) = n /\ DOMAIN r = 1 .. n
      /\ Head(q) = q[1] /\ r[n] = q[1]
      /\ \A i \in 1 .. n - 1 : r[i] = q[i + 1]
  BY <1>1, <1>2
<1>a. \A i, j \in 1 .. n : q[i] = q[j] => i = j BY <1>2 DEF Orders
<1> HIDE DEF n, r
<1>4. \A i, j \in 1 .. n : r[i] = r[j] => i = j
  <2> SUFFICES ASSUME NEW i \in 1 .. n, NEW j \in 1 .. n, r[i] = r[j]
               PROVE  i = j
    OBVIOUS
  <2> DEFINE at(k) == IF k = n THEN 1 ELSE k + 1
  <2>1. at(i) \in 1 .. n /\ at(j) \in 1 .. n BY <1>1
  <2>2. r[i] = q[at(i)] /\ r[j] = q[at(j)] BY <1>1, <1>3
  <2>3. at(i) = at(j)
    <3> HIDE DEF at
    <3> QED BY <1>a, <2>1, <2>2
  <2> QED BY <1>1, <2>3
<1>5. \A w \in Workers : \E i \in 1 .. n : r[i] = w
  <2> SUFFICES ASSUME NEW w \in Workers PROVE \E i \in 1 .. n : r[i] = w
    OBVIOUS
  <2>1. PICK k \in 1 .. n : q[k] = w BY <1>2 DEF Orders
  <2>2. CASE k = 1 BY <1>1, <1>3, <2>1, <2>2
  <2>3. CASE k > 1
    <3>1. k - 1 \in 1 .. n - 1 BY <1>1, <2>3
    <3>2. r[k - 1] = q[k] BY <1>3, <3>1
    <3> QED BY <1>1, <2>1, <3>1, <3>2
  <2> QED BY <1>1, <2>2, <2>3
<1>6. r \in [1 .. n -> Workers] BY <1>3
<1> QED BY <1>2, <1>3, <1>4, <1>5, <1>6 DEF Orders, n, r

(* Giving a connection away keeps the workers sorted.                      *)
LEMMA GiveSorted ==
  ASSUME TypeOK, Sorted, NEW k \in Clients, Give(k)
  PROVE  Sorted' /\ order' \in Orders /\ given' \in [Workers -> Nat]
<1> DEFINE n == Cardinality(Workers)
           w == Head(order)
<1>1. n \in Nat /\ n > 0 BY WorkerCount
<1>2. order \in Orders /\ given \in [Workers -> Nat] BY DEF TypeOK
<1>3. /\ order' = Append(Tail(order), w)
      /\ given' = [given EXCEPT ![w] = @ + 1]
  BY DEF Give
<1>4. /\ order' \in Orders
      /\ DOMAIN order = 1 .. n /\ DOMAIN order' = 1 .. n
      /\ w = order[1] /\ order'[n] = w
      /\ \A i \in 1 .. n - 1 : order'[i] = order[i + 1]
  BY <1>2, <1>3, Rotation
<1>5. /\ \A i \in 1 .. n : order[i] \in Workers
      /\ \A i, j \in 1 .. n : order[i] = order[j] => i = j
  BY <1>2, <1>4 DEF Orders
<1> HIDE DEF n, w
<1>6. w \in Workers BY <1>1, <1>4, <1>5
<1>7. given' \in [Workers -> Nat] BY <1>2, <1>3, <1>6
<1>8. given'[w] = given[w] + 1 BY <1>2, <1>3, <1>6
<1>9. \A i \in 1 .. n - 1 :
         /\ order[i + 1] \in Workers
         /\ given'[order'[i]] = given[order[i + 1]]
         /\ given[w] <= given[order[i + 1]]
         /\ given[order[i + 1]] <= given[w] + 1
  <2> SUFFICES ASSUME NEW i \in 1 .. n - 1
               PROVE  /\ order[i + 1] \in Workers
                      /\ given'[order'[i]] = given[order[i + 1]]
                      /\ given[w] <= given[order[i + 1]]
                      /\ given[order[i + 1]] <= given[w] + 1
    OBVIOUS
  <2>1. i + 1 \in 1 .. n /\ 1 \in 1 .. n /\ 1 < i + 1 BY <1>1
  <2>2. order[i + 1] \in Workers /\ order[i + 1] # w
    BY <1>4, <1>5, <2>1
  <2>3. given'[order'[i]] = given[order[i + 1]]
    BY <1>2, <1>3, <1>4, <2>2
  <2> QED BY <1>4, <2>1, <2>2, <2>3 DEF Sorted
<1>10. Sorted'
  <2> SUFFICES ASSUME NEW i \in 1 .. n, NEW j \in 1 .. n, i < j
               PROVE  /\ given'[order'[i]] <= given'[order'[j]]
                      /\ given'[order'[j]] <= given'[order'[i]] + 1
    BY <1>4 DEF Sorted
  <2>1. i \in 1 .. n - 1 BY <1>1
  <2>2. CASE j = n
    <3>1. given'[order'[j]] = given[w] + 1 BY <1>4, <1>8, <2>2
    <3>2. given[w] \in Nat /\ given[order[i + 1]] \in Nat
      BY <1>2, <1>6, <1>9, <2>1
    <3> QED BY <1>9, <2>1, <3>1, <3>2
  <2>3. CASE j # n
    <3>1. j \in 1 .. n - 1 BY <1>1, <2>3
    <3>2. i + 1 \in 1 .. n /\ j + 1 \in 1 .. n /\ i + 1 < j + 1
      BY <1>1, <2>1, <3>1
    <3>3. /\ given[order[i + 1]] <= given[order[j + 1]]
          /\ given[order[j + 1]] <= given[order[i + 1]] + 1
      BY <1>4, <3>2 DEF Sorted
    <3> QED BY <1>9, <2>1, <3>1, <3>3
  <2> QED BY <2>2, <2>3
<1> QED BY <1>4, <1>7, <1>10

(* A connection that is posted is in the queue of its worker, and in no    *)
(* other.                                                                  *)
LEMMA GiveOwned ==
  ASSUME TypeOK, OneOwner, NEW k \in Clients, place[k] = "backlog",
         place' = [place EXCEPT ![k] = "posted"], Give(k)
  PROVE  /\ OneOwner' /\ place' \in [Clients -> Places]
         /\ worker' \in [Clients -> Workers \cup {NoWorker}]
         /\ posted' \in [Workers -> Seq(Clients)]
<1> DEFINE w == Head(order)
<1>1. /\ place \in [Clients -> Places]
      /\ worker \in [Clients -> Workers \cup {NoWorker}]
      /\ posted \in [Workers -> Seq(Clients)]
      /\ order \in Orders
  BY DEF TypeOK
<1>2. w \in Workers
  <2>1. order[1] \in Workers BY <1>1, WorkerCount DEF Orders
  <2> QED BY <1>1, <2>1, Rotation
<1>3. /\ worker' = [worker EXCEPT ![k] = w]
      /\ posted' = [posted EXCEPT ![w] = Append(@, k)]
  BY DEF Give
<1> HIDE DEF w
<1>4. /\ place' \in [Clients -> Places]
      /\ worker' \in [Clients -> Workers \cup {NoWorker}]
      /\ posted' \in [Workers -> Seq(Clients)]
  BY <1>1, <1>2, <1>3 DEF Places
<1>5. \A v \in Workers : posted[v] \in Seq(Clients)
                         /\ \A i \in DOMAIN posted[v] : posted[v][i] # k
  BY <1>1 DEF OneOwner
<1>6. \A v \in Workers :
         posted'[v] = IF v = w THEN Append(posted[v], k) ELSE posted[v]
  BY <1>1, <1>3
<1>7. LET q == posted[w]
      IN  /\ DOMAIN q = 1 .. Len(q) /\ Len(q) \in Nat
          /\ DOMAIN posted'[w] = 1 .. Len(q) + 1
          /\ posted'[w][Len(q) + 1] = k
          /\ \A i \in 1 .. Len(q) : posted'[w][i] = q[i]
  <2> DEFINE q == posted[w]
  <2>1. q \in Seq(Clients) /\ posted'[w] = Append(q, k) BY <1>2, <1>5, <1>6
  <2> HIDE DEF q
  <2>2. /\ DOMAIN q = 1 .. Len(q) /\ Len(q) \in Nat
        /\ DOMAIN Append(q, k) = 1 .. Len(q) + 1
        /\ Append(q, k)[Len(q) + 1] = k
        /\ \A i \in 1 .. Len(q) : Append(q, k)[i] = q[i]
    BY <2>1
  <2> QED BY <2>1, <2>2 DEF q
<1>8. \A c \in Clients : /\ place'[c] = IF c = k THEN "posted" ELSE place[c]
                         /\ worker'[c] = IF c = k THEN w ELSE worker[c]
  BY <1>1, <1>3
<1>9. ASSUME NEW c \in Clients, NEW v \in Workers
      PROVE  (\E i \in DOMAIN posted'[v] : posted'[v][i] = c)
                <=> place'[c] = "posted" /\ worker'[c] = v
  <2>1. (\E i \in DOMAIN posted[v] : posted[v][i] = c)
           <=> place[c] = "posted" /\ worker[c] = v
    BY DEF OneOwner
  <2>2. CASE v # w BY <1>5, <1>6, <1>8, <2>1, <2>2
  <2>3. CASE v = w
    <3>1. CASE c = k
      <4>1. posted'[v][Len(posted[w]) + 1] = c /\ Len(posted[w]) + 1 \in DOMAIN posted'[v]
        BY <1>7, <2>3, <3>1
      <4>2. place'[c] = "posted" /\ worker'[c] = v BY <1>8, <2>3, <3>1
      <4> QED BY <4>1, <4>2
    <3>2. CASE c # k
      <4>1. (\E i \in DOMAIN posted'[v] : posted'[v][i] = c)
               <=> \E i \in DOMAIN posted[v] : posted[v][i] = c
        <5> DEFINE q == posted[w]  r == posted'[w]
        <5>1. /\ DOMAIN q = 1 .. Len(q) /\ Len(q) \in Nat
              /\ DOMAIN r = 1 .. Len(q) + 1
              /\ r[Len(q) + 1] = k
              /\ \A i \in 1 .. Len(q) : r[i] = q[i]
          BY <1>7
        <5> HIDE DEF q, r
        <5>2. (\E i \in DOMAIN r : r[i] = c) <=> (\E i \in DOMAIN q : q[i] = c)
          BY <5>1, <3>2
        <5> QED BY <5>2, <2>3 DEF q, r
      <4> QED BY <1>8, <2>1, <3>2, <4>1
    <3> QED BY <3>1, <3>2
  <2> QED BY <2>2, <2>3
<1>10. ASSUME NEW v \in Workers, NEW i \in DOMAIN posted'[v],
              NEW j \in DOMAIN posted'[v], posted'[v][i] = posted'[v][j]
       PROVE  i = j
  <2>1. CASE v # w BY <1>6, <1>10, <2>1 DEF OneOwner
  <2>2. CASE v = w
    <3>1. i \in 1 .. Len(posted[w]) + 1 /\ j \in 1 .. Len(posted[w]) + 1
      BY <1>7, <2>2
    <3>2. \A m \in 1 .. Len(posted[w]) : posted'[w][m] # k
      BY <1>2, <1>5, <1>7
    <3>3. \A l, m \in 1 .. Len(posted[w]) :
             posted[w][l] = posted[w][m] => l = m
      BY <1>2, <1>7 DEF OneOwner
    <3> QED BY <1>7, <1>10, <2>2, <3>1, <3>2, <3>3
  <2> QED BY <2>1, <2>2
<1>11. \A c \in Clients :
          worker'[c] = NoWorker <=> place'[c] \in {"away", "backlog"}
  BY <1>2, <1>8, WorkersAssumption DEF OneOwner
<1> QED BY <1>4, <1>9, <1>10, <1>11 DEF OneOwner

(* A worker takes the first connection of its queue.                       *)
LEMMA TransferOwned ==
  ASSUME TypeOK, OneOwner, NEW w \in Workers, Transfer(w)
  PROVE  /\ OneOwner' /\ place' \in [Clients -> Places]
         /\ posted' \in [Workers -> Seq(Clients)]
<1> DEFINE q == posted[w]
           k == Head(q)
<1>1. /\ place \in [Clients -> Places]
      /\ worker \in [Clients -> Workers \cup {NoWorker}]
      /\ posted \in [Workers -> Seq(Clients)]
  BY DEF TypeOK
<1>2. PICK to \in {"handshake", "session"} :
         /\ place' = [place EXCEPT ![k] = to]
         /\ posted' = [posted EXCEPT ![w] = Tail(q)]
         /\ UNCHANGED worker
  BY DEF Transfer
<1>3. /\ q \in Seq(Clients) /\ q # <<>>
      /\ DOMAIN q = 1 .. Len(q) /\ Len(q) \in Nat /\ Len(q) > 0
      /\ k = q[1] /\ k \in Clients
      /\ Tail(q) \in Seq(Clients) /\ DOMAIN Tail(q) = 1 .. Len(q) - 1
      /\ \A i \in 1 .. Len(q) - 1 : Tail(q)[i] = q[i + 1]
  <2>1. q \in Seq(Clients) /\ q # <<>> BY <1>1 DEF Transfer
  <2> QED BY <2>1
<1> HIDE DEF k
<1>4. place' \in [Clients -> Places] /\ posted' \in [Workers -> Seq(Clients)]
  BY <1>1, <1>2, <1>3 DEF Places
<1>5. \A v \in Workers : posted'[v] = IF v = w THEN Tail(q) ELSE posted[v]
  BY <1>1, <1>2
<1>6. \A c \in Clients : place'[c] = IF c = k THEN to ELSE place[c]
  BY <1>1, <1>2
<1>7. place[k] = "posted" /\ worker[k] = w BY <1>3 DEF OneOwner
<1>8. \A i, j \in 1 .. Len(q) : q[i] = q[j] => i = j
  BY <1>3 DEF OneOwner
<1> HIDE DEF q
<1>9. ASSUME NEW c \in Clients, NEW v \in Workers
      PROVE  (\E i \in DOMAIN posted'[v] : posted'[v][i] = c)
                <=> place'[c] = "posted" /\ worker'[c] = v
  <2>1. (\E i \in DOMAIN posted[v] : posted[v][i] = c)
           <=> place[c] = "posted" /\ worker[c] = v
    BY DEF OneOwner
  <2>2. CASE v # w
    <3>1. posted'[v] = posted[v] BY <1>5, <2>2
    <3>2. place'[c] = "posted" /\ worker[c] = v
             <=> place[c] = "posted" /\ worker[c] = v
      BY <1>6, <1>7, <2>2
    <3> QED BY <1>2, <2>1, <3>1, <3>2
  <2>3. CASE v = w /\ c = k
    <3>1. \A i \in 1 .. Len(q) - 1 : q[i + 1] # k
      <4> SUFFICES ASSUME NEW i \in 1 .. Len(q) - 1 PROVE q[i + 1] # k
        OBVIOUS
      <4>1. i + 1 \in 1 .. Len(q) /\ 1 \in 1 .. Len(q) /\ i + 1 # 1
        BY <1>3
      <4> QED BY <1>3, <1>8, <4>1
    <3>2. posted'[v] = Tail(q) BY <1>5, <2>3
    <3>3. ~ \E i \in DOMAIN Tail(q) : Tail(q)[i] = k BY <1>3, <3>1
    <3>4. place'[c] # "posted" BY <1>6, <2>3
    <3> QED BY <2>3, <3>2, <3>3, <3>4
  <2>4. CASE v = w /\ c # k
    <3>1. (\E i \in 1 .. Len(q) - 1 : q[i + 1] = c)
             <=> \E i \in 1 .. Len(q) : q[i] = c
      <4>1. ASSUME NEW i \in 1 .. Len(q), q[i] = c
            PROVE  \E j \in 1 .. Len(q) - 1 : q[j + 1] = c
        <5>1. i # 1 BY <1>3, <2>4, <4>1
        <5>2. i - 1 \in 1 .. Len(q) - 1 /\ (i - 1) + 1 = i BY <1>3, <5>1
        <5> QED BY <4>1, <5>2
      <4>2. ASSUME NEW i \in 1 .. Len(q) - 1, q[i + 1] = c
            PROVE  \E j \in 1 .. Len(q) : q[j] = c
        <5>1. i + 1 \in 1 .. Len(q) BY <1>3
        <5> QED BY <4>2, <5>1
      <4> QED BY <4>1, <4>2
    <3>2. q = posted[v] BY <2>4 DEF q
    <3>3. posted'[v] = Tail(q) BY <1>5, <2>4
    <3>4. (\E i \in DOMAIN posted'[v] : posted'[v][i] = c)
             <=> \E i \in DOMAIN posted[v] : posted[v][i] = c
      <4>1. (\E i \in DOMAIN Tail(q) : Tail(q)[i] = c)
               <=> \E i \in 1 .. Len(q) - 1 : q[i + 1] = c
        BY <1>3
      <4>2. (\E i \in DOMAIN q : q[i] = c) <=> \E i \in 1 .. Len(q) : q[i] = c
        BY <1>3
      <4> QED BY <3>1, <3>2, <3>3, <4>1, <4>2
    <3>5. place'[c] = place[c] /\ worker' = worker BY <1>2, <1>6, <2>4
    <3> QED BY <2>1, <3>4, <3>5
  <2> QED BY <2>2, <2>3, <2>4
<1>10. ASSUME NEW v \in Workers, NEW i \in DOMAIN posted'[v],
              NEW j \in DOMAIN posted'[v], posted'[v][i] = posted'[v][j]
       PROVE  i = j
  <2>1. CASE v # w BY <1>5, <1>10, <2>1 DEF OneOwner
  <2>2. CASE v = w
    <3>1. i \in 1 .. Len(q) - 1 /\ j \in 1 .. Len(q) - 1
      BY <1>3, <1>5, <2>2
    <3>2. q[i + 1] = q[j + 1] BY <1>3, <1>5, <1>10, <2>2, <3>1
    <3>3. i + 1 \in 1 .. Len(q) /\ j + 1 \in 1 .. Len(q) BY <1>3, <3>1
    <3>4. i + 1 = j + 1 BY <1>8, <3>2, <3>3
    <3> QED BY <3>1, <3>4
  <2> QED BY <2>1, <2>2
<1>11. \A c \in Clients :
          worker'[c] = NoWorker <=> place'[c] \in {"away", "backlog"}
  BY <1>2, <1>6, <1>7 DEF OneOwner
<1> QED BY <1>4, <1>9, <1>10, <1>11 DEF OneOwner

(* The inductive invariant: the queue of workers is sorted.                *)
THEOREM Distribution == Spec => []SInv
<1>1. Init => SInv
  <2> SUFFICES ASSUME Init PROVE SInv OBVIOUS
  <2>1. TypeOK BY DEF Init, TypeOK, Places
  <2>2. OneOwner BY DEF Init, OneOwner
  <2>3. \A i \in DOMAIN order : order[i] \in Workers BY DEF Init, Orders
  <2>4. Sorted BY <2>3 DEF Init, Sorted
  <2> QED BY <2>1, <2>2, <2>4 DEF SInv
<1>2. SInv /\ [Next]_vars => SInv'
  <2> SUFFICES ASSUME SInv, [Next]_vars PROVE SInv' OBVIOUS
  <2>1. ASSUME NEW k \in Clients, Connect(k) PROVE SInv'
    <3>1. /\ place[k] = "away" /\ place' = [place EXCEPT ![k] = "backlog"]
          /\ UNCHANGED <<order, accepting, via, worker, posted, given, failed>>
      BY <2>1 DEF Connect
    <3>2. TypeOK' BY <3>1 DEF SInv, TypeOK, Places
    <3>3. \A c \in Clients :
             place'[c] = IF c = k THEN "backlog" ELSE place[c]
      BY <3>1 DEF SInv, TypeOK
    <3>4. OneOwner' BY <3>1, <3>3 DEF SInv, OneOwner
    <3> QED BY <3>1, <3>2, <3>4 DEF SInv, Sorted
  <2>2. ASSUME NEW k \in Clients, HandshakeEnds(k) PROVE SInv'
    <3>1. /\ place[k] = "handshake"
          /\ place' = [place EXCEPT ![k] = "session"]
          /\ UNCHANGED <<order, accepting, via, worker, posted, given, failed>>
      BY <2>2 DEF HandshakeEnds
    <3>2. TypeOK' BY <3>1 DEF SInv, TypeOK, Places
    <3>3. \A c \in Clients :
             place'[c] = IF c = k THEN "session" ELSE place[c]
      BY <3>1 DEF SInv, TypeOK
    <3>4. OneOwner' BY <3>1, <3>3 DEF SInv, OneOwner
    <3> QED BY <3>1, <3>2, <3>4 DEF SInv, Sorted
  <2>3. ASSUME NEW l \in Listeners, Accept(l) PROVE SInv'
    <3>1. PICK k \in Clients :
             /\ place[k] = "backlog"
             /\ place' = [place EXCEPT ![k] = "posted"]
             /\ Give(k) /\ UNCHANGED <<accepting, via, failed>>
      BY <2>3 DEF Accept
    <3>2. TypeOK /\ OneOwner /\ Sorted BY DEF SInv
    <3>3. Sorted' /\ order' \in Orders /\ given' \in [Workers -> Nat]
      BY <3>1, <3>2, GiveSorted
    <3>4. /\ OneOwner' /\ place' \in [Clients -> Places]
          /\ worker' \in [Clients -> Workers \cup {NoWorker}]
          /\ posted' \in [Workers -> Seq(Clients)]
      BY <3>1, <3>2, GiveOwned
    <3>5. TypeOK' BY <3>1, <3>2, <3>3, <3>4 DEF TypeOK
    <3> QED BY <3>3, <3>4, <3>5 DEF SInv
  <2>4. ASSUME NEW l \in Listeners, AcceptFails(l) PROVE SInv'
    BY <2>4 DEF AcceptFails, SInv, TypeOK, OneOwner, Sorted
  <2>5. ASSUME NEW w \in Workers, Transfer(w) PROVE SInv'
    <3>1. /\ OneOwner' /\ place' \in [Clients -> Places]
          /\ posted' \in [Workers -> Seq(Clients)]
      BY <2>5, TransferOwned DEF SInv
    <3>2. UNCHANGED <<order, accepting, via, worker, given, failed>>
      BY <2>5 DEF Transfer
    <3> QED BY <3>1, <3>2 DEF SInv, TypeOK, Sorted
  <2>6. CASE UNCHANGED vars
    BY <2>6 DEF vars, SInv, TypeOK, OneOwner, Sorted
  <2> QED BY <2>1, <2>2, <2>3, <2>4, <2>5, <2>6 DEF Next
<1> QED BY <1>1, <1>2, PTL DEF Spec

(* No worker is given two connections more than another (server.cpp:52).   *)
THEOREM BalancedSafe == Spec => []Balanced
<1>1. SInv => Balanced
  <2> SUFFICES ASSUME SInv, NEW v \in Workers, NEW w \in Workers
               PROVE  given[v] <= given[w] + 1
    BY DEF Balanced
  <2>1. PICK i \in DOMAIN order : order[i] = v
    BY DEF SInv, TypeOK, Orders
  <2>2. PICK j \in DOMAIN order : order[j] = w
    BY DEF SInv, TypeOK, Orders
  <2>3. given[v] \in Nat /\ given[w] \in Nat BY DEF SInv, TypeOK
  <2>4. i \in Nat /\ j \in Nat BY WorkerCount DEF SInv, TypeOK, Orders
  <2>5. CASE i < j BY <2>1, <2>2, <2>3, <2>5 DEF SInv, Sorted
  <2>6. CASE j < i BY <2>1, <2>2, <2>3, <2>6 DEF SInv, Sorted
  <2>7. CASE i = j BY <2>1, <2>2, <2>3, <2>7
  <2> QED BY <2>4, <2>5, <2>6, <2>7
<1> QED BY <1>1, Distribution, PTL

(* A connection is in one queue at most (worker.cpp:17-33).                *)
THEOREM OwnerSafe == Spec => []OneOwner
<1>1. SInv => OneOwner BY DEF SInv
<1> QED BY <1>1, Distribution, PTL
=============================================================================
