---------------------------- MODULE TimingWheel ----------------------------
(***************************************************************************)
(* The timing wheel (timer/timing_wheel.cpp) with its pointers: a list of  *)
(* slots, each the head of a ring of nodes linked both ways, and the       *)
(* timers (timer/timer.cpp) of the sessions, each of which keeps the node  *)
(* its last set returned.                                                  *)
(*                                                                         *)
(* The owners are the sessions.  They set a timer only when none is set    *)
(* and cancel it only while it is (HttpWorker!TimerWhileWaiting).  The     *)
(* handler of a node is session::_terminate, which does not touch the      *)
(* wheel, so a whole tick is one step.                                     *)
(***************************************************************************)
EXTENDS Integers, Sequences, FiniteSets

CONSTANTS
    Owners,        \* the sessions
    Nodes,         \* addresses a node may be allocated at
    Slots          \* slots of the wheel (120 in the code)

ASSUME SlotsAssumption == Slots \in Nat \ {0}

(* The slots' heads.  Each tick frees one and allocates another; that it   *)
(* is at the same address makes no difference.                             *)
Heads == 1 .. Slots

ASSUME NodesAssumption == /\ IsFiniteSet(Nodes)
                          /\ Nodes \cap Heads = {}

Null == -1

ASSUME NullAssumption == Null \notin Nodes \cup Owners

VARIABLES
    wheel,         \* timing_wheel::_timing_wheel, the heads from front to back
    next, previous,\* the pointers of heads and nodes, Null once deleted
    handler,       \* whose handler a node holds; Null: the node is free
    tk,            \* timer::_tk of each owner
    armed,         \* the owners that have set a timer
    ran            \* history: the handlers run by the latest step

vars == <<wheel, next, previous, handler, tk, armed, ran>>

Cells == Heads \cup Nodes

Init ==
    /\ wheel = [i \in 1 .. Slots |-> i]
    /\ next = [x \in Cells |-> IF x \in Heads THEN x ELSE Null]
    /\ previous = next
    /\ handler = [n \in Nodes |-> Null]
    /\ tk = [o \in Owners |-> Null]
    /\ armed = {}
    /\ ran = {}

Front == wheel[1]
Back == wheel[Slots]

(* Fault: the node goes to the slot that is next to run. *)
SetInFirst(o) ==
    /\ o \notin armed
    /\ \E n \in {m \in Nodes : handler[m] = Null} :
          LET first == next[Front]
          IN /\ next' = [next EXCEPT ![n] = first, ![Front] = n]
             /\ previous' = [previous EXCEPT ![n] = Front, ![first] = n]
             /\ handler' = [handler EXCEPT ![n] = o]
             /\ tk' = [tk EXCEPT ![o] = n]
    /\ armed' = armed \cup {o}
    /\ ran' = {}
    /\ UNCHANGED wheel

(* timer::set and timing_wheel::set: a new node behind the head of the     *)
(* last slot. *)
Set(o) ==
    /\ o \notin armed
    /\ \E n \in {m \in Nodes : handler[m] = Null} :
          LET first == next[Back]
          IN /\ next' = [next EXCEPT ![n] = first, ![Back] = n]
             /\ previous' = [previous EXCEPT ![n] = Back, ![first] = n]
             /\ handler' = [handler EXCEPT ![n] = o]
             /\ tk' = [tk EXCEPT ![o] = n]
    /\ armed' = armed \cup {o}
    /\ ran' = {}
    /\ UNCHANGED wheel

(* Fault: the node stays in its slot. *)
CancelLinked(o) ==
    /\ o \in armed
    /\ armed' = armed \ {o}
    /\ ran' = {}
    /\ UNCHANGED <<wheel, next, previous, handler, tk>>

(* timer::cancel and timing_wheel::cancel *)
Cancel(o) ==
    /\ o \in armed
    /\ LET n == tk[o]
       IN /\ next' = [next EXCEPT ![previous[n]] = next[n], ![n] = Null]
          /\ previous' = [previous EXCEPT ![next[n]] = previous[n],
                                         ![n] = Null]
          /\ handler' = [handler EXCEPT ![n] = Null]
    /\ armed' = armed \ {o}
    /\ ran' = {}
    /\ UNCHANGED <<wheel, tk>>

(* The nodes met by following next from the head h back to it. *)
Ring(h) ==
    LET at[k \in 0 .. Cardinality(Nodes)] ==
            IF k = 0 THEN next[h]
            ELSE IF at[k - 1] = h THEN h ELSE next[at[k - 1]]
    IN {at[k] : k \in DOMAIN at} \ {h}

(* The first slot's nodes are deleted and its ring becomes empty. *)
Emptied(pointer) == [x \in Cells |-> IF x = Front THEN x
                                     ELSE IF x \in Ring(Front) THEN Null
                                     ELSE pointer[x]]

RunFront ==
    /\ armed # {}
    /\ ran' = {handler[n] : n \in Ring(Front)}
    /\ armed' = armed \ ran'
    /\ handler' = [n \in Nodes |-> IF n \in Ring(Front) THEN Null
                                                        ELSE handler[n]]
    /\ next' = Emptied(next)
    /\ previous' = Emptied(previous)
    /\ UNCHANGED tk

(* The handler of the raw timer: it runs and deletes the nodes of the      *)
(* first slot, drops that slot and appends an empty one.  With no node in  *)
(* the wheel nothing would change but the names of the slots.              *)
Tick == RunFront /\ wheel' = Append(Tail(wheel), Front)

Next == Tick \/ \E o \in Owners : Set(o) \/ Cancel(o)

Spec == Init /\ [][Next]_vars

(* The raw timer goes off every second. *)
FairSpec == Spec /\ WF_vars(Tick)

-----------------------------------------------------------------------------

(* Ticks left to a timer: the place of the slot its node is in. *)
Left(o) == IF o \in armed
           THEN CHOOSE i \in 1 .. Slots : tk[o] \in Ring(wheel[i])
           ELSE 0

Promise == INSTANCE Timeouts WITH left <- [o \in Owners |-> Left(o)]

(* The wheel keeps what Timeouts promises, whatever is set and canceled    *)
(* around a node: the rings stay linked both ways, so that every node is   *)
(* found in the slot that its time puts it in, and in the end it is met    *)
(* (timing_wheel.cpp:43-57).                                               *)
KeepsTime == Promise!Spec /\ Promise!Ends

(* A tick runs the handlers of the timers it ends and no others, not even  *)
(* one that was canceled in the same second (timing_wheel.cpp:16-25).      *)
RunsWhenDue ==
    [][IF Tick THEN ran' = Promise!Due ELSE ran' = {}]_vars
=============================================================================
