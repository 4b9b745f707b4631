------------------------------ MODULE Timeouts ------------------------------
(***************************************************************************)
(* What a timing wheel promises: an owner sets its timeout and may cancel  *)
(* it; if it does not, the timeout runs out with the Slots-th tick of the  *)
(* clock after it was set.                                                 *)
(***************************************************************************)
EXTENDS Naturals

CONSTANTS Owners, Slots

VARIABLE left    \* ticks left to each owner's timeout, 0 if it has none

Init == left = [o \in Owners |-> 0]

Set(o) == /\ left[o] = 0
          /\ left' = [left EXCEPT ![o] = Slots]

Cancel(o) == /\ left[o] > 0
             /\ left' = [left EXCEPT ![o] = 0]

Tick == left' = [o \in Owners |-> IF left[o] = 0 THEN 0 ELSE left[o] - 1]

(* The owners whose timeout the next tick ends. *)
Due == {o \in Owners : left[o] = 1}

Next == Tick \/ \E o \in Owners : Set(o) \/ Cancel(o)

Spec == Init /\ [][Next]_left

(* A timeout that is set is canceled or runs out, if the clock ticks.      *)
Ends == \A o \in Owners : left[o] > 0 ~> left[o] = 0
=============================================================================
