------------------------------ MODULE ReadyTable ------------------------------
(***************************************************************************)
(* What a ready table promises (core/sched/_ReadyTable.c): threads of one      *)
(* priority take turns in a ring, the newest is next, and a thread is taken     *)
(* from the most urgent ring that is not empty.  MatrixSched has its tables in  *)
(* this form; ReadyRing implements it with the kernel's pointers and bit maps.  *)
(***************************************************************************)
EXTENDS Rings

CONSTANTS Thread, PrioOf
VARIABLE ring

Prio == {PrioOf[t] : t \in Thread}
Init == ring = [p \in Prio |-> <<>>]

Urgent(p) == ring[p] # <<>> /\ \A q \in Prio : ring[q] # <<>> => p <= q

Add(t) ==
    LET p == PrioOf[t]
    IN  /\ \A q \in Prio : t \notin Members(ring[q])
        /\ ring' = [ring EXCEPT ![p] = AddAhead(@, t)]
Turn(p) == Urgent(p) /\ ring' = [ring EXCEPT ![p] = Rotated(@)]
Take(p) == Urgent(p) /\ ring' = [ring EXCEPT ![p] = Tail(@)]

Next == (\E t \in Thread : Add(t)) \/ (\E p \in Prio : Turn(p) \/ Take(p))
Spec == Init /\ [][Next]_ring
=============================================================================
