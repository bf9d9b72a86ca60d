-------------------------------- MODULE Synch --------------------------------
(***************************************************************************)
(* What synch.h promises, without threads' control state, lists or         *)
(* interrupts: a counter goes up and down by one and never below zero, and *)
(* a lock goes from free to one owner and back, released by its owner.     *)
(***************************************************************************)
EXTENDS Naturals

CONSTANTS Thread, Lock, Counter, InitialCount, None

VARIABLES count, owner

Init == count = InitialCount /\ owner = [l \in Lock |-> None]

Up(c) == count' = [count EXCEPT ![c] = @ + 1] /\ UNCHANGED owner
Down(c) == /\ count[c] > 0
           /\ count' = [count EXCEPT ![c] = @ - 1]
           /\ UNCHANGED owner

Acquire(t, l) == /\ owner[l] = None
                 /\ owner' = [owner EXCEPT ![l] = t]
                 /\ UNCHANGED count
Release(t, l) == /\ owner[l] = t
                 /\ owner' = [owner EXCEPT ![l] = None]
                 /\ UNCHANGED count

Next == \/ \E c \in Counter : Up(c) \/ Down(c)
        \/ \E t \in Thread, l \in Lock : Acquire(t, l) \/ Release(t, l)

Spec == Init /\ [][Next]_<<count, owner>>
=============================================================================
