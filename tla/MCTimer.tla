------------------------------- MODULE MCTimer -------------------------------
(* Small instances of Timer for TLC. *)
EXTENDS Timer, TLC

CONSTANTS w1, w2, heap, queueLock, s1, s2

NoUnits == [c \in {s1, s2} |-> 0]
OwnSema == [t \in {w1, w2} |-> IF t = w1 THEN s1 ELSE s2]
=============================================================================
