------------------------------ MODULE MCThreads ------------------------------
(* Small instances of Threads for TLC. *)
EXTENDS ThreadsCorrect, TLC

CONSTANTS w1, w2, heap, lk, ctr

OneCounter == [c \in {ctr} |-> 0]
Interchangeable == Permutations(Worker)
=============================================================================
