------------------------------- MODULE MCHeap -------------------------------
(* Small instances of Heap for TLC. *)
EXTENDS Heap, TLC

TwoBlocks == [c \in Class |-> 2]
Interchangeable == Permutations(Thread)
=============================================================================
