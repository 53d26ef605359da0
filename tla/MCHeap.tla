------------------------------- MODULE MCHeap -------------------------------
(* Small instances of Heap for TLC.  Addresses are interchangeable.        *)
EXTENDS Heap, TLC

MCSymmetry == Permutations(Obj)
=============================================================================
