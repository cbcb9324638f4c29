------------------------------- MODULE MCHeap -------------------------------
(* A small instance of Heap.                                               *)
EXTENDS Heap

MCMaxLive == [s \in Spaces |-> IF s = Kernel THEN 3 ELSE 1]
=============================================================================
