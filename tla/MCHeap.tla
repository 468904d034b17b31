------------------------------- MODULE MCHeap -------------------------------
(* A heap of five two-byte blocks: regions of every length, freed in every   *)
(* order, sizes that do and do not fill their last block, and a size larger  *)
(* than the heap.                                                            *)
EXTENDS HeapSearch

ZeroedRam == [b \in Block |-> {}]
=============================================================================
