----------------------------- MODULE MCVirtioBlk ----------------------------
(* A ring of two entries and an index that wraps after four, two sectors and *)
(* two buffers with two contents: reads and writes in every order, past the  *)
(* end of the ring and of the index.                                         *)
EXTENDS VirtioBlk

CONSTANTS s1, s2, b1, b2, d1, d2

TwoSectors == {s1, s2}
TwoBuffers == {b1, b2}
TwoContents == {d1, d2}
=============================================================================
