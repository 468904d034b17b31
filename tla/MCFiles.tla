------------------------------- MODULE MCFiles ------------------------------
(* Two job slots with two descriptors each and two inodes, so that opens run *)
(* out of inodes and of descriptors.  Names of two and one characters; the   *)
(* directory has A.X and BB. and programs also ask for names that are not in *)
(* it or too long.  Sectors of three bytes, clusters of two sectors, three   *)
(* clusters: files of no cluster, of part of one, and of two, in every order *)
(* of clusters.  The data of the volume begins inside a sector, so that a    *)
(* cluster is read as a first, a middle and a last part.                     *)
EXTENDS Files, TLC

CONSTANTS j1, j2, n1, n2

Jobs == {j1, j2}
Inodes == {n1, n2}
Alike == Permutations(Jobs) \cup Permutations(Inodes)
Clusters == 2 .. 4
Lengths == {<<7, 1>>, <<0, 4>>}
Directory == <<[filename |-> <<65, 32>>, extension |-> <<88>>],
               [filename |-> <<66, 66>>, extension |-> <<32>>]>>
Names == {<<97, 46, 120>>,          \* a.x
          <<66, 98, 46>>,           \* Bb.
          <<99, 46, 120>>,          \* c.x, not in the directory
          <<97, 97, 97, 46, 120>>}  \* aaa.x, too long
=============================================================================
