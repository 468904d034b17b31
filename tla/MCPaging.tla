------------------------------ MODULE MCPaging ------------------------------
(* Tables of three entries: the kernel takes the first two of level 1, the   *)
(* third leads to nine pages.  Five tables are enough for two managers and   *)
(* too few for every mapping of both.                                        *)
EXTENDS Paging

CONSTANTS m1, m2

TwoManagers == {m1, m2}
FiveTables == 1 .. 5
TwoPages == {7, 8}
UserWrites == {<<TRUE, FALSE>>}

\* A page of the kernel, two pages of one level 3 table, one of the next.
SomePages == {0, 18, 19, 21}
=============================================================================
