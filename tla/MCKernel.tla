------------------------------ MODULE MCKernel ------------------------------
(* A job_slab of two slots, so that jobs are created, preempted in calls and *)
(* in programs, deleted, and their slots used again.                         *)
EXTENDS Kernel

CONSTANTS j1, j2

TwoSlots == {j1, j2}

\* Whichever job the first slot holds, an old context of its program is told
\* from a newer one.
TwoAges == [j \in TwoSlots |-> IF j = j1 THEN 2 ELSE 1]
=============================================================================
