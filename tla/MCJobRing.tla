------------------------------ MODULE MCJobRing -----------------------------
(* A job_slab of four slots: rings of one to four jobs, every order of       *)
(* creation and termination, slots that are used again, and one job too many.*)
EXTENDS JobRing

CONSTANTS j1, j2, j3, j4

Slots == {j1, j2, j3, j4}
=============================================================================
