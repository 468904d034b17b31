------------------------------- MODULE MCBoot -------------------------------
(* The kernel's interrupt numbers, 30 and 79, in a table of 96, the interrupt  *)
(* that shares the disk's word of priorities as the other device, and three    *)
(* requests: the first, with FIQ unmasked before it, and ones that mask it.    *)
EXTENDS Boot
=============================================================================
