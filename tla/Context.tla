------------------------------- MODULE Context ------------------------------
(***************************************************************************)
(* The exception frame of kernel/exceptions.asm and the copies that        *)
(* kernel/mp/sched.c makes of it.  The vectors push x0..x30 and xzr in     *)
(* pairs on a full descending stack, so register pairs lie in ascending    *)
(* order inside a pair and descending from pair to pair:                   *)
(*    x30 xzr | x28 x29 | x26 x27 | ... | x2 x3 | x0 x1                    *)
(* The C code addresses the frame from its lowest word, x30[0] .. x30[31]. *)
(***************************************************************************)
EXTENDS Integers

Reg == 0 .. 30
FrameWord == 0 .. 31

\* The word of the frame that holds a register; word 1 is xzr.
WordOf(r) == IF r = 30 THEN 0
             ELSE IF r % 2 = 0 THEN 30 - r ELSE 32 - r

\* The register that a word of the frame holds.
RegOf(w) == IF w = 0 THEN 30
            ELSE IF w % 2 = 0 THEN 30 - w ELSE 32 - w

\* stp x0, x1 ... stp x30, xzr: zero is what xzr reads as.
PushFrame(x, zero) ==
    [w \in FrameWord |-> IF w = 1 THEN zero ELSE x[RegOf(w)]]

\* ldp x30, xzr ... ldp x0, x1
PopFrame(frame) == [r \in Reg |-> frame[WordOf(r)]]

\* scheduling_save_context: job->x.
SaveContext(frame) == [i \in Reg |-> frame[30 - i]]

\* scheduling_restore_context: the frame, with job->x copied over it.
RestoreContext(frame, x) ==
    [w \in FrameWord |-> IF w <= 30 THEN x[30 - w] ELSE frame[w]]
=============================================================================
