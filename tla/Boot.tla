-------------------------------- MODULE Boot --------------------------------
(***************************************************************************)
(* From start to the first program, kernel/start.c, with the interrupts    *)
(* that can arrive on the way: the vectors are installed, FIQ is unmasked, *)
(* the controller (module Gic) and the timer are programmed, the first     *)
(* program is read from the disk by requests that wait for its interrupt,  *)
(* and only then does the tick get its handler.                            *)
(*                                                                         *)
(* An exception from its entry to its eret is one step: FIQ is masked in   *)
(* it and no handler waits.  Module Kernel takes over where this one ends. *)
(***************************************************************************)
EXTENDS Gic

CONSTANTS
    OtherId,        \* an interrupt of a device the kernel does not use
    MaxRequests     \* bound: sectors read during boot

ASSUME BootAssumption ==
    /\ MAX_INTS > 79
    /\ NULL \notin {"internal_handler", "disk_handle_interrupt_sync"}
    /\ OtherId \in IntId \ {30, 79}
    /\ MaxRequests \in Nat \ {0}

VARIABLES
    pc,             \* the next call of start and usermode
    gic,
    vbar,           \* VBAR_EL1 holds EXCEPTION_TABLE
    el, fmasked,    \* PSTATE: exception level, F
    spsr,           \* SPSR_EL1
    timer,          \* "off", "armed" or "expired": interrupt 30, by level
    disk,           \* "idle", "busy" or "raised": interrupt 79
    done,           \* sync->done of the request
    other,          \* whether OtherId is asserted
    requests        \* made so far

cpu == <<vbar, el, fmasked, spsr>>
devices == <<timer, disk, done, other>>
vars == <<pc, gic, cpu, devices, requests>>

\* The processor starts at EL1 with exceptions masked; SPSR_EL1 is not set.
Init ==
    /\ pc = "start"
    /\ \E p \in {0, 255} : gic = ResetGic(p)
    /\ vbar = FALSE /\ el = 1 /\ fmasked = TRUE
    /\ spsr \in [el : {0, 1}, fmasked : BOOLEAN]
    /\ timer = "off" /\ disk = "idle" /\ done = FALSE
    /\ other \in BOOLEAN
    /\ requests = 0

Asserted(id) ==
    \/ id = 30 /\ timer = "expired"
    \/ id = 79 /\ disk = "raised"
    \/ id = OtherId /\ other

\* FIQs that the processor can take now.
Pending == {id \in {30, 79, OtherId} : ~ fmasked /\ Asserted(id) /\ Signalled(gic, id)}

-----------------------------------------------------------------------------
(* start and usermode, call by call.                                         *)

\* sysutils_set_vbar, then the heap and the slabs, on which modules Heap and Slab
\* start.
SetVbar ==
    /\ pc = "start"
    /\ vbar' = TRUE
    /\ pc' = "unmask"
    /\ UNCHANGED <<gic, el, fmasked, spsr, devices, requests>>

sysutils_mask_fiq(mask) == fmasked' = mask

Unmask ==
    /\ pc = "unmask"
    /\ sysutils_mask_fiq(FALSE)
    /\ pc' = "gic"
    /\ UNCHANGED <<gic, vbar, el, spsr, devices, requests>>

\* enable_gic, mutated: the disk's interrupt is set to group 1, as an IRQ.
enable_gic_group1(g) ==
    LET on == gic_interface_setprioritymask(gic_interface_enablegroups(
                gic_interface_init(gic_redistributor_wake(gic_distributor_enable(g)))), 255)
        tick == gic_redistributor_enable_id(on, 30)
        routed == gic_distributor_set_target(gic_distributor_set_priority(tick, 79, 0), 79, 1)
    IN  gic_distributor_set_group(gic_distributor_enable_id(routed, 79), 79, 1)

enable_gic(g) ==
    LET on == gic_interface_setprioritymask(gic_interface_enablegroups(
                gic_interface_init(gic_redistributor_wake(gic_distributor_enable(g)))), 255)
        tick == gic_redistributor_enable_id(on, 30)
        routed == gic_distributor_set_target(gic_distributor_set_priority(tick, 79, 0), 79, 1)
    IN  gic_distributor_set_group(gic_distributor_enable_id(routed, 79), 79, 0)

EnableGic ==
    /\ pc = "gic"
    /\ gic' = enable_gic(gic)
    /\ pc' = "timer"
    /\ UNCHANGED <<cpu, devices, requests>>

\* timer_write_tval: the interrupt is gone until the timer expires again.
timer_write_tval == timer' = "armed"

\* timer_write_tval and timer_enable, then the kernel's own tables are applied.
StartTimer ==
    /\ pc = "timer"
    /\ timer_write_tval
    /\ pc' = "disk"
    /\ UNCHANGED <<gic, cpu, disk, done, other, requests>>

\* disk_init: its failure is logged and boot goes on with queues that were never
\* set up, of which nothing is known.
DiskInit ==
    /\ pc = "disk"
    /\ \E next \in {"load", "lost"} : pc' = next
    /\ UNCHANGED <<gic, cpu, devices, requests>>

\* One sector for fatfs_createfs or for reading init.elf: handler, FIQ, notify.
RequestStart ==
    /\ pc = "load" /\ requests < MaxRequests
    /\ requests' = requests + 1
    /\ gic' = gic_redistributor_set_handler(gic, 79, "disk_handle_interrupt_sync")
    /\ done' = FALSE
    /\ disk' = "busy"
    /\ sysutils_mask_fiq(FALSE)
    /\ pc' = "wait"
    /\ UNCHANGED <<vbar, el, spsr, timer, other>>

RequestEnd ==
    /\ pc = "wait" /\ done
    /\ sysutils_mask_fiq(TRUE)
    /\ pc' = "load"
    /\ UNCHANGED <<gic, vbar, el, spsr, devices, requests>>

\* The first job exists; or init.elf is not in the directory, and its entry is
\* read at address 0.
LoadEnd ==
    /\ pc = "load" /\ requests > 0
    /\ \E next \in {"register", "lost"} : pc' = next
    /\ UNCHANGED <<gic, cpu, devices, requests>>

\* scheduling_register_routine, mutated: under the virtual timer's number.
RegisterVirtualTimer ==
    /\ pc = "register"
    /\ gic' = gic_redistributor_set_handler(gic, 27, "internal_handler")
    /\ pc' = "jump"
    /\ UNCHANGED <<cpu, devices, requests>>

scheduling_register_routine ==
    /\ pc = "register"
    /\ gic' = gic_redistributor_set_handler(gic, 30, "internal_handler")
    /\ pc' = "jump"
    /\ UNCHANGED <<cpu, devices, requests>>

\* sysutils_jump_eret_usermode, mutated: a jump that leaves PSTATE.F alone.
JumpKeepsMask ==
    /\ pc = "jump"
    /\ spsr' = [spsr EXCEPT !.el = 0]
    /\ el' = 0
    /\ pc' = "user"
    /\ UNCHANGED <<gic, vbar, fmasked, devices, requests>>

\* SPSR_EL1 is what the last exception left, but for the level.
sysutils_jump_eret_usermode ==
    /\ pc = "jump"
    /\ spsr' = [spsr EXCEPT !.el = 0]
    /\ el' = 0
    /\ fmasked' = spsr.fmasked
    /\ pc' = "user"
    /\ UNCHANGED <<gic, vbar, devices, requests>>

-----------------------------------------------------------------------------
(* The devices (external).                                                   *)
TimerExpires ==
    /\ timer = "armed"
    /\ timer' = "expired"
    /\ UNCHANGED <<pc, gic, cpu, disk, done, other, requests>>

DiskCompletes ==
    /\ disk = "busy"
    /\ disk' = "raised"
    /\ UNCHANGED <<pc, gic, cpu, timer, done, other, requests>>

OtherChanges ==
    /\ other' = ~ other
    /\ UNCHANGED <<pc, gic, cpu, timer, disk, done, requests>>

-----------------------------------------------------------------------------
(* exceptions_handle_fiq, with the handler it finds.                          *)
Handler(id) == gic_redistributor_get_handler(gic, id)

\* The vector's entry, and its eret back to where it came from.
EnterAndLeave(id) ==
    /\ id \in Pending
    /\ spsr' = [el |-> el, fmasked |-> fmasked]
    /\ UNCHANGED <<gic, vbar, el, fmasked, other, requests>>

FiqTick ==
    /\ Handler(30) = "internal_handler"
    /\ EnterAndLeave(30)
    /\ timer_write_tval
    /\ UNCHANGED <<pc, disk, done>>

FiqDisk ==
    /\ Handler(79) = "disk_handle_interrupt_sync"
    /\ EnterAndLeave(79)
    /\ disk' = "idle" /\ done' = TRUE
    /\ UNCHANGED <<pc, timer>>

\* "Unhandled interrupt": nothing quiets the device, so the FIQ is pending again.
FiqUnhandled(id) ==
    /\ Handler(id) = NULL
    /\ EnterAndLeave(id)
    /\ UNCHANGED <<pc, timer, disk, done>>

Stop == pc \in {"user", "lost"} /\ UNCHANGED vars

BootStep ==
    \/ SetVbar \/ Unmask \/ EnableGic \/ StartTimer \/ DiskInit
    \/ RequestStart \/ RequestEnd \/ LoadEnd
    \/ scheduling_register_routine \/ sysutils_jump_eret_usermode

Next ==
    \/ BootStep
    \/ TimerExpires \/ DiskCompletes \/ OtherChanges
    \/ FiqTick \/ FiqDisk \/ \E id \in {30, 79, OtherId} : FiqUnhandled(id)
    \/ Stop

Spec == Init /\ [][Next]_vars

\* The processor goes on with boot when no FIQ is pending, and takes one that is;
\* when one is pending all the time, boot may get nowhere.  The disk answers.
FairSpec ==
    /\ Spec
    /\ WF_vars(BootStep /\ Pending = {})
    /\ WF_vars(FiqTick) /\ SF_vars(FiqDisk)
    /\ WF_vars(DiskCompletes)

-----------------------------------------------------------------------------
(***************************************************************************)
(* Properties.                                                             *)
(***************************************************************************)

\* The bits and bytes that enable_gic sets let through the tick and the disk's
\* interrupt and no other, whatever the priority bytes held at reset, and both from
\* the moment the timer or a request can assert them.
OnlyOwnInterrupts ==
    /\ {id \in IntId : Signalled(gic, id)} \subseteq {30, 79}
    /\ timer # "off" => Signalled(gic, 30) /\ Signalled(gic, 79)

\* A FIQ is taken with the vectors installed, and one that finds no handler is a
\* tick that came before scheduling_register_routine: never the disk's, whose
\* handler is set before the device can raise it.
OnlyEarlyTickUnhandled ==
    \A id \in Pending :
      /\ vbar
      /\ Handler(id) = NULL =>
           id = 30 /\ pc \in {"disk", "load", "wait", "register", "lost"}

\* The first program runs at EL0 with FIQ unmasked, although its SPSR is what the
\* last exception happened to leave, the disk is quiet, and the tick is on and
\* has its handler: where module Kernel starts.
UserEntryReady ==
    pc = "user" =>
      /\ el = 0 /\ ~ fmasked /\ disk = "idle"
      /\ timer # "off" /\ Signalled(gic, 30)
      /\ Handler(30) = "internal_handler"

\* Boot ends in the first program (or is lost on a failed disk or a missing
\* init.elf), unless the timer expires while FIQ is unmasked and the tick has no
\* handler: no wait for the disk is for ever.
BootEnds ==
    <> \/ pc \in {"user", "lost"}
       \/ 30 \in Pending /\ Handler(30) = NULL
=============================================================================
