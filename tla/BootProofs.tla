----------------------------- MODULE BootProofs -----------------------------
(* Proofs about Boot: only the kernel's interrupts get through the controller, *)
(* an interrupt without a handler is an early tick, and the first program      *)
(* starts as module Kernel expects it to, for a controller of any size, any    *)
(* other device and any number of sectors read.                                *)
EXTENDS Boot, TLAPS

Handlers == {NULL, "internal_handler", "disk_handle_interrupt_sync"}

\* The registers as enable_gic leaves them: interrupt 30 is bit 30 of word 0,
\* interrupt 79 is bit 15 of word 2 and byte 3 of word 19.
ProgrammedGic(p, h) ==
    [ctlr |-> {0, 1, 2, 4},
     isenabler |-> [w \in BitWord |-> IF w = 2 THEN {15} ELSE {}],
     igroupr |-> [w \in BitWord |-> {}],
     ipriorityr |-> [w \in ByteWord |-> [lane \in 0 .. 3 |->
                       IF w = 19 /\ lane = 3 THEN 0 ELSE p]],
     itargetsr |-> [w \in ByteWord |-> [lane \in 0 .. 3 |->
                       IF w = 19 /\ lane = 3 THEN 1 ELSE 0]],
     asleep |-> 0,
     gicr_isenabler |-> [w \in BitWord |-> IF w = 0 THEN {30} ELSE {}],
     sre |-> 1, igrpen |-> 1, pmr |-> 255,
     handlers |-> h]

\* The words that interrupts 30 and 79 are in exist.
LEMMA Words ==
    /\ {0, 2} \subseteq BitWord /\ 19 \in ByteWord
    /\ {30, 79} \subseteq IntId
    /\ 30 \div 32 = 0 /\ 30 % 32 = 30
    /\ 79 \div 32 = 2 /\ 79 % 32 = 15 /\ 79 \div 4 = 19 /\ 79 % 4 = 3
  BY GicAssumption, BootAssumption DEF BitWord, ByteWord, IntId

\* Each register after its write.
LEMMA RegisterWrites ==
    ASSUME NEW p
    PROVE  /\ SetBit([w \in BitWord |-> {}], 30)
                = [w \in BitWord |-> IF w = 0 THEN {30} ELSE {}]
           /\ SetBit([w \in BitWord |-> {}], 79)
                = [w \in BitWord |-> IF w = 2 THEN {15} ELSE {}]
           /\ ClearBit([w \in BitWord |-> {}], 79) = [w \in BitWord |-> {}]
           /\ SetByte([w \in ByteWord |-> [lane \in 0 .. 3 |-> p]], 79, 0)
                = [w \in ByteWord |-> [lane \in 0 .. 3 |-> IF w = 19 /\ lane = 3 THEN 0 ELSE p]]
           /\ SetByte([w \in ByteWord |-> [lane \in 0 .. 3 |-> 0]], 79, 1)
                = [w \in ByteWord |-> [lane \in 0 .. 3 |-> IF w = 19 /\ lane = 3 THEN 1 ELSE 0]]
  <1>. USE Words DEF SetBit, ClearBit, SetByte
  <1>1. SetBit([w \in BitWord |-> {}], 30) = [w \in BitWord |-> IF w = 0 THEN {30} ELSE {}]
    OBVIOUS
  <1>2. SetBit([w \in BitWord |-> {}], 79) = [w \in BitWord |-> IF w = 2 THEN {15} ELSE {}]
    OBVIOUS
  <1>3. ClearBit([w \in BitWord |-> {}], 79) = [w \in BitWord |-> {}]
    OBVIOUS
  <1>4. SetByte([w \in ByteWord |-> [lane \in 0 .. 3 |-> p]], 79, 0)
           = [w \in ByteWord |-> [lane \in 0 .. 3 |-> IF w = 19 /\ lane = 3 THEN 0 ELSE p]]
    OBVIOUS
  <1>5. SetByte([w \in ByteWord |-> [lane \in 0 .. 3 |-> 0]], 79, 1)
           = [w \in ByteWord |-> [lane \in 0 .. 3 |-> IF w = 19 /\ lane = 3 THEN 1 ELSE 0]]
    OBVIOUS
  <1>. QED
    BY Zenon, <1>1, <1>2, <1>3, <1>4, <1>5

\* What enable_gic makes of the controller at reset.
LEMMA EnableProgrammes ==
    ASSUME NEW p
    PROVE  enable_gic(ResetGic(p)) = ProgrammedGic(p, [id \in IntId |-> NULL])
  <1> DEFINE none == [w \in BitWord |-> {}]
             same(b) == [w \in ByteWord |-> [lane \in 0 .. 3 |-> b]]
             Gic(ctlr, en, grp, pr, tgt, asleep, ren, sre, igrpen, pmr) ==
               [ctlr |-> ctlr, isenabler |-> en, igroupr |-> grp, ipriorityr |-> pr,
                itargetsr |-> tgt, asleep |-> asleep, gicr_isenabler |-> ren,
                sre |-> sre, igrpen |-> igrpen, pmr |-> pmr,
                handlers |-> [id \in IntId |-> NULL]]
  <1>1. \A ctlr, en, grp, pr, tgt, asleep, ren, sre, igrpen, pmr :
          LET g == Gic(ctlr, en, grp, pr, tgt, asleep, ren, sre, igrpen, pmr)
          IN  /\ gic_distributor_enable(g)
                   = Gic({0, 1, 2, 4}, en, grp, pr, tgt, asleep, ren, sre, igrpen, pmr)
              /\ gic_redistributor_wake(g)
                   = Gic(ctlr, en, grp, pr, tgt, 0, ren, sre, igrpen, pmr)
              /\ gic_interface_init(g)
                   = Gic(ctlr, en, grp, pr, tgt, asleep, ren, 1, igrpen, pmr)
              /\ gic_interface_enablegroups(g)
                   = Gic(ctlr, en, grp, pr, tgt, asleep, ren, sre, 1, pmr)
              /\ gic_interface_setprioritymask(g, 255)
                   = Gic(ctlr, en, grp, pr, tgt, asleep, ren, sre, igrpen, 255)
    BY DEF gic_interface_setprioritymask, gic_interface_enablegroups, gic_interface_init,
           gic_redistributor_wake, gic_distributor_enable
  <1>2. \A ctlr, en, grp, pr, tgt, asleep, ren, sre, igrpen, pmr :
          LET g == Gic(ctlr, en, grp, pr, tgt, asleep, ren, sre, igrpen, pmr)
          IN  /\ gic_redistributor_enable_id(g, 30)
                   = Gic(ctlr, en, grp, pr, tgt, asleep, SetBit(ren, 30), sre, igrpen, pmr)
              /\ gic_distributor_set_priority(g, 79, 0)
                   = Gic(ctlr, en, grp, SetByte(pr, 79, 0), tgt, asleep, ren, sre, igrpen, pmr)
              /\ gic_distributor_set_target(g, 79, 1)
                   = Gic(ctlr, en, grp, pr, SetByte(tgt, 79, 1), asleep, ren, sre, igrpen, pmr)
              /\ gic_distributor_enable_id(g, 79)
                   = Gic(ctlr, SetBit(en, 79), grp, pr, tgt, asleep, ren, sre, igrpen, pmr)
              /\ gic_distributor_set_group(g, 79, 0)
                   = Gic(ctlr, en, ClearBit(grp, 79), pr, tgt, asleep, ren, sre, igrpen, pmr)
    BY DEF gic_redistributor_enable_id, gic_distributor_set_priority,
           gic_distributor_set_target, gic_distributor_enable_id, gic_distributor_set_group
  <1>3. /\ ResetGic(p)
             = Gic({}, none, none, same(p), same(0), 1, none, 0, 0, 0)
        /\ ProgrammedGic(p, [id \in IntId |-> NULL])
             = Gic({0, 1, 2, 4}, SetBit(none, 79), ClearBit(none, 79), SetByte(same(p), 79, 0),
                   SetByte(same(0), 79, 1), 0, SetBit(none, 30), 1, 1, 255)
    BY Zenon, RegisterWrites DEF ResetGic, ProgrammedGic
  <1>. HIDE DEF Gic, none, same
  <1>. QED
    BY <1>1, <1>2, <1>3 DEF enable_gic

\* At reset nothing is signalled.
LEMMA NoneSignalled ==
    ASSUME NEW p, NEW id PROVE ~ Signalled(ResetGic(p), id)
  BY DEF Signalled, ResetGic

\* A programmed controller signals the tick and the disk's interrupt, and no other.
LEMMA OwnSignalled ==
    ASSUME NEW p, NEW h, NEW id \in IntId
    PROVE  Signalled(ProgrammedGic(p, h), id) <=> id \in {30, 79}
  <1>. USE GicAssumption, Words
  <1>1. CASE id < 32
    BY <1>1 DEF Signalled, ProgrammedGic, IntId
  <1>2. CASE id >= 32
    <2>1. id \div 32 \in BitWord /\ id \div 4 \in ByteWord /\ id \in Nat
      BY DEF IntId, BitWord, ByteWord
    <2>2. id % 32 \in ProgrammedGic(p, h).isenabler[id \div 32] <=> id = 79
      BY <2>1 DEF ProgrammedGic
    <2>3. id = 79 => /\ id % 32 \notin ProgrammedGic(p, h).igroupr[id \div 32]
                     /\ ProgrammedGic(p, h).ipriorityr[id \div 4][id % 4] = 0
      BY DEF ProgrammedGic
    <2>4. /\ 0 \in ProgrammedGic(p, h).ctlr /\ ProgrammedGic(p, h).sre = 1
          /\ ProgrammedGic(p, h).igrpen = 1 /\ ProgrammedGic(p, h).pmr = 255
      BY DEF ProgrammedGic
    <2>. QED
      BY <1>2, <2>1, <2>2, <2>3, <2>4 DEF Signalled
  <1>. QED
    BY <1>1, <1>2 DEF IntId

\* Setting a handler changes no register and no other handler.
LEMMA SetHandler ==
    ASSUME NEW p, NEW h \in [IntId -> Handlers], NEW f \in Handlers,
           NEW id \in IntId, NEW o \in IntId, o # id
    PROVE  \E n \in [IntId -> Handlers] :
             /\ gic_redistributor_set_handler(ProgrammedGic(p, h), id, f) = ProgrammedGic(p, n)
             /\ n[id] = f
             /\ n[o] = h[o]
  <1> DEFINE n == [h EXCEPT ![id] = f]
  <1>1. /\ n = [h EXCEPT ![id] = f]
        /\ n \in [IntId -> Handlers]
        /\ n[id] = f
        /\ n[o] = h[o]
    OBVIOUS
  <1>. HIDE DEF n
  <1>2. gic_redistributor_set_handler(ProgrammedGic(p, h), id, f)
          = [ProgrammedGic(p, h) EXCEPT !.handlers[id] = f]
    BY GicAssumption DEF IntId, gic_redistributor_set_handler
  <1> DEFINE a == [w \in BitWord |-> IF w = 2 THEN {15} ELSE {}]
             b == [w \in BitWord |-> {}]
             c == [w \in ByteWord |-> [lane \in 0 .. 3 |-> IF w = 19 /\ lane = 3 THEN 0 ELSE p]]
             d == [w \in ByteWord |-> [lane \in 0 .. 3 |-> IF w = 19 /\ lane = 3 THEN 1 ELSE 0]]
             e == [w \in BitWord |-> IF w = 0 THEN {30} ELSE {}]
             Gic(x) == [ctlr |-> {0, 1, 2, 4}, isenabler |-> a, igroupr |-> b, ipriorityr |-> c,
                        itargetsr |-> d, asleep |-> 0, gicr_isenabler |-> e, sre |-> 1,
                        igrpen |-> 1, pmr |-> 255, handlers |-> x]
  <1>3. ProgrammedGic(p, h) = Gic(h) /\ ProgrammedGic(p, n) = Gic(n)
    BY Zenon DEF ProgrammedGic
  <1>4. [Gic(h) EXCEPT !.handlers[id] = f] = Gic(n)
    <2>. HIDE DEF a, b, c, d, e
    <2>. QED
      BY <1>1
  <1>. HIDE DEF Gic
  <1>5. gic_redistributor_set_handler(ProgrammedGic(p, h), id, f) = ProgrammedGic(p, n)
    BY <1>2, <1>3, <1>4
  <1>. QED
    BY <1>1, <1>5, Zenon

\* The handler that the vector finds is the one in the table.
LEMMA GetHandler ==
    ASSUME NEW p, NEW h \in [IntId -> Handlers], NEW id \in IntId
    PROVE  gic_redistributor_get_handler(ProgrammedGic(p, h), id) = h[id]
  BY GicAssumption DEF gic_redistributor_get_handler, ProgrammedGic, IntId

-----------------------------------------------------------------------------
(* The inductive invariant.                                                  *)

BeforeGic == {"start", "unmask", "gic"}

Types ==
    /\ pc \in BeforeGic \cup {"timer", "disk", "load", "wait", "register", "jump",
                              "user", "lost"}
    /\ el \in {0, 1} /\ fmasked \in BOOLEAN /\ done \in BOOLEAN
    /\ spsr \in [el : {0, 1}, fmasked : BOOLEAN]
    /\ timer \in {"off", "armed", "expired"}
    /\ disk \in {"idle", "busy", "raised"}
    /\ requests \in Nat

\* The controller is at reset, or programmed; the tick has its handler from
\* scheduling_register_routine on, the disk's interrupt from the first request on.
GicInv ==
    /\ pc \in BeforeGic => \E p \in {0, 255} : gic = ResetGic(p)
    /\ pc \notin BeforeGic =>
         \E p \in {0, 255}, h \in [IntId -> Handlers] :
            /\ gic = ProgrammedGic(p, h)
            /\ h[30] = IF pc \in {"jump", "user"} THEN "internal_handler" ELSE NULL
            /\ requests > 0 => h[79] = "disk_handle_interrupt_sync"

\* After a request FIQ is masked and the disk is quiet; that the request has been
\* answered, by a FIQ, is why SPSR has F clear.
CpuInv ==
    /\ pc # "start" => vbar = TRUE
    /\ pc = "user" <=> el = 0
    /\ pc \in {"start", "unmask", "register", "jump"} => fmasked = TRUE
    /\ pc \in {"gic", "timer", "disk", "wait", "user"} => fmasked = FALSE
    /\ pc = "load" => fmasked = (requests > 0)
    /\ pc \in BeforeGic \cup {"timer", "disk"} => requests = 0
    /\ pc \in {"wait", "register", "jump", "user"} => requests > 0
    /\ pc \in BeforeGic \cup {"timer"} <=> timer = "off"
    /\ pc # "wait" => disk = "idle"
    /\ pc = "wait" => (done = TRUE <=> disk = "idle")
    /\ requests > 0 /\ (pc = "wait" => done = TRUE) => spsr.fmasked = FALSE

IInv == Types /\ GicInv /\ CpuInv

\* The initial state.
LEMMA InitIInv == Init => IInv
  <1>. SUFFICES ASSUME Init PROVE IInv
    OBVIOUS
  <1>1. Types
    BY DEF Init, Types, BeforeGic
  <1>2. GicInv
    BY Zenon DEF Init, GicInv, BeforeGic
  <1>3. CpuInv
    BY DEF Init, CpuInv, BeforeGic
  <1>. QED
    BY <1>1, <1>2, <1>3 DEF IInv

\* A FIQ that is pending is one of the kernel's two, and FIQ is not masked.
LEMMA PendingOwn ==
    ASSUME IInv, NEW id \in Pending
    PROVE  /\ id \in {30, 79} /\ fmasked = FALSE /\ Signalled(gic, id)
           /\ pc \notin BeforeGic /\ Asserted(id)
  <1>1. id \in IntId /\ ~ fmasked /\ Asserted(id) /\ Signalled(gic, id)
    BY BootAssumption, Words DEF Pending
  <1>2. pc \notin BeforeGic
    BY <1>1, NoneSignalled DEF IInv, GicInv
  <1>3. id \in {30, 79}
    BY <1>1, <1>2, OwnSignalled DEF IInv, GicInv
  <1>4. fmasked = FALSE
    BY <1>1 DEF IInv, Types
  <1>. QED
    BY <1>1, <1>2, <1>3, <1>4

\* The handlers of the two.
LEMMA OwnHandlers ==
    ASSUME IInv, pc \notin BeforeGic
    PROVE  /\ Handler(30) = IF pc \in {"jump", "user"} THEN "internal_handler" ELSE NULL
           /\ requests > 0 => Handler(79) = "disk_handle_interrupt_sync"
           /\ Signalled(gic, 30) /\ Signalled(gic, 79)
           /\ \A id \in IntId : Signalled(gic, id) => id \in {30, 79}
  <1>1. PICK p \in {0, 255}, h \in [IntId -> Handlers] :
            /\ gic = ProgrammedGic(p, h)
            /\ h[30] = IF pc \in {"jump", "user"} THEN "internal_handler" ELSE NULL
            /\ requests > 0 => h[79] = "disk_handle_interrupt_sync"
    BY DEF IInv, GicInv
  <1>2. Handler(30) = h[30] /\ Handler(79) = h[79]
    BY <1>1, GetHandler, Words DEF Handler
  <1>3. \A id \in IntId : Signalled(gic, id) <=> id \in {30, 79}
    BY <1>1, OwnSignalled
  <1>. QED
    BY <1>1, <1>2, <1>3, Words

\* The first calls of start.
LEMMA EarlySteps ==
    ASSUME IInv, SetVbar \/ Unmask \/ EnableGic \/ StartTimer \/ DiskInit
    PROVE  IInv'
  <1>1. CASE SetVbar
    <2>1. Types'
      BY <1>1 DEF IInv, Types, SetVbar, devices, BeforeGic
    <2>2. GicInv'
      BY <1>1 DEF IInv, GicInv, SetVbar, BeforeGic
    <2>3. CpuInv'
      BY <1>1 DEF IInv, CpuInv, SetVbar, devices, BeforeGic
    <2>. QED
      BY <2>1, <2>2, <2>3 DEF IInv
  <1>2. CASE Unmask
    <2>1. Types'
      BY <1>2 DEF IInv, Types, Unmask, sysutils_mask_fiq, devices, BeforeGic
    <2>2. GicInv'
      BY <1>2 DEF IInv, GicInv, Unmask, BeforeGic
    <2>3. CpuInv'
      BY <1>2 DEF IInv, CpuInv, Unmask, sysutils_mask_fiq, devices, BeforeGic
    <2>. QED
      BY <2>1, <2>2, <2>3 DEF IInv
  <1>3. CASE EnableGic
    <2>1. Types'
      BY <1>3 DEF IInv, Types, EnableGic, cpu, devices, BeforeGic
    <2>2. GicInv'
      <3>1. PICK p \in {0, 255} : gic = ResetGic(p)
        BY <1>3 DEF IInv, GicInv, EnableGic, BeforeGic
      <3>2. gic' = ProgrammedGic(p, [id \in IntId |-> NULL])
        BY <1>3, <3>1, EnableProgrammes DEF EnableGic
      <3>3. [id \in IntId |-> NULL] \in [IntId -> Handlers]
        BY DEF Handlers
      <3>4. [id \in IntId |-> NULL][30] = NULL
        BY Words
      <3>5. pc' = "timer" /\ requests' = 0
        BY <1>3 DEF EnableGic, IInv, CpuInv, BeforeGic
      <3>. QED
        BY <3>2, <3>3, <3>4, <3>5 DEF GicInv, BeforeGic
    <2>3. CpuInv'
      BY <1>3 DEF IInv, CpuInv, EnableGic, cpu, devices, BeforeGic
    <2>. QED
      BY <2>1, <2>2, <2>3 DEF IInv
  <1>4. CASE StartTimer
    <2>1. Types'
      BY <1>4 DEF IInv, Types, StartTimer, timer_write_tval, cpu, BeforeGic
    <2>2. GicInv'
      BY <1>4 DEF IInv, GicInv, StartTimer, BeforeGic
    <2>3. CpuInv'
      BY <1>4 DEF IInv, CpuInv, StartTimer, timer_write_tval, cpu, BeforeGic
    <2>. QED
      BY <2>1, <2>2, <2>3 DEF IInv
  <1>5. CASE DiskInit
    <2>1. Types'
      BY <1>5 DEF IInv, Types, DiskInit, cpu, devices, BeforeGic
    <2>2. GicInv'
      BY <1>5 DEF IInv, GicInv, DiskInit, BeforeGic
    <2>3. CpuInv'
      BY <1>5 DEF IInv, Types, CpuInv, DiskInit, cpu, devices, BeforeGic
    <2>. QED
      BY <2>1, <2>2, <2>3 DEF IInv
  <1>. QED
    BY <1>1, <1>2, <1>3, <1>4, <1>5

\* The requests for the first program's sectors.
LEMMA RequestSteps ==
    ASSUME IInv, RequestStart \/ RequestEnd \/ LoadEnd
    PROVE  IInv'
  <1>1. CASE RequestStart
    <2>1. Types'
      <3>1. requests' \in Nat
        BY <1>1 DEF IInv, Types, RequestStart
      <3>. QED
        BY Zenon, <1>1, <3>1 DEF IInv, Types, RequestStart, sysutils_mask_fiq
    <2>2. GicInv'
      <3>1. PICK p \in {0, 255}, h \in [IntId -> Handlers] :
              gic = ProgrammedGic(p, h) /\ h[30] = NULL
        BY <1>1 DEF IInv, GicInv, RequestStart, BeforeGic
      <3>2. "disk_handle_interrupt_sync" \in Handlers /\ 79 \in IntId /\ 30 \in IntId
        BY Words DEF Handlers
      <3>3. gic' = gic_redistributor_set_handler(ProgrammedGic(p, h), 79, "disk_handle_interrupt_sync")
        BY <1>1, <3>1 DEF RequestStart
      <3>4. PICK n \in [IntId -> Handlers] :
              /\ gic' = ProgrammedGic(p, n)
              /\ n[79] = "disk_handle_interrupt_sync" /\ n[30] = h[30]
        BY <3>2, <3>3, SetHandler
      <3>. QED
        BY <1>1, <3>1, <3>4 DEF GicInv, RequestStart, BeforeGic
    <2>3. CpuInv'
      BY <1>1 DEF IInv, Types, CpuInv, RequestStart, sysutils_mask_fiq, BeforeGic
    <2>. QED
      BY <2>1, <2>2, <2>3 DEF IInv
  <1>2. CASE RequestEnd
    <2>1. Types'
      BY <1>2 DEF IInv, Types, RequestEnd, sysutils_mask_fiq, devices, BeforeGic
    <2>2. GicInv'
      BY <1>2 DEF IInv, GicInv, RequestEnd, BeforeGic
    <2>3. CpuInv'
      BY <1>2 DEF IInv, Types, CpuInv, RequestEnd, sysutils_mask_fiq, devices, BeforeGic
    <2>. QED
      BY <2>1, <2>2, <2>3 DEF IInv
  <1>3. CASE LoadEnd
    <2>1. Types'
      BY <1>3 DEF IInv, Types, LoadEnd, cpu, devices, BeforeGic
    <2>2. GicInv'
      BY <1>3 DEF IInv, GicInv, LoadEnd, BeforeGic
    <2>3. CpuInv'
      BY <1>3 DEF IInv, Types, CpuInv, LoadEnd, cpu, devices, BeforeGic
    <2>. QED
      BY <2>1, <2>2, <2>3 DEF IInv
  <1>. QED
    BY <1>1, <1>2, <1>3

\* The tick gets its handler, and the first program starts.
LEMMA LastSteps ==
    ASSUME IInv, scheduling_register_routine \/ sysutils_jump_eret_usermode
    PROVE  IInv'
  <1>1. CASE scheduling_register_routine
    <2>1. Types'
      BY <1>1 DEF IInv, Types, scheduling_register_routine, cpu, devices, BeforeGic
    <2>2. GicInv'
      <3>1. PICK p \in {0, 255}, h \in [IntId -> Handlers] :
              /\ gic = ProgrammedGic(p, h)
              /\ requests > 0 => h[79] = "disk_handle_interrupt_sync"
        BY <1>1 DEF IInv, GicInv, scheduling_register_routine, BeforeGic
      <3>2. "internal_handler" \in Handlers /\ 79 \in IntId /\ 30 \in IntId
        BY Words DEF Handlers
      <3>3. gic' = gic_redistributor_set_handler(ProgrammedGic(p, h), 30, "internal_handler")
        BY <1>1, <3>1 DEF scheduling_register_routine
      <3>4. PICK n \in [IntId -> Handlers] :
              /\ gic' = ProgrammedGic(p, n)
              /\ n[30] = "internal_handler" /\ n[79] = h[79]
        BY <3>2, <3>3, SetHandler
      <3>. QED
        BY <1>1, <3>1, <3>4 DEF GicInv, scheduling_register_routine, BeforeGic
    <2>3. CpuInv'
      BY <1>1 DEF IInv, CpuInv, scheduling_register_routine, cpu, devices, BeforeGic
    <2>. QED
      BY <2>1, <2>2, <2>3 DEF IInv
  <1>2. CASE sysutils_jump_eret_usermode
    <2>1. spsr.fmasked = FALSE /\ spsr' \in [el : {0, 1}, fmasked : BOOLEAN]
          /\ spsr'.fmasked = FALSE
      BY <1>2 DEF IInv, Types, CpuInv, sysutils_jump_eret_usermode
    <2>2. Types'
      BY <1>2, <2>1 DEF IInv, Types, sysutils_jump_eret_usermode, devices, BeforeGic
    <2>3. GicInv'
      BY <1>2 DEF IInv, GicInv, sysutils_jump_eret_usermode, BeforeGic
    <2>4. CpuInv'
      BY <1>2, <2>1 DEF IInv, CpuInv, sysutils_jump_eret_usermode, devices, BeforeGic
    <2>. QED
      BY <2>2, <2>3, <2>4 DEF IInv
  <1>. QED
    BY <1>1, <1>2

\* The devices.
LEMMA DeviceSteps ==
    ASSUME IInv, TimerExpires \/ DiskCompletes \/ OtherChanges PROVE IInv'
  <1>1. GicInv'
    BY DEF IInv, GicInv, TimerExpires, DiskCompletes, OtherChanges
  <1>2. CASE TimerExpires
    BY <1>1, <1>2 DEF IInv, Types, CpuInv, TimerExpires, cpu, BeforeGic
  <1>3. CASE DiskCompletes
    BY <1>1, <1>3 DEF IInv, Types, CpuInv, DiskCompletes, cpu, BeforeGic
  <1>4. CASE OtherChanges
    BY <1>1, <1>4 DEF IInv, Types, CpuInv, OtherChanges, cpu, BeforeGic
  <1>. QED
    BY <1>2, <1>3, <1>4

\* A FIQ with or without a handler.
LEMMA FiqSteps ==
    ASSUME IInv, FiqTick \/ FiqDisk \/ \E id \in {30, 79, OtherId} : FiqUnhandled(id)
    PROVE  IInv'
  <1>1. PICK id \in Pending :
          /\ UNCHANGED <<pc, gic, vbar, el, fmasked, requests>>
          /\ spsr' = [el |-> el, fmasked |-> fmasked]
          /\ \/ id = 30 /\ timer' = "armed" /\ UNCHANGED <<disk, done>>
             \/ id = 79 /\ disk' = "idle" /\ done' = TRUE /\ UNCHANGED timer
             \/ UNCHANGED <<timer, disk, done>>
    BY DEF FiqTick, FiqDisk, FiqUnhandled, EnterAndLeave, timer_write_tval
  <1>2. id \in {30, 79} /\ fmasked = FALSE /\ pc \notin BeforeGic /\ Asserted(id)
    BY PendingOwn
  <1>3. GicInv'
    BY <1>1 DEF IInv, GicInv
  <1>4. spsr' \in [el : {0, 1}, fmasked : BOOLEAN] /\ spsr'.fmasked = FALSE
    BY <1>1, <1>2 DEF IInv, Types
  <1>5. Types'
    <2>1. /\ timer' \in {"off", "armed", "expired"} /\ disk' \in {"idle", "busy", "raised"}
          /\ done' \in BOOLEAN
      BY <1>1 DEF IInv, Types
    <2>. QED
      BY Zenon, <1>1, <1>4, <2>1 DEF IInv, Types
  <1>6. /\ id = 79 => pc = "wait" /\ disk = "raised"
        /\ id = 30 => timer = "expired"
    BY <1>2, BootAssumption DEF IInv, CpuInv, Asserted
  <1>7. CpuInv'
    <2>1. CASE id = 30 /\ timer' = "armed" /\ UNCHANGED <<disk, done>>
      BY <1>1, <1>2, <1>4, <1>6, <2>1 DEF IInv, Types, CpuInv, BeforeGic
    <2>2. CASE id = 79 /\ disk' = "idle" /\ done' = TRUE /\ UNCHANGED timer
      BY <1>1, <1>2, <1>4, <1>6, <2>2 DEF IInv, Types, CpuInv, BeforeGic
    <2>3. CASE UNCHANGED <<timer, disk, done>>
      BY <1>1, <1>2, <1>4, <2>3 DEF IInv, Types, CpuInv, BeforeGic
    <2>. QED
      BY <1>1, <2>1, <2>2, <2>3
  <1>. QED
    BY <1>3, <1>5, <1>7 DEF IInv

\* Every step keeps the invariant.
LEMMA NextIInv == IInv /\ [Next]_vars => IInv'
  <1>. SUFFICES ASSUME IInv, [Next]_vars PROVE IInv'
    OBVIOUS
  <1>1. UNCHANGED vars => IInv'
    BY DEF vars, cpu, devices, IInv, Types, GicInv, CpuInv
  <1>. QED
    BY Zenon, <1>1, EarlySteps, RequestSteps, LastSteps, DeviceSteps, FiqSteps
       DEF Next, BootStep, Stop

\* The inductive invariant of boot.
THEOREM BootInvariant == Spec => []IInv
  BY InitIInv, NextIInv, PTL DEF Spec

\* enable_gic lets the tick and the disk's interrupt through and no other.
THEOREM OwnInterruptsOnly == Spec => []OnlyOwnInterrupts
  <1>1. IInv => OnlyOwnInterrupts
    <2>. SUFFICES ASSUME IInv PROVE OnlyOwnInterrupts
      OBVIOUS
    <2>1. CASE pc \in BeforeGic
      <3>1. \A id \in IntId : ~ Signalled(gic, id)
        BY <2>1, NoneSignalled DEF IInv, GicInv
      <3>2. timer = "off"
        BY <2>1 DEF IInv, CpuInv
      <3>. QED
        BY <3>1, <3>2 DEF OnlyOwnInterrupts
    <2>2. CASE pc \notin BeforeGic
      BY <2>2, OwnHandlers DEF OnlyOwnInterrupts
    <2>. QED
      BY <2>1, <2>2
  <1>. QED
    BY <1>1, BootInvariant, PTL

\* A FIQ that finds no handler is a tick before scheduling_register_routine.
THEOREM UnhandledIsEarlyTick == Spec => []OnlyEarlyTickUnhandled
  <1>1. IInv => OnlyEarlyTickUnhandled
    <2>. SUFFICES ASSUME IInv, NEW id \in Pending
                  PROVE  /\ vbar
                         /\ Handler(id) = NULL =>
                              id = 30 /\ pc \in {"disk", "load", "wait", "register", "lost"}
      BY DEF OnlyEarlyTickUnhandled
    <2>1. id \in {30, 79} /\ fmasked = FALSE /\ pc \notin BeforeGic /\ Asserted(id)
      BY PendingOwn
    <2>2. vbar
      BY <2>1 DEF IInv, CpuInv, BeforeGic
    <2>3. id = 79 => pc = "wait" /\ requests > 0
      BY <2>1, BootAssumption DEF IInv, CpuInv, Asserted
    <2>4. id = 79 => Handler(id) # NULL
      BY <2>1, <2>3, OwnHandlers, BootAssumption
    <2>5. id = 30 => timer = "expired"
      BY <2>1, BootAssumption DEF Asserted
    <2>6. id = 30 /\ Handler(id) = NULL => pc \notin {"jump", "user"}
      BY <2>1, OwnHandlers, BootAssumption
    <2>. QED
      BY <2>1, <2>2, <2>4, <2>5, <2>6 DEF IInv, Types, CpuInv, BeforeGic
  <1>. QED
    BY <1>1, BootInvariant, PTL

\* The first program starts at EL0 with FIQ unmasked and the tick handled.
THEOREM UserStartsReady == Spec => []UserEntryReady
  <1>1. IInv => UserEntryReady
    BY OwnHandlers DEF IInv, CpuInv, UserEntryReady, BeforeGic
  <1>. QED
    BY <1>1, BootInvariant, PTL
=============================================================================
