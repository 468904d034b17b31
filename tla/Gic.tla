--------------------------------- MODULE Gic --------------------------------
(***************************************************************************)
(* The interrupt controller as kernel/gic/gic.c programs it.  Its state is *)
(* one record: the registers the driver writes, and the driver's table of  *)
(* handlers.  A register with one bit per interrupt is, for every word,    *)
(* the set of its bits; one with a byte per interrupt is, for every word,  *)
(* its four bytes.                                                         *)
(***************************************************************************)
EXTENDS Integers

CONSTANTS MAX_INTS, NULL

ASSUME GicAssumption == MAX_INTS \in Nat \ {0} /\ MAX_INTS % 32 = 0

IntId == 0 .. MAX_INTS - 1
BitWord == 0 .. MAX_INTS \div 32 - 1
ByteWord == 0 .. MAX_INTS \div 4 - 1

\* The controller at reset: nothing is enabled, every interrupt is in group 0,
\* and p is the priority of the shared interrupts.
ResetGic(p) ==
    [ctlr |-> {},
     isenabler |-> [w \in BitWord |-> {}],
     igroupr |-> [w \in BitWord |-> {}],
     ipriorityr |-> [w \in ByteWord |-> [lane \in 0 .. 3 |-> p]],
     itargetsr |-> [w \in ByteWord |-> [lane \in 0 .. 3 |-> 0]],
     asleep |-> 1,
     gicr_isenabler |-> [w \in BitWord |-> {}],
     sre |-> 0, igrpen |-> 0, pmr |-> 0,
     handlers |-> [id \in IntId |-> NULL]]

SetBit(reg, id) == [reg EXCEPT ![id \div 32] = @ \cup {id % 32}]
ClearBit(reg, id) == [reg EXCEPT ![id \div 32] = @ \ {id % 32}]
SetByte(reg, id, value) == [reg EXCEPT ![id \div 4][id % 4] = value]

-----------------------------------------------------------------------------
\* ARE, then the three groups.
gic_distributor_enable(g) == [g EXCEPT !.ctlr = {0, 1, 2, 4}]

\* gic_distributor_enable_id, mutated: the word is that of a byte register.
EnableInByteWord(g, id) ==
    [g EXCEPT !.isenabler[(id \div 4) % (MAX_INTS \div 32)] = @ \cup {id % 32}]

gic_distributor_enable_id(g, id) == [g EXCEPT !.isenabler = SetBit(@, id)]

gic_distributor_set_group(g, id, group) ==
    [g EXCEPT !.igroupr = IF group # 0 THEN SetBit(@, id) ELSE ClearBit(@, id)]

gic_distributor_set_priority(g, id, priority) ==
    [g EXCEPT !.ipriorityr = SetByte(@, id, priority)]

gic_distributor_set_target(g, id, value) ==
    [g EXCEPT !.itargetsr = SetByte(@, id, value)]

\* The poll ends: the redistributor is awake.
gic_redistributor_wake(g) == [g EXCEPT !.asleep = 0]

gic_redistributor_enable_id(g, id) == [g EXCEPT !.gicr_isenabler = SetBit(@, id)]

gic_interface_init(g) == [g EXCEPT !.sre = 1]
gic_interface_enablegroups(g) == [g EXCEPT !.igrpen = 1]
gic_interface_setprioritymask(g, pmr) == [g EXCEPT !.pmr = pmr]

\* Both test id > MAX_INTS and let MAX_INTS through, the word after the table: an
\* id that no interrupt has.
gic_redistributor_set_handler(g, id, handler) ==
    IF id < 0 \/ id > MAX_INTS THEN g ELSE [g EXCEPT !.handlers[id] = handler]

gic_redistributor_get_handler(g, id) ==
    IF id < 0 \/ id > MAX_INTS THEN NULL ELSE g.handlers[id]

-----------------------------------------------------------------------------
\* Whether interrupt id, once it is asserted, is signalled to the processor as a
\* FIQ (external: the controller).  With affinity routing the target bytes are
\* not looked at.  Private interrupts have priority 0.
Signalled(g, id) ==
    /\ 0 \in g.ctlr /\ g.sre = 1 /\ g.igrpen = 1
    /\ IF id < 32
       THEN /\ g.asleep = 0
            /\ id % 32 \in g.gicr_isenabler[0]
            /\ g.pmr > 0
       ELSE /\ id % 32 \in g.isenabler[id \div 32]
            /\ id % 32 \notin g.igroupr[id \div 32]
            /\ g.pmr > g.ipriorityr[id \div 4][id % 4]
=============================================================================
