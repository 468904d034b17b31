-------------------------------- MODULE Slab --------------------------------
(***************************************************************************)
(* The slab allocator of kernel/alloc/slab.c: one header bit per slot, the *)
(* header rounded up to whole objects, then max_store objects.  One slab   *)
(* is modelled, from the slab_create that initialises it.  held is a       *)
(* history variable: the pointers that slab_allocate returned and that     *)
(* have not been freed since.                                              *)
(***************************************************************************)
EXTENDS Integers, FiniteSets

CONSTANTS
    object_size,
    max_store,
    starting_address,
    UINT32_RANGE       \* 2^32, the range of slot_position (a uint32_t)

NULL == 0

(***************************************************************************)
(* Geometry.                                                               *)
(***************************************************************************)
slab_align_to_object(obj_size, size) ==
    obj_size * (size \div obj_size + IF size % obj_size = 0 THEN 0 ELSE 1)

header_bytes(store) ==
    store \div 8 + IF store % 8 = 0 THEN 0 ELSE 1

slab_get_header_size(obj_size, store) ==
    slab_align_to_object(obj_size, header_bytes(store))

slab_get_needed_size(obj_size, store) ==
    slab_get_header_size(obj_size, store) + obj_size * store

header_size == slab_get_header_size(object_size, max_store)

ASSUME SlabAssumption ==
    /\ object_size \in Nat \ {0}
    /\ max_store \in Nat \ {0}
    /\ starting_address \in Nat \ {0}
    /\ UINT32_RANGE \in Nat
    /\ slab_get_needed_size(object_size, max_store) <= UINT32_RANGE

Slot == 0 .. max_store - 1
HeaderBit == 0 .. 8 * header_size - 1

\* The expression of slab_allocate, mutated: the header is not skipped.
PositionWithoutHeader(slot) == (object_size * slot) % UINT32_RANGE

slot_position(slot) == (header_size + object_size * slot) % UINT32_RANGE

FirstObject == starting_address + header_size

\* Where the object of a slot starts.
ObjectAt(slot) == FirstObject + object_size * slot

\* Every address inside the object area: what a client may hand to slab_free.
Pointer == FirstObject .. FirstObject + object_size * max_store - 1

-----------------------------------------------------------------------------
VARIABLES
    header,    \* the header's bits
    held,      \* history: pointers handed out and not freed
    got,       \* what the last slab_allocate returned
    freed      \* what the last slab_free returned

vars == <<header, held, got, freed>>

\* slab_create: every header byte is reset.
Init ==
    /\ header = [n \in HeaderBit |-> 0]
    /\ held = {}
    /\ got = NULL
    /\ freed = 0

(***************************************************************************)
(* The scan of slab_get_next_slot goes down from max_store - 1.  Its       *)
(* counter is unsigned, so the loop has no end of its own: past slot 0 it  *)
(* tests the bit of slot -1.  That is (header_byte[0] & (1 << -1)), which  *)
(* the AArch64 build evaluates as a shift by 31: no bit of a byte, so the  *)
(* slot reads as empty and the scan returns -1.                            *)
(***************************************************************************)
slab_get_header_bit(n) == IF n = -1 THEN 0 ELSE header[n]

slab_get_next_slot(s) ==
    /\ s \in -1 .. max_store - 1
    /\ slab_get_header_bit(s) = 0
    /\ \A above \in s + 1 .. max_store - 1 : slab_get_header_bit(above) = 1

slab_allocate ==
    /\ \E slot \in {-1} \cup HeaderBit :
          /\ slab_get_next_slot(slot)
          /\ \/ /\ slot = -1
                /\ got' = NULL
                /\ UNCHANGED <<header, held>>
             \/ /\ slot # -1
                /\ header' = [header EXCEPT ![slot] = 1]
                /\ got' = starting_address + slot_position(slot)
                /\ held' = held \cup {got'}
    /\ UNCHANGED freed

\* The slot whose first byte is ptr: what the subtraction loop of slab_free
\* leaves with a zero remainder.
StartsSlot(ptr, slot) == ptr = ObjectAt(slot)

\* slab_free, mutated: a pointer inside an object frees it.
FreeInside(ptr) ==
    \E slot \in Slot :
      /\ ptr - FirstObject \in object_size * slot .. object_size * (slot + 1) - 1
      /\ freed' = header[slot]
      /\ header' = [header EXCEPT ![slot] = 0]
      /\ held' = held \ {ptr}
      /\ UNCHANGED got

slab_free(ptr) ==
    /\ \/ \E slot \in Slot :
            /\ StartsSlot(ptr, slot)
            /\ \/ /\ header[slot] = 1
                  /\ header' = [header EXCEPT ![slot] = 0]
                  /\ held' = held \ {ptr}
                  /\ freed' = 1
               \/ /\ header[slot] = 0
                  /\ freed' = 0
                  /\ UNCHANGED <<header, held>>
       \/ /\ \A slot \in Slot : ~ StartsSlot(ptr, slot)
          /\ freed' = 0
          /\ UNCHANGED <<header, held>>
    /\ UNCHANGED got

Next == slab_allocate \/ \E ptr \in Pointer : slab_free(ptr)

Spec == Init /\ [][Next]_vars

-----------------------------------------------------------------------------
(***************************************************************************)
(* Properties.                                                             *)
(***************************************************************************)

\* Types.  The bits that pad the header past max_store are never set, so the
\* scan never has to skip one.
TypeOK ==
    /\ header \in [HeaderBit -> {0, 1}]
    /\ \A n \in HeaderBit : n >= max_store => header[n] = 0
    /\ held \subseteq Pointer
    /\ got \in Pointer \cup {NULL}
    /\ freed \in {0, 1}

\* The pointers clients hold are the addresses of the slots whose header bit
\* is set: slab_allocate and slab_free convert between slots and pointers in
\* different ways (a multiplication truncated to 32 bits, a subtraction loop)
\* and must agree on every slot.
HeaderMatchesHeld ==
    held = {ObjectAt(n) : n \in {m \in Slot : header[m] = 1}}

\* Objects that clients hold overlap neither each other nor the header bytes
\* that record them, and lie inside the zone that slab_get_needed_size told the
\* caller to reserve; each is aligned to object_size from the zone's start
\* (slab.h, "All blocks will be aligned to the block size").
ObjectsDisjoint ==
    /\ \A p \in held :
          /\ p >= starting_address + header_bytes(max_store)
          /\ p + object_size <=
                starting_address + slab_get_needed_size(object_size, max_store)
          /\ (p - starting_address) % object_size = 0
    /\ \A p, q \in held : p < q => p + object_size <= q

(***************************************************************************)
(* A slab implements the object pool: an object is never handed out twice, *)
(* NULL is returned exactly when all max_store objects are out, and        *)
(* slab_free succeeds exactly for a pointer that is out.                   *)
(***************************************************************************)
Pool == INSTANCE ObjectPool WITH
           Object <- {ObjectAt(n) : n \in Slot}

ImplementsObjectPool == Pool!Spec
=============================================================================
