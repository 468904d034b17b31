----------------------------- MODULE SlabProofs -----------------------------
(***************************************************************************)
(* Proofs about the slab allocator, for every object size, capacity and    *)
(* starting address that fit in slot_position's 32 bits.                   *)
(***************************************************************************)
EXTENDS Slab, TLAPS

-----------------------------------------------------------------------------
(* Geometry.                                                                 *)

\* slab_align_to_object rounds up to whole objects: it never loses a byte.
LEMMA AlignCovers ==
    ASSUME NEW o \in Nat \ {0}, NEW s \in Nat
    PROVE  /\ slab_align_to_object(o, s) \in Nat
           /\ slab_align_to_object(o, s) >= s
           /\ \E k \in Nat : slab_align_to_object(o, s) = o * k
  <1> DEFINE objects == s \div o + IF s % o = 0 THEN 0 ELSE 1
  <1>1. /\ objects \in Nat
        /\ o * objects >= s
    OBVIOUS
  <1>2. slab_align_to_object(o, s) = o * objects
    BY DEF slab_align_to_object
  <1> HIDE DEF objects
  <1> QED
    BY <1>1, <1>2

\* The header has a bit for every slot, and ends where an object can start.
LEMMA HeaderCovers ==
    /\ header_bytes(max_store) \in Nat
    /\ 8 * header_bytes(max_store) >= max_store
    /\ header_size \in Nat
    /\ header_size >= header_bytes(max_store)
    /\ \E k \in Nat : header_size = object_size * k
    /\ Slot \subseteq HeaderBit
  <1>1. /\ header_bytes(max_store) \in Nat
        /\ 8 * header_bytes(max_store) >= max_store
    BY SlabAssumption DEF header_bytes
  <1>2. /\ header_size \in Nat
        /\ header_size >= header_bytes(max_store)
        /\ \E k \in Nat : header_size = object_size * k
    BY <1>1, AlignCovers, SlabAssumption DEF header_size, slab_get_header_size
  <1> QED
    BY <1>1, <1>2, SlabAssumption DEF Slot, HeaderBit

\* Objects of different slots do not overlap, and the last one ends the zone.
LEMMA ObjectsApart ==
    ASSUME NEW n \in Slot
    PROVE  /\ ObjectAt(n) \in Pointer
           /\ ObjectAt(n) # NULL
           /\ ObjectAt(n) + object_size <= FirstObject + object_size * max_store
           /\ \A m \in Slot : n < m => ObjectAt(n) + object_size <= ObjectAt(m)
           /\ \A m \in Slot : ObjectAt(n) = ObjectAt(m) => n = m
  <1>1. FirstObject \in Nat \ {0}
    BY HeaderCovers, SlabAssumption DEF FirstObject
  <1>2. object_size * n + object_size <= object_size * max_store
    BY SlabAssumption DEF Slot
  <1>3. \A m \in Slot : n < m => object_size * n + object_size <= object_size * m
    BY SlabAssumption DEF Slot
  <1>4. \A m \in Slot : m < n => object_size * m + object_size <= object_size * n
    BY SlabAssumption DEF Slot
  <1>5. /\ object_size * n \in Nat
        /\ object_size * max_store \in Nat
        /\ \A m \in Slot : object_size * m \in Nat
    BY SlabAssumption DEF Slot
  <1>6. \A m \in Slot : ObjectAt(n) = ObjectAt(m) => n = m
    BY <1>1, <1>3, <1>4, <1>5, SlabAssumption DEF ObjectAt, Slot
  <1> QED
    BY <1>1, <1>2, <1>3, <1>5, <1>6, SlabAssumption DEF ObjectAt, Pointer, NULL

\* slot_position does not wrap: slab_allocate returns the start of the slot.
LEMMA PositionExact ==
    ASSUME NEW n \in Slot
    PROVE  starting_address + slot_position(n) = ObjectAt(n)
  <1>1. /\ object_size * n \in Nat
        /\ object_size * n < object_size * max_store
        /\ object_size * max_store \in Nat
    BY SlabAssumption DEF Slot
  <1>2. header_size + object_size * max_store <= UINT32_RANGE
    BY SlabAssumption DEF slab_get_needed_size, header_size
  <1>3. header_size + object_size * n \in 0 .. UINT32_RANGE - 1
    BY <1>1, <1>2, HeaderCovers, SlabAssumption
  <1>4. slot_position(n) = header_size + object_size * n
    BY <1>3, SlabAssumption DEF slot_position
  <1> QED
    BY <1>1, <1>4, HeaderCovers, SlabAssumption DEF ObjectAt, FirstObject

-----------------------------------------------------------------------------
(* The inductive invariant.                                                  *)

IInv == TypeOK /\ HeaderMatchesHeld

\* slab_create clears the header.
LEMMA InitIInv == Init => IInv
  <1> SUFFICES ASSUME Init PROVE IInv
    OBVIOUS
  <1>1. TypeOK
    BY HeaderCovers DEF Init, TypeOK, HeaderBit
  <1>2. HeaderMatchesHeld
    BY HeaderCovers DEF Init, HeaderMatchesHeld
  <1> QED
    BY <1>1, <1>2 DEF IInv

\* slab_allocate sets the bit of the slot whose address it returns.
LEMMA AllocateIInv == IInv /\ slab_allocate => IInv'
  <1> SUFFICES ASSUME IInv, slab_allocate PROVE IInv'
    OBVIOUS
  <1> USE DEF IInv
  <1>1. PICK slot \in {-1} \cup HeaderBit :
          /\ slab_get_next_slot(slot)
          /\ \/ /\ slot = -1
                /\ got' = NULL
                /\ UNCHANGED <<header, held>>
             \/ /\ slot # -1
                /\ header' = [header EXCEPT ![slot] = 1]
                /\ got' = starting_address + slot_position(slot)
                /\ held' = held \cup {got'}
    BY DEF slab_allocate
  <1>2. CASE slot = -1
    BY <1>1, <1>2 DEF slab_allocate, TypeOK, HeaderMatchesHeld
  <1>3. CASE slot # -1
    <2>1. slot \in Slot /\ slot \in HeaderBit
      BY <1>1, <1>3, SlabAssumption DEF slab_get_next_slot, Slot
    <2>2. /\ header' = [header EXCEPT ![slot] = 1]
          /\ got' = ObjectAt(slot)
          /\ held' = held \cup {ObjectAt(slot)}
      BY <1>1, <1>3, <2>1, PositionExact
    <2>3. TypeOK'
      BY <2>1, <2>2, ObjectsApart, SlabAssumption
      DEF slab_allocate, TypeOK, Slot
    <2>4. {m \in Slot : header'[m] = 1} = {m \in Slot : header[m] = 1} \cup {slot}
      BY <2>1, <2>2, HeaderCovers DEF TypeOK
    <2>5. HeaderMatchesHeld'
      BY <2>2, <2>4 DEF HeaderMatchesHeld
    <2> QED
      BY <2>3, <2>5
  <1> QED
    BY <1>2, <1>3

\* slab_free clears the bit of the slot whose address it is given, and does
\* nothing for any other pointer.
LEMMA FreeIInv == ASSUME NEW ptr \in Pointer
                  PROVE  IInv /\ slab_free(ptr) => IInv'
  <1> SUFFICES ASSUME IInv, slab_free(ptr) PROVE IInv'
    OBVIOUS
  <1> USE DEF IInv
  <1>1. CASE UNCHANGED <<header, held>>
    BY <1>1 DEF slab_free, TypeOK, HeaderMatchesHeld
  <1>2. ASSUME NEW slot \in Slot, ptr = ObjectAt(slot),
               header' = [header EXCEPT ![slot] = 0], held' = held \ {ptr}
        PROVE  IInv'
    <2>1. slot \in HeaderBit
      BY HeaderCovers
    <2>2. TypeOK'
      BY <1>2, <2>1, SlabAssumption DEF slab_free, TypeOK
    <2>3. {m \in Slot : header'[m] = 1} = {m \in Slot : header[m] = 1} \ {slot}
      BY <1>2, <2>1, HeaderCovers DEF TypeOK
    <2>4. \A m \in Slot : ObjectAt(m) = ObjectAt(slot) => m = slot
      BY ObjectsApart
    <2>5. HeaderMatchesHeld'
      BY <1>2, <2>3, <2>4 DEF HeaderMatchesHeld
    <2> QED
      BY <2>2, <2>5
  <1> QED
    BY <1>1, <1>2 DEF slab_free, StartsSlot

\* slab_allocate and slab_free keep header and pointers in agreement.
LEMMA NextIInv == IInv /\ [Next]_vars => IInv'
  <1> SUFFICES ASSUME IInv, [Next]_vars PROVE IInv'
    OBVIOUS
  <1>1. CASE slab_allocate
    BY <1>1, AllocateIInv
  <1>2. CASE \E ptr \in Pointer : slab_free(ptr)
    BY <1>2, FreeIInv
  <1>3. CASE UNCHANGED vars
    BY <1>3 DEF vars, IInv, TypeOK, HeaderMatchesHeld
  <1> QED
    BY <1>1, <1>2, <1>3 DEF Next

\* The inductive invariant of the slab.
THEOREM SlabInvariant == Spec => []IInv
  BY InitIInv, NextIInv, PTL DEF Spec

-----------------------------------------------------------------------------
(* What a client sees.                                                       *)

\* slab_allocate and slab_free keep the state well typed and never set a
\* padding bit of the header.
THEOREM SlabTypeCorrect == Spec => []TypeOK
  BY SlabInvariant, PTL DEF IInv

\* The header's bits and the pointers clients hold correspond slot for slot,
\* although slab_allocate and slab_free convert between the two differently.
THEOREM SlabHeaderMatchesHeld == Spec => []HeaderMatchesHeld
  BY SlabInvariant, PTL DEF IInv

\* The objects that slab_allocate has handed out never overlap each other or
\* the header, are aligned, and stay inside slab_get_needed_size bytes.
THEOREM SlabObjectsDisjoint == Spec => []ObjectsDisjoint
  <1>1. IInv => ObjectsDisjoint
    <2> SUFFICES ASSUME IInv PROVE ObjectsDisjoint
      OBVIOUS
    <2>1. \A p \in held : \E n \in Slot : p = ObjectAt(n)
      BY DEF IInv, HeaderMatchesHeld
    <2>2. ASSUME NEW p \in held
          PROVE  /\ p >= starting_address + header_bytes(max_store)
                 /\ p + object_size <= starting_address
                      + slab_get_needed_size(object_size, max_store)
                 /\ (p - starting_address) % object_size = 0
      <3>1. PICK n \in Slot : p = ObjectAt(n)
        BY <2>1
      <3>2. /\ object_size * n \in Nat
            /\ object_size * max_store \in Nat
            /\ n \in Nat
        BY SlabAssumption DEF Slot
      <3>3. p + object_size <= FirstObject + object_size * max_store
        BY <3>1, ObjectsApart
      <3>4. p - starting_address = header_size + object_size * n
        BY <3>1, <3>2, HeaderCovers, SlabAssumption DEF ObjectAt, FirstObject
      <3>5. (header_size + object_size * n) % object_size = 0
        <4>1. PICK k \in Nat : header_size = object_size * k
          BY HeaderCovers
        <4>2. header_size + object_size * n = object_size * (k + n)
          BY <3>2, <4>1, SlabAssumption
        <4>3. \A j \in Nat : (object_size * j) % object_size = 0
          BY SlabAssumption
        <4> QED
          BY <3>2, <4>2, <4>3
      <3>6. p \in Nat
        BY <3>1, <3>2, HeaderCovers, SlabAssumption DEF ObjectAt, FirstObject
      <3> QED
        BY <3>2, <3>3, <3>4, <3>5, <3>6, HeaderCovers, SlabAssumption
        DEF FirstObject, slab_get_needed_size, header_size
    <2>3. ASSUME NEW p \in held, NEW q \in held, p < q
          PROVE  p + object_size <= q
      <3>1. PICK n \in Slot : p = ObjectAt(n)
        BY <2>1
      <3>2. PICK m \in Slot : q = ObjectAt(m)
        BY <2>1
      <3>3. CASE n < m
        BY <3>1, <3>2, <3>3, ObjectsApart
      <3>4. CASE n = m
        BY <2>3, <3>1, <3>2, <3>4, HeaderCovers, SlabAssumption
        DEF ObjectAt, FirstObject, Slot
      <3>5. CASE m < n
        <4>1. q + object_size <= p
          BY <3>1, <3>2, <3>5, ObjectsApart
        <4>2. p \in Nat /\ q \in Nat
          BY <3>1, <3>2, HeaderCovers, SlabAssumption
          DEF ObjectAt, FirstObject, Slot
        <4> QED
          BY <2>3, <4>1, <4>2, SlabAssumption
      <3> QED
        BY <3>3, <3>4, <3>5 DEF Slot
    <2> QED
      BY <2>2, <2>3 DEF ObjectsDisjoint
  <1> QED
    BY <1>1, SlabInvariant, PTL

\* slab_allocate and slab_free are steps of the object pool: no object is handed
\* out twice, NULL means that every object is out, and a free succeeds exactly
\* for an object that is out.
THEOREM SlabRefinesPool == Spec => ImplementsObjectPool
  <1> DEFINE Obj == {ObjectAt(n) : n \in Slot}
  <1>1. Init => Pool!Init
    BY DEF Init, Pool!Init
  <1>2. ASSUME IInv, slab_allocate PROVE Pool!Allocate
    <2>1. PICK slot \in {-1} \cup HeaderBit :
            /\ slab_get_next_slot(slot)
            /\ \/ /\ slot = -1
                  /\ got' = NULL
                  /\ UNCHANGED <<header, held>>
               \/ /\ slot # -1
                  /\ header' = [header EXCEPT ![slot] = 1]
                  /\ got' = starting_address + slot_position(slot)
                  /\ held' = held \cup {got'}
      BY <1>2 DEF slab_allocate
    <2>2. CASE slot = -1
      <3>1. \A n \in Slot : header[n] = 1
        BY <2>1, <2>2, SlabAssumption
        DEF slab_get_next_slot, slab_get_header_bit, Slot
      <3>2. {m \in Slot : header[m] = 1} = Slot
        BY <3>1
      <3>3. held = Obj
        BY <1>2, <3>2 DEF IInv, HeaderMatchesHeld
      <3> QED
        BY <1>2, <2>1, <2>2, <3>3 DEF slab_allocate, Pool!Allocate
    <2>3. CASE slot # -1
      <3>1. slot \in Slot
        BY <2>1, <2>3, SlabAssumption DEF slab_get_next_slot, Slot
      <3>2. got' = ObjectAt(slot)
        BY <2>1, <2>3, <3>1, PositionExact
      <3>3. header[slot] = 0
        BY <2>1, <2>3 DEF slab_get_next_slot, slab_get_header_bit
      <3>4. \A m \in Slot : ObjectAt(m) = ObjectAt(slot) => m = slot
        BY <3>1, ObjectsApart
      <3>5. ObjectAt(slot) \notin held
        BY <1>2, <3>3, <3>4 DEF IInv, HeaderMatchesHeld
      <3>6. ObjectAt(slot) \in Obj \ held
        BY <3>1, <3>5
      <3> QED
        BY <1>2, <2>1, <2>3, <3>2, <3>6 DEF slab_allocate, Pool!Allocate
    <2> QED
      BY <2>2, <2>3
  <1>3. ASSUME IInv, NEW ptr \in Pointer, slab_free(ptr) PROVE Pool!Free(ptr)
    <2>1. \A n \in Slot : ObjectAt(n) \in held <=> header[n] = 1
      <3>1. \A n, m \in Slot : ObjectAt(n) = ObjectAt(m) => n = m
        BY ObjectsApart
      <3> QED
        BY <1>3, <3>1 DEF IInv, HeaderMatchesHeld
    <2>2. \A p \in held : \E n \in Slot : p = ObjectAt(n)
      BY <1>3 DEF IInv, HeaderMatchesHeld
    <2>3. CASE \E slot \in Slot : StartsSlot(ptr, slot)
      BY <1>3, <2>1, <2>3 DEF slab_free, StartsSlot, Pool!Free
    <2>4. CASE \A slot \in Slot : ~ StartsSlot(ptr, slot)
      BY <1>3, <2>2, <2>4 DEF slab_free, StartsSlot, Pool!Free
    <2> QED
      BY <2>3, <2>4
  <1>4. IInv /\ [Next]_vars => [Pool!Next]_(Pool!vars)
    BY <1>2, <1>3 DEF Next, vars, Pool!Next, Pool!vars
  <1> QED
    BY <1>1, <1>4, SlabInvariant, PTL DEF Spec, ImplementsObjectPool, Pool!Spec
=============================================================================
