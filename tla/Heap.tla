-------------------------------- MODULE Heap --------------------------------
(***************************************************************************)
(* The kernel heap of kernel/alloc/heap.c: a table with one entry per      *)
(* block, whose flag bits delimit the regions handed out.  kalloc and      *)
(* kfree of kernel/sysutils.c are heap_alloc and heap_free on the one heap *)
(* of the kernel.  The flags of an entry are a set, so |= is a union and   *)
(* = 0 the empty set.  regions is a history variable: what heap_alloc has  *)
(* handed out and heap_free has not taken back.                            *)
(***************************************************************************)
EXTENDS Integers, FiniteSets

CONSTANTS
    blocks,                  \* heap->blocks
    HEAP_BLOCK_SIZE_BYTES,
    heap_start_address,
    MaxSize,                 \* bound: largest size a client asks for
    power_on                 \* what the table's memory holds at power on

NULL == 0
TAKEN == "TAKEN"
FIRST == "FIRST"
LAST == "LAST"
Flag == {TAKEN, FIRST, LAST}

Block == 0 .. blocks - 1

\* The machine's RAM reads as zero at power on; heap_createtable relies on it.
ASSUME HeapAssumption ==
    /\ blocks \in Nat \ {0}
    /\ HEAP_BLOCK_SIZE_BYTES \in Nat \ {0}
    /\ heap_start_address \in Nat \ {0}
    /\ MaxSize \in Nat
    /\ power_on = [b \in Block |-> {}]

Size == 0 .. MaxSize

\* Every address inside the heap.
Pointer ==
    heap_start_address ..
        heap_start_address + HEAP_BLOCK_SIZE_BYTES * blocks - 1

alloc_blocks(size) ==
    size \div HEAP_BLOCK_SIZE_BYTES
      + IF size % HEAP_BLOCK_SIZE_BYTES # 0 THEN 1 ELSE 0

BlockAddress(b) == heap_start_address + b * HEAP_BLOCK_SIZE_BYTES

BlockOf(ptr) == (ptr - heap_start_address) \div HEAP_BLOCK_SIZE_BYTES

-----------------------------------------------------------------------------
VARIABLES
    table,         \* heap->heap: the flags of every block
    free_blocks,   \* heap->free_blocks
    regions,       \* history: regions handed out, [first, last]
    got            \* what the last heap_alloc returned

vars == <<table, free_blocks, regions, got>>

\* heap_createtable: its loop clears the first entry over and over.
Init ==
    /\ table = [power_on EXCEPT ![0] = {}]
    /\ free_blocks = blocks
    /\ regions = {}
    /\ got = NULL

Taken(b) == TAKEN \in table[b]

\* n untaken blocks from start on.
Fits(n, start) ==
    \A b \in start .. start + n - 1 : b \in Block /\ ~ Taken(b)

\* Where the search loop of heap_alloc stops: the lowest fit.
FirstFit(n, start) ==
    /\ Fits(n, start)
    /\ \A lower \in 0 .. start - 1 : ~ Fits(n, lower)

\* mark_region_taken, mutated: the last block is not marked as last.
MarkWithoutLast(from, to) ==
    table' = [b \in Block |-> table[b]
                \cup (IF b = from THEN {FIRST} ELSE {})
                \cup (IF b \in from .. to THEN {TAKEN} ELSE {})]

mark_region_taken(from, to) ==
    table' = [b \in Block |-> table[b]
                \cup (IF b = from THEN {FIRST} ELSE {})
                \cup (IF b = to THEN {LAST} ELSE {})
                \cup (IF b \in from .. to THEN {TAKEN} ELSE {})]

heap_alloc(size) ==
    \/ /\ \/ size = 0
          \/ \A start \in Block : ~ Fits(alloc_blocks(size), start)
       /\ got' = NULL
       /\ UNCHANGED <<table, free_blocks, regions>>
    \/ \E start \in Block :
         LET last == start + alloc_blocks(size) - 1
         IN  /\ size # 0
             /\ FirstFit(alloc_blocks(size), start)
             /\ mark_region_taken(start, last)
             /\ free_blocks' = free_blocks - alloc_blocks(size)
             /\ got' = BlockAddress(start)
             /\ regions' = regions \cup {[first |-> start, last |-> last]}

\* mark_region_free, mutated: the last block of the region stays taken.
FreeAllButLast(from, to) ==
    /\ LAST \in table[to]
    /\ \A b \in from .. to - 1 : LAST \notin table[b]
    /\ table' = [b \in Block |-> IF b \in from .. to - 1 THEN {} ELSE table[b]]

\* mark_region_free: entries are cleared up to the first one marked LAST.
mark_region_free(from, to) ==
    /\ LAST \in table[to]
    /\ \A b \in from .. to - 1 : LAST \notin table[b]
    /\ table' = [b \in Block |-> IF b \in from .. to THEN {} ELSE table[b]]

heap_free(ptr) ==
    /\ \/ /\ FIRST \notin table[BlockOf(ptr)]
          /\ UNCHANGED <<table, free_blocks, regions>>
       \/ /\ FIRST \in table[BlockOf(ptr)]
          /\ \E to \in Block :
               /\ BlockOf(ptr) <= to
               /\ mark_region_free(BlockOf(ptr), to)
               /\ free_blocks' = free_blocks + (to - BlockOf(ptr) + 1)
          /\ regions' = {r \in regions : r.first # BlockOf(ptr)}
    /\ UNCHANGED got

Next ==
    \/ \E size \in Size : heap_alloc(size)
    \/ \E ptr \in Pointer : heap_free(ptr)

Spec == Init /\ [][Next]_vars

-----------------------------------------------------------------------------
(***************************************************************************)
(* Properties.                                                             *)
(***************************************************************************)

\* Types; a region is a non-empty run of the heap's blocks.
TypeOK ==
    /\ table \in [Block -> SUBSET Flag]
    /\ free_blocks \in 0 .. blocks
    /\ regions \subseteq [first : Block, last : Block]
    /\ \A r \in regions : r.first <= r.last
    /\ got \in Pointer \cup {NULL}

\* The table says what is handed out, and nothing else: a block is TAKEN when
\* it is in a region, FIRST and LAST when it begins and ends one.  Regions never
\* share a block, so heap_free's walk from FIRST to LAST stays in one region,
\* whatever the order in which regions were made and given back around it.
TableMatchesRegions ==
    /\ \A b \in Block :
          /\ TAKEN \in table[b] <=> \E r \in regions : b \in r.first .. r.last
          /\ FIRST \in table[b] <=> \E r \in regions : b = r.first
          /\ LAST \in table[b] <=> \E r \in regions : b = r.last
    /\ \A r, s \in regions : r # s => r.last < s.first \/ s.last < r.first

\* heap_get_free_blocks (heap.h, "Returns the free blocks count") is exact: the
\* counter heap_alloc and heap_free keep by adding and subtracting never drifts
\* from the table.
FreeBlocksExact ==
    free_blocks = Cardinality({b \in Block : ~ Taken(b)})

\* The heap implements the region allocator: heap_alloc returns the lowest run of
\* free blocks of some length, which is its caller's until heap_free gives back
\* exactly the region whose first block it is pointed at.  (The allocator does not
\* know the size that was asked for; that the run has this size, and that NULL
\* means there is none, is SearchIsFirstFit of HeapSearch.)
Regions == INSTANCE RegionAllocator WITH
              Blocks <- alloc_blocks, Address <- BlockAddress

ImplementsRegionAllocator == Regions!Spec
=============================================================================
