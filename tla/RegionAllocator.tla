-------------------------- MODULE RegionAllocator --------------------------
(***************************************************************************)
(* What the kernel heap promises: it hands out disjoint runs of blocks,    *)
(* each the lowest one that fits, it fails exactly when no free run is     *)
(* long enough, and a pointer into the first block of a run gives the      *)
(* whole run back while any other pointer changes nothing.                 *)
(***************************************************************************)
EXTENDS Integers

CONSTANTS
    blocks,        \* how many blocks there are
    Size,          \* the sizes clients ask for, in bytes
    Pointer,       \* the addresses clients free
    Blocks(_),     \* how many blocks a size needs
    Address(_),    \* where a block starts
    BlockOf(_),    \* the block that holds an address
    NULL

VARIABLES
    regions,       \* the runs handed out, as records [first, last]
    free_blocks,   \* how many blocks are in no run
    got            \* what the last Alloc returned

Block == 0 .. blocks - 1

vars == <<regions, free_blocks, got>>

InRegion(b) == \E r \in regions : b \in r.first .. r.last

\* n blocks from start on exist and are in no region.
Fits(n, start) ==
    \A b \in start .. start + n - 1 : b \in Block /\ ~ InRegion(b)

Init ==
    /\ regions = {}
    /\ free_blocks = blocks
    /\ got = NULL

Alloc(size) ==
    \/ /\ \/ size = 0
          \/ \A start \in Block : ~ Fits(Blocks(size), start)
       /\ got' = NULL
       /\ UNCHANGED <<regions, free_blocks>>
    \/ \E start \in Block :
         /\ size # 0
         /\ Fits(Blocks(size), start)
         /\ \A lower \in 0 .. start - 1 : ~ Fits(Blocks(size), lower)
         /\ got' = Address(start)
         /\ free_blocks' = free_blocks - Blocks(size)
         /\ regions' = regions \cup
              {[first |-> start, last |-> start + Blocks(size) - 1]}

Free(ptr) ==
    /\ \/ \E r \in regions :
            /\ r.first = BlockOf(ptr)
            /\ regions' = regions \ {r}
            /\ free_blocks' = free_blocks + (r.last - r.first + 1)
       \/ /\ \A r \in regions : r.first # BlockOf(ptr)
          /\ UNCHANGED <<regions, free_blocks>>
    /\ UNCHANGED got

Next ==
    \/ \E size \in Size : Alloc(size)
    \/ \E ptr \in Pointer : Free(ptr)

Spec == Init /\ [][Next]_vars
=============================================================================
