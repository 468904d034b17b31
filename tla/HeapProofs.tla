----------------------------- MODULE HeapProofs -----------------------------
(***************************************************************************)
(* Proofs about the kernel heap, for every number of blocks and every      *)
(* block size, from RAM that reads as zero at power on.                    *)
(***************************************************************************)
EXTENDS HeapSearch, FiniteSetTheorems, TLAPS

-----------------------------------------------------------------------------
(* Addresses and sizes.                                                      *)

\* A block starts at a non-NULL address inside the heap, and heap_free's
\* division finds the block again from any address in it.
LEMMA BlockGeometry ==
    /\ \A b \in Block : BlockAddress(b) \in Pointer /\ BlockAddress(b) # NULL
    /\ \A ptr \in Pointer : BlockOf(ptr) \in Block
  <1>1. ASSUME NEW b \in Block
        PROVE  BlockAddress(b) \in Pointer /\ BlockAddress(b) # NULL
    <2>1. /\ b * HEAP_BLOCK_SIZE_BYTES \in Nat
          /\ b * HEAP_BLOCK_SIZE_BYTES < HEAP_BLOCK_SIZE_BYTES * blocks
          /\ HEAP_BLOCK_SIZE_BYTES * blocks \in Nat
      BY HeapAssumption DEF Block
    <2> QED
      BY <2>1, HeapAssumption DEF BlockAddress, Pointer, NULL
  <1>2. ASSUME NEW ptr \in Pointer PROVE BlockOf(ptr) \in Block
    <2> DEFINE offset == ptr - heap_start_address
    <2>1. /\ offset \in Nat
          /\ HEAP_BLOCK_SIZE_BYTES * blocks \in Nat
          /\ offset < HEAP_BLOCK_SIZE_BYTES * blocks
      BY HeapAssumption DEF Pointer
    <2>2. \A o \in Nat : o < HEAP_BLOCK_SIZE_BYTES * blocks
            => o \div HEAP_BLOCK_SIZE_BYTES \in 0 .. blocks - 1
      BY HeapAssumption
    <2> QED
      BY <2>1, <2>2 DEF BlockOf, Block
  <1> QED
    BY <1>1, <1>2

\* A request for at least one byte needs at least one block, and the blocks it
\* gets hold it.
LEMMA AllocBlocksCovers ==
    ASSUME NEW size \in Nat
    PROVE  /\ alloc_blocks(size) \in Nat
           /\ size # 0 => alloc_blocks(size) >= 1
           /\ alloc_blocks(size) * HEAP_BLOCK_SIZE_BYTES >= size
  BY HeapAssumption DEF alloc_blocks

-----------------------------------------------------------------------------
(* The inductive invariant.                                                  *)

IInv == TypeOK /\ TableMatchesRegions /\ FreeBlocksExact

\* The untaken blocks are finitely many, between none and all.
LEMMA UntakenFinite ==
    ASSUME NEW S \in SUBSET Block
    PROVE  /\ IsFiniteSet(S)
           /\ Cardinality(S) \in 0 .. blocks
  <1>1. IsFiniteSet(Block) /\ Cardinality(Block) = blocks
    BY FS_Interval, HeapAssumption DEF Block
  <1>2. IsFiniteSet(S) /\ Cardinality(S) <= Cardinality(Block)
    BY <1>1, FS_Subset
  <1>3. Cardinality(S) \in Nat
    BY <1>2, FS_CardinalityType
  <1> QED
    BY <1>1, <1>2, <1>3, HeapAssumption

\* The table that heap_createtable leaves has no region and all blocks free.
LEMMA InitIInv == Init => IInv
  <1> SUFFICES ASSUME Init PROVE IInv
    OBVIOUS
  <1>1. table = [b \in Block |-> {}]
    BY HeapAssumption DEF Init, Block
  <1>2. TypeOK
    <2>1. table \in [Block -> SUBSET Flag]
      BY <1>1
    <2> QED
      BY <2>1, HeapAssumption DEF Init, TypeOK
  <1>3. TableMatchesRegions
    BY <1>1 DEF Init, TableMatchesRegions
  <1>4. {b \in Block : ~ Taken(b)} = Block
    BY <1>1 DEF Taken
  <1>5. Cardinality(Block) = blocks
    BY FS_Interval, HeapAssumption DEF Block
  <1>6. FreeBlocksExact
    BY <1>4, <1>5 DEF Init, FreeBlocksExact
  <1> QED
    BY <1>2, <1>3, <1>6 DEF IInv

\* A successful heap_alloc marks a run of untaken blocks as one new region.
LEMMA AllocIInv ==
    ASSUME IInv,
           NEW size \in Size, NEW lo \in Block, NEW last,
           last = lo + alloc_blocks(size) - 1,
           size # 0,
           Fits(alloc_blocks(size), lo),
           mark_region_taken(lo, last),
           free_blocks' = free_blocks - alloc_blocks(size),
           got' = BlockAddress(lo),
           regions' = regions \cup {[first |-> lo, last |-> last]}
    PROVE  IInv'
  <1> DEFINE new == [first |-> lo, last |-> last]
             Untaken == {b \in Block : ~ Taken(b)}
  <1>1. /\ alloc_blocks(size) \in Nat
        /\ alloc_blocks(size) >= 1
    BY AllocBlocksCovers, HeapAssumption DEF Size
  <1>2. /\ last \in Block
        /\ lo <= last
        /\ \A b \in lo .. last : b \in Block /\ ~ Taken(b)
    BY <1>1, HeapAssumption DEF Fits, Block
  <1>3. /\ table' \in [Block -> SUBSET Flag]
        /\ \A b \in Block :
             /\ TAKEN \in table'[b] <=> TAKEN \in table[b] \/ b \in lo .. last
             /\ FIRST \in table'[b] <=> FIRST \in table[b] \/ b = lo
             /\ LAST \in table'[b] <=> LAST \in table[b] \/ b = last
    BY DEF IInv, TypeOK, mark_region_taken, Flag, TAKEN, FIRST, LAST
  <1>4. \A r \in regions : r.last < lo \/ last < r.first
    <2> SUFFICES ASSUME NEW r \in regions, ~ (r.last < lo \/ last < r.first)
                 PROVE  FALSE
      OBVIOUS
    <2>1. r.first \in Block /\ r.last \in Block /\ r.first <= r.last
      BY DEF IInv, TypeOK
    <2>2. \E b \in lo .. last : b \in r.first .. r.last
      <3>1. CASE r.first <= lo
        BY <1>2, <2>1, <3>1 DEF Block
      <3>2. CASE lo < r.first
        BY <1>2, <2>1, <3>2 DEF Block
      <3> QED
        BY <2>1, <3>1, <3>2 DEF Block
    <2> QED
      BY <1>2, <2>2 DEF IInv, TableMatchesRegions, Taken
  <1>5. TableMatchesRegions'
    <2>1. ASSUME NEW b \in Block
          PROVE  /\ TAKEN \in table'[b] <=>
                      \E r \in regions' : b \in r.first .. r.last
                 /\ FIRST \in table'[b] <=> \E r \in regions' : b = r.first
                 /\ LAST \in table'[b] <=> \E r \in regions' : b = r.last
      <3>1. PICK n : /\ regions' = regions \cup {n}
                     /\ n.first = lo
                     /\ n.last = last
        <4> WITNESS new
        <4> QED
          OBVIOUS
      <3>2. /\ TAKEN \in table[b] <=> \E r \in regions : b \in r.first .. r.last
            /\ FIRST \in table[b] <=> \E r \in regions : b = r.first
            /\ LAST \in table[b] <=> \E r \in regions : b = r.last
        BY DEF IInv, TableMatchesRegions
      <3>3. /\ (\E r \in regions' : b \in r.first .. r.last)
                 <=> (\E r \in regions : b \in r.first .. r.last) \/ b \in lo .. last
            /\ (\E r \in regions' : b = r.first)
                 <=> (\E r \in regions : b = r.first) \/ b = lo
            /\ (\E r \in regions' : b = r.last)
                 <=> (\E r \in regions : b = r.last) \/ b = last
        BY ONLY <3>1
      <3> QED
        BY ONLY <1>3, <3>2, <3>3, b \in Block
    <2>2. ASSUME NEW r \in regions', NEW s \in regions', r # s
          PROVE  r.last < s.first \/ s.last < r.first
      BY <1>4, <2>2 DEF IInv, TableMatchesRegions
    <2> QED
      BY <2>1, <2>2 DEF TableMatchesRegions
  <1>6. FreeBlocksExact'
    <2>1. {b \in Block : ~ Taken(b)'} = Untaken \ (lo .. last)
      BY <1>3 DEF Taken
    <2>2. Untaken \cap (lo .. last) = lo .. last
      BY <1>2
    <2>3. Cardinality(lo .. last) = alloc_blocks(size)
      <3>1. /\ lo \in Int
            /\ last \in Int
            /\ last - lo + 1 = alloc_blocks(size)
            /\ ~ (lo > last)
        BY <1>1, <1>2, HeapAssumption DEF Block
      <3> QED
        BY <3>1, FS_Interval
    <2>4. Cardinality(Untaken \ (lo .. last))
            = Cardinality(Untaken) - Cardinality(Untaken \cap (lo .. last))
      BY UntakenFinite, FS_Difference
    <2> QED
      BY <2>1, <2>2, <2>3, <2>4 DEF IInv, FreeBlocksExact
  <1>7. TypeOK'
    <2>1. free_blocks' \in 0 .. blocks
      BY <1>6, UntakenFinite DEF FreeBlocksExact
    <2>2. /\ regions' \subseteq [first : Block, last : Block]
          /\ \A r \in regions' : r.first <= r.last
      BY <1>2 DEF IInv, TypeOK
    <2>3. got' \in Pointer \cup {NULL}
      BY Zenon, BlockGeometry
    <2> QED
      BY Zenon, <1>3, <2>1, <2>2, <2>3 DEF TypeOK
  <1> QED
    BY <1>5, <1>6, <1>7 DEF IInv

\* mark_region_free stops at the end of the region that starts where it does,
\* and that region is the only one heap_free takes back.
LEMMA FreeStopsAtRegionEnd ==
    ASSUME IInv, NEW from \in Block, NEW to \in Block, from <= to,
           FIRST \in table[from], mark_region_free(from, to)
    PROVE  \E r \in regions :
              /\ r.first = from
              /\ r.last = to
              /\ {s \in regions : s.first # from} = regions \ {r}
  <1>1. PICK r \in regions : r.first = from
    BY DEF IInv, TableMatchesRegions
  <1>2. PICK e \in regions : e.last = to
    BY DEF IInv, TableMatchesRegions, mark_region_free
  <1>3. \A s \in regions : s.first \in Block /\ s.last \in Block /\ s.first <= s.last
    BY DEF IInv, TypeOK
  <1>4. r.last \notin from .. to - 1
    BY <1>3 DEF IInv, TableMatchesRegions, mark_region_free
  <1>5. \A s \in regions : s # r => r.last < s.first \/ s.last < r.first
    BY DEF IInv, TableMatchesRegions
  <1>6. r = e
    BY <1>1, <1>2, <1>3, <1>4, <1>5, HeapAssumption DEF Block
  <1>7. \A s \in regions : s.first = from => s = r
    BY <1>1, <1>3, <1>5, HeapAssumption DEF Block
  <1> QED
    BY <1>1, <1>2, <1>6, <1>7

\* heap_free clears exactly the blocks of one region.
LEMMA FreeIInv ==
    ASSUME IInv, NEW ptr \in Pointer, heap_free(ptr)
    PROVE  IInv'
  <1> DEFINE from == BlockOf(ptr)
             Untaken == {b \in Block : ~ Taken(b)}
  <1>1. CASE FIRST \notin table[from]
    BY <1>1 DEF heap_free, IInv, TypeOK, TableMatchesRegions, FreeBlocksExact, Taken
  <1>2. CASE FIRST \in table[from]
    <2>1. PICK to \in Block :
            /\ from <= to
            /\ mark_region_free(from, to)
            /\ free_blocks' = free_blocks + (to - from + 1)
      BY <1>2 DEF heap_free
    <2>2. /\ regions' = {s \in regions : s.first # from}
          /\ got' = got
      BY <1>2 DEF heap_free
    <2>3. from \in Block
      BY BlockGeometry
    <2> HIDE DEF from
    <2>4. PICK r \in regions : /\ r.first = from
                               /\ r.last = to
                               /\ regions' = regions \ {r}
      BY <1>2, <2>1, <2>2, <2>3, FreeStopsAtRegionEnd
    <2>5. /\ table' \in [Block -> SUBSET Flag]
          /\ \A b \in Block :
               table'[b] = IF b \in from .. to THEN {} ELSE table[b]
      BY <2>1 DEF IInv, TypeOK, mark_region_free
    <2>6. \A s \in regions : s.first \in Block /\ s.last \in Block /\ s.first <= s.last
      BY DEF IInv, TypeOK
    <2>7. \A s \in regions' : s.last < from \/ to < s.first
      BY <2>4 DEF IInv, TableMatchesRegions
    <2>8. TableMatchesRegions'
      <3>1. ASSUME NEW b \in Block, b \in from .. to
            PROVE  /\ table'[b] = {}
                   /\ \A s \in regions' :
                        b # s.first /\ b # s.last /\ b \notin s.first .. s.last
        BY <2>3, <2>4, <2>5, <2>6, <2>7, <3>1, HeapAssumption DEF Block
      <3>2. ASSUME NEW b \in Block, b \notin from .. to
            PROVE  /\ table'[b] = table[b]
                   /\ b # r.first /\ b # r.last /\ b \notin r.first .. r.last
        BY <2>1, <2>3, <2>4, <2>5, <3>2, HeapAssumption DEF Block
      <3>3. ASSUME NEW b \in Block
            PROVE  /\ TAKEN \in table'[b] <=>
                        \E s \in regions' : b \in s.first .. s.last
                   /\ FIRST \in table'[b] <=> \E s \in regions' : b = s.first
                   /\ LAST \in table'[b] <=> \E s \in regions' : b = s.last
        <4>1. CASE b \in from .. to
          BY <3>1, <4>1
        <4>2. CASE b \notin from .. to
          <5>1. /\ TAKEN \in table[b] <=> \E s \in regions : b \in s.first .. s.last
                /\ FIRST \in table[b] <=> \E s \in regions : b = s.first
                /\ LAST \in table[b] <=> \E s \in regions : b = s.last
            BY DEF IInv, TableMatchesRegions
          <5> QED
            BY <2>4, <3>2, <4>2, <5>1
        <4> QED
          BY <4>1, <4>2
      <3>4. \A s, t \in regions' : s # t => s.last < t.first \/ t.last < s.first
        BY <2>4 DEF IInv, TableMatchesRegions
      <3> QED
        BY <3>3, <3>4 DEF TableMatchesRegions
    <2>9. FreeBlocksExact'
      <3>1. \A b \in from .. to : b \in Block /\ Taken(b)
        BY <2>1, <2>3, <2>4, HeapAssumption DEF Block, IInv, TableMatchesRegions, Taken
      <3>2. {b \in Block : ~ Taken(b)'} = Untaken \cup (from .. to)
        BY <2>5, <3>1 DEF Taken
      <3>3. Untaken \cap (from .. to) = {}
        BY <3>1
      <3>4. /\ IsFiniteSet(from .. to)
            /\ Cardinality(from .. to) = to - from + 1
        BY <2>1, <2>3, FS_Interval, HeapAssumption DEF Block
      <3>5. /\ IsFiniteSet(Untaken)
            /\ Cardinality(Untaken) \in Nat
        BY UntakenFinite, HeapAssumption
      <3>6. Untaken' = {b \in Block : ~ Taken(b)'}
        OBVIOUS
      <3>7. /\ free_blocks = Cardinality(Untaken)
            /\ FreeBlocksExact' <=> free_blocks' = Cardinality(Untaken')
        BY DEF IInv, FreeBlocksExact
      <3> HIDE DEF Untaken
      <3>8. Cardinality(Untaken \cup (from .. to)) = Cardinality(Untaken)
              + Cardinality(from .. to) - Cardinality(Untaken \cap (from .. to))
        BY <3>4, <3>5, FS_Union
      <3>9. Cardinality(Untaken \cap (from .. to)) = 0
        BY <3>3, FS_EmptySet
      <3>10. Untaken' = Untaken \cup (from .. to)
        BY <3>2, <3>6
      <3>11. to - from + 1 \in Int
        BY <2>3, HeapAssumption DEF Block
      <3> QED
        BY <2>1, <3>4, <3>5, <3>7, <3>8, <3>9, <3>10, <3>11
    <2>10. TypeOK'
      <3>1. free_blocks' \in 0 .. blocks
        BY <2>9, UntakenFinite DEF FreeBlocksExact
      <3> QED
        BY <2>2, <2>5, <3>1 DEF IInv, TypeOK
    <2> QED
      BY <2>8, <2>9, <2>10 DEF IInv
  <1> QED
    BY <1>1, <1>2

\* Every step of the heap keeps table, regions and counter in agreement.
LEMMA NextIInv == IInv /\ [Next]_vars => IInv'
  <1> SUFFICES ASSUME IInv, [Next]_vars PROVE IInv'
    OBVIOUS
  <1>1. CASE UNCHANGED <<table, free_blocks, regions>>
             /\ got' \in Pointer \cup {NULL}
    BY <1>1 DEF IInv, TypeOK, TableMatchesRegions, FreeBlocksExact, Taken
  <1>2. ASSUME NEW size \in Size, heap_alloc(size) PROVE IInv'
    BY <1>1, <1>2, AllocIInv DEF heap_alloc, FirstFit
  <1>3. ASSUME NEW ptr \in Pointer, heap_free(ptr) PROVE IInv'
    BY <1>3, FreeIInv
  <1>4. CASE UNCHANGED vars
    BY <1>1, <1>4 DEF vars, IInv, TypeOK
  <1> QED
    BY <1>2, <1>3, <1>4 DEF Next

\* The inductive invariant of heap_alloc and heap_free.
THEOREM HeapInvariant == Spec => []IInv
  BY InitIInv, NextIInv, PTL DEF Spec

-----------------------------------------------------------------------------
(* What a client sees.                                                       *)

\* heap_alloc and heap_free keep the table, the counter and every pointer they
\* return well typed.
THEOREM HeapTypeCorrect == Spec => []TypeOK
  BY HeapInvariant, PTL DEF IInv

\* The table describes exactly the regions that are handed out, and these never
\* share a block, after any sequence of heap_alloc and heap_free.
THEOREM HeapTableMatchesRegions == Spec => []TableMatchesRegions
  BY HeapInvariant, PTL DEF IInv

\* heap_get_free_blocks always returns the number of untaken blocks.
THEOREM HeapFreeBlocksExact == Spec => []FreeBlocksExact
  BY HeapInvariant, PTL DEF IInv

\* heap_alloc and heap_free are steps of the region allocator: first fit,
\* failure only without a fit, and a free that returns one whole region or
\* changes nothing.
THEOREM HeapRefinesRegions == Spec => ImplementsRegionAllocator
  <1>1. Init => Regions!Init
    BY DEF Init, Regions!Init
  <1>2. ASSUME IInv, NEW n \in Nat, NEW lo \in Int
        PROVE  Fits(n, lo) <=> Regions!Fits(n, lo)
    BY <1>2 DEF IInv, TableMatchesRegions, Taken, Fits, Block,
       Regions!Fits, Regions!InRegion, Regions!Block
  <1>3. ASSUME IInv, NEW size \in Size, heap_alloc(size)
        PROVE  Regions!Alloc(size)
    <2>1. alloc_blocks(size) \in Nat
      BY AllocBlocksCovers, HeapAssumption DEF Size
    <2>2. \A lo \in Int : Fits(alloc_blocks(size), lo)
                                <=> Regions!Fits(alloc_blocks(size), lo)
      BY <1>2, <1>3, <2>1
    <2>3. Block \subseteq Int /\ \A lo \in Block : 0 .. lo - 1 \subseteq Int
      BY DEF Block
    <2> QED
      BY <1>3, <2>2, <2>3
      DEF heap_alloc, FirstFit, Block, Regions!Alloc, Regions!Block
  <1>4. ASSUME IInv, NEW ptr \in Pointer, heap_free(ptr)
        PROVE  Regions!Free(ptr)
    <2>1. BlockOf(ptr) \in Block
      BY BlockGeometry
    <2>2. CASE FIRST \notin table[BlockOf(ptr)]
      BY <1>4, <2>1, <2>2
      DEF heap_free, IInv, TableMatchesRegions, Regions!Free
    <2>3. CASE FIRST \in table[BlockOf(ptr)]
      <3>1. PICK to \in Block :
              /\ BlockOf(ptr) <= to
              /\ mark_region_free(BlockOf(ptr), to)
              /\ free_blocks' = free_blocks + (to - BlockOf(ptr) + 1)
        BY <1>4, <2>3 DEF heap_free
      <3>2. PICK r \in regions :
              /\ r.first = BlockOf(ptr)
              /\ r.last = to
              /\ {s \in regions : s.first # BlockOf(ptr)} = regions \ {r}
        BY <1>4, <2>1, <2>3, <3>1, FreeStopsAtRegionEnd
      <3> QED
        BY <1>4, <2>3, <3>1, <3>2 DEF heap_free, Regions!Free
    <2> QED
      BY <2>2, <2>3
  <1>5. IInv /\ [Next]_vars => [Regions!Next]_(Regions!vars)
    BY <1>3, <1>4 DEF Next, vars, Regions!Next, Regions!vars
  <1> QED
    BY <1>1, <1>5, HeapInvariant, PTL
    DEF Spec, ImplementsRegionAllocator, Regions!Spec

-----------------------------------------------------------------------------
(***************************************************************************)
(* The search loops of heap_alloc find the first fit, for every number of  *)
(* blocks, every table and every request; so heap_alloc with its loops     *)
(* does what module Heap says of it in one step, and the theorems above    *)
(* hold of it.                                                             *)
(***************************************************************************)

SearchTypeOK ==
    /\ pc \in {"idle", "outer", "skip", "count", "found", "err"}
    /\ block \in 0 .. blocks
    /\ start \in 0 .. blocks
    /\ blocks_found \in Nat

\* No run of wanted free blocks starts below s.
NoFitBelow(s) == \A lower \in 0 .. s - 1 : ~ Fits(wanted, lower)

\* What each loop knows: outside the counting loop nothing fits below block;
\* inside it nothing fits below start, and start .. block - 1 is free.
LoopInv ==
    /\ SearchTypeOK
    /\ pc # "idle" => \E size \in Size : size # 0 /\ wanted = alloc_blocks(size)
    /\ pc \in {"outer", "skip"} => NoFitBelow(block)
    /\ pc \in {"count", "found"} =>
          /\ NoFitBelow(start)
          /\ block = start + blocks_found
          /\ blocks_found <= wanted
          /\ \A b \in start .. block - 1 : ~ Taken(b)
    /\ pc = "found" => blocks_found = wanted
    /\ pc = "err" => NoFitBelow(blocks)

\* While a search is on, it is for at least one block.
LEMMA WantedPositive ==
    ASSUME LoopInv, pc # "idle" PROVE wanted \in Nat /\ wanted >= 1
  BY AllocBlocksCovers DEF LoopInv, Size

\* The loops change neither the table nor the request, so what fits stays.
LEMMA FitsStable ==
    ASSUME UNCHANGED vars, UNCHANGED wanted
    PROVE  /\ \A n, s : Fits(n, s)' <=> Fits(n, s)
           /\ \A b : Taken(b)' <=> Taken(b)
  BY DEF Fits, Taken, vars

\* Before the first call there is no search to speak of.
LEMMA SearchInitInv == SearchInit => LoopInv
  BY HeapAssumption DEF SearchInit, LoopInv, SearchTypeOK

\* heap_alloc begins at block 0, below which nothing can fit.
LEMMA AllocStartInv ==
    ASSUME LoopInv, NEW size \in Size, AllocStart(size) PROVE LoopInv'
  <1>1. CASE size = 0
    BY <1>1 DEF AllocStart, LoopInv, SearchTypeOK, search
  <1>2. CASE size # 0
    <2>1. NoFitBelow(0)'
      BY DEF NoFitBelow
    <2> QED
      BY <1>2, <2>1, HeapAssumption DEF AllocStart, LoopInv, SearchTypeOK
  <1> QED
    BY <1>1, <1>2

\* The test of the outer loop: the search ends only when no start is left.
LEMMA OuterInv == LoopInv /\ Outer => LoopInv'
  <1> SUFFICES ASSUME LoopInv, Outer PROVE LoopInv'
    OBVIOUS
  <1>1. \A n, s : Fits(n, s)' <=> Fits(n, s)
    BY FitsStable DEF Outer
  <1> QED
    BY <1>1, HeapAssumption DEF LoopInv, SearchTypeOK, NoFitBelow, Outer

\* Skipping a taken block skips no fit: none can start at a taken block.
LEMMA SkipInv == LoopInv /\ Skip => LoopInv'
  <1> SUFFICES ASSUME LoopInv, Skip PROVE LoopInv'
    OBVIOUS
  <1>1. \A n, s : Fits(n, s)' <=> Fits(n, s)
    BY FitsStable DEF Skip
  <1>2. wanted \in Nat /\ wanted >= 1
    BY WantedPositive DEF Skip
  <1>3. CASE ReadsTaken /\ block < blocks
    <2>1. ~ Fits(wanted, block)
      BY <1>2, <1>3, HeapAssumption DEF LoopInv, SearchTypeOK, Fits, ReadsTaken
    <2>2. NoFitBelow(block + 1)
      BY <2>1, HeapAssumption DEF LoopInv, SearchTypeOK, NoFitBelow, Skip
    <2> QED
      BY <1>1, <1>3, <2>2, HeapAssumption
      DEF LoopInv, SearchTypeOK, NoFitBelow, Skip
  <1>4. CASE ~ (ReadsTaken /\ block < blocks)
    BY <1>1, <1>2, <1>4, HeapAssumption
    DEF LoopInv, SearchTypeOK, NoFitBelow, Skip
  <1> QED
    BY <1>3, <1>4

\* A run of free blocks that ends too early rules out every start inside it.
LEMMA CountInv == LoopInv /\ Count => LoopInv'
  <1> SUFFICES ASSUME LoopInv, Count PROVE LoopInv'
    OBVIOUS
  <1>1. /\ \A n, s : Fits(n, s)' <=> Fits(n, s)
        /\ \A b : Taken(b)' <=> Taken(b)
    BY FitsStable DEF Count
  <1>2. wanted \in Nat /\ wanted >= 1
    BY WantedPositive DEF Count
  <1>3. CASE CountGoesOn
    BY <1>1, <1>2, <1>3, HeapAssumption
    DEF LoopInv, SearchTypeOK, NoFitBelow, Count, CountGoesOn
  <1>4. CASE ~ CountGoesOn /\ blocks_found = wanted
    BY <1>1, <1>2, <1>4 DEF LoopInv, SearchTypeOK, NoFitBelow, Count
  <1>5. CASE ~ CountGoesOn /\ blocks_found # wanted
    <2>1. /\ blocks_found < wanted
          /\ block = blocks \/ Taken(block)
      BY <1>2, <1>5, HeapAssumption
      DEF LoopInv, SearchTypeOK, Count, CountGoesOn
    <2>2. ASSUME NEW s \in start .. block, Fits(wanted, s) PROVE FALSE
      <3>1. block \in s .. s + wanted - 1
        BY <1>2, <2>1, HeapAssumption DEF LoopInv, SearchTypeOK, Count
      <3> QED
        BY <2>1, <2>2, <3>1, HeapAssumption DEF Fits, Block
    <2>3. NoFitBelow(block)
      BY <2>2, HeapAssumption DEF LoopInv, SearchTypeOK, NoFitBelow, Count
    <2> QED
      BY <1>1, <1>2, <1>5, <2>3, HeapAssumption
      DEF LoopInv, SearchTypeOK, NoFitBelow, Count
  <1> QED
    BY <1>3, <1>4, <1>5

\* The loop invariant of heap_alloc.
THEOREM SearchInvariant == SearchSpec => []LoopInv
  <1>1. LoopInv /\ [SearchNext]_searchVars => LoopInv'
    <2> SUFFICES ASSUME LoopInv, [SearchNext]_searchVars PROVE LoopInv'
      OBVIOUS
    <2>1. CASE UNCHANGED searchVars
      BY <2>1 DEF searchVars, search, vars, LoopInv, SearchTypeOK, NoFitBelow,
         Fits, Taken
    <2>2. CASE Found \/ Err
      BY <2>2 DEF Found, Err, LoopInv, SearchTypeOK
    <2>3. CASE \E ptr \in Pointer : Free(ptr)
      BY <2>3 DEF Free, search, LoopInv, SearchTypeOK
    <2> QED
      BY <2>1, <2>2, <2>3, AllocStartInv, OuterInv, SkipInv, CountInv
      DEF SearchNext
  <1> QED
    BY <1>1, SearchInitInv, PTL DEF SearchSpec

\* The loops of heap_alloc stop at the lowest run of free blocks that is long
\* enough, and report failure only when there is none.
LEMMA LoopInvFirstFit == LoopInv => SearchIsFirstFit
  <1> SUFFICES ASSUME LoopInv PROVE SearchIsFirstFit
    OBVIOUS
  <1>1. CASE pc = "found"
    <2>1. wanted \in Nat /\ wanted >= 1
      BY <1>1, WantedPositive
    <2> QED
      BY <1>1, <2>1, HeapAssumption
      DEF LoopInv, SearchTypeOK, NoFitBelow, Fits, Block, FirstFit,
          SearchIsFirstFit
  <1>2. CASE pc = "err"
    BY <1>2, HeapAssumption
    DEF LoopInv, SearchTypeOK, NoFitBelow, Block, SearchIsFirstFit
  <1> QED
    BY <1>1, <1>2 DEF SearchIsFirstFit

\* The counting loop is entered at a free block.
FreshCount ==
    pc = "count" /\ blocks_found = 0 => block < blocks /\ ~ Taken(block)

\* How many loop tests heap_alloc has left at most: four for every block, as a block
\* that ends a run that is too short is seen by all three loops and counted once.
SearchLeft ==
    IF pc = "idle" THEN 0
    ELSE IF pc \in {"found", "err"} THEN 1
    ELSE 4 * (blocks - block)
           + (IF pc = "outer" THEN 4
              ELSE IF pc = "skip" THEN 3
              ELSE IF blocks_found = 0 THEN 2 ELSE 5)

\* Every step of a search is one less to go.
SearchAdvances == pc # "idle" => SearchLeft' < SearchLeft

\* The counting loop is entered only from the loop that skips taken blocks.
LEMMA FreshCountInv ==
    ASSUME LoopInv, FreshCount, [SearchNext]_searchVars PROVE FreshCount'
  <1>1. CASE Skip
    <2>1. \A b : Taken(b)' <=> Taken(b)
      BY <1>1, FitsStable DEF Skip
    <2>. QED
      BY <1>1, <2>1, HeapAssumption
      DEF Skip, ReadsTaken, FreshCount, LoopInv, SearchTypeOK
  <1>2. CASE Count
    BY <1>2 DEF Count, FreshCount, LoopInv, SearchTypeOK
  <1>3. CASE UNCHANGED searchVars
    BY <1>3 DEF searchVars, vars, search, FreshCount, Taken
  <1>4. ASSUME NEW size \in Size, AllocStart(size) PROVE FreshCount'
    BY <1>4 DEF AllocStart, search, FreshCount
  <1>5. ASSUME NEW ptr \in Pointer, Free(ptr) PROVE FreshCount'
    BY <1>5 DEF Free, search, FreshCount
  <1>6. CASE Outer \/ Found \/ Err
    BY <1>6 DEF Outer, Found, Err, FreshCount
  <1>. QED
    BY <1>1, <1>2, <1>3, <1>4, <1>5, <1>6 DEF SearchNext

\* The bound on the loop tests is one.
LEMMA SearchLeftType ==
    ASSUME LoopInv PROVE SearchLeft \in 0 .. 4 * blocks + 4
  <1>1. blocks \in Nat /\ block \in 0 .. blocks /\ blocks_found \in Nat
    BY HeapAssumption DEF LoopInv, SearchTypeOK
  <1>2. CASE pc = "count" /\ blocks_found # 0
    <2>1. block >= 1
      BY <1>1, <1>2 DEF LoopInv, SearchTypeOK
    <2>. QED
      BY <1>1, <1>2, <2>1 DEF SearchLeft
  <1>. QED
    BY <1>1, <1>2, HeapAssumption DEF SearchLeft, LoopInv, SearchTypeOK

\* A loop test either passes a block or goes on to the next loop, which will.
LEMMA SearchStepAdvances ==
    ASSUME LoopInv, FreshCount, SearchNext, pc # "idle" PROVE SearchLeft' < SearchLeft
  <1>1. blocks \in Nat /\ block \in 0 .. blocks /\ blocks_found \in Nat
    BY HeapAssumption DEF LoopInv, SearchTypeOK
  <1>2. wanted \in Nat /\ wanted >= 1
    BY WantedPositive
  <1>3. CASE Outer
    BY <1>1, <1>3 DEF Outer, SearchLeft
  <1>4. CASE Skip
    BY <1>1, <1>4 DEF Skip, SearchLeft
  <1>5. CASE Count
    <2>1. CASE CountGoesOn
      BY <1>1, <1>5, <2>1 DEF Count, CountGoesOn, SearchLeft
    <2>2. CASE ~ CountGoesOn
      <3>1. blocks_found # 0
        BY <1>1, <1>2, <1>5, <2>2 DEF Count, CountGoesOn, FreshCount
      <3>. QED
        BY <1>1, <1>5, <2>2, <3>1 DEF Count, SearchLeft
    <2>. QED
      BY <2>1, <2>2
  <1>6. CASE Found \/ Err
    BY <1>6 DEF Found, Err, SearchLeft
  <1>. QED
    BY <1>3, <1>4, <1>5, <1>6 DEF SearchNext, AllocStart, Free

\* heap_alloc's three nested loops end after at most four tests for every block of
\* the table and four more, for every table and request.
THEOREM SearchIsBounded ==
    SearchSpec => [](SearchLeft \in 0 .. 4 * blocks + 4) /\ [][SearchAdvances]_searchVars
  <1>1. SearchInit => FreshCount
    BY DEF SearchInit, FreshCount
  <1>2. LoopInv /\ FreshCount /\ [SearchNext]_searchVars => FreshCount'
    BY FreshCountInv
  <1>3. LoopInv => SearchLeft \in 0 .. 4 * blocks + 4
    BY SearchLeftType
  <1>4. LoopInv /\ FreshCount /\ [SearchNext]_searchVars => [SearchAdvances]_searchVars
    BY SearchStepAdvances DEF SearchAdvances
  <1>. QED
    BY <1>1, <1>2, <1>3, <1>4, SearchInvariant, PTL DEF SearchSpec

\* The search loops of heap_alloc return what FirstFit defines, after any
\* sequence of allocations and frees.
THEOREM SearchFindsFirstFit == SearchSpec => []SearchIsFirstFit
  BY LoopInvFirstFit, SearchInvariant, PTL

\* The loops of heap_alloc read at most one entry past the table.
THEOREM SearchReadsStayInTable == SearchSpec => []ReadsStayInTable
  <1>1. LoopInv => ReadsStayInTable
    BY DEF LoopInv, SearchTypeOK, ReadsStayInTable
  <1> QED
    BY <1>1, SearchInvariant, PTL

-----------------------------------------------------------------------------
(* heap_alloc with its loops implements heap_alloc in one step.              *)

\* The region marked by heap_alloc after its loops is the one it would mark if
\* the search were a single step.
LEMMA FoundIsAlloc ==
    ASSUME LoopInv, Found PROVE \E size \in Size : heap_alloc(size)
  <1>1. PICK size \in Size : size # 0 /\ wanted = alloc_blocks(size)
    BY DEF LoopInv, Found
  <1>2. wanted \in Nat /\ wanted >= 1
    BY WantedPositive DEF Found
  <1>3. FirstFit(wanted, start) /\ block = start + wanted
    BY LoopInvFirstFit DEF Found, SearchIsFirstFit
  <1>4. start \in Block /\ block - 1 = start + wanted - 1
    BY <1>2, <1>3, HeapAssumption DEF LoopInv, SearchTypeOK, FirstFit, Fits
  <1> QED
    BY <1>1, <1>3, <1>4 DEF Found, heap_alloc

\* heap_alloc fails after its loops only when it would fail in one step.
LEMMA ErrIsAlloc ==
    ASSUME LoopInv, Err PROVE \E size \in Size : heap_alloc(size)
  <1>1. PICK size \in Size : size # 0 /\ wanted = alloc_blocks(size)
    BY DEF LoopInv, Err
  <1>2. \A s \in Block : ~ Fits(wanted, s)
    BY LoopInvFirstFit DEF Err, SearchIsFirstFit
  <1> QED
    BY <1>1, <1>2 DEF Err, heap_alloc

\* Every behaviour of the heap with its search loops is one of module Heap.
THEOREM SearchImplementsHeap == SearchSpec => Spec
  <1>1. SearchInit => Init
    BY DEF SearchInit
  <1>2. LoopInv /\ [SearchNext]_searchVars => [Next]_vars
    <2> SUFFICES ASSUME LoopInv, [SearchNext]_searchVars PROVE [Next]_vars
      OBVIOUS
    <2>1. CASE UNCHANGED vars
      BY <2>1
    <2>2. ASSUME NEW size \in Size, AllocStart(size) PROVE [Next]_vars
      BY <2>1, <2>2 DEF AllocStart, Next, heap_alloc
    <2>3. CASE Outer \/ Skip \/ Count
      BY <2>1, <2>3 DEF Outer, Skip, Count
    <2>4. CASE Found \/ Err
      BY <2>4, FoundIsAlloc, ErrIsAlloc DEF Next
    <2>5. ASSUME NEW ptr \in Pointer, Free(ptr) PROVE [Next]_vars
      BY <2>5 DEF Free, Next
    <2> QED
      BY <2>1, <2>2, <2>3, <2>4, <2>5 DEF SearchNext, searchVars
  <1> QED
    BY <1>1, <1>2, SearchInvariant, PTL DEF SearchSpec, Spec

\* So the heap with its loops keeps its table, its counter and its regions in
\* step, and implements the region allocator.
THEOREM SearchKeepsHeap ==
    SearchSpec =>
       /\ [](TypeOK /\ TableMatchesRegions /\ FreeBlocksExact)
       /\ ImplementsRegionAllocator
  <1>1. IInv => TypeOK /\ TableMatchesRegions /\ FreeBlocksExact
    BY DEF IInv
  <1> QED
    BY <1>1, SearchImplementsHeap, HeapInvariant, HeapRefinesRegions, PTL
=============================================================================
