----------------------------- MODULE HeapSearch -----------------------------
(***************************************************************************)
(* heap_alloc of kernel/alloc/heap.c with its search loops taken one loop  *)
(* test at a time, on the table that heap_alloc and heap_free (module      *)
(* Heap) keep.  Module Heap has the search as one step, FirstFit: here the *)
(* loops are shown to stop, and to stop where FirstFit says.               *)
(*                                                                         *)
(* The first inner loop reads *block before it tests block < last_block,   *)
(* so it reads the byte after the table; nothing is known of it.           *)
(***************************************************************************)
EXTENDS Heap

VARIABLES
    past,          \* whether the byte after the table has TAKEN set
    pc,            \* the loop test that is next; "idle": no search
    wanted,        \* heap_alloc's alloc_blocks
    block, start, blocks_found

search == <<pc, wanted, block, start, blocks_found>>
searchVars == <<vars, past, search>>

SearchInit ==
    /\ Init
    /\ past \in BOOLEAN
    /\ pc = "idle" /\ wanted = 1
    /\ block = 0 /\ start = 0 /\ blocks_found = 0

\* *block & HEAP_BLOCK_TAKEN
ReadsTaken == IF block = blocks THEN past ELSE Taken(block)

\* heap_alloc up to its loops.
AllocStart(size) ==
    /\ pc = "idle"
    /\ \/ /\ size = 0
          /\ got' = NULL
          /\ UNCHANGED <<table, free_blocks, regions, search>>
       \/ /\ size # 0
          /\ wanted' = alloc_blocks(size)
          /\ block' = 0 /\ start' = 0 /\ blocks_found' = 0
          /\ pc' = "outer"
          /\ UNCHANGED vars
    /\ UNCHANGED past

\* while (block < last_block)
Outer ==
    /\ pc = "outer"
    /\ pc' = IF block < blocks THEN "skip" ELSE "err"
    /\ UNCHANGED <<vars, past, wanted, block, start, blocks_found>>

\* The first inner loop, mutated: the bound is not tested.
SkipUnbounded ==
    /\ pc = "skip"
    /\ \/ /\ ReadsTaken
          /\ block' = block + 1
          /\ UNCHANGED <<pc, start, blocks_found>>
       \/ /\ ~ ReadsTaken
          /\ start' = block
          /\ blocks_found' = 0
          /\ pc' = "count"
          /\ UNCHANGED block
    /\ UNCHANGED <<vars, past, wanted>>

\* The first inner loop passes taken blocks; the code after it gives up at the
\* end of the table and otherwise starts to count.
Skip ==
    /\ pc = "skip"
    /\ \/ /\ ReadsTaken /\ block < blocks
          /\ block' = block + 1
          /\ UNCHANGED <<pc, start, blocks_found>>
       \/ /\ ~ (ReadsTaken /\ block < blocks)
          /\ start' = block
          /\ blocks_found' = 0
          /\ pc' = IF block = blocks THEN "err" ELSE "count"
          /\ UNCHANGED block
    /\ UNCHANGED <<vars, past, wanted>>

CountGoesOn ==
    /\ blocks_found < wanted
    /\ block < blocks
    /\ ~ Taken(block)

\* The second inner loop, mutated: one block too few will do.
CountOneLess ==
    /\ pc = "count"
    /\ \/ /\ CountGoesOn
          /\ block' = block + 1
          /\ blocks_found' = blocks_found + 1
          /\ UNCHANGED pc
       \/ /\ ~ CountGoesOn
          /\ pc' = IF blocks_found + 1 >= wanted THEN "found"
                   ELSE IF block = blocks THEN "err" ELSE "outer"
          /\ UNCHANGED <<block, blocks_found>>
    /\ UNCHANGED <<vars, past, wanted, start>>

\* The second inner loop, mutated: after a run that is too short, the search
\* goes back to where that run began.
CountGoesBack ==
    /\ pc = "count"
    /\ \/ /\ CountGoesOn
          /\ block' = block + 1
          /\ blocks_found' = blocks_found + 1
          /\ UNCHANGED pc
       \/ /\ ~ CountGoesOn
          /\ pc' = IF blocks_found = wanted THEN "found"
                   ELSE IF block = blocks THEN "err" ELSE "outer"
          /\ block' = IF blocks_found = wanted THEN block ELSE start
          /\ UNCHANGED blocks_found
    /\ UNCHANGED <<vars, past, wanted, start>>

\* The second inner loop counts free blocks up to wanted; after it the search
\* succeeds, gives up at the end of the table, or looks for another start.
Count ==
    /\ pc = "count"
    /\ \/ /\ CountGoesOn
          /\ block' = block + 1
          /\ blocks_found' = blocks_found + 1
          /\ UNCHANGED pc
       \/ /\ ~ CountGoesOn
          /\ pc' = IF blocks_found = wanted THEN "found"
                   ELSE IF block = blocks THEN "err" ELSE "outer"
          /\ UNCHANGED <<block, blocks_found>>
    /\ UNCHANGED <<vars, past, wanted, start>>

\* The region start .. block - 1 is marked and returned ...
Found ==
    /\ pc = "found"
    /\ mark_region_taken(start, block - 1)
    /\ free_blocks' = free_blocks - wanted
    /\ got' = BlockAddress(start)
    /\ regions' = regions \cup {[first |-> start, last |-> block - 1]}
    /\ pc' = "idle"
    /\ UNCHANGED <<past, wanted, block, start, blocks_found>>

\* ... or there is none.
Err ==
    /\ pc = "err"
    /\ got' = NULL
    /\ pc' = "idle"
    /\ UNCHANGED <<table, free_blocks, regions, past, wanted, block, start, blocks_found>>

\* heap_free does not run during a search: the tick, whose job_forward calls
\* it, is masked in system calls except in the wait for the disk, and has no
\* handler until boot is over.
Free(ptr) ==
    /\ pc = "idle"
    /\ heap_free(ptr)
    /\ UNCHANGED <<past, search>>

SearchNext ==
    \/ \E size \in Size : AllocStart(size)
    \/ Outer \/ Skip \/ Count \/ Found \/ Err
    \/ \E ptr \in Pointer : Free(ptr)

SearchSpec == SearchInit /\ [][SearchNext]_searchVars

\* Nothing waits here, and an interrupt returns to the loop.
FairSearchSpec ==
    SearchSpec /\ WF_searchVars(Outer \/ Skip \/ Count \/ Found \/ Err)

-----------------------------------------------------------------------------
(***************************************************************************)
(* Properties.                                                             *)
(***************************************************************************)

\* heap_alloc marks start .. block - 1: that is the lowest run of wanted free
\* blocks; and it returns NULL only when there is no such run, whatever the
\* byte past the table holds.
SearchIsFirstFit ==
    /\ pc = "found" => FirstFit(wanted, start) /\ block = start + wanted
    /\ pc = "err" => \A s \in Block : ~ Fits(wanted, s)

\* The loops read the table and the one entry after it, never beyond.
ReadsStayInTable == block \in 0 .. blocks

\* The three nested loops come to an end for every table and every request.
SearchStops == (pc # "idle") ~> (pc = "idle")
=============================================================================
