------------------------------ MODULE JobSpace ------------------------------
(***************************************************************************)
(* The address spaces of jobs, kernel/mp/job.c: job_create_paging maps     *)
(* pages of the user_space slab, in order, from JOB_BASE_USER on (program, *)
(* then one page of stack); job_delete gives the paging manager back and   *)
(* nothing else.  Both run with FIQ masked: one job is built at a time.    *)
(***************************************************************************)
EXTENDS Paging

CONSTANTS
    blocksize,     \* bytes of a page
    Sizes,         \* p_memsz of the programs
    JOB_BASE_USER, \* a page number
    UserPage       \* the slots of user_space, by page number; none left: page 0

\* Pages for s bytes, mutated: rounded down.
need_slots_down(s) == (s + blocksize) \div blocksize

\* Pages for s bytes and the stack.
need_slots(s) ==
    LET b == s + blocksize
    IN  b \div blocksize + (IF b % blocksize # 0 THEN 1 ELSE 0)

\* The largest int: the p_memsz of a program, 64 bits in the file, is passed to
\* job_create_paging as one, which then adds up to two pages to it.
INT_MAX == 2147483647

\* User pages begin above the two GB of the kernel, and programs end before the
\* address space does and where an int can count their bytes.
ASSUME JobSpaceAssumption ==
    /\ blocksize \in Nat \ {0}
    /\ Sizes \subseteq Nat /\ \A s \in Sizes : s + 2 * blocksize <= INT_MAX
    /\ JOB_BASE_USER \in VA /\ JOB_BASE_USER >= 2 * (Entries * Entries)
    /\ \A s \in Sizes : JOB_BASE_USER .. JOB_BASE_USER + need_slots(s) - 1 \subseteq MapVA
    /\ UserPage \subseteq Nat \ {0}
    /\ PA = UserPage \cup {0}
    /\ <<TRUE, FALSE>> \in Access
    /\ NULL \notin Manager

VARIABLES
    taken,         \* slots of user_space handed out
    live,          \* managers of jobs that exist
    building,      \* the manager being filled, or NULL
    size, i,       \* job_create_paging's size argument, loop counter
    memsz,         \* history: p_memsz of the program of every manager
    exhausted      \* history: a page was asked for and none was left

jobs == <<taken, live, building, size, i, memsz, exhausted>>
allVars == <<vars, jobs>>

JobInit ==
    /\ Init
    /\ taken = {} /\ live = {}
    /\ building = NULL /\ size = 0 /\ i = 0
    /\ memsz = [m \in Manager |-> 0]
    /\ exhausted = FALSE

\* job_create_paging up to its loop.
CreateStart(m, s) ==
    /\ building = NULL
    /\ m \notin live
    /\ paging_manager_create(m)
    /\ building' = m /\ size' = s /\ i' = 0
    /\ memsz' = [memsz EXCEPT ![m] = s]
    /\ UNCHANGED <<taken, live, exhausted>>

\* An iteration, mutated: the slot is not marked as taken.
MapSameSlot ==
    /\ building # NULL
    /\ i < need_slots(size)
    /\ \E slot_phi \in NextSlot(UserPage \ taken) :
         paging_manager_map_page(building, JOB_BASE_USER + i, slot_phi, TRUE, FALSE)
    /\ i' = i + 1
    /\ UNCHANGED <<taken, live, building, size, memsz, exhausted>>

\* An iteration of the loop: a slot is allocated and mapped at the next page.
MapNext ==
    /\ building # NULL
    /\ i < need_slots(size)
    /\ \E slot_phi \in PA :
         /\ \/ slot_phi \in NextSlot(UserPage \ taken)
            \/ slot_phi = 0 /\ taken = UserPage
         /\ taken' = taken \cup ({slot_phi} \cap UserPage)
         /\ exhausted' = (exhausted \/ slot_phi = 0)
         /\ paging_manager_map_page(building, JOB_BASE_USER + i, slot_phi, TRUE, FALSE)
    /\ i' = i + 1
    /\ UNCHANGED <<live, building, size, memsz>>

\* paging_insert_or_alloc goes on.
MapStep == building # NULL /\ Insert /\ UNCHANGED jobs

\* The loop is over.
Mapped ==
    /\ building # NULL
    /\ level = 0 /\ ~ overrun
    /\ i = need_slots(size)

\* The job is created with its stack pointer at the end of its pages.
CreateEnd ==
    /\ Mapped
    /\ live' = live \cup {building}
    /\ building' = NULL
    /\ UNCHANGED <<vars, taken, size, i, memsz, exhausted>>

\* job_delete: kfree(job->paging).
Delete(m) ==
    /\ building = NULL
    /\ m \in live
    /\ live' = live \ {m}
    /\ UNCHANGED <<vars, taken, building, size, i, memsz, exhausted>>

-----------------------------------------------------------------------------
(***************************************************************************)
(* Properties.                                                             *)
(***************************************************************************)

UserMapped(m) == {a \in VA : Translate(m, a).user}

\* No page of memory is in two jobs, nor twice in one, and programs reach pages
\* of user_space only, whatever jobs were created and deleted before; until
\* user_space runs out.
UserPagesPrivate ==
    ~ exhausted =>
      \A m, n \in live : \A a \in UserMapped(m), b \in UserMapped(n) :
         /\ Translate(m, a).to \in UserPage
         /\ Translate(m, a).to = Translate(n, b).to => m = n /\ a = b

\* A job's program reaches the pages from JOB_BASE_USER up to its first stack
\* pointer and no other, and they hold the program and a whole page of stack:
\* no mapping failed, though job_create_paging ignores what map_page returns.
ProgramAndStackMapped ==
    \A m \in live :
      LET top == JOB_BASE_USER + need_slots(memsz[m])
      IN  /\ UserMapped(m) = JOB_BASE_USER .. top - 1
          /\ (top - 1 - JOB_BASE_USER) * blocksize >= memsz[m]

\* The kernel is mapped in every job, as in any other and for EL1 only: an
\* exception finds it whichever job's paging is applied.
KernelInEveryJob ==
    \A m \in live : \A a \in VA :
        l1_offset(a) \in {0, 1} => Translate(m, a) = KernelEntry(a)
=============================================================================
