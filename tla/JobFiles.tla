------------------------------ MODULE JobFiles ------------------------------
(***************************************************************************)
(* Descriptors of jobs: job_add_file and job_get_file of kernel/mp/job.c   *)
(* and the system calls open and get of kernel/exceptions/exceptions.c     *)
(* that use them.  fs->open takes an inode of inode_slab for every open,   *)
(* or yields NULL when none is left; no call closes a descriptor, and      *)
(* job_delete leaves the inodes of the job allocated.  Only spawn closes   *)
(* what it opens: the inode of the program it loads.                       *)
(***************************************************************************)
EXTENDS Integers, FiniteSets

CONSTANTS
    Job, Inode, NULL,
    JOB_MAX_FILES

ASSUME JobFilesAssumption ==
    /\ JOB_MAX_FILES \in Nat \ {0}
    /\ NULL \notin Inode
    /\ IsFiniteSet(Inode)

Slot == 0 .. JOB_MAX_FILES - 1

VARIABLES
    alive,              \* jobs that exist
    inodes,             \* slots of inode_slab in use
    loading,            \* the inode that spawn reads from, or NULL
    open_files, open_files_count

vars == <<alive, inodes, loading, open_files, open_files_count>>

Init ==
    /\ alive = {}
    /\ inodes = {}
    /\ loading = NULL
    /\ open_files = [j \in Job |-> [k \in Slot |-> NULL]]
    /\ open_files_count = [j \in Job |-> 0]

\* fs_allocate_inode, mutated: an inode in use is handed out again.
AllocateAny(inode) == inode \in Inode /\ inodes' = inodes \cup {inode}

\* fs_allocate_inode, of inode_slab (module Slab).
fs_allocate_inode(inode) ==
    \/ inode \in Inode \ inodes /\ inodes' = inodes \cup {inode}
    \/ inodes = Inode /\ inode = NULL /\ UNCHANGED inodes

\* job_create, mutated: the descriptors of the slot's last job are kept.
CreateKeepsFiles(j) ==
    /\ j \notin alive
    /\ alive' = alive \cup {j}
    /\ open_files_count' = [open_files_count EXCEPT ![j] = 0]
    /\ UNCHANGED open_files

\* The end of job_create: no file is open.
job_create(j) ==
    /\ j \notin alive
    /\ alive' = alive \cup {j}
    /\ open_files' = [open_files EXCEPT ![j] = [k \in Slot |-> NULL]]
    /\ open_files_count' = [open_files_count EXCEPT ![j] = 0]

\* exceptions_internal_spawn, and boot, open the file of a program; calls of other
\* jobs wait until it is loaded.
spawn_open(inode) ==
    /\ loading = NULL
    /\ fs_allocate_inode(inode)
    /\ loading' = inode
    /\ UNCHANGED <<alive, open_files, open_files_count>>

\* fs_inode_close, then job_create.
spawn_end(j) ==
    /\ loading # NULL
    /\ inodes' = inodes \ {loading}
    /\ loading' = NULL
    /\ job_create(j)

\* A tick can delete a job while another one spawns.
job_delete(j) ==
    /\ j \in alive
    /\ alive' = alive \ {j}
    /\ UNCHANGED <<inodes, loading, open_files, open_files_count>>

\* job_add_file's search: the first slot that holds no inode.
FirstFree(j, fd) ==
    /\ open_files[j][fd] = NULL
    /\ \A k \in 0 .. fd - 1 : open_files[j][k] # NULL

\* job_add_file, mutated: the count is not raised.
AddWithoutCount(j, inode, fd) ==
    /\ fd \in Slot /\ FirstFree(j, fd)
    /\ open_files' = [open_files EXCEPT ![j][fd] = inode]
    /\ UNCHANGED open_files_count

\* job_add_file, with result fd: the limit is tested on the count, the search on
\* the slots.
job_add_file(j, inode, fd) ==
    \/ /\ open_files_count[j] >= JOB_MAX_FILES
       /\ fd = -1
       /\ UNCHANGED <<open_files, open_files_count>>
    \/ /\ open_files_count[j] < JOB_MAX_FILES
       /\ fd \in Slot /\ FirstFree(j, fd)
       /\ open_files' = [open_files EXCEPT ![j][fd] = inode]
       /\ open_files_count' = [open_files_count EXCEPT ![j] = @ + 1]

\* exceptions_internal_open, with the inode of fs->open.  An inode that finds no
\* descriptor stays in use.
open(j, inode, fd) ==
    /\ j \in alive /\ loading = NULL
    /\ fs_allocate_inode(inode)
    /\ job_add_file(j, inode, fd)
    /\ UNCHANGED <<alive, loading>>

\* The inode that exceptions_internal_get reads; NULL: its result is -1.
job_get_file(j, fd) ==
    IF fd < 0 \/ fd >= open_files_count[j] THEN NULL ELSE open_files[j][fd]

Next ==
    \/ \E inode \in Inode \cup {NULL} : spawn_open(inode)
    \/ \E j \in Job :
        \/ spawn_end(j) \/ job_delete(j)
        \/ \E inode \in Inode \cup {NULL}, fd \in Slot \cup {-1} : open(j, inode, fd)

Spec == Init /\ [][Next]_vars

-----------------------------------------------------------------------------
(***************************************************************************)
(* Properties.                                                             *)
(***************************************************************************)
TypeOK ==
    /\ alive \subseteq Job
    /\ inodes \subseteq Inode
    /\ loading \in inodes \cup {NULL}
    /\ open_files \in [Job -> [Slot -> Inode \cup {NULL}]]
    /\ open_files_count \in [Job -> 0 .. JOB_MAX_FILES]

\* No two descriptors, of one job or of two, refer to one inode, and what they
\* refer to is allocated and not what spawn is about to close: the position a job
\* reads at is its own, also in a slot of job_slab that another job had before.
DescriptorsPrivate ==
    \A j, k \in alive : \A a, b \in Slot :
        open_files[j][a] # NULL =>
          /\ open_files[j][a] \in inodes \ {loading}
          /\ open_files[j][a] = open_files[k][b] => j = k /\ a = b

\* job_add_file tests the count and searches the slots; with the count below
\* the limit there is a slot for the search to find before the array ends, also
\* after opens that got no inode (which take a count and no slot).
SearchEndsInArray ==
    \A j \in alive : open_files_count[j] < JOB_MAX_FILES =>
        \E fd \in Slot : open_files[j][fd] = NULL

\* job_get_file tests its argument against the count: every descriptor that
\* holds an inode passes the test, so no open file is out of reach.
OpenFilesReachable ==
    \A j \in alive : \A fd \in Slot :
        open_files[j][fd] # NULL => job_get_file(j, fd) = open_files[j][fd]
=============================================================================
