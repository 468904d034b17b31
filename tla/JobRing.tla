------------------------------ MODULE JobRing -------------------------------
(***************************************************************************)
(* The chain of jobs of kernel/mp/job.c: a circular singly linked list     *)
(* through job->next, entered at current_job, whose nodes are objects of   *)
(* job_slab.  The loop of job_forward is taken one iteration at a time,    *)
(* job_delete as one step.  Which free slot slab_allocate picks does not   *)
(* matter here (module Slab: it implements an object pool).                *)
(*                                                                         *)
(* No code sets a job's status to SLEEPING, so that branch of job_forward  *)
(* is never taken and the model leaves it out.                             *)
(***************************************************************************)
EXTENDS Integers, FiniteSets

CONSTANTS
    Job,           \* the slots of job_slab
    NULL

ASSUME JobAssumption ==
    /\ Job # {} /\ IsFiniteSet(Job)
    /\ NULL \notin Job

RUNNING == "RUNNING"
TERMINATED == "TERMINATED"

VARIABLES
    alloc,         \* slots of job_slab in use
    next, status,  \* the fields of every slot; stale in a slot not in use
    current_job,
    phase,         \* where the kernel is with respect to the chain
    overrun        \* history: job_create ran with job_slab full

vars == <<alloc, next, status, current_job, phase, overrun>>

(***************************************************************************)
(* "idle": outside the functions of the chain.  "scan": in the loop of     *)
(* job_forward.  "hung": in the while (1) of job_delete.  "wild":          *)
(* current_job is NULL and is about to be dereferenced.                    *)
(***************************************************************************)
Phase == {"idle", "scan", "hung", "wild"}

Init ==
    /\ alloc = {}
    /\ next = [j \in Job |-> NULL]
    /\ status = [j \in Job |-> TERMINATED]
    /\ current_job = NULL
    /\ phase = "idle"
    /\ overrun = FALSE

\* job_create's insertion, mutated: the new job is not linked to the rest.
InsertWithoutLink(job) ==
    /\ next' = [next EXCEPT ![current_job] = job, ![job] = current_job]
    /\ UNCHANGED current_job

\* job_create's insertion after the current job.
Insert(job) ==
    /\ next' = [next EXCEPT ![current_job] = job, ![job] = next[current_job]]
    /\ UNCHANGED current_job

\* job_create: the first job points at itself, a later one follows the
\* current job.  With job_slab full, job is NULL: its fields are lost (address
\* 0 is flash), but current_job->next is set to it.
job_create ==
    /\ phase = "idle"
    /\ \/ \E job \in Job \ alloc :
            /\ alloc' = alloc \cup {job}
            /\ status' = [status EXCEPT ![job] = RUNNING]
            /\ \/ /\ current_job = NULL
                  /\ current_job' = job
                  /\ next' = [next EXCEPT ![job] = job]
               \/ /\ current_job # NULL
                  /\ Insert(job)
            /\ UNCHANGED overrun
       \/ /\ alloc = Job
          /\ next' = [next EXCEPT ![current_job] = NULL]
          /\ overrun' = TRUE
          /\ UNCHANGED <<alloc, status, current_job>>
    /\ UNCHANGED phase

job_terminate ==
    /\ phase = "idle"
    /\ current_job # NULL
    /\ status' = [status EXCEPT ![current_job] = TERMINATED]
    /\ UNCHANGED <<alloc, next, current_job, phase, overrun>>

\* job_forward: the step before its loop.
ForwardStart ==
    /\ phase = "idle"
    /\ current_job # NULL
    /\ current_job' = next[current_job]
    /\ phase' = IF next[current_job] = NULL THEN "wild" ELSE "scan"
    /\ UNCHANGED <<alloc, next, status, overrun>>

\* job_delete(current_job), mutated: the predecessor keeps pointing at the job.
DeleteWithoutUnlink ==
    \/ /\ next[current_job] = current_job
       /\ phase' = "hung"
       /\ UNCHANGED <<alloc, next, current_job>>
    \/ /\ next[current_job] # current_job
       /\ alloc' = alloc \ {current_job}
       /\ current_job' = next[current_job]
       /\ UNCHANGED <<next, phase>>

\* job_delete(current_job): the walk finds the job's predecessor in the chain;
\* with one job in the chain the kernel stops for good.
job_delete ==
    \/ /\ next[current_job] = current_job
       /\ phase' = "hung"
       /\ UNCHANGED <<alloc, next, current_job>>
    \/ /\ next[current_job] # current_job
       /\ \E last_ptr \in alloc :
            /\ next[last_ptr] = current_job
            /\ next' = [next EXCEPT ![last_ptr] = next[current_job]]
       /\ alloc' = alloc \ {current_job}
       /\ current_job' = next[current_job]
       /\ UNCHANGED phase

\* job_forward's loop, mutated: running jobs are deleted too.
ForwardDeletesAny ==
    /\ phase = "scan"
    /\ job_delete
    /\ UNCHANGED <<status, overrun>>

\* job_forward: the loop deletes terminated jobs ...
ForwardDelete ==
    /\ phase = "scan"
    /\ status[current_job] = TERMINATED
    /\ job_delete
    /\ UNCHANGED <<status, overrun>>

\* ... and ends at a running one.
ForwardEnd ==
    /\ phase = "scan"
    /\ status[current_job] = RUNNING
    /\ phase' = "idle"
    /\ UNCHANGED <<alloc, next, status, current_job, overrun>>

\* while (1), and what follows a dereference of NULL, of which nothing is known.
Halted ==
    /\ phase \in {"hung", "wild"}
    /\ UNCHANGED vars

Next ==
    \/ job_create
    \/ job_terminate
    \/ ForwardStart
    \/ ForwardDelete
    \/ ForwardEnd
    \/ Halted

Spec == Init /\ [][Next]_vars

(***************************************************************************)
(* The timer is reloaded on every tick, so job_forward runs again and      *)
(* again; its loop runs with FIQ masked, so nothing keeps it from going on.*)
(***************************************************************************)
FairSpec == Spec /\ WF_vars(ForwardStart) /\ WF_vars(ForwardDelete \/ ForwardEnd)

-----------------------------------------------------------------------------
(***************************************************************************)
(* Properties.                                                             *)
(***************************************************************************)

TypeOK ==
    /\ alloc \subseteq Job
    /\ next \in [Job -> Job \cup {NULL}]
    /\ status \in [Job -> {RUNNING, TERMINATED}]
    /\ current_job \in Job \cup {NULL}
    /\ phase \in Phase
    /\ overrun \in BOOLEAN

\* Until job_create overruns job_slab, the chain is one ring through all the
\* jobs in use and no other: next never leaves the jobs in use (no pointer to a
\* freed job), no two jobs share a successor, and no part of the ring is closed
\* on its own, so job_forward reaches every job and job_delete's walk ends.
SingleRing ==
    ~ overrun =>
      /\ current_job = NULL => alloc = {}
      /\ current_job # NULL => current_job \in alloc
      /\ \A j \in alloc : next[j] \in alloc
      /\ \A i, j \in alloc : next[i] = next[j] => i = j
      /\ \A S \in SUBSET alloc :
            S # {} /\ (\A j \in S : next[j] \in S) => S = alloc

\* The scheduler stops only for the two reasons the code has: job_delete was
\* asked to delete the last job of the chain, which had terminated, or
\* job_create had found job_slab full.
HaltsOnlyWhen ==
    /\ phase = "hung" => /\ alloc = {current_job}
                         /\ status[current_job] = TERMINATED
    /\ phase = "wild" => overrun

\* The first n jobs from the job c on, following the links nx.
Follow(n, nx, c) ==
    LET at[i \in 1 .. n] ==
          IF i = 1 THEN c
          ELSE IF at[i - 1] \in Job THEN nx[at[i - 1]] ELSE NULL
    IN  at

\* The jobs from current_job on.
Chain == Follow(Cardinality(alloc), next, current_job)

RR == INSTANCE RoundRobin WITH
         queue <- IF overrun THEN <<>> ELSE Chain,
         finished <- IF overrun THEN {}
                     ELSE {j \in alloc : status[j] = TERMINATED},
         phase <- IF overrun THEN "lost" ELSE phase

\* The chain implements a round-robin queue: creating, terminating, deleting and
\* moving forward through pointers keep the order in which jobs take turns.
ImplementsRoundRobin == RR!Spec

\* A job that has terminated loses its slot: some tick reaches and deletes it
\* (job_forward), unless the kernel has stopped.
TerminatedIsDeleted ==
    \A j \in Job :
        (j \in alloc /\ status[j] = TERMINATED)
            ~> (j \notin alloc \/ phase \in {"hung", "wild"})

\* A running job gets its turn, however many jobs others insert before it
\* (job_create puts every new job next in line), unless the kernel has stopped.
RunningGetsTurn ==
    \A j \in Job :
        (j \in alloc /\ status[j] = RUNNING)
            ~> ((current_job = j /\ phase = "idle") \/ phase \in {"hung", "wild"})
=============================================================================
