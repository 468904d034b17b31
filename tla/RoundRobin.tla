----------------------------- MODULE RoundRobin -----------------------------
(***************************************************************************)
(* What the chain of jobs promises the scheduler: a queue whose head runs. *)
(* A tick sends the head to the back, finished jobs that reach the head    *)
(* leave, and a new job is the next to run.  No other job changes place.   *)
(***************************************************************************)
EXTENDS Integers, Sequences, FiniteSets

CONSTANT Job

VARIABLES
    queue,        \* the jobs, the one that runs first
    finished,     \* the jobs of the queue that have terminated
    phase         \* "idle", "scan" (a tick), "hung" or "lost"

vars == <<queue, finished, phase>>

Queued == {queue[i] : i \in 1 .. Len(queue)}

Init ==
    /\ queue = <<>>
    /\ finished = {}
    /\ phase = "idle"

Create ==
    /\ phase = "idle"
    /\ \E job \in Job \ Queued :
         queue' = IF queue = <<>> THEN <<job>>
                  ELSE <<Head(queue), job>> \o Tail(queue)
    /\ UNCHANGED <<finished, phase>>

\* A job too many: nothing is promised from here on.
Overflow ==
    /\ phase = "idle"
    /\ Queued = Job
    /\ phase' = "lost"
    /\ queue' = <<>>
    /\ finished' = {}

Finish ==
    /\ phase = "idle"
    /\ queue # <<>>
    /\ finished' = finished \cup {Head(queue)}
    /\ UNCHANGED <<queue, phase>>

Rotate ==
    /\ phase = "idle"
    /\ queue # <<>>
    /\ queue' = Append(Tail(queue), Head(queue))
    /\ phase' = "scan"
    /\ UNCHANGED finished

Leave ==
    /\ phase = "scan"
    /\ Head(queue) \in finished
    /\ \/ /\ Len(queue) = 1
          /\ phase' = "hung"
          /\ UNCHANGED <<queue, finished>>
       \/ /\ Len(queue) > 1
          /\ queue' = Tail(queue)
          /\ finished' = finished \ {Head(queue)}
          /\ UNCHANGED phase

Settle ==
    /\ phase = "scan"
    /\ Head(queue) \notin finished
    /\ phase' = "idle"
    /\ UNCHANGED <<queue, finished>>

Next == Create \/ Overflow \/ Finish \/ Rotate \/ Leave \/ Settle

Spec == Init /\ [][Next]_vars
=============================================================================
