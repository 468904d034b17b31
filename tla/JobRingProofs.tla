--------------------------- MODULE JobRingProofs ----------------------------
(***************************************************************************)
(* The chain of jobs stays one ring, for every capacity of job_slab, and   *)
(* implements the queue of RoundRobin.  That a ring is a single cycle is   *)
(* said without following pointers: no proper part of it is closed under   *)
(* next, so its invariance needs no induction.  The queue does follow      *)
(* them: it is a recursive function of the steps along the chain.          *)
(***************************************************************************)
EXTENDS JobRing, Sequences, FiniteSetTheorems, TLAPS

\* The functional graph of nx on the set A is one cycle.
OneCycle(A, nx) ==
    /\ \A j \in A : nx[j] \in A
    /\ \A i, j \in A : nx[i] = nx[j] => i = j
    /\ \A S \in SUBSET A : S # {} /\ (\A j \in S : nx[j] \in S) => S = A

\* What holds besides the properties: the loop of job_forward only runs on an
\* intact ring, and after an overrun the current job leads to NULL.
IInv ==
    /\ TypeOK
    /\ SingleRing
    /\ HaltsOnlyWhen
    /\ phase = "scan" => current_job \in alloc /\ ~ overrun
    /\ overrun => /\ alloc = Job
                  /\ phase \in {"idle", "wild"}
                  /\ current_job # NULL => next[current_job] = NULL
    /\ phase = "idle" /\ overrun => current_job # NULL

-----------------------------------------------------------------------------
(* Cycles.                                                                   *)

\* job_create: a node inserted after a node of a cycle gives a longer cycle.
LEMMA InsertKeepsCycle ==
    ASSUME NEW A \in SUBSET Job, NEW nx \in [Job -> Job \cup {NULL}],
           NEW c \in A, NEW job \in Job \ A, OneCycle(A, nx)
    PROVE  OneCycle(A \cup {job}, [nx EXCEPT ![c] = job, ![job] = nx[c]])
  <1> DEFINE ny == [nx EXCEPT ![c] = job, ![job] = nx[c]]
             B == A \cup {job}
  <1>1. /\ ny[c] = job
        /\ ny[job] = nx[c]
        /\ \A j \in A : j # c => ny[j] = nx[j]
        /\ \A j \in A : nx[j] \in A
    BY DEF OneCycle
  <1> HIDE DEF ny
  <1>2. \A j \in B : ny[j] \in B
    BY <1>1
  <1>3. \A i, j \in B : ny[i] = ny[j] => i = j
    BY <1>1 DEF OneCycle
  <1>4. ASSUME NEW S \in SUBSET B, S # {}, \A j \in S : ny[j] \in S
        PROVE  S = B
    <2>1. S \ {job} # {}
      BY <1>1, <1>4
    <2>2. \A j \in S \ {job} : nx[j] \in S \ {job}
      BY <1>1, <1>4
    <2>3. S \ {job} = A
      BY <2>1, <2>2 DEF OneCycle
    <2> QED
      BY <1>1, <1>4, <2>3
  <1> QED
    BY <1>2, <1>3, <1>4 DEF OneCycle, ny

\* job_delete: a node unlinked from a longer cycle leaves a cycle.
LEMMA UnlinkKeepsCycle ==
    ASSUME NEW A \in SUBSET Job, NEW nx \in [Job -> Job \cup {NULL}],
           NEW job \in A, NEW last \in A, nx[last] = job, nx[job] # job,
           OneCycle(A, nx)
    PROVE  OneCycle(A \ {job}, [nx EXCEPT ![last] = nx[job]])
  <1> DEFINE ny == [nx EXCEPT ![last] = nx[job]]
             B == A \ {job}
  <1>1. /\ last # job
        /\ ny[last] = nx[job]
        /\ \A j \in A : j # last => ny[j] = nx[j]
        /\ \A j \in A : nx[j] \in A
        /\ \A j \in A : nx[j] = job => j = last
    BY DEF OneCycle
  <1> HIDE DEF ny
  <1>2. \A j \in B : ny[j] \in B
    BY <1>1
  <1>3. \A i, j \in B : ny[i] = ny[j] => i = j
    BY <1>1 DEF OneCycle
  <1>4. ASSUME NEW S \in SUBSET B, S # {}, \A j \in S : ny[j] \in S
        PROVE  S = B
    <2>1. CASE last \in S
      <3>1. \A j \in S \cup {job} : nx[j] \in S \cup {job}
        BY <1>1, <1>4, <2>1
      <3>2. /\ S \cup {job} \in SUBSET A
            /\ S \cup {job} # {}
        OBVIOUS
      <3>3. \A T \in SUBSET A : T # {} /\ (\A j \in T : nx[j] \in T) => T = A
        BY DEF OneCycle
      <3>4. S \cup {job} = A
        BY <3>1, <3>2, <3>3
      <3> QED
        BY <3>4
    <2>2. CASE last \notin S
      <3>1. \A j \in S : nx[j] \in S
        BY <1>1, <1>4, <2>2
      <3>2. S = A
        BY <1>4, <3>1 DEF OneCycle
      <3> QED
        BY <3>2
    <2> QED
      BY <2>1, <2>2
  <1> QED
    BY <1>2, <1>3, <1>4 DEF OneCycle, ny

-----------------------------------------------------------------------------
(* The steps.                                                                *)

\* SingleRing, with the cycle named.
LEMMA RingIsCycle ==
    SingleRing <=>
      (~ overrun => /\ current_job = NULL => alloc = {}
                    /\ current_job # NULL => current_job \in alloc
                    /\ OneCycle(alloc, next))
  BY DEF SingleRing, OneCycle

\* Before the first job_create there is no ring.
LEMMA InitIInv == Init => IInv
  BY JobAssumption
  DEF Init, IInv, TypeOK, SingleRing, HaltsOnlyWhen, Phase, RUNNING, TERMINATED

\* job_create inserts a slot that is not in the ring, or overruns it.
LEMMA CreateIInv == IInv /\ job_create => IInv'
  <1> SUFFICES ASSUME IInv, job_create PROVE IInv'
    OBVIOUS
  <1> USE JobAssumption
  <1>1. ASSUME NEW job \in Job \ alloc,
               alloc' = alloc \cup {job},
               status' = [status EXCEPT ![job] = RUNNING],
               current_job = NULL, current_job' = job,
               next' = [next EXCEPT ![job] = job],
               UNCHANGED <<overrun, phase>>
        PROVE  IInv'
    <2>1. ~ overrun /\ phase = "idle" /\ alloc = {}
      BY <1>1 DEF IInv, job_create, SingleRing
    <2>2. TypeOK'
      BY <1>1 DEF IInv, TypeOK, RUNNING
    <2>3. alloc' = {job} /\ next'[job] = job
      BY <1>1, <2>1 DEF IInv, TypeOK
    <2>4. OneCycle(alloc', next')
      BY <2>3 DEF OneCycle
    <2>5. SingleRing'
      BY <1>1, <2>3, <2>4 DEF SingleRing, OneCycle
    <2> QED
      BY <1>1, <2>1, <2>2, <2>5 DEF IInv, HaltsOnlyWhen
  <1>2. ASSUME NEW job \in Job \ alloc,
               alloc' = alloc \cup {job},
               status' = [status EXCEPT ![job] = RUNNING],
               current_job # NULL, Insert(job),
               UNCHANGED <<overrun, phase>>
        PROVE  IInv'
    <2>1. ~ overrun /\ phase = "idle"
      BY <1>2 DEF IInv, job_create
    <2>2. current_job \in alloc /\ OneCycle(alloc, next)
      BY <1>2, <2>1, RingIsCycle DEF IInv
    <2>3. /\ next' = [next EXCEPT ![current_job] = job, ![job] = next[current_job]]
          /\ current_job' = current_job
      BY <1>2 DEF Insert
    <2>4. TypeOK'
      BY <1>2, <2>2, <2>3 DEF IInv, TypeOK, RUNNING
    <2>5. OneCycle(alloc', next')
      BY <1>2, <2>2, <2>3, InsertKeepsCycle DEF IInv, TypeOK
    <2>6. SingleRing'
      BY <1>2, <2>2, <2>3, <2>5 DEF SingleRing, OneCycle
    <2> QED
      BY <1>2, <2>1, <2>3, <2>4, <2>6 DEF IInv, HaltsOnlyWhen
  <1>3. ASSUME alloc = Job, next' = [next EXCEPT ![current_job] = NULL],
               overrun' = TRUE, UNCHANGED <<alloc, status, current_job, phase>>
        PROVE  IInv'
    <2>1. current_job \in Job /\ phase = "idle"
      BY <1>3 DEF IInv, TypeOK, SingleRing, job_create
    <2> QED
      BY <1>3, <2>1 DEF IInv, TypeOK, SingleRing, HaltsOnlyWhen
  <1> QED
    BY <1>1, <1>2, <1>3 DEF job_create

\* job_terminate changes a status and no link.
LEMMA TerminateIInv == IInv /\ job_terminate => IInv'
  BY DEF IInv, TypeOK, SingleRing, HaltsOnlyWhen, job_terminate, TERMINATED

\* job_forward begins at the successor of the current job.
LEMMA ForwardStartIInv == IInv /\ ForwardStart => IInv'
  <1> SUFFICES ASSUME IInv, ForwardStart PROVE IInv'
    OBVIOUS
  <1> USE JobAssumption
  <1>1. CASE overrun
    BY <1>1 DEF IInv, TypeOK, SingleRing, HaltsOnlyWhen, ForwardStart, Phase
  <1>2. CASE ~ overrun
    <2>1. /\ current_job \in alloc
          /\ next[current_job] \in alloc
          /\ next[current_job] # NULL
      BY <1>2 DEF IInv, TypeOK, SingleRing, ForwardStart
    <2> QED
      BY <1>2, <2>1 DEF IInv, TypeOK, SingleRing, HaltsOnlyWhen, ForwardStart, Phase
  <1> QED
    BY <1>1, <1>2 DEF IInv, TypeOK

\* job_delete unlinks the slot that it frees.
LEMMA ForwardDeleteIInv == IInv /\ ForwardDelete => IInv'
  <1> SUFFICES ASSUME IInv, ForwardDelete PROVE IInv'
    OBVIOUS
  <1> USE JobAssumption
  <1>1. /\ phase = "scan" /\ current_job \in alloc /\ ~ overrun
        /\ alloc \subseteq Job
        /\ OneCycle(alloc, next)
        /\ status[current_job] = TERMINATED
        /\ UNCHANGED <<status, overrun>>
    BY RingIsCycle DEF IInv, ForwardDelete, TypeOK
  <1>2. CASE next[current_job] = current_job
    <2>1. /\ phase' = "hung"
          /\ UNCHANGED <<alloc, next, current_job>>
      BY <1>2 DEF ForwardDelete, job_delete
    <2>2. {current_job} = alloc
      <3>1. /\ {current_job} \in SUBSET alloc
            /\ {current_job} # {}
            /\ \A j \in {current_job} : next[j] \in {current_job}
        BY <1>1, <1>2
      <3>2. \A S \in SUBSET alloc :
              S # {} /\ (\A j \in S : next[j] \in S) => S = alloc
        BY <1>1 DEF OneCycle
      <3> QED
        BY <3>1, <3>2
    <2> QED
      BY <1>1, <2>1, <2>2 DEF IInv, TypeOK, SingleRing, HaltsOnlyWhen, Phase
  <1>3. CASE next[current_job] # current_job
    <2>1. PICK last \in alloc :
            /\ next[last] = current_job
            /\ next' = [next EXCEPT ![last] = next[current_job]]
      BY <1>3 DEF ForwardDelete, job_delete
    <2>2. /\ alloc' = alloc \ {current_job}
          /\ current_job' = next[current_job]
          /\ phase' = phase
      BY <1>3 DEF ForwardDelete, job_delete
    <2>3. OneCycle(alloc', next')
      BY <1>1, <1>3, <2>1, <2>2, UnlinkKeepsCycle DEF IInv, TypeOK
    <2>4. current_job' \in alloc' /\ current_job' # NULL
      BY <1>1, <1>3, <2>2 DEF OneCycle
    <2>5. TypeOK'
      BY <1>1, <2>1, <2>2, <2>4 DEF IInv, TypeOK
    <2>6. SingleRing'
      BY <2>3, <2>4 DEF SingleRing, OneCycle
    <2> QED
      BY <1>1, <2>2, <2>4, <2>5, <2>6 DEF IInv, HaltsOnlyWhen
  <1> QED
    BY <1>2, <1>3

\* The walk of job_forward ends at a job that is in use.
LEMMA ForwardEndIInv == IInv /\ ForwardEnd => IInv'
  BY DEF IInv, TypeOK, SingleRing, HaltsOnlyWhen, ForwardEnd, Phase

\* The inductive invariant of the chain of jobs.
THEOREM RingInvariant == Spec => []IInv
  <1>1. IInv /\ UNCHANGED vars => IInv'
    BY DEF vars, IInv, TypeOK, SingleRing, HaltsOnlyWhen
  <1>2. IInv /\ [Next]_vars => IInv'
    BY <1>1, CreateIInv, TerminateIInv, ForwardStartIInv, ForwardDeleteIInv,
       ForwardEndIInv DEF Next, Halted
  <1> QED
    BY <1>2, InitIInv, PTL DEF Spec

-----------------------------------------------------------------------------

\* job_create, job_terminate, job_delete and job_forward keep the chain's
\* pointers and states well typed.
THEOREM RingTypeCorrect == Spec => []TypeOK
  BY RingInvariant, PTL DEF IInv

\* As long as job_slab is not overrun, the chain is a single ring of exactly the
\* jobs in use: job_delete never leaves a pointer to a freed job behind, and
\* job_create never cuts a job off.
THEOREM RingStaysSingle == Spec => []SingleRing
  BY RingInvariant, PTL DEF IInv

\* The scheduler stops only because the last job terminated or because job_slab
\* was overrun.
THEOREM RingHaltsOnlyWhen == Spec => []HaltsOnlyWhen
  BY RingInvariant, PTL DEF IInv

-----------------------------------------------------------------------------
(* Induction.                                                                *)

\* A set of numbers that has 0 and every successor of its members has them all:
\* its members up to one that it lacks would inject into fewer.
LEMMA AllNumbers ==
    ASSUME NEW S \in SUBSET Nat, 0 \in S, \A k \in S : k + 1 \in S
    PROVE  S = Nat
  <1> SUFFICES ASSUME NEW m \in Nat, m \notin S PROVE FALSE
    OBVIOUS
  <1> DEFINE A == S \cap (0 .. m)
             f == [k \in A |-> k + 1]
  <1>1. IsFiniteSet(A)
    <2>1. IsFiniteSet(0 .. m) /\ A \in SUBSET (0 .. m)
      BY FS_Interval
    <2> QED
      BY <2>1, FS_Subset
  <1>2. \A k \in A : k \in Int /\ k + 1 \in A \ {0}
    OBVIOUS
  <1>3. 0 \in A
    OBVIOUS
  <1> HIDE DEF A
  <1>4. f \in Injection(A, A \ {0})
    BY <1>2 DEF Injection, IsInjective
  <1>5. /\ IsFiniteSet(A \ {0}) /\ Cardinality(A \ {0}) = Cardinality(A) - 1
        /\ Cardinality(A) \in Nat
    BY <1>1, <1>3, FS_RemoveElement, FS_CardinalityType
  <1>6. Cardinality(A) <= Cardinality(A \ {0})
    BY <1>4, <1>5, FS_Injection
  <1> QED
    BY <1>5, <1>6

-----------------------------------------------------------------------------
(* Following the chain.                                                      *)

\* q lists n steps of the chain of A from c on.
Steps(q, n, A, nx, c) ==
    /\ q \in [1 .. n -> A]
    /\ n > 0 => q[1] = c
    /\ \A k \in 1 .. n - 1 : q[k + 1] = nx[q[k]]

\* job->next can be followed any number of times.
LEMMA FollowDefined ==
    ASSUME NEW n \in Nat, NEW nx, NEW c
    PROVE  Follow(n, nx, c) =
             [k \in 1 .. n |->
                IF k = 1 THEN c
                ELSE IF Follow(n, nx, c)[k - 1] \in Job
                     THEN nx[Follow(n, nx, c)[k - 1]] ELSE NULL]
  <1> DEFINE After(x) == IF x \in Job THEN nx[x] ELSE NULL
             Is(m, f) == f = [k \in 1 .. m |-> IF k = 1 THEN c ELSE After(f[k - 1])]
             S == {m \in Nat : \E f : Is(m, f)}
  <1> HIDE DEF After
  <1>1. 0 \in S
    <2> DEFINE f == [k \in 1 .. 0 |-> c]
    <2>1. Is(0, f)
      OBVIOUS
    <2> QED
      BY <2>1
  <1>2. ASSUME NEW m \in S PROVE m + 1 \in S
    <2>1. m \in Nat
      OBVIOUS
    <2>2. PICK f : Is(m, f)
      BY <1>2
    <2> DEFINE g == [k \in 1 .. m + 1 |-> IF k = 1 THEN c ELSE After(f[k - 1])]
    <2>3. \A k \in 1 .. m : g[k] = f[k]
      BY <2>1, <2>2
    <2>4. \A k \in 1 .. m + 1 : k # 1 => k - 1 \in 1 .. m
      BY <2>1
    <2>5. Is(m + 1, g)
      <3> HIDE DEF g
      <3>1. \A k \in 1 .. m + 1 : k # 1 => g[k - 1] = f[k - 1]
        BY <2>3, <2>4
      <3> QED
        BY <3>1 DEF g
    <2> QED
      <3> HIDE DEF Is, g
      <3> QED
        BY <2>1, <2>5
  <1>3. S = Nat
    <2> HIDE DEF S
    <2>1. S \in SUBSET Nat
      BY DEF S
    <2> QED
      BY <1>1, <1>2, <2>1, AllNumbers
  <1>4. \E f : Is(n, f)
    BY <1>3
  <1>5. Follow(n, nx, c) = CHOOSE f : Is(n, f)
    BY DEF Follow, After
  <1>6. Is(n, Follow(n, nx, c))
    <2> HIDE DEF Is
    <2> QED
      BY <1>4, <1>5
  <1> QED
    BY <1>6 DEF After

\* Following next from a job in use lists jobs in use.
LEMMA FollowSteps ==
    ASSUME NEW n \in Nat, NEW A \in SUBSET Job, NEW nx, NEW c \in A,
           \A j \in A : nx[j] \in A
    PROVE  Steps(Follow(n, nx, c), n, A, nx, c)
  <1> DEFINE F == Follow(n, nx, c)
             S == {k \in Nat : k \in 1 .. n => F[k] \in A}
  <1>1. F = [k \in 1 .. n |-> IF k = 1 THEN c
                              ELSE IF F[k - 1] \in Job THEN nx[F[k - 1]] ELSE NULL]
    BY FollowDefined
  <1> HIDE DEF F
  <1>2. \A k \in Nat : k + 1 \in 1 .. n =>
          F[k + 1] = IF k = 0 THEN c ELSE IF F[k] \in Job THEN nx[F[k]] ELSE NULL
    BY <1>1
  <1>3. \A k \in S : k + 1 \in S
    <2> TAKE k \in S
    <2>1. CASE k = 0
      BY <1>2, <2>1
    <2>2. CASE k # 0
      BY <1>2, <2>2
    <2> QED
      BY <2>1, <2>2
  <1>4. 0 \in S
    OBVIOUS
  <1>5. S = Nat
    <2> HIDE DEF S
    <2>1. S \in SUBSET Nat
      BY DEF S
    <2> QED
      BY <1>3, <1>4, <2>1, AllNumbers
  <1>6. \A k \in 1 .. n : F[k] \in A
    BY <1>5
  <1>7. F \in [1 .. n -> A]
    BY <1>1, <1>6
  <1>8. n > 0 => F[1] = c
    BY <1>1
  <1>9. \A k \in 1 .. n - 1 : F[k + 1] = nx[F[k]]
    BY <1>2, <1>6
  <1> QED
    BY <1>7, <1>8, <1>9 DEF Steps, F

\* There is one way to follow next.
LEMMA StepsFollow ==
    ASSUME NEW n \in Nat, NEW A \in SUBSET Job, NEW nx, NEW c \in A,
           \A j \in A : nx[j] \in A, NEW q, Steps(q, n, A, nx, c)
    PROVE  q = Follow(n, nx, c)
  <1> DEFINE F == Follow(n, nx, c)
             S == {k \in Nat : k \in 1 .. n => F[k] = q[k]}
  <1>1. Steps(F, n, A, nx, c)
    BY FollowSteps
  <1> HIDE DEF F
  <1>2. \A k \in S : k + 1 \in S
    <2> TAKE k \in S
    <2>1. CASE k = 0
      BY <1>1, <2>1 DEF Steps
    <2>2. CASE k # 0
      BY <1>1, <2>2 DEF Steps
    <2> QED
      BY <2>1, <2>2
  <1>3. 0 \in S
    OBVIOUS
  <1>4. S = Nat
    <2> HIDE DEF S
    <2>1. S \in SUBSET Nat
      BY DEF S
    <2> QED
      BY <1>2, <1>3, <2>1, AllNumbers
  <1>5. \A k \in 1 .. n : F[k] = q[k]
    BY <1>4
  <1>6. F = q
    BY <1>1, <1>5 DEF Steps
  <1> QED
    BY <1>6 DEF F

\* As many steps as the ring has jobs pass every job once and come back.
LEMMA RoundTrip ==
    ASSUME NEW A \in SUBSET Job, IsFiniteSet(A), NEW nx, OneCycle(A, nx), NEW c \in A,
           NEW n, n = Cardinality(A), NEW q, Steps(q, n, A, nx, c)
    PROVE  /\ n \in Nat /\ n > 0
           /\ \A k, l \in 1 .. n : q[k] = q[l] => k = l
           /\ {q[k] : k \in 1 .. n} = A
           /\ nx[q[n]] = c
  <1>1. n \in Nat /\ n > 0
    BY FS_CardinalityType, FS_EmptySet
  <1>2. ASSUME NEW k \in 1 .. n, NEW l \in 1 .. n, q[k] = q[l], k < l
        PROVE  FALSE
    <2> DEFINE T == {q[x] : x \in k .. l - 1}
               g == [x \in k .. l - 1 |-> q[x]]
    <2>1. T \in SUBSET A /\ T # {}
      BY <1>1, <1>2 DEF Steps
    <2>2. \A x \in k .. l - 1 : nx[q[x]] \in T
      <3> TAKE x \in k .. l - 1
      <3>1. x \in 1 .. n - 1 /\ nx[q[x]] = q[x + 1]
        BY <1>1 DEF Steps
      <3>2. CASE x + 1 = l
        BY <1>1, <1>2, <3>1, <3>2
      <3>3. CASE x + 1 # l
        BY <1>1, <3>1, <3>3
      <3> QED
        BY <3>2, <3>3
    <2>3. \A j \in T : nx[j] \in T
      BY <2>2
    <2>4. T = A
      <3> HIDE DEF T
      <3> QED
        BY <2>1, <2>3 DEF OneCycle
    <2>5. g \in Surjection(k .. l - 1, T)
      BY DEF Surjection
    <2>6. /\ IsFiniteSet(k .. l - 1)
          /\ Cardinality(k .. l - 1) = l - k
      BY <1>1, <1>2, FS_Interval
    <2>7. Cardinality(T) <= l - k
      <3> HIDE DEF T, g
      <3> QED
        BY <2>5, <2>6, FS_Surjection
    <2> QED
      <3> HIDE DEF T
      <3> QED
        BY <1>1, <1>2, <2>4, <2>7
  <1>3. \A k, l \in 1 .. n : q[k] = q[l] => k = l
    BY <1>1, <1>2
  <1>4. q \in Injection(1 .. n, A)
    BY <1>3 DEF Steps, Injection, IsInjective
  <1>5. q \in Surjection(1 .. n, A)
    <2>1. Cardinality(1 .. n) = n
      BY <1>1, FS_Interval
    <2> QED
      BY <1>4, <2>1, FS_Injection
  <1>6. {q[k] : k \in 1 .. n} = A
    BY <1>5 DEF Surjection
  <1>7. nx[q[n]] = c
    <2>1. q[n] \in A /\ nx[q[n]] \in A
      BY <1>1 DEF Steps, OneCycle
    <2>2. PICK k \in 1 .. n : q[k] = nx[q[n]]
      BY <1>6, <2>1
    <2>3. CASE k = 1
      BY <1>1, <2>2, <2>3 DEF Steps
    <2>4. CASE k # 1
      <3>1. k - 1 \in 1 .. n - 1 /\ k - 1 \in 1 .. n /\ (k - 1) + 1 = k
        BY <1>1, <2>4
      <3>2. q[k] = nx[q[k - 1]] /\ q[k - 1] \in A
        BY <3>1 DEF Steps
      <3>3. q[k - 1] = q[n]
        BY <2>1, <2>2, <3>2 DEF OneCycle
      <3>4. k - 1 = n
        BY <1>1, <1>3, <3>1, <3>3
      <3> QED
        BY <1>1, <3>1, <3>4
    <2> QED
      BY <2>3, <2>4
  <1> QED
    BY <1>1, <1>3, <1>6, <1>7

-----------------------------------------------------------------------------
(* What the operations do to the chain.                                      *)

\* job_create makes a job alone in the chain its own successor.
LEMMA FirstChain ==
    ASSUME NEW job \in Job, NEW nx, nx[job] = job
    PROVE  Follow(1, nx, job) = <<job>>
  <1>1. Steps(<<job>>, 1, {job}, nx, job)
    BY DEF Steps
  <1> QED
    BY <1>1, StepsFollow

\* job_create: the new job comes second.
LEMMA InsertChain ==
    ASSUME NEW A \in SUBSET Job, IsFiniteSet(A), NEW nx, OneCycle(A, nx),
           NEW c \in A, NEW job \in Job \ A,
           NEW ny, ny[c] = job, ny[job] = nx[c], \A j \in A : j # c => ny[j] = nx[j]
    PROVE  LET q == Follow(Cardinality(A), nx, c)
           IN  Follow(Cardinality(A) + 1, ny, c) = <<Head(q), job>> \o Tail(q)
  <1> DEFINE n == Cardinality(A)
             q == Follow(n, nx, c)
             p == <<Head(q), job>> \o Tail(q)
             B == A \cup {job}
  <1>1. n \in Nat /\ n > 0 /\ \A j \in A : nx[j] \in A
    BY FS_CardinalityType, FS_EmptySet DEF OneCycle
  <1>2. Steps(q, n, A, nx, c)
    BY <1>1, FollowSteps
  <1>3. /\ \A k, l \in 1 .. n : q[k] = q[l] => k = l
        /\ nx[q[n]] = c
    BY <1>2, RoundTrip
  <1> HIDE DEF n, q
  <1>4. /\ ny[c] = job /\ ny[job] = nx[c]
        /\ \A j \in A : j # c => ny[j] = nx[j]
    OBVIOUS
  <1>5. \A j \in B : ny[j] \in B
    BY <1>1, <1>4
  <1>6. q \in Seq(A) /\ Len(q) = n
    BY <1>1, <1>2 DEF Steps
  <1>7. /\ p \in [1 .. n + 1 -> B]
        /\ p[1] = c /\ p[2] = job /\ \A k \in 3 .. n + 1 : p[k] = q[k - 1]
    <2>1. q # <<>> /\ Head(q) = q[1] /\ q[1] = c
      BY <1>1, <1>2, <1>6 DEF Steps
    <2>2. /\ Tail(q) \in Seq(A) /\ Len(Tail(q)) = n - 1
          /\ \A k \in 1 .. n - 1 : Tail(q)[k] = q[k + 1]
      BY <1>1, <1>6, <2>1
    <2>3. <<Head(q), job>> \in Seq(B) /\ Tail(q) \in Seq(B)
      BY <2>1, <2>2
    <2>4. p \in Seq(B) /\ Len(p) = n + 1
      BY <1>1, <2>2, <2>3
    <2>5. /\ p[1] = c /\ p[2] = job
          /\ \A k \in 3 .. n + 1 : p[k] = Tail(q)[k - 2]
      BY <1>1, <2>1, <2>2, <2>3
    <2>6. \A k \in 3 .. n + 1 : k - 2 \in 1 .. n - 1 /\ (k - 2) + 1 = k - 1
      BY <1>1
    <2> HIDE DEF p
    <2>7. p \in [1 .. n + 1 -> B]
      BY <2>4
    <2> QED
      BY <2>2, <2>5, <2>6, <2>7
  <1> HIDE DEF p
  <1>8. \A k \in 1 .. (n + 1) - 1 : p[k + 1] = ny[p[k]]
    <2> TAKE k \in 1 .. (n + 1) - 1
    <2>1. CASE k = 1
      BY <1>4, <1>7, <2>1
    <2>2. CASE k = 2
      BY <1>1, <1>2, <1>4, <1>7, <2>2 DEF Steps
    <2>3. CASE k > 2
      <3>1. /\ k \in 3 .. n + 1 /\ k + 1 \in 3 .. n + 1 /\ k - 1 \in 1 .. n - 1
            /\ k - 1 \in 1 .. n /\ (k + 1) - 1 = k /\ (k - 1) + 1 = k /\ 1 \in 1 .. n
        BY <1>1, <2>3
      <3>2. p[k] = q[k - 1] /\ p[k + 1] = q[k] /\ q[k] = nx[q[k - 1]]
        BY <1>2, <1>7, <3>1 DEF Steps
      <3>3. q[k - 1] \in A /\ q[k - 1] # c
        <4>1. k - 1 # 1 /\ q[1] = c
          BY <1>1, <1>2, <2>3 DEF Steps
        <4> QED
          BY <1>2, <1>3, <3>1, <4>1 DEF Steps
      <3> QED
        BY <1>4, <3>2, <3>3
    <2> QED
      BY <1>1, <2>1, <2>2, <2>3
  <1>9. Steps(p, n + 1, B, ny, c)
    BY <1>1, <1>7, <1>8 DEF Steps
  <1>10. p = Follow(n + 1, ny, c)
    <2>1. n + 1 \in Nat /\ B \in SUBSET Job /\ c \in B
      BY <1>1
    <2> HIDE DEF B
    <2> QED
      BY <1>5, <1>9, <2>1, StepsFollow
  <1> QED
    BY <1>10 DEF n, q, p

\* job_forward: the chain from the successor on, the current job last.
LEMMA RotateChain ==
    ASSUME NEW A \in SUBSET Job, IsFiniteSet(A), NEW nx, OneCycle(A, nx), NEW c \in A,
           NEW n, n = Cardinality(A), NEW q, q = Follow(n, nx, c)
    PROVE  Follow(n, nx, nx[c]) = Append(Tail(q), Head(q))
  <1> DEFINE p == Append(Tail(q), Head(q))
  <1>1. n \in Nat /\ n > 0 /\ \A j \in A : nx[j] \in A
    BY FS_CardinalityType, FS_EmptySet DEF OneCycle
  <1>2. Steps(q, n, A, nx, c)
    BY <1>1, FollowSteps
  <1>3. nx[q[n]] = c
    BY <1>2, RoundTrip
  <1>4. q \in Seq(A) /\ Len(q) = n /\ q # <<>> /\ Head(q) = q[1] /\ q[1] = c
    BY <1>1, <1>2 DEF Steps
  <1>5. /\ Tail(q) \in Seq(A) /\ Len(Tail(q)) = n - 1
        /\ \A k \in 1 .. n - 1 : Tail(q)[k] = q[k + 1]
    BY <1>1, <1>4
  <1>6. /\ p \in Seq(A) /\ Len(p) = n /\ p[n] = c
        /\ \A k \in 1 .. n - 1 : p[k] = Tail(q)[k]
    BY <1>1, <1>4, <1>5
  <1> HIDE DEF p
  <1>7. p \in [1 .. n -> A] /\ p[n] = c /\ \A k \in 1 .. n - 1 : p[k] = q[k + 1]
    BY <1>5, <1>6
  <1>8. p[1] = nx[c]
    <2>1. CASE n = 1
      BY <1>3, <1>4, <1>7, <2>1
    <2>2. CASE n # 1
      BY <1>1, <1>2, <1>7, <2>2 DEF Steps
    <2> QED
      BY <2>1, <2>2
  <1>9. \A k \in 1 .. n - 1 : p[k + 1] = nx[p[k]]
    <2> TAKE k \in 1 .. n - 1
    <2>1. CASE k + 1 = n
      BY <1>1, <1>3, <1>7, <2>1
    <2>2. CASE k + 1 # n
      <3>1. k + 1 \in 1 .. n - 1
        BY <1>1, <2>2
      <3> QED
        BY <1>2, <1>7, <3>1 DEF Steps
    <2> QED
      BY <2>1, <2>2
  <1>10. Steps(p, n, A, nx, nx[c])
    BY <1>1, <1>7, <1>8, <1>9 DEF Steps
  <1> QED
    BY <1>1, <1>10, StepsFollow DEF p

\* job_delete: the chain without its first job.
LEMMA UnlinkChain ==
    ASSUME NEW A \in SUBSET Job, IsFiniteSet(A), NEW nx, OneCycle(A, nx),
           NEW c \in A, nx[c] # c,
           NEW ny, \A j \in A : ny[j] = IF nx[j] = c THEN nx[c] ELSE nx[j]
    PROVE  /\ Cardinality(A) > 1
           /\ Follow(Cardinality(A \ {c}), ny, nx[c]) = Tail(Follow(Cardinality(A), nx, c))
  <1> DEFINE n == Cardinality(A)
             q == Follow(n, nx, c)
             p == Tail(q)
             B == A \ {c}
  <1>1. n \in Nat /\ n > 0 /\ \A j \in A : nx[j] \in A
    BY FS_CardinalityType, FS_EmptySet DEF OneCycle
  <1>2. Steps(q, n, A, nx, c)
    BY <1>1, FollowSteps
  <1>3. /\ \A k, l \in 1 .. n : q[k] = q[l] => k = l
        /\ nx[q[n]] = c
    BY <1>2, RoundTrip
  <1> HIDE DEF n, q
  <1>4. /\ q \in Seq(A) /\ Len(q) = n /\ q # <<>> /\ q[1] = c
        /\ \A k \in 1 .. n : q[k] \in A
    BY <1>1, <1>2 DEF Steps
  <1>5. n > 1
    BY <1>1, <1>3, <1>4
  <1>6. \A j \in B : ny[j] \in B
    BY <1>1
  <1>7. p \in Seq(A) /\ Len(p) = n - 1 /\ \A k \in 1 .. n - 1 : p[k] = q[k + 1]
    BY <1>4
  <1> HIDE DEF p
  <1>8. p \in [1 .. n - 1 -> B]
    <2>1. p \in [1 .. n - 1 -> A]
      BY <1>7
    <2>2. \A k \in 1 .. n - 1 : p[k] # c
      BY <1>1, <1>3, <1>4, <1>7
    <2> QED
      BY <2>1, <2>2
  <1>9. p[1] = nx[c]
    BY <1>1, <1>2, <1>5, <1>7 DEF Steps
  <1>10. \A k \in 1 .. (n - 1) - 1 : p[k + 1] = ny[p[k]]
    <2> TAKE k \in 1 .. (n - 1) - 1
    <2>1. /\ k \in 1 .. n - 1 /\ k + 1 \in 1 .. n - 1 /\ k + 1 \in 1 .. n
          /\ k + 1 # n /\ n \in 1 .. n
      BY <1>1
    <2>2. p[k] = q[k + 1] /\ p[k + 1] = nx[q[k + 1]]
      BY <1>2, <1>7, <2>1 DEF Steps
    <2>3. q[k + 1] # q[n] /\ q[k + 1] \in A /\ q[n] \in A
      BY <1>3, <1>4, <2>1
    <2>4. nx[q[k + 1]] # c
      BY <1>3, <2>3 DEF OneCycle
    <2> QED
      BY <2>2, <2>3, <2>4
  <1>11. Steps(p, n - 1, B, ny, nx[c])
    BY <1>1, <1>8, <1>9, <1>10 DEF Steps
  <1>12. nx[c] \in B /\ n - 1 \in Nat
    BY <1>1
  <1>13. Cardinality(B) = n - 1
    BY FS_RemoveElement DEF n
  <1>14. p = Follow(n - 1, ny, nx[c])
    BY <1>6, <1>11, <1>12, StepsFollow
  <1> QED
    BY <1>5, <1>13, <1>14 DEF n, q, p

-----------------------------------------------------------------------------
(* The chain implements the round-robin queue.                               *)

\* No jobs, no chain.
LEMMA EmptyChain == alloc = {} => Chain = <<>>
  <1> SUFFICES ASSUME alloc = {} PROVE Chain = <<>>
    OBVIOUS
  <1>1. Cardinality(alloc) = 0
    BY FS_EmptySet
  <1>2. Chain = [k \in 1 .. 0 |->
                   IF k = 1 THEN current_job
                   ELSE IF Chain[k - 1] \in Job THEN next[Chain[k - 1]] ELSE NULL]
    BY <1>1, FollowDefined DEF Chain
  <1> QED
    BY <1>2

\* The chain is a queue of the jobs in use with the current job at its head.
LEMMA ChainIsQueue ==
    ASSUME IInv, ~ overrun, current_job # NULL
    PROVE  /\ current_job \in alloc /\ OneCycle(alloc, next)
           /\ IsFiniteSet(alloc) /\ Cardinality(alloc) \in Nat
           /\ Chain \in Seq(Job) /\ Chain # <<>> /\ Head(Chain) = current_job
           /\ Len(Chain) = Cardinality(alloc)
           /\ {Chain[k] : k \in 1 .. Len(Chain)} = alloc
  <1>1. /\ current_job \in alloc /\ OneCycle(alloc, next)
        /\ alloc \in SUBSET Job
    BY RingIsCycle DEF IInv, TypeOK
  <1>2. IsFiniteSet(alloc) /\ Cardinality(alloc) \in Nat
    BY <1>1, JobAssumption, FS_Subset, FS_CardinalityType
  <1>3. \A j \in alloc : next[j] \in alloc
    BY <1>1 DEF OneCycle
  <1>4. Steps(Chain, Cardinality(alloc), alloc, next, current_job)
    BY <1>1, <1>2, <1>3, FollowSteps DEF Chain
  <1>5. /\ Cardinality(alloc) > 0
        /\ {Chain[k] : k \in 1 .. Cardinality(alloc)} = alloc
    BY <1>1, <1>2, <1>4, RoundTrip
  <1>6. /\ Chain \in Seq(alloc) /\ Len(Chain) = Cardinality(alloc)
        /\ Chain[1] = current_job
    BY <1>2, <1>4, <1>5 DEF Steps
  <1>7. Chain \in Seq(Job) /\ Chain # <<>> /\ Head(Chain) = current_job
    BY <1>1, <1>5, <1>6
  <1> QED
    BY <1>1, <1>2, <1>5, <1>6, <1>7

\* job_create adds a job behind the head of the queue, or overflows it.
LEMMA CreateRefines == IInv /\ IInv' /\ job_create => [RR!Next]_RR!vars
  <1> SUFFICES ASSUME IInv, IInv', job_create PROVE [RR!Next]_RR!vars
    OBVIOUS
  <1>0. phase = "idle" /\ phase' = "idle" /\ alloc \in SUBSET Job
    BY DEF job_create, IInv, TypeOK
  <1>1. ASSUME NEW job \in Job \ alloc, alloc' = alloc \cup {job},
               status' = [status EXCEPT ![job] = RUNNING],
               \/ /\ current_job = NULL /\ current_job' = job
                  /\ next' = [next EXCEPT ![job] = job]
               \/ current_job # NULL /\ Insert(job),
               overrun' = overrun
        PROVE  RR!Create
    <2>1. ~ overrun /\ ~ overrun'
      BY <1>1 DEF IInv
    <2>2. {j \in alloc' : status'[j] = TERMINATED} = {j \in alloc : status[j] = TERMINATED}
      BY <1>1, <1>0 DEF IInv, TypeOK, RUNNING, TERMINATED
    <2>3. /\ alloc = {Chain[k] : k \in 1 .. Len(Chain)}
          /\ Chain' = IF Chain = <<>> THEN <<job>>
                      ELSE <<Head(Chain), job>> \o Tail(Chain)
      <3>1. CASE current_job = NULL
        <4>1. alloc = {} /\ Chain = <<>>
          BY <2>1, <3>1, EmptyChain DEF IInv, SingleRing
        <4>2. alloc' = {job} /\ next'[job] = job /\ current_job' = job
          BY <1>1, <3>1, <4>1 DEF IInv, TypeOK
        <4>3. Cardinality(alloc') = 1
          BY <4>2, FS_Singleton
        <4>4. Chain' = <<job>>
          BY <4>2, <4>3, FirstChain DEF Chain
        <4> QED
          BY <4>1, <4>4
      <3>2. CASE current_job # NULL
        <4>1. /\ next' = [next EXCEPT ![current_job] = job, ![job] = next[current_job]]
              /\ current_job' = current_job
          BY <1>1, <3>2 DEF Insert
        <4>2. /\ current_job \in alloc /\ OneCycle(alloc, next)
              /\ IsFiniteSet(alloc) /\ Chain # <<>>
              /\ {Chain[k] : k \in 1 .. Len(Chain)} = alloc
          BY <2>1, <3>2, ChainIsQueue
        <4>3. Cardinality(alloc') = Cardinality(alloc) + 1
          BY <1>1, <4>2, FS_AddElement
        <4>4. /\ next'[current_job] = job /\ next'[job] = next[current_job]
              /\ \A j \in alloc : j # current_job => next'[j] = next[j]
          BY <1>0, <4>1, <4>2 DEF IInv, TypeOK
        <4>5. Follow(Cardinality(alloc) + 1, next', current_job)
                = <<Head(Chain), job>> \o Tail(Chain)
          BY <1>0, <4>2, <4>4, InsertChain DEF Chain
        <4>6. Chain' = <<Head(Chain), job>> \o Tail(Chain)
          BY <4>1, <4>3, <4>5 DEF Chain
        <4> QED
          BY <4>2, <4>6
      <3> QED
        BY <3>1, <3>2
    <2>4. RR!Queued = alloc
      BY <2>1, <2>3 DEF RR!Queued
    <2> QED
      BY <1>0, <1>1, <2>1, <2>2, <2>3, <2>4 DEF RR!Create
  <1>2. ASSUME alloc = Job, overrun', UNCHANGED <<alloc, status, current_job>>
        PROVE  [RR!Overflow]_RR!vars
    <2>1. CASE overrun
      BY <1>2, <2>1 DEF RR!vars
    <2>2. CASE ~ overrun
      <3>1. current_job # NULL
        BY <1>2, <2>2, JobAssumption DEF IInv, SingleRing
      <3>2. RR!Queued = Job
        BY <1>2, <2>2, <3>1, ChainIsQueue DEF RR!Queued
      <3> QED
        BY <1>0, <1>2, <2>2, <3>2 DEF RR!Overflow
    <2> QED
      BY <2>1, <2>2
  <1> QED
    BY <1>1, <1>2 DEF job_create, RR!Next

\* job_terminate finishes the head of the queue.
LEMMA TerminateRefines == IInv /\ job_terminate => [RR!Next]_RR!vars
  <1> SUFFICES ASSUME IInv, job_terminate PROVE [RR!Next]_RR!vars
    OBVIOUS
  <1>1. /\ phase = "idle" /\ current_job # NULL
        /\ status' = [status EXCEPT ![current_job] = TERMINATED]
        /\ UNCHANGED <<alloc, next, current_job, phase, overrun>>
    BY DEF job_terminate
  <1>2. Chain' = Chain
    BY <1>1 DEF Chain
  <1>3. CASE overrun
    BY <1>1, <1>3 DEF RR!vars
  <1>4. CASE ~ overrun
    <2>1. current_job \in alloc /\ Chain # <<>> /\ Head(Chain) = current_job
      BY <1>1, <1>4, ChainIsQueue
    <2>2. {j \in alloc' : status'[j] = TERMINATED}
            = {j \in alloc : status[j] = TERMINATED} \cup {current_job}
      BY <1>1, <2>1 DEF IInv, TypeOK
    <2>3. RR!Finish
      BY <1>1, <1>2, <1>4, <2>1, <2>2 DEF RR!Finish
    <2> QED
      BY <2>3 DEF RR!Next
  <1> QED
    BY <1>3, <1>4

\* job_forward sends the head to the back.
LEMMA ForwardStartRefines == IInv /\ ForwardStart => [RR!Next]_RR!vars
  <1> SUFFICES ASSUME IInv, ForwardStart PROVE [RR!Next]_RR!vars
    OBVIOUS
  <1>1. /\ phase = "idle" /\ current_job # NULL /\ current_job' = next[current_job]
        /\ phase' = IF next[current_job] = NULL THEN "wild" ELSE "scan"
        /\ UNCHANGED <<alloc, next, status, overrun>>
    BY DEF ForwardStart
  <1>2. CASE overrun
    BY <1>1, <1>2 DEF RR!vars
  <1>3. CASE ~ overrun
    <2>1. /\ current_job \in alloc /\ OneCycle(alloc, next) /\ IsFiniteSet(alloc)
          /\ Chain # <<>> /\ alloc \in SUBSET Job
      BY <1>1, <1>3, ChainIsQueue DEF IInv, TypeOK
    <2>2. Follow(Cardinality(alloc), next, next[current_job])
            = Append(Tail(Chain), Head(Chain))
      BY <2>1, RotateChain DEF Chain
    <2>3. Chain' = Append(Tail(Chain), Head(Chain))
      BY <1>1, <2>2 DEF Chain
    <2>4. phase' = "scan"
      BY <1>1, <2>1, JobAssumption DEF OneCycle
    <2>5. RR!Rotate
      BY <1>1, <1>3, <2>1, <2>3, <2>4 DEF RR!Rotate
    <2> QED
      BY <2>5 DEF RR!Next
  <1> QED
    BY <1>2, <1>3

\* job_delete takes a finished head out of the queue, or hangs on the last job.
LEMMA ForwardDeleteRefines == IInv /\ ForwardDelete => [RR!Next]_RR!vars
  <1> SUFFICES ASSUME IInv, ForwardDelete PROVE RR!Leave
    BY DEF RR!Next
  <1>1. /\ phase = "scan" /\ ~ overrun /\ current_job # NULL
        /\ status[current_job] = TERMINATED
        /\ UNCHANGED <<status, overrun>>
    BY JobAssumption DEF ForwardDelete, IInv, TypeOK
  <1>2. /\ current_job \in alloc /\ OneCycle(alloc, next) /\ IsFiniteSet(alloc)
        /\ Cardinality(alloc) \in Nat /\ Head(Chain) = current_job
        /\ Len(Chain) = Cardinality(alloc) /\ alloc \in SUBSET Job
    BY <1>1, ChainIsQueue DEF IInv, TypeOK
  <1>3. CASE next[current_job] = current_job
    <2>1. phase' = "hung" /\ UNCHANGED <<alloc, next, current_job>>
      BY <1>3 DEF ForwardDelete, job_delete
    <2>2. {current_job} = alloc
      <3>1. /\ {current_job} \in SUBSET alloc /\ {current_job} # {}
            /\ \A j \in {current_job} : next[j] \in {current_job}
        BY <1>2, <1>3
      <3>2. \A S \in SUBSET alloc :
              S # {} /\ (\A j \in S : next[j] \in S) => S = alloc
        BY <1>2 DEF OneCycle
      <3> QED
        BY <3>1, <3>2
    <2>3. Len(Chain) = 1
      BY <1>2, <2>2, FS_Singleton
    <2>4. Chain' = Chain
      BY <2>1 DEF Chain
    <2> QED
      BY <1>1, <1>2, <2>1, <2>3, <2>4 DEF RR!Leave
  <1>4. CASE next[current_job] # current_job
    <2>1. PICK last \in alloc :
            /\ next[last] = current_job
            /\ next' = [next EXCEPT ![last] = next[current_job]]
      BY <1>4 DEF ForwardDelete, job_delete
    <2>2. /\ alloc' = alloc \ {current_job}
          /\ current_job' = next[current_job]
          /\ phase' = phase
      BY <1>4 DEF ForwardDelete, job_delete
    <2>3. \A j \in alloc :
            next'[j] = IF next[j] = current_job THEN next[current_job] ELSE next[j]
      BY <1>2, <2>1 DEF IInv, TypeOK, OneCycle
    <2>4. /\ Cardinality(alloc) > 1
          /\ Follow(Cardinality(alloc \ {current_job}), next', next[current_job])
               = Tail(Chain)
      BY <1>2, <1>4, <2>3, UnlinkChain DEF Chain
    <2>5. Chain' = Tail(Chain)
      BY Zenon, <2>2, <2>4 DEF Chain
    <2>6. {j \in alloc' : status'[j] = TERMINATED}
            = {j \in alloc : status[j] = TERMINATED} \ {current_job}
      BY <1>1, <2>2
    <2> QED
      BY <1>1, <1>2, <2>2, <2>4, <2>5, <2>6 DEF RR!Leave
  <1> QED
    BY <1>3, <1>4

\* The loop of job_forward settles on a head that runs.
LEMMA ForwardEndRefines == IInv /\ ForwardEnd => [RR!Next]_RR!vars
  <1> SUFFICES ASSUME IInv, ForwardEnd PROVE RR!Settle
    BY DEF RR!Next
  <1>1. /\ phase = "scan" /\ ~ overrun /\ current_job # NULL
        /\ status[current_job] = RUNNING /\ phase' = "idle"
        /\ UNCHANGED <<alloc, next, status, current_job, overrun>>
    BY JobAssumption DEF ForwardEnd, IInv, TypeOK
  <1>2. Chain' = Chain
    BY <1>1 DEF Chain
  <1>3. Head(Chain) = current_job
    BY <1>1, ChainIsQueue
  <1> QED
    BY <1>1, <1>2, <1>3 DEF RR!Settle, RUNNING, TERMINATED

\* The chain of jobs implements the round-robin queue, whatever the capacity of
\* job_slab: insertion, deletion and job_forward keep the order of turns.
THEOREM RingRefinesRoundRobin == Spec => ImplementsRoundRobin
  <1>1. Init => RR!Init
    BY EmptyChain DEF Init, RR!Init
  <1>2. UNCHANGED vars => UNCHANGED RR!vars
    <2> SUFFICES ASSUME UNCHANGED vars PROVE UNCHANGED RR!vars
      OBVIOUS
    <2>1. UNCHANGED <<alloc, next, status, current_job, phase, overrun>>
      BY DEF vars
    <2>2. Chain' = Chain
      BY <2>1 DEF Chain
    <2> QED
      BY <2>1, <2>2 DEF RR!vars
  <1>3. IInv /\ IInv' /\ [Next]_vars => [RR!Next]_RR!vars
    BY <1>2, CreateRefines, TerminateRefines, ForwardStartRefines, ForwardDeleteRefines,
       ForwardEndRefines DEF Next, Halted
  <1> QED
    BY <1>1, <1>3, RingInvariant, PTL DEF Spec, ImplementsRoundRobin, RR!Spec

-----------------------------------------------------------------------------
(* Turns.                                                                    *)

\* The place of j in the first n of a list.
Place(q, n, j) == CHOOSE k \in 1 .. n : q[k] = j

\* How many jobs get their turn after j.
Behind(j) == Cardinality(alloc) - Place(Chain, Cardinality(alloc), j)

\* A job has fewer jobs behind it than job_slab has slots, and all the others only
\* when it is the current one.
WaitIsBounded ==
    ~ overrun =>
      \A j \in alloc :
        /\ Behind(j) \in 0 .. Cardinality(Job) - 1
        /\ Behind(j) = Cardinality(alloc) - 1 <=> j = current_job

\* A job that waits for its turn stays in use; every tick puts one more job behind
\* it, and nothing else that job_create, job_terminate or job_delete does changes
\* how many there are.
TurnComesNearer ==
    ~ overrun' =>
      \A j \in alloc \ {current_job} :
        /\ j \in alloc'
        /\ Behind(j)' = Behind(j) + (IF ForwardStart THEN 1 ELSE 0)

\* A list of the n jobs of A, every one once, that begins with c.
Lists(q, n, A, c) ==
    /\ n \in Nat /\ n <= Cardinality(Job) /\ q \in Seq(Job) /\ Len(q) = n
    /\ \A k, l \in 1 .. n : q[k] = q[l] => k = l
    /\ {q[k] : k \in 1 .. n} = A
    /\ q # <<>> => Head(q) = c

ChainLists == ~ overrun => Lists(Chain, Cardinality(alloc), alloc, current_job)

\* The chain lists the jobs in use.
LEMMA ChainIsList == IInv => ChainLists
  <1>. SUFFICES ASSUME IInv, ~ overrun
                PROVE  Lists(Chain, Cardinality(alloc), alloc, current_job)
    BY DEF ChainLists
  <1>1. alloc \in SUBSET Job
    BY DEF IInv, TypeOK
  <1>2. /\ IsFiniteSet(alloc) /\ Cardinality(alloc) \in Nat
        /\ Cardinality(alloc) <= Cardinality(Job)
    BY <1>1, JobAssumption, FS_Subset, FS_CardinalityType
  <1>3. CASE current_job = NULL
    <2>1. alloc = {} /\ Cardinality(alloc) = 0 /\ Chain = <<>>
      BY <1>3, EmptyChain, FS_EmptySet DEF IInv, SingleRing
    <2>. QED
      BY <1>2, <2>1 DEF Lists
  <1>4. CASE current_job # NULL
    <2>1. /\ current_job \in alloc /\ OneCycle(alloc, next)
          /\ Chain \in Seq(Job) /\ Chain # <<>> /\ Head(Chain) = current_job
          /\ Len(Chain) = Cardinality(alloc)
          /\ {Chain[k] : k \in 1 .. Len(Chain)} = alloc
      BY <1>4, ChainIsQueue
    <2>2. Steps(Chain, Cardinality(alloc), alloc, next, current_job)
      BY <1>1, <1>2, <2>1, FollowSteps DEF Chain, OneCycle
    <2>3. \A k, l \in 1 .. Cardinality(alloc) : Chain[k] = Chain[l] => k = l
      BY <1>1, <1>2, <2>1, <2>2, RoundTrip
    <2>. QED
      BY <1>2, <2>1, <2>3 DEF Lists
  <1>. QED
    BY <1>3, <1>4

\* The place of a job in a list.
LEMMA PlaceIs ==
    ASSUME NEW q, NEW n, NEW A, NEW c, Lists(q, n, A, c), NEW k \in 1 .. n
    PROVE  Place(q, n, q[k]) = k
  <1>1. \A l \in 1 .. n : q[l] = q[k] => l = k
    BY DEF Lists
  <1>. QED
    BY <1>1 DEF Place

\* Every job of a list has a place, the first one if it begins the list.
LEMMA HasPlace ==
    ASSUME NEW q, NEW n, NEW A, NEW c, Lists(q, n, A, c), NEW j \in A
    PROVE  /\ Place(q, n, j) \in 1 .. n /\ q[Place(q, n, j)] = j
           /\ Place(q, n, j) = 1 <=> j = c
  <1>1. PICK k \in 1 .. n : j = q[k]
    BY DEF Lists
  <1>2. Place(q, n, j) = k
    BY <1>1, PlaceIs
  <1>3. q[1] = c /\ 1 \in 1 .. n
    BY <1>1 DEF Lists
  <1>. QED
    BY <1>1, <1>2, <1>3 DEF Lists

\* What a step of the queue does to the place of a job that is not its head.
LEMMA PlaceMoves ==
    ASSUME NEW q, NEW n, NEW A, NEW c, Lists(q, n, A, c), NEW j \in A, j # c,
           NEW p, NEW m, NEW B, NEW d, Lists(p, m, B, d)
    PROVE  /\ p = q => m = n /\ j \in B /\ Place(p, m, j) = Place(q, n, j)
           /\ \A job : p = <<Head(q), job>> \o Tail(q) =>
                m = n + 1 /\ j \in B /\ Place(p, m, j) = Place(q, n, j) + 1
           /\ p = Append(Tail(q), Head(q)) =>
                m = n /\ j \in B /\ Place(p, m, j) = Place(q, n, j) - 1
           /\ p = Tail(q) =>
                m = n - 1 /\ j \in B /\ Place(p, m, j) = Place(q, n, j) - 1
  <1>. DEFINE k == Place(q, n, j)
  <1>1. k \in 1 .. n /\ q[k] = j /\ k # 1
    BY HasPlace
  <1>. HIDE DEF k
  <1>2. n \in Nat /\ m \in Nat /\ q \in Seq(Job) /\ Len(q) = n /\ Len(p) = m /\ n > 1
    BY <1>1 DEF Lists
  <1>3. \A i \in 1 .. m : Place(p, m, p[i]) = i /\ p[i] \in B
    BY PlaceIs DEF Lists
  <1>4. ASSUME p = q PROVE m = n /\ j \in B /\ Place(p, m, j) = k
    BY <1>1, <1>2, <1>3, <1>4
  <1>5. ASSUME NEW job, p = <<Head(q), job>> \o Tail(q)
        PROVE  m = n + 1 /\ j \in B /\ Place(p, m, j) = k + 1
    <2>. DEFINE h == <<Head(q), job>>
                t == Tail(q)
    <2>1. /\ Len(h) = 2 /\ Len(t) = n - 1 /\ t[k - 1] = j /\ k - 1 \in 1 .. Len(t)
      BY <1>1, <1>2
    <2>2. h \in Seq({Head(q), job}) /\ t \in Seq(Job)
      BY <1>1, <1>2
    <2>. HIDE DEF h, t
    <2>3. Len(p) = 2 + (n - 1) /\ p[k + 1] = j
      BY <1>1, <1>2, <1>5, <2>1, <2>2 DEF h, t
    <2>. QED
      BY <1>1, <1>2, <1>3, <2>3
  <1>6. ASSUME p = Append(Tail(q), Head(q))
        PROVE  m = n /\ j \in B /\ Place(p, m, j) = k - 1
    <2>1. Len(p) = n /\ p[k - 1] = j
      BY <1>1, <1>2, <1>6
    <2>. QED
      BY <1>1, <1>2, <1>3, <2>1
  <1>7. ASSUME p = Tail(q) PROVE m = n - 1 /\ j \in B /\ Place(p, m, j) = k - 1
    <2>1. Len(p) = n - 1 /\ p[k - 1] = j
      BY <1>1, <1>2, <1>7
    <2>. QED
      BY <1>1, <1>2, <1>3, <2>1
  <1>. QED
    BY <1>4, <1>5, <1>6, <1>7 DEF k

\* A step of the round-robin queue, in the chain.
LEMMA ChainStep ==
    ASSUME IInv', [RR!Next]_RR!vars, ~ overrun, ~ overrun', Chain # <<>>
    PROVE  \/ Chain' = Chain /\ (phase # "idle" \/ phase' # "scan")
           \/ /\ \E job : Chain' = <<Head(Chain), job>> \o Tail(Chain)
              /\ phase' = phase
           \/ Chain' = Append(Tail(Chain), Head(Chain)) /\ phase = "idle" /\ phase' = "scan"
           \/ Chain' = Tail(Chain) /\ phase' = phase
  <1>. DEFINE q == IF overrun THEN <<>> ELSE Chain
              ph == IF overrun THEN "lost" ELSE phase
  <1>1. q = Chain /\ q' = Chain' /\ ph = phase /\ ph' = phase'
    OBVIOUS
  <1>2. CASE RR!Create
    <2>1. \E job : q' = IF q = <<>> THEN <<job>> ELSE <<Head(q), job>> \o Tail(q)
      BY <1>2 DEF RR!Create
    <2>2. ph' = ph
      BY <1>2 DEF RR!Create
    <2>. HIDE DEF q, ph
    <2>. QED
      BY <1>1, <2>1, <2>2
  <1>3. CASE RR!Overflow
    <2>1. q' = <<>> /\ ph' = "lost" /\ ph = "idle"
      BY <1>3 DEF RR!Overflow
    <2>2. phase' = "lost"
      BY <1>1, <2>1
    <2>. QED
      BY <2>2 DEF IInv, TypeOK, Phase
  <1>4. CASE RR!Finish \/ RR!Settle
    <2>1. q' = q /\ (ph # "idle" \/ ph' # "scan")
      BY <1>4 DEF RR!Finish, RR!Settle
    <2>. HIDE DEF q, ph
    <2>. QED
      BY <1>1, <2>1
  <1>5. CASE RR!Rotate
    <2>1. q' = Append(Tail(q), Head(q)) /\ ph = "idle" /\ ph' = "scan"
      BY <1>5 DEF RR!Rotate
    <2>. HIDE DEF q, ph
    <2>. QED
      BY <1>1, <2>1
  <1>6. CASE RR!Leave
    <2>1. ph = "scan" /\ (q' = q \/ (q' = Tail(q) /\ ph' = ph))
      BY <1>6 DEF RR!Leave
    <2>. HIDE DEF q, ph
    <2>. QED
      BY <1>1, <2>1
  <1>7. CASE UNCHANGED RR!vars
    <2>1. q' = q /\ ph' = ph
      BY <1>7 DEF RR!vars
    <2>. HIDE DEF q, ph
    <2>. QED
      BY <1>1, <2>1
  <1>. QED
    BY <1>2, <1>3, <1>4, <1>5, <1>6, <1>7 DEF RR!Next

\* Only a tick begins a scan.
LEMMA TickBegins ==
    ASSUME IInv, [Next]_vars, ~ overrun, current_job # NULL
    PROVE  ForwardStart <=> phase = "idle" /\ phase' = "scan"
  <1>1. next[current_job] # NULL
    BY JobAssumption DEF IInv, TypeOK, SingleRing
  <1>. QED
    BY <1>1 DEF Next, vars, job_create, job_terminate, ForwardStart, ForwardDelete, ForwardEnd,
           Halted

\* A job waits for at most as many ticks as job_slab has other slots, however many
\* jobs are created in front of it, terminated and deleted meanwhile.
THEOREM TurnsComeRound == Spec => []WaitIsBounded /\ [][TurnComesNearer]_vars
  <1>1. ChainLists => WaitIsBounded
    <2>. SUFFICES ASSUME ChainLists, ~ overrun, NEW j \in alloc
                  PROVE  /\ Behind(j) \in 0 .. Cardinality(Job) - 1
                         /\ Behind(j) = Cardinality(alloc) - 1 <=> j = current_job
      BY DEF WaitIsBounded
    <2>. DEFINE k == Place(Chain, Cardinality(alloc), j)
                n == Cardinality(alloc)
    <2>1. Lists(Chain, n, alloc, current_job)
      BY DEF ChainLists
    <2>2. k \in 1 .. n /\ (k = 1 <=> j = current_job)
      BY <2>1, HasPlace
    <2>3. n \in Nat /\ n <= Cardinality(Job) /\ Cardinality(Job) \in Nat
      BY <2>1, JobAssumption, FS_CardinalityType DEF Lists
    <2>4. Behind(j) = n - k
      BY DEF Behind
    <2>. HIDE DEF k, n
    <2>5. n - k = n - 1 <=> k = 1
      BY <2>2, <2>3
    <2>. QED
      BY <2>2, <2>3, <2>4, <2>5 DEF n
  <1>2. ASSUME IInv, IInv', [Next]_vars, [RR!Next]_RR!vars, ChainLists, ChainLists'
        PROVE  TurnComesNearer
    <2>. SUFFICES ASSUME ~ overrun', NEW j \in alloc \ {current_job}
                  PROVE  /\ j \in alloc'
                         /\ Behind(j)' = Behind(j) + (IF ForwardStart THEN 1 ELSE 0)
      BY DEF TurnComesNearer
    <2>. DEFINE n == Cardinality(alloc)
                k == Place(Chain, n, j)
                m == Cardinality(alloc')
                l == Place(Chain', m, j)
    <2>1. ~ overrun
      BY <1>2 DEF Next, vars, job_create, job_terminate, ForwardStart, ForwardDelete,
                  ForwardEnd, Halted
    <2>2. Lists(Chain, n, alloc, current_job) /\ Lists(Chain', m, alloc', current_job')
      BY <1>2, <2>1 DEF ChainLists
    <2>3. current_job # NULL
      BY <1>2, <2>1 DEF IInv, SingleRing
    <2>4. ForwardStart <=> phase = "idle" /\ phase' = "scan"
      BY <1>2, <2>1, <2>3, TickBegins
    <2>5. k \in 1 .. n /\ n \in Nat /\ Chain # <<>>
      <3>1. k \in 1 .. n
        BY <2>2, HasPlace
      <3>. QED
        BY <2>2, <3>1 DEF Lists
    <2>6. /\ Chain' = Chain => m = n /\ j \in alloc' /\ l = k
          /\ \A job : Chain' = <<Head(Chain), job>> \o Tail(Chain) =>
               m = n + 1 /\ j \in alloc' /\ l = k + 1
          /\ Chain' = Append(Tail(Chain), Head(Chain)) =>
               m = n /\ j \in alloc' /\ l = k - 1
          /\ Chain' = Tail(Chain) => m = n - 1 /\ j \in alloc' /\ l = k - 1
      BY <2>2, PlaceMoves
    <2>7. Behind(j) = n - k /\ Behind(j)' = m - l
      BY DEF Behind
    <2>. HIDE DEF n, k, m, l
    <2>8. \/ ~ ForwardStart /\ m = n /\ j \in alloc' /\ l = k
          \/ ~ ForwardStart /\ m = n + 1 /\ j \in alloc' /\ l = k + 1
          \/ ForwardStart /\ m = n /\ j \in alloc' /\ l = k - 1
          \/ ~ ForwardStart /\ m = n - 1 /\ j \in alloc' /\ l = k - 1
      BY <1>2, <2>1, <2>4, <2>5, <2>6, ChainStep
    <2>. QED
      BY <2>5, <2>7, <2>8
  <1>. QED
    BY <1>1, <1>2, ChainIsList, RingInvariant, RingRefinesRoundRobin, PTL
       DEF Spec, ImplementsRoundRobin, RR!Spec
=============================================================================
