------------------------------- MODULE Kernel -------------------------------
(***************************************************************************)
(* Exceptions, system calls, the scheduler's tick and the wait for the     *)
(* disk, composed with the chain of jobs (module JobRing): one processor,  *)
(* one kernel stack.  The code is kernel/exceptions.asm, exceptions.c,     *)
(* mp/sched.c, the synchronous request of device/virtioblk.c and the entry *)
(* to user mode of sysutils.c and start.c.                                 *)
(*                                                                         *)
(* FIQ is masked from an exception's entry to its eret, except while a     *)
(* disk request is waited for: that window is where a tick or the disk's   *)
(* interrupt finds the kernel at EL1.                                      *)
(*                                                                         *)
(* Register contents are images: whose they are, the level that made them  *)
(* and, for a user program, an age that changes when the program goes on.  *)
(* The condition flags are one such image.  v0..v31 are left out: FPU      *)
(* instructions are enabled (start.asm), no code saves these registers,    *)
(* and nothing is claimed of them.                                         *)
(***************************************************************************)
EXTENDS Integers, Sequences, FiniteSets, Context

CONSTANTS Job, NULL,
          Ages    \* how many successive contexts of a job's program are told apart

ASSUME KernelAssumption ==
    Job # {} /\ IsFiniteSet(Job) /\ NULL \notin Job /\ Ages \in [Job -> Nat \ {0}]

Image(l, j, a) == [level |-> l, job |-> j, age |-> a]

\* What the kernel has in its registers while it serves job j.
KernelImage(j) == Image(1, j, 0)

VARIABLES
    alloc, next, status, current_job, phase, overrun,   \* module JobRing
    kpc,         \* where the processor is: "user" or a point in the kernel
    call,        \* the system call being served
    el, fmasked, flags,   \* PSTATE: exception level, F, and N, Z, C, V
    pc, x, sp0,  \* program counter, x0..x30, SP_EL0
    elr, spsr,   \* ELR_EL1; SPSR_EL1 as [el, fmasked, flags]
    lr, lspsr,   \* exceptions_handle_syscall's copies of them
    stack,       \* the exception frames on the kernel stack, last one first
    ctx,         \* job->pc, sp, x of every slot of job_slab
    ttbr,        \* the job whose paging is applied
    timer,       \* "armed" or "expired": its interrupt, 30, is level triggered
    disk,        \* "idle", "busy", or "raised": interrupt 79 is pending
    done,        \* sync->done
    age, result, \* history: age of every program; whether x0 is a call's result
    ran          \* history: the job whose program went on last, if it still exists

ring == <<alloc, next, status, current_job, phase, overrun>>
cpu == <<el, fmasked, flags, pc, x, sp0, elr, spsr>>
locals == <<call, lr, lspsr>>
memory == <<ctx, ttbr>>
devices == <<timer, disk, done>>
history == <<age, result, ran>>
vars == <<ring, kpc, cpu, locals, stack, memory, devices, history>>

Ring == INSTANCE JobRing

-----------------------------------------------------------------------------
\* The registers a user program must find: what it left, or a call's result.
UserX(j) == [r \in Reg |-> Image(IF r = 0 /\ result[j] THEN 1 ELSE 0, j, age[j])]

FreshContext(j) == [pc |-> Image(0, j, 0), sp |-> Image(0, j, 0),
                    x |-> [r \in Reg |-> Image(0, j, 0)]]

NoImage == Image(1, NULL, 0)
NoSpsr == [el |-> 1, fmasked |-> FALSE, flags |-> NoImage]

Init ==
    /\ Ring!Init
    /\ kpc = "boot" /\ call = "none"
    /\ el = 1 /\ fmasked = TRUE /\ flags = NoImage
    /\ pc = NoImage /\ x = [r \in Reg |-> NoImage] /\ sp0 = NoImage
    /\ elr = NoImage
    /\ spsr = NoSpsr   \* left by boot's disk interrupts
    /\ lr = NoImage /\ lspsr = NoSpsr
    /\ stack = <<>>
    /\ ctx = [j \in Job |-> FreshContext(j)]
    /\ ttbr = NULL
    /\ timer = "armed" /\ disk = "idle" /\ done = FALSE
    /\ age = [j \in Job |-> 0]
    /\ result = [j \in Job |-> FALSE]
    /\ ran = NULL

\* The effect on the jobs' fields of a job_create that returned a slot (or NULL).
NewContext ==
    LET new == alloc' \ alloc
    IN  /\ ctx' = [j \in Job |-> IF j \in new THEN FreshContext(j) ELSE ctx[j]]
        /\ age' = [j \in Job |-> IF j \in new THEN 0 ELSE age[j]]
        /\ result' = [j \in Job |-> IF j \in new THEN FALSE ELSE result[j]]
        /\ ran' = IF ran \in new THEN NULL ELSE ran

\* Where an eret to address a at level l continues: in a user program, in the
\* kernel's wait loop, or at an address that may not be executed at that level
\* (pages that EL0 can write are never executable at EL1).
Resume(a, l) == IF a.level = 0 /\ l = 0 THEN "user"
                ELSE IF a.level = 1 /\ l = 1 THEN "wait" ELSE "abort"

\* eret, with x restored from frame f.
Eret(f, link, saved) ==
    /\ x' = PopFrame(f)
    /\ pc' = link
    /\ el' = saved.el
    /\ fmasked' = saved.fmasked
    /\ flags' = saved.flags
    /\ kpc' = Resume(link, saved.el)
    /\ elr' = link
    /\ spsr' = saved

\* paging_manager_apply: translation is by the tables of job j from here on.
Apply(j) == ttbr' = j

-----------------------------------------------------------------------------
(* Boot ends: the first job is created, the tick gets its handler, and         *)
(* sysutils_jump_eret_usermode enters the job.  Its registers are not loaded:  *)
(* the program starts with what the kernel left in them, and in SPSR_EL1's     *)
(* flags.                                                                      *)
EnterUser ==
    /\ kpc = "boot"
    /\ Ring!job_create
    /\ ctx' = [ctx EXCEPT ![current_job'] = FreshContext(current_job')]
    /\ Apply(current_job')
    /\ spsr' = [spsr EXCEPT !.el = 0]
    /\ elr' = ctx'[current_job'].pc
    /\ pc' = elr'
    /\ sp0' = ctx'[current_job'].sp
    /\ el' = 0
    /\ fmasked' = spsr.fmasked
    /\ flags' = spsr.flags
    /\ kpc' = "user"
    /\ x' = UserX(current_job')
    /\ UNCHANGED <<locals, stack, devices, history>>

\* The program goes on: its context is no longer what any copy holds.
UserStep ==
    /\ kpc = "user"
    /\ LET j == current_job
       IN  /\ age' = [age EXCEPT ![j] = (@ + 1) % Ages[j]]
           /\ result' = [result EXCEPT ![j] = FALSE]
           /\ pc' = Image(0, j, age'[j])
           /\ sp0' = pc'
           /\ x' = [r \in Reg |-> pc']
           /\ flags' = pc'
           /\ ran' = j
    /\ UNCHANGED <<ring, kpc, el, fmasked, elr, spsr, locals, stack, memory, devices>>

\* What the processor and the vector do on every exception.
TakeException ==
    /\ elr' = pc
    /\ spsr' = [el |-> el, fmasked |-> fmasked, flags |-> flags]
    /\ el' = 1
    /\ fmasked' = TRUE
    /\ flags' = KernelImage(current_job)
    /\ x' = [r \in Reg |-> KernelImage(current_job)]
    /\ pc' = KernelImage(current_job)
    /\ UNCHANGED sp0

PushedStack == <<PushFrame(x, NoImage)>> \o stack

\* Point the kernel at k, and nothing else of the processor.
Goto(k) == kpc' = k /\ UNCHANGED cpu

-----------------------------------------------------------------------------
(* System calls: loweraa64_svc, exceptions_distributor, handle_syscall.        *)
Call == {"terminate", "log", "open", "get", "spawn", "unknown"}

svc(c) ==
    /\ kpc = "user"
    /\ TakeException
    /\ stack' = PushedStack
    /\ lr' = elr'
    /\ lspsr' = spsr'
    /\ call' = c
    /\ kpc' = "serve"
    /\ UNCHANGED <<ring, memory, devices, history>>

\* REG(0) = ..., the result of a call, in the caller's frame.
SetResult ==
    /\ stack' = [stack EXCEPT ![1][WordOf(0)] = Image(1, current_job, age[current_job])]
    /\ result' = [result EXCEPT ![current_job] = TRUE]
    /\ UNCHANGED <<age, ran>>

Terminate ==
    /\ kpc = "serve" /\ call = "terminate"
    /\ Ring!job_terminate
    /\ Goto("exit")
    /\ UNCHANGED <<locals, stack, memory, devices, history>>

\* klogf of the job's string; nothing of the kernel's state changes.  A string that
\* a program passes, here and to open and spawn, is one that its tables map.
Log ==
    /\ kpc = "serve" /\ call = "log"
    /\ Goto("exit")
    /\ UNCHANGED <<ring, locals, stack, memory, devices, history>>

\* The end of open and get, mutated: get looks for the byte in its buffer only
\* before it reads a sector.
AnswerBeforeRead ==
    /\ kpc = "serve" /\ call \in {"open", "get"}
    /\ SetResult
    /\ Goto("exit")
    /\ UNCHANGED <<ring, locals, memory, devices>>

\* open needs no disk access; get needs none when its buffer holds the byte or
\* the descriptor is not valid.
Answer ==
    /\ \/ kpc = "serve" /\ call \in {"open", "get"}
       \/ kpc = "served" /\ call = "get"
    /\ SetResult
    /\ Goto("exit")
    /\ UNCHANGED <<ring, locals, memory, devices>>

\* job_create_from_file, once the file is read.  The paging of the new job is
\* applied and replaced by the caller's again while FIQ is masked.
Spawn ==
    /\ kpc = "served" /\ call = "spawn"
    /\ Ring!job_create
    /\ NewContext
    /\ Goto("exit")
    /\ UNCHANGED <<locals, stack, ttbr, devices>>

\* A number handle_syscall does not know, or a data abort, which falls through
\* to it: res is not initialised, so the call returns or the kernel stops.
Unknown ==
    /\ kpc = "serve" /\ call = "unknown"
    /\ \E k \in {"exit", "hang"} : Goto(k)
    /\ UNCHANGED <<ring, locals, stack, memory, devices, history>>

\* Any other synchronous exception of a program stops the kernel.
UserFault ==
    /\ kpc = "user"
    /\ TakeException
    /\ stack' = PushedStack
    /\ kpc' = "hang"
    /\ UNCHANGED <<ring, locals, memory, devices, history>>

LocalsGone == call' = "none" /\ lr' = NoImage /\ lspsr' = NoSpsr

\* The end of handle_syscall and of loweraa64_svc, mutated: the frame is not
\* popped.
ExitWithoutPop ==
    /\ kpc = "exit"
    /\ Eret(Head(stack), lr, lspsr)
    /\ LocalsGone
    /\ UNCHANGED <<ring, sp0, stack, memory, devices, history>>

\* The end of handle_syscall, whose locals go, and of loweraa64_svc.
SvcExit ==
    /\ kpc = "exit"
    /\ Eret(Head(stack), lr, lspsr)
    /\ stack' = Tail(stack)
    /\ LocalsGone
    /\ UNCHANGED <<ring, sp0, memory, devices, history>>

-----------------------------------------------------------------------------
(* disk_create_request_sync, as get and spawn reach it.                        *)

\* The request is published, its handler set, FIQ unmasked, the device notified.
RequestStart ==
    /\ kpc \in {"serve", "served"} /\ call \in {"get", "spawn"}
    /\ done' = FALSE
    /\ disk' = "busy"
    /\ fmasked' = FALSE
    /\ kpc' = "wait"
    /\ UNCHANGED <<ring, el, flags, pc, x, sp0, elr, spsr, locals, stack, memory, timer,
                   history>>

\* while (!sync->done), then FIQ is masked again.
RequestEnd ==
    /\ kpc = "wait"
    /\ done
    /\ fmasked' = TRUE
    /\ kpc' = "served"
    /\ UNCHANGED <<ring, el, flags, pc, x, sp0, elr, spsr, locals, stack, memory, devices,
                   history>>

DiskCompletes ==
    /\ disk = "busy"
    /\ disk' = "raised"
    /\ UNCHANGED <<ring, kpc, cpu, locals, stack, memory, timer, done, history>>

TimerExpires ==
    /\ timer = "armed"
    /\ timer' = "expired"
    /\ UNCHANGED <<ring, kpc, cpu, locals, stack, memory, disk, done, history>>

-----------------------------------------------------------------------------
(* FIQ: loweraa64_fiq and currentelx_fiq both call exceptions_handle_fiq.      *)
FiqTaken ==
    /\ kpc \in {"user", "wait"}
    /\ ~ fmasked
    /\ TakeException
    /\ stack' = PushedStack

\* disk_handle_interrupt_sync, mutated: it acknowledges and does not set done.
FiqDiskWithoutDone ==
    /\ disk = "raised"
    /\ FiqTaken
    /\ disk' = "idle"
    /\ kpc' = "fiqexit"
    /\ UNCHANGED <<ring, locals, memory, timer, done, history>>

\* Interrupt 79: disk_handle_interrupt_sync acknowledges it and sets done.
FiqDisk ==
    /\ disk = "raised"
    /\ FiqTaken
    /\ disk' = "idle"
    /\ done' = TRUE
    /\ kpc' = "fiqexit"
    /\ UNCHANGED <<ring, locals, memory, timer, history>>

\* Interrupt 30: internal_handler reloads the timer and saves the context of
\* the current job.
FiqTimer ==
    /\ timer = "expired"
    /\ FiqTaken
    /\ timer' = "armed"
    /\ ctx' = [ctx EXCEPT ![current_job] =
                 [pc |-> elr', sp |-> sp0, x |-> SaveContext(Head(stack'))]]
    /\ kpc' = "forward"
    /\ UNCHANGED <<ring, locals, ttbr, disk, done, history>>

\* job_forward.
Forward ==
    /\ \/ /\ kpc = "forward"
          /\ Ring!ForwardStart
          /\ Goto(IF phase' = "wild" THEN "hang" ELSE "scan")   \* see JobRing
       \/ /\ kpc = "scan"
          /\ Ring!ForwardDelete
          /\ Goto(IF phase' = "hung" THEN "hang" ELSE "scan")
       \/ /\ kpc = "scan"
          /\ Ring!ForwardEnd
          /\ Goto("restore")
    /\ UNCHANGED <<locals, stack, memory, devices, history>>

\* The end of internal_handler, mutated: the paging is not switched.
RestoreWithoutPaging ==
    /\ kpc = "restore"
    /\ stack' = [stack EXCEPT ![1] = RestoreContext(@, ctx[current_job].x)]
    /\ elr' = ctx[current_job].pc
    /\ sp0' = ctx[current_job].sp
    /\ kpc' = "fiqexit"
    /\ UNCHANGED <<ring, el, fmasked, flags, pc, x, spsr, locals, memory, devices, history>>

\* The end of internal_handler: the context of the new current job goes into
\* the frame, ELR_EL1 and SP_EL0, and its paging is applied.  SPSR_EL1, with the
\* flags in it, remains that of the program that was interrupted.
Restore ==
    /\ kpc = "restore"
    /\ stack' = [stack EXCEPT ![1] = RestoreContext(@, ctx[current_job].x)]
    /\ elr' = ctx[current_job].pc
    /\ sp0' = ctx[current_job].sp
    /\ Apply(current_job)
    /\ kpc' = "fiqexit"
    /\ UNCHANGED <<ring, el, fmasked, flags, pc, x, spsr, locals, ctx, devices, history>>

\* The end of loweraa64_fiq and currentelx_fiq.
FiqExit ==
    /\ kpc = "fiqexit"
    /\ Eret(Head(stack), elr, spsr)
    /\ stack' = Tail(stack)
    /\ UNCHANGED <<ring, sp0, locals, memory, devices, history>>

\* The instruction abort of an eret to an address that is not executable at
\* that level: exceptions_distributor stops the kernel.
InstructionAbort ==
    /\ kpc = "abort"
    /\ Goto("hang")
    /\ UNCHANGED <<ring, locals, stack, memory, devices, history>>

Hang == kpc = "hang" /\ UNCHANGED vars

-----------------------------------------------------------------------------
KernelStep ==
    \/ EnterUser
    \/ Terminate \/ Log \/ Answer \/ Spawn \/ Unknown \/ SvcExit
    \/ RequestStart \/ RequestEnd
    \/ Forward \/ Restore \/ FiqExit
    \/ InstructionAbort

Next ==
    \/ KernelStep
    \/ FiqDisk \/ FiqTimer
    \/ UserStep \/ UserFault \/ \E c \in Call : svc(c)
    \/ DiskCompletes \/ TimerExpires
    \/ Hang

Spec == Init /\ [][Next]_vars

(***************************************************************************)
(* The processor goes on with kernel code, and the device answers.  A tick *)
(* reloads the timer for a second, so the disk's interrupt is taken, and   *)
(* the wait loop looks at done, before the next tick: strong fairness of   *)
(* FiqDisk and RequestEnd.  A file has finitely many sectors, so the last  *)
(* request of a call comes: strong fairness of Answer and Spawn.           *)
(***************************************************************************)
Fairness ==
    /\ WF_vars(KernelStep)
    /\ SF_vars(FiqDisk) /\ SF_vars(RequestEnd)
    /\ SF_vars(Answer) /\ SF_vars(Spawn)
    /\ WF_vars(DiskCompletes)

FairSpec == Spec /\ Fairness

-----------------------------------------------------------------------------
(***************************************************************************)
(* Properties.                                                             *)
(***************************************************************************)
TypeOK ==
    /\ Ring!TypeOK
    /\ kpc \in {"boot", "user", "serve", "wait", "served", "exit", "forward",
                "scan", "restore", "fiqexit", "abort", "hang"}
    /\ call \in Call \cup {"none"}
    /\ el \in {0, 1} /\ fmasked \in BOOLEAN
    /\ timer \in {"armed", "expired"}
    /\ disk \in {"idle", "busy", "raised"}
    /\ done \in BOOLEAN
    /\ ttbr \in Job \cup {NULL}
    /\ Len(stack) <= 2

\* Whenever a program runs, it is the current job's, at EL0, in its own address
\* space, and with its own program counter, stack pointer, x0 and x2 to x30 as
\* it left them, save the result of a call.  Its flags are its own if no other
\* program has gone on since it did; otherwise the tick has given it the other
\* program's.  x1 is left out, see AllRegistersIntact.  The rest survives any
\* interleaving of calls, ticks, disk interrupts nested in calls, and jobs
\* created and deleted in between.
SavedContextIntact ==
    kpc = "user" =>
      /\ el = 0
      /\ current_job \in alloc
      /\ ttbr = current_job
      /\ pc = Image(0, current_job, age[current_job])
      /\ sp0 = pc
      /\ \A r \in Reg \ {1} : x[r] = UserX(current_job)[r]
      /\ ran = current_job => flags = pc

\* include/mp/sched.h:13-17: the context that is saved on the job struct is
\* "31 registers (from the memory zone)", the program counter and the stack
\* pointer: a program that runs finds all of x0..x30 as it left them.
AllRegistersIntact == kpc = "user" => x = UserX(current_job)

\* A program runs with the kernel stack empty and FIQ unmasked: every exception
\* path pops what it pushed, also when a tick or the disk interrupted a call,
\* and every program can be preempted.
UserIsPreemptible == kpc = "user" => stack = <<>> /\ ~ fmasked

\* A kernel that waits for the disk has an answer coming: the completion of its
\* request is not lost when a tick interrupts the wait.
WaitIsAnswered ==
    kpc = "wait" => done \/ disk \in {"busy", "raised"}

\* include/exceptions.h:30-33: a tick "coming from EL1" is to "just reload the
\* timer since there is no usermode process to switch": while the kernel serves
\* a call, the job that made it remains the current one.
CallerStaysCurrent == call # "none" => current_job = lr.job

\* Every call that the kernel begins to serve returns to a program: its disk
\* request is answered, also when ticks interrupt the wait.  Three things stop
\* the kernel instead: a number that handle_syscall does not know, a tick in the
\* wait that switches to another job (CallerStaysCurrent, which the code does
\* not keep), and a tick in the wait that finds no job left to switch to, or a
\* chain that a job_create without a slot has cut (HaltsOnlyWhen of JobRing).
CallReturns ==
    (call # "none") ~> \/ call \in {"none", "unknown"}
                       \/ ~ CallerStaysCurrent
                       \/ phase \in {"hung", "wild"}
=============================================================================
