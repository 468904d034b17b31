----------------------------- MODULE KernelProofs ----------------------------
(* Proofs about Kernel: every program finds its own context and can be          *)
(* preempted, and a kernel that waits for the disk is answered, for any number  *)
(* of jobs.                                                                     *)
EXTENDS Kernel, TLAPS

-----------------------------------------------------------------------------
(* The frame and the copies that are made of it.                                *)

\* Every register but x1 lies in a word that the copies cover.
LEMMA FrameLayout ==
    ASSUME NEW r \in Reg \ {1}
    PROVE  /\ WordOf(r) \in FrameWord /\ WordOf(r) <= 30 /\ WordOf(r) # 1
           /\ 30 - WordOf(r) \in Reg /\ 30 - (30 - WordOf(r)) = WordOf(r)
           /\ RegOf(WordOf(r)) = r
           /\ WordOf(r) = WordOf(0) <=> r = 0
  BY DEF Reg, FrameWord, WordOf, RegOf

\* UserX of a program is in the frame f, or in the saved registers s, but for x1.
InFrame(f, j) == f = [w \in FrameWord |-> f[w]]
                   /\ \A r \in Reg \ {1} : f[WordOf(r)] = UserX(j)[r]
InSaved(s, j) == \A r \in Reg \ {1} : s[30 - WordOf(r)] = UserX(j)[r]

\* The vectors push every register of the program.
LEMMA PushKeeps ==
    ASSUME NEW j, \A r \in Reg \ {1} : x[r] = UserX(j)[r], NEW zero
    PROVE  InFrame(PushFrame(x, zero), j)
  BY FrameLayout DEF InFrame, PushFrame

\* scheduling_save_context copies all of them but x1.
LEMMA SaveKeeps ==
    ASSUME NEW f, NEW j, InFrame(f, j) PROVE InSaved(SaveContext(f), j)
  BY FrameLayout DEF InFrame, InSaved, SaveContext

\* scheduling_restore_context puts them back where the vectors look for them.
LEMMA RestoreKeeps ==
    ASSUME NEW f, NEW s, NEW j, InSaved(s, j) PROVE InFrame(RestoreContext(f, s), j)
  BY FrameLayout DEF InFrame, InSaved, RestoreContext

\* The vectors pop every register from where it was pushed.
LEMMA PopKeeps ==
    ASSUME NEW f, NEW j, InFrame(f, j)
    PROVE  \A r \in Reg \ {1} : PopFrame(f)[r] = UserX(j)[r]
  BY DEF InFrame, PopFrame

\* Level and job of an image.
LEMMA ImageFields ==
    ASSUME NEW l, NEW j, NEW a
    PROVE  /\ Image(l, j, a).level = l /\ Image(l, j, a).job = j
           /\ KernelImage(j).level = 1
  BY DEF Image, KernelImage

\* Stacks that hold the same frames are equal.
LEMMA SameStacks ==
    ASSUME NEW S, NEW s \in Seq(S), NEW t \in Seq(S), Len(s) = Len(t),
           \A i \in 1 .. Len(s) : s[i] = t[i]
    PROVE  s = t
  OBVIOUS

\* Stacks of one and of two frames.
LEMMA Stacks ==
    ASSUME NEW f, NEW g
    PROVE  /\ <<f>> \o <<>> = <<f>> /\ <<g>> \o <<f>> = <<g, f>>
           /\ Head(<<f>>) = f /\ Tail(<<f>>) = <<>>
           /\ Head(<<g, f>>) = g /\ Tail(<<g, f>>) = <<f>>
  <1>1. <<f>> \o <<>> = <<f>>
    OBVIOUS
  <1>2. <<g>> \o <<f>> = <<g, f>>
    <2>1. <<g>> \in Seq({f, g}) /\ <<f>> \in Seq({f, g}) /\ <<g, f>> \in Seq({f, g})
      OBVIOUS
    <2>. DEFINE s == <<g>> \o <<f>>
    <2>2. s \in Seq({f, g}) /\ Len(s) = 2 /\ s[1] = g /\ s[2] = f
      BY <2>1
    <2>. HIDE DEF s
    <2>3. \A i \in 1 .. Len(s) : s[i] = <<g, f>>[i]
      BY <2>2
    <2>4. s = <<g, f>>
      BY ZenonT(40), <2>1, <2>2, <2>3, SameStacks
    <2>. QED
      BY <2>4 DEF s
  <1>3. Head(<<f>>) = f /\ Head(<<g, f>>) = g
    OBVIOUS
  <1>4. Tail(<<f>>) = <<>>
    OBVIOUS
  <1>5. Tail(<<g, f>>) = <<f>>
    OBVIOUS
  <1>. QED
    BY Zenon, <1>1, <1>2, <1>3, <1>4, <1>5

\* Writing to the frame on top leaves the one below alone.
LEMMA ReplaceFirst ==
    ASSUME NEW f, NEW g, NEW h
    PROVE  /\ [<<f>> EXCEPT ![1] = h] = <<h>>
           /\ [<<f, g>> EXCEPT ![1] = h] = <<h, g>>
  <1>1. /\ [<<f>> EXCEPT ![1] = h] \in Seq({f, g, h}) /\ <<h>> \in Seq({f, g, h})
        /\ [<<f, g>> EXCEPT ![1] = h] \in Seq({f, g, h}) /\ <<h, g>> \in Seq({f, g, h})
    OBVIOUS
  <1>2. Len([<<f>> EXCEPT ![1] = h]) = 1 /\ [<<f>> EXCEPT ![1] = h][1] = h
    OBVIOUS
  <1>3. /\ Len([<<f, g>> EXCEPT ![1] = h]) = 2
        /\ [<<f, g>> EXCEPT ![1] = h][1] = h /\ [<<f, g>> EXCEPT ![1] = h][2] = g
    OBVIOUS
  <1>. QED
    BY <1>1, <1>2, <1>3, SameStacks

-----------------------------------------------------------------------------
(* The inductive invariant, by the point the processor is at.                   *)

\* The program of job j can go on from what is saved for it.
Saved(j) ==
    /\ ctx[j].pc = Image(0, j, age[j]) /\ ctx[j].sp = Image(0, j, age[j])
    /\ InSaved(ctx[j].x, j)

\* Where an eret with this SPSR leads: to EL0 or to EL1, with FIQ unmasked.
ToUser(s) == s.el = 0 /\ s.fmasked = FALSE
ToWait(s) == s.el = 1 /\ s.fmasked = FALSE

\* What the kernel keeps of job c, whose call it serves, besides the frame.
Serving(c) ==
    /\ lr = Image(0, c, age[c]) /\ ToUser(lspsr)
    /\ \A j \in alloc \ {c} : Saved(j)

InProgram ==
    /\ el = 0 /\ ttbr = current_job
    /\ pc = Image(0, current_job, age[current_job]) /\ sp0 = pc
    /\ \A r \in Reg \ {1} : x[r] = UserX(current_job)[r]
    /\ stack = <<>> /\ fmasked = FALSE
    /\ \A j \in alloc \ {current_job} : Saved(j)

InCall ==
    /\ el = 1 /\ ttbr = current_job
    /\ pc = KernelImage(current_job)
    /\ sp0 = Image(0, current_job, age[current_job])
    /\ Serving(current_job)
    /\ \E f : stack = <<f>> /\ InFrame(f, current_job)

\* A tick that interrupted a program; afterwards the frame is the next program's.
TickOfProgram ==
    /\ ToUser(spsr)
    /\ \E f : stack = <<f>>
    /\ \A j \in alloc : Saved(j)

LeavingToProgram ==
    /\ ToUser(spsr)
    /\ elr = Image(0, current_job, age[current_job]) /\ sp0 = elr
    /\ ttbr = current_job
    /\ \E f : stack = <<f>> /\ InFrame(f, current_job)
    /\ \A j \in alloc \ {current_job} : Saved(j)

\* A tick that interrupted the wait of job lr.job for the disk: it goes on only if
\* the tick comes back to the same job; otherwise the address is a program's.
TickOfWait ==
    LET c == lr.job
    IN  /\ ToWait(spsr) /\ c \in Job
        /\ kpc = "forward" => current_job = c
        /\ ctx[c].pc = KernelImage(c) /\ ctx[c].sp = Image(0, c, age[c])
        /\ Serving(c)
        /\ \E f, g : stack = <<g, f>> /\ InFrame(f, c)

LeavingToWait ==
    /\ ToWait(spsr)
    /\ \/ elr.level = 0 /\ \E f, g : stack = <<g, f>>
       \/ /\ elr = KernelImage(current_job) /\ ttbr = current_job
          /\ sp0 = Image(0, current_job, age[current_job])
          /\ Serving(current_job)
          /\ \E f, g : stack = <<g, f>> /\ InFrame(f, current_job)

Place ==
    /\ kpc \in {"boot", "user", "serve", "wait", "served", "exit", "forward",
                "scan", "restore", "fiqexit", "abort", "hang"}
    /\ kpc \notin {"scan", "hang"} => phase = "idle"
    /\ kpc = "scan" => phase = "scan"
    /\ kpc \notin {"boot", "hang"} => current_job \in alloc

Tables ==
    /\ ctx = [j \in Job |-> ctx[j]]
    /\ age = [j \in Job |-> age[j]]
    /\ result = [j \in Job |-> result[j]]

AtBoot ==
    /\ current_job = NULL /\ stack = <<>> /\ spsr = NoSpsr
    /\ \A j \in Job : age[j] = 0 /\ result[j] = FALSE

\* The kernel waits, or is in an exception that interrupted its wait.
Waiting ==
    \/ kpc = "wait"
    \/ kpc \in {"forward", "scan", "restore", "fiqexit"} /\ ToWait(spsr)

\* What the kernel relies on of the chain of jobs.
ChainInv ==
    /\ alloc \subseteq Job
    /\ phase = "idle" /\ current_job = NULL => alloc = {}
    /\ phase = "idle" /\ current_job # NULL => current_job \in alloc
    /\ phase = "scan" => current_job \in alloc

IInv ==
    /\ ChainInv
    /\ Place /\ Tables
    /\ kpc = "boot" => AtBoot
    /\ kpc = "user" => InProgram
    /\ kpc \in {"serve", "served", "exit", "wait"} => InCall
    /\ kpc = "wait" => fmasked = FALSE
    /\ kpc \in {"forward", "scan", "restore"} => TickOfProgram \/ TickOfWait
    /\ kpc = "fiqexit" => LeavingToProgram \/ LeavingToWait
    /\ Waiting => done \/ disk \in {"busy", "raised"}

-----------------------------------------------------------------------------
(* What one step does, if the chain of jobs is in order after it.               *)

\* A job that is created gets a slot that was not in use, or none.
LEMMA CreateFacts ==
    ASSUME ChainInv, Ring!job_create
    PROVE  /\ alloc \subseteq alloc' /\ phase' = "idle"
           /\ current_job # NULL => current_job' = current_job
           /\ current_job = NULL => current_job' \in alloc' /\ alloc' = {current_job'}
  BY KernelAssumption DEF Ring!job_create, Ring!Insert, ChainInv

\* The contexts of other jobs depend on nothing but these.
LEMMA SameSaved ==
    ASSUME NEW j, ctx'[j] = ctx[j], age'[j] = age[j], result'[j] = result[j], Saved(j)
    PROVE  Saved(j)'
  BY DEF Saved, InSaved, UserX

\* A frame stays a frame of a program that does not go on.
LEMMA SameFrame ==
    ASSUME NEW f, NEW j, age'[j] = age[j], result'[j] = result[j], InFrame(f, j)
    PROVE  InFrame(f, j)'
  BY DEF InFrame, UserX

core == <<alloc, current_job, el, pc, x, sp0, elr, spsr, lr, lspsr, stack, ctx, ttbr, age, result>>

\* What the invariant of a point depends on.
LEMMA SameCore ==
    ASSUME UNCHANGED core
    PROVE  /\ Tables' <=> Tables
           /\ AtBoot' <=> AtBoot
           /\ fmasked' = fmasked => (InProgram' <=> InProgram)
           /\ InCall' <=> InCall
           /\ TickOfProgram' <=> TickOfProgram
           /\ kpc' = kpc => (TickOfWait' <=> TickOfWait)
           /\ LeavingToProgram' <=> LeavingToProgram
           /\ LeavingToWait' <=> LeavingToWait
  <1>. USE DEF core
  <1>1. \A j : Saved(j)' <=> Saved(j)
    BY DEF Saved, InSaved, UserX
  <1>2. \A f, j : InFrame(f, j)' <=> InFrame(f, j)
    BY DEF InFrame, UserX
  <1>3. \A c : Serving(c)' <=> Serving(c)
    BY <1>1 DEF Serving
  <1>4. (Tables' <=> Tables) /\ (AtBoot' <=> AtBoot)
    BY DEF Tables, AtBoot
  <1>5. fmasked' = fmasked => (InProgram' <=> InProgram)
    BY <1>1 DEF InProgram, UserX
  <1>6. InCall' <=> InCall
    BY <1>2, <1>3 DEF InCall
  <1>7. (TickOfProgram' <=> TickOfProgram) /\ (LeavingToProgram' <=> LeavingToProgram)
    BY <1>1, <1>2 DEF TickOfProgram, LeavingToProgram
  <1>8. kpc' = kpc => (TickOfWait' <=> TickOfWait)
    BY <1>2, <1>3 DEF TickOfWait
  <1>9. LeavingToWait' <=> LeavingToWait
    BY <1>2, <1>3 DEF LeavingToWait
  <1>. QED
    BY ZenonT(40), <1>4, <1>5, <1>6, <1>7, <1>8, <1>9

\* Devices change, or nothing does.
LEMMA DeviceIInv ==
    ASSUME IInv, ChainInv', UNCHANGED <<ring, kpc, cpu, locals, stack, memory, history>>,
           done' = done, disk' = disk \/ disk' \in {"busy", "raised"}
    PROVE  IInv'
  <1>1. UNCHANGED core /\ UNCHANGED <<ring, kpc, fmasked>>
    BY DEF core, ring, cpu, locals, memory, history
  <1>3. Place' /\ (Waiting' <=> Waiting)
    BY <1>1 DEF IInv, Place, Waiting, core, ring
  <1>. QED
    BY <1>1, <1>3, SameCore DEF IInv

\* Terminate, Log, Unknown: on to the end of the call, or to a stop.
LEMMA CallGoesOn ==
    ASSUME IInv, ChainInv', kpc \in {"serve", "served"}, kpc' \in {"exit", "hang"},
           UNCHANGED <<cpu, locals, stack, memory, devices, history>>,
           Ring!job_terminate \/ UNCHANGED ring
    PROVE  IInv'
  <1>1. UNCHANGED core /\ UNCHANGED phase
    BY DEF core, ring, cpu, locals, memory, history, Ring!job_terminate
  <1>3. Place' /\ ~ Waiting'
    BY <1>1 DEF IInv, Place, Waiting, core
  <1>. QED
    BY Zenon, <1>1, <1>3, SameCore DEF IInv

\* Boot ends: the first job is entered.
LEMMA EnterUserIInv ==
    ASSUME IInv, EnterUser, ChainInv' PROVE IInv'
  <1>1. /\ kpc = "boot" /\ kpc' = "user" /\ AtBoot
        /\ Ring!job_create /\ ChainInv /\ Tables
    BY DEF EnterUser, IInv
  <1>3. current_job' \in alloc' /\ alloc' = {current_job'} /\ phase' = "idle"
    BY <1>1, CreateFacts DEF AtBoot
  <1>4. current_job' \in Job /\ alloc' \subseteq Job
    BY <1>3 DEF ChainInv
  <1>. DEFINE j == current_job'
  <1>5. age[j] = 0 /\ result[j] = FALSE /\ age' = age /\ result' = result
    BY <1>1, <1>4 DEF AtBoot, EnterUser, history
  <1>6. ctx'[j] = FreshContext(j) /\ Tables'
    BY <1>1, <1>4, <1>5 DEF EnterUser, Tables
  <1>7. pc' = Image(0, j, 0) /\ sp0' = Image(0, j, 0)
    BY <1>6 DEF EnterUser, FreshContext
  <1>8. /\ el' = 0 /\ ttbr' = j /\ stack' = <<>> /\ fmasked' = FALSE
    BY <1>1 DEF EnterUser, Apply, AtBoot, NoSpsr
  <1>9. \A r \in Reg \ {1} : x'[r] = UserX(current_job)'[r]
    BY <1>5 DEF EnterUser, UserX
  <1>10. InProgram'
    BY ZenonT(40), <1>3, <1>5, <1>7, <1>8, <1>9 DEF InProgram
  <1>. QED
    BY ZenonT(40), <1>1, <1>3, <1>6, <1>10 DEF IInv, Place, Waiting

\* A program that goes on takes its registers along.
LEMMA UserStepIInv ==
    ASSUME IInv, UserStep, ChainInv' PROVE IInv'
  <1>1. /\ kpc = "user" /\ kpc' = "user" /\ InProgram /\ Place /\ Tables /\ ChainInv
        /\ UNCHANGED <<alloc, current_job, phase, stack, ctx, ttbr, el, fmasked>>
        /\ UNCHANGED ring
    BY DEF UserStep, IInv, ring, memory
  <1>2. Place'
    BY <1>1 DEF Place
  <1>. DEFINE c == current_job
  <1>3. c \in Job /\ alloc \subseteq Job
    BY <1>1 DEF ChainInv, Place
  <1>4. /\ age' = [age EXCEPT ![c] = (@ + 1) % Ages[c]]
        /\ result' = [result EXCEPT ![c] = FALSE]
        /\ pc' = Image(0, c, age'[c]) /\ sp0' = pc' /\ x' = [r \in Reg |-> pc']
    BY DEF UserStep
  <1>5. result'[c] = FALSE /\ Tables'
        /\ \A j \in alloc \ {c} : age'[j] = age[j] /\ result'[j] = result[j]
    BY ZenonT(40), <1>1, <1>3, <1>4 DEF Tables
  <1>6. \A j \in alloc \ {c} : Saved(j)'
    BY <1>1, <1>5, SameSaved DEF InProgram
  <1>7. \A r \in Reg \ {1} : x'[r] = UserX(current_job)'[r]
    BY <1>1, <1>4, <1>5 DEF UserX
  <1>8. InProgram'
    BY <1>1, <1>4, <1>6, <1>7 DEF InProgram
  <1>. QED
    BY ZenonT(40), <1>1, <1>2, <1>5, <1>8 DEF IInv, Waiting

\* The kernel stops.
LEMMA HangIInv ==
    ASSUME IInv, kpc' = "hang", UNCHANGED <<ctx, age, result>>, ChainInv'
    PROVE  IInv'
  BY DEF IInv, Place, Tables, Waiting

\* The frame that a program's registers are pushed in.
LEMMA PushedFrame ==
    ASSUME InProgram, UNCHANGED <<current_job, age, result>>, stack' = PushedStack
    PROVE  \E f : /\ stack' = <<f>> /\ InFrame(f, current_job)'
                  /\ InSaved(SaveContext(f), current_job)'
  <1>1. PICK f : f = PushFrame(x, NoImage)
    BY Zenon
  <1>2. InFrame(f, current_job) /\ stack' = <<f>>
    BY ZenonT(40), <1>1, PushKeeps, Stacks DEF PushedStack, InProgram
  <1>3. InSaved(SaveContext(f), current_job)
    BY <1>2, SaveKeeps
  <1>. QED
    BY <1>2, <1>3 DEF InFrame, InSaved, UserX

\* A system call pushes the frame and keeps ELR and SPSR in its locals.
LEMMA SvcIInv ==
    ASSUME IInv, NEW c \in Call, svc(c), ChainInv' PROVE IInv'
  <1>1. /\ kpc = "user" /\ kpc' = "serve" /\ InProgram /\ Place /\ Tables /\ ChainInv
        /\ UNCHANGED ring /\ UNCHANGED <<alloc, current_job, phase, ctx, ttbr, age, result>>
    BY DEF svc, IInv, ring, memory, history
  <1>2. Place' /\ Tables'
    BY <1>1 DEF Place, Tables
  <1>3. /\ el' = 1 /\ pc' = KernelImage(current_job) /\ sp0' = sp0
        /\ lr' = pc /\ ToUser(lspsr')
    BY ZenonT(40), <1>1 DEF svc, TakeException, InProgram, ToUser
  <1>4. \E f : stack' = <<f>> /\ InFrame(f, current_job)'
    BY <1>1, PushedFrame DEF svc
  <1>5. \A j \in alloc \ {current_job} : Saved(j)'
    BY <1>1, SameSaved DEF InProgram
  <1>6. KernelImage(current_job)' = KernelImage(current_job)
    BY <1>1 DEF KernelImage
  <1>7. InCall'
    BY ZenonT(40), <1>1, <1>3, <1>4, <1>5, <1>6 DEF InProgram, InCall, Serving
  <1>. QED
    BY <1>1, <1>2, <1>7 DEF IInv, Waiting

\* A result is put in the word of x0, and the program is to find it there.
LEMMA AnswerIInv ==
    ASSUME IInv, Answer, ChainInv' PROVE IInv'
  <1>1. /\ kpc \in {"serve", "served"} /\ kpc' = "exit" /\ InCall /\ Place /\ Tables
        /\ ChainInv /\ UNCHANGED ring
        /\ UNCHANGED <<alloc, current_job, phase, ctx, ttbr, age, el, pc, sp0, lr, lspsr>>
    BY DEF Answer, SetResult, Goto, IInv, ring, memory, cpu, locals
  <1>2. Place'
    BY <1>1 DEF Place
  <1>. DEFINE c == current_job
              v == Image(1, c, age[c])
  <1>3. c \in Job /\ alloc \subseteq Job
    BY <1>1 DEF ChainInv, Place
  <1>4. result' = [result EXCEPT ![c] = TRUE]
    BY DEF Answer, SetResult
  <1>5. /\ result'[c] = TRUE /\ Tables'
        /\ \A j \in alloc \ {c} : result'[j] = result[j]
    BY Zenon, <1>1, <1>3, <1>4 DEF Tables
  <1>6. PICK f : stack = <<f>> /\ InFrame(f, c)
    BY <1>1 DEF InCall
  <1>7. PICK g : g = [f EXCEPT ![WordOf(0)] = v]
    BY Zenon
  <1>8. stack' = <<g>>
    <2>1. stack' = [<<f>> EXCEPT ![1] = [f EXCEPT ![WordOf(0)] = v]]
      BY <1>6 DEF Answer, SetResult
    <2>. QED
      BY ZenonT(40), <1>7, <2>1, ReplaceFirst
  <1>9. InFrame(g, current_job)'
    <2>1. g = [w \in FrameWord |-> g[w]]
      BY Zenon, <1>6, <1>7 DEF InFrame
    <2>2. WordOf(0) \in FrameWord
      BY DEF WordOf, FrameWord
    <2>3. g[WordOf(0)] = v /\ \A w \in FrameWord : w # WordOf(0) => g[w] = f[w]
      BY Zenon, <1>6, <1>7, <2>2 DEF InFrame
    <2>4. UserX(current_job)'[0] = v
      BY <1>1, <1>5 DEF UserX, Reg
    <2>5. \A r \in Reg \ {0} : UserX(current_job)'[r] = UserX(c)[r]
      BY <1>1 DEF UserX
    <2>6. ASSUME NEW r \in Reg \ {1} PROVE g[WordOf(r)] = UserX(current_job)'[r]
      <3>1. CASE r = 0
        BY Zenon, <3>1, <2>3, <2>4
      <3>2. CASE r # 0
        BY Zenon, <3>2, <1>6, <2>3, <2>5, FrameLayout DEF InFrame
      <3>. QED
        BY Zenon, <3>1, <3>2
    <2>. QED
      BY Zenon, <2>1, <2>6 DEF InFrame
  <1>10. \A j \in alloc \ {c} : Saved(j)'
    BY Zenon, <1>1, <1>5, SameSaved DEF InCall, Serving
  <1>11. KernelImage(current_job)' = KernelImage(current_job)
    BY <1>1 DEF KernelImage
  <1>12. InCall'
    BY Zenon, <1>1, <1>8, <1>9, <1>10, <1>11 DEF InCall, Serving
  <1>. QED
    BY ZenonT(40), <1>1, <1>2, <1>5, <1>12 DEF IInv, Waiting

\* A job is created: the ones in use keep their contexts, the new one has a fresh one.
LEMMA SpawnIInv ==
    ASSUME IInv, Spawn, ChainInv' PROVE IInv'
  <1>1. /\ kpc = "served" /\ kpc' = "exit" /\ InCall /\ Place /\ ChainInv
        /\ Ring!job_create /\ NewContext
        /\ UNCHANGED <<ttbr, el, pc, sp0, lr, lspsr, stack>>
    BY DEF Spawn, Goto, IInv, cpu, locals
  <1>. DEFINE c == current_job
  <1>3. /\ c \in alloc /\ alloc \subseteq alloc' /\ phase' = "idle" /\ current_job' = c
        /\ alloc' \subseteq Job
    BY Zenon, <1>1, CreateFacts DEF Place, ChainInv
  <1>4. /\ \A j \in alloc : ctx'[j] = ctx[j] /\ age'[j] = age[j] /\ result'[j] = result[j]
        /\ \A j \in alloc' \ alloc :
             ctx'[j] = FreshContext(j) /\ age'[j] = 0 /\ result'[j] = FALSE
        /\ Tables'
    BY ZenonT(40), <1>1, <1>3 DEF NewContext, Tables
  <1>5. ASSUME NEW j \in alloc' \ {c} PROVE Saved(j)'
    <2>1. CASE j \in alloc
      BY Zenon, <2>1, <1>1, <1>4, SameSaved DEF InCall, Serving
    <2>2. CASE j \notin alloc
      <3>1. ctx'[j] = FreshContext(j) /\ age'[j] = 0 /\ result'[j] = FALSE
        BY Zenon, <2>2, <1>4
      <3>2. \A r \in Reg \ {1} : ctx'[j].x[30 - WordOf(r)] = UserX(j)'[r]
        BY <3>1, FrameLayout DEF FreshContext, UserX
      <3>. QED
        BY <3>1, <3>2 DEF Saved, InSaved, FreshContext
    <2>. QED
      BY Zenon, <2>1, <2>2
  <1>6. PICK f : stack = <<f>> /\ InFrame(f, c)
    BY <1>1 DEF InCall
  <1>7. InFrame(f, current_job)'
    BY <1>3, <1>4, <1>6 DEF InFrame, UserX
  <1>8. KernelImage(current_job)' = KernelImage(current_job)
    BY Zenon, <1>3 DEF KernelImage
  <1>9. InCall'
    BY Zenon, <1>1, <1>3, <1>4, <1>5, <1>6, <1>7, <1>8 DEF InCall, Serving
  <1>10. Place'
    BY <1>1, <1>3 DEF Place
  <1>. QED
    BY Zenon, <1>1, <1>4, <1>9, <1>10 DEF IInv, Waiting

\* The end of a call: the program goes on.
LEMMA SvcExitIInv ==
    ASSUME IInv, SvcExit, ChainInv' PROVE IInv'
  <1>1. /\ kpc = "exit" /\ InCall /\ Place /\ Tables /\ ChainInv /\ UNCHANGED ring
        /\ UNCHANGED <<alloc, current_job, phase, ctx, ttbr, age, result, sp0>>
    BY DEF SvcExit, IInv, ring, memory, history
  <1>. DEFINE c == current_job
  <1>2. PICK f : stack = <<f>> /\ InFrame(f, c)
    BY Zenon, <1>1 DEF InCall
  <1>3. lr = Image(0, c, age[c]) /\ ToUser(lspsr) /\ sp0 = lr /\ lr.level = 0
    BY <1>1, ImageFields DEF InCall, Serving
  <1>4. /\ kpc' = "user" /\ pc' = lr /\ el' = 0 /\ fmasked' = FALSE /\ x' = PopFrame(f)
        /\ stack' = <<>>
    BY Zenon, <1>2, <1>3, Stacks DEF SvcExit, Eret, Resume, ToUser
  <1>5. \A r \in Reg \ {1} : x'[r] = UserX(current_job)'[r]
    <2>1. \A r \in Reg \ {1} : x'[r] = UserX(c)[r]
      BY Zenon, <1>2, <1>4, PopKeeps
    <2>. QED
      BY Zenon, <1>1, <2>1 DEF UserX
  <1>6. \A j \in alloc \ {c} : Saved(j)'
    BY Zenon, <1>1, SameSaved DEF InCall, Serving
  <1>7. InProgram'
    BY Zenon, <1>1, <1>3, <1>4, <1>5, <1>6 DEF InProgram, InCall
  <1>8. Place' /\ Tables'
    BY Zenon, <1>1, <1>4 DEF Place, Tables
  <1>. QED
    BY Zenon, <1>4, <1>7, <1>8 DEF IInv, Waiting

\* The disk: the request is made and FIQ unmasked; FIQ is masked and the call goes on.
LEMMA RequestIInv ==
    ASSUME IInv, RequestStart \/ RequestEnd, ChainInv' PROVE IInv'
  <1>1. /\ kpc \in {"serve", "served", "wait"} /\ kpc' \in {"wait", "served"}
        /\ UNCHANGED core /\ UNCHANGED ring /\ UNCHANGED phase
        /\ kpc' = "wait" => fmasked' = FALSE /\ disk' = "busy"
    BY DEF RequestStart, RequestEnd, core, ring, locals, memory, history
  <1>2. Place'
    BY <1>1 DEF IInv, Place, core
  <1>3. InCall' /\ Tables'
    BY Zenon, <1>1, SameCore DEF IInv
  <1>. QED
    BY Zenon, <1>1, <1>2, <1>3 DEF IInv, Waiting

\* What a FIQ finds, whether it interrupts a program or the wait.
LEMMA FiqFacts ==
    ASSUME IInv, FiqTaken, UNCHANGED <<ring, locals, age, result>>
    PROVE  /\ current_job \in alloc /\ phase = "idle" /\ Tables
           /\ UNCHANGED <<alloc, current_job, phase, lr, lspsr>>
           /\ elr' = pc /\ sp0' = sp0 /\ ttbr = current_job
           /\ sp0 = Image(0, current_job, age[current_job])
           /\ \A j \in alloc \ {current_job} : Saved(j)
           /\ \/ /\ kpc = "user" /\ ToUser(spsr')
                 /\ pc = Image(0, current_job, age[current_job])
                 /\ \E f : /\ stack' = <<f>> /\ InFrame(f, current_job)'
                           /\ InSaved(SaveContext(f), current_job)'
              \/ /\ kpc = "wait" /\ ToWait(spsr')
                 /\ pc = KernelImage(current_job) /\ Serving(current_job)
                 /\ \E f, g : stack' = <<g, f>> /\ InFrame(f, current_job)'
  <1>1. /\ ChainInv /\ Place /\ Tables /\ kpc \in {"user", "wait"} /\ fmasked = FALSE
        /\ UNCHANGED <<alloc, current_job, phase, lr, lspsr>>
        /\ elr' = pc /\ sp0' = sp0 /\ spsr' = [el |-> el, fmasked |-> fmasked, flags |-> flags]
        /\ stack' = PushedStack
    BY DEF IInv, FiqTaken, TakeException, InProgram, ring, locals
  <1>3. CASE kpc = "user"
    <2>1. InProgram
      BY <1>3 DEF IInv
    <2>2. \E f : /\ stack' = <<f>> /\ InFrame(f, current_job)'
                 /\ InSaved(SaveContext(f), current_job)'
      BY Zenon, <1>1, <2>1, PushedFrame
    <2>. QED
      BY ZenonT(40), <1>1, <1>3, <2>1, <2>2 DEF InProgram, Place, ToUser
  <1>4. CASE kpc = "wait"
    <2>1. InCall
      BY <1>4 DEF IInv
    <2>2. PICK f : stack = <<f>> /\ InFrame(f, current_job)
      BY <2>1 DEF InCall
    <2>3. PICK g : g = PushFrame(x, NoImage)
      OBVIOUS
    <2>4. stack' = <<g, f>>
      BY ZenonT(40), <1>1, <2>2, <2>3, Stacks DEF PushedStack
    <2>5. InFrame(f, current_job)'
      BY <1>1, <2>2 DEF InFrame, UserX
    <2>. QED
      BY ZenonT(40), <1>1, <1>4, <2>1, <2>4, <2>5 DEF InCall, Serving, Place, ToWait
  <1>. QED
    BY ZenonT(40), <1>1, <1>3, <1>4

\* The disk's interrupt, of a program or of the wait, returns to where it came from.
LEMMA FiqDiskIInv ==
    ASSUME IInv, FiqDisk, ChainInv' PROVE IInv'
  <1>1. /\ FiqTaken /\ UNCHANGED <<ring, locals, age, result, ctx, ttbr>>
        /\ kpc' = "fiqexit" /\ done' = TRUE
    BY DEF FiqDisk, history, memory
  <1>2. Place' /\ Tables'
    BY Zenon, <1>1, FiqFacts DEF Place, Tables
  <1>3. \A j \in alloc \ {current_job} : Saved(j)'
    BY Zenon, <1>1, FiqFacts, SameSaved
  <1>4. KernelImage(current_job)' = KernelImage(current_job)
    BY Zenon, <1>1, FiqFacts DEF KernelImage
  <1>5. CASE kpc = "user"
    <2>1. LeavingToProgram'
      BY Zenon, <1>1, <1>3, <1>5, FiqFacts DEF LeavingToProgram
    <2>. QED
      BY Zenon, <1>1, <1>2, <2>1 DEF IInv, Waiting
  <1>6. CASE kpc = "wait"
    <2>1. Serving(current_job)'
      BY Zenon, <1>1, <1>3, <1>6, FiqFacts DEF Serving
    <2>2. LeavingToWait'
      BY ZenonT(40), <1>1, <1>4, <1>6, <2>1, FiqFacts DEF LeavingToWait
    <2>. QED
      BY Zenon, <1>1, <1>2, <2>2 DEF IInv, Waiting
  <1>. QED
    BY <1>5, <1>6 DEF FiqDisk, FiqTaken

\* The tick saves the context that it interrupted in the current job.
LEMMA FiqTimerIInv ==
    ASSUME IInv, FiqTimer, ChainInv' PROVE IInv'
  <1>1. /\ FiqTaken /\ UNCHANGED <<ring, locals, age, result, ttbr, done, disk>>
        /\ kpc' = "forward"
        /\ ctx' = [ctx EXCEPT ![current_job] =
                     [pc |-> elr', sp |-> sp0, x |-> SaveContext(Head(stack'))]]
    BY ZenonT(40) DEF FiqTimer, history
  <1>2. Place'
    BY SMTT(30), <1>1, FiqFacts DEF Place
  <1>. DEFINE c == current_job
  <1>3. c \in Job /\ alloc \subseteq Job /\ current_job' = c /\ alloc' = alloc /\ c \in alloc
    BY ZenonT(40), <1>1, FiqFacts DEF IInv, ChainInv
  <1>4. /\ ctx'[c].pc = pc /\ ctx'[c].sp = sp0 /\ ctx'[c].x = SaveContext(Head(stack'))
        /\ \A j \in alloc \ {c} : ctx'[j] = ctx[j]
        /\ Tables'
    BY ZenonT(40), <1>1, <1>3, FiqFacts DEF Tables
  <1>5. \A j \in alloc \ {c} : Saved(j)'
    BY Zenon, <1>1, <1>4, FiqFacts, SameSaved
  <1>6. CASE kpc = "user"
    <2>1. PICK f : stack' = <<f>> /\ InSaved(SaveContext(f), current_job)'
      BY Zenon, <1>1, <1>6, FiqFacts
    <2>2. ctx'[c].x = SaveContext(f)
      BY Zenon, <1>4, <2>1, Stacks
    <2>3. InSaved(ctx[current_job].x, current_job)'
      BY Zenon, <1>3, <2>1, <2>2 DEF InSaved
    <2>4. Saved(current_job)'
      BY Zenon, <1>1, <1>3, <1>4, <1>6, <2>3, FiqFacts DEF Saved
    <2>5. \A j \in alloc' : Saved(j)'
      <3>1. ASSUME NEW j \in alloc', j = c PROVE Saved(j)'
        BY <1>3, <2>4, <3>1 DEF Saved, InSaved, UserX
      <3>. QED
        BY ZenonT(40), <1>3, <1>5, <3>1
    <2>6. TickOfProgram'
      BY ZenonT(40), <1>1, <1>6, <2>1, <2>5, FiqFacts DEF TickOfProgram
    <2>7. ~ Waiting'
      BY <1>1, <2>6 DEF Waiting, TickOfProgram, ToUser, ToWait
    <2>. QED
      BY ZenonT(40), <1>1, <1>2, <1>4, <2>6, <2>7 DEF IInv
  <1>7. CASE kpc = "wait"
    <2>1. /\ ToWait(spsr') /\ lr' = Image(0, c, age[c]) /\ ToUser(lspsr')
          /\ pc = KernelImage(c) /\ sp0 = Image(0, c, age[c])
      BY ZenonT(40), <1>1, <1>7, FiqFacts DEF Serving
    <2>2. lr'.job = c
      BY <2>1, ImageFields
    <2>3. PICK f, g : stack' = <<g, f>> /\ InFrame(f, current_job)'
      BY ZenonT(40), <1>1, <1>7, FiqFacts
    <2>4. ASSUME NEW d, d = c
          PROVE  /\ ctx'[d].pc = KernelImage(d) /\ ctx'[d].sp = Image(0, d, age'[d])
                 /\ Serving(d)' /\ InFrame(f, d)' /\ lr'.job = d /\ current_job' = d /\ d \in Job
      BY ZenonT(40), <1>1, <1>3, <1>4, <1>5, <2>1, <2>2, <2>3, <2>4 DEF Serving, InFrame, UserX
    <2>5. PICK d : d = c
      BY Zenon
    <2>6. TickOfWait'
      BY <1>1, <2>1, <2>3, <2>4, <2>5 DEF TickOfWait, KernelImage, Serving, InFrame, UserX
    <2>7. done' \/ disk' \in {"busy", "raised"}
      BY SMTT(30), <1>1, <1>7 DEF IInv, Waiting
    <2>. QED
      BY ZenonT(40), <1>1, <1>2, <1>4, <2>6, <2>7 DEF IInv
  <1>. QED
    BY Zenon, <1>1, <1>6, <1>7 DEF FiqTaken

\* job_forward moves current_job and deletes jobs; what is saved for the rest stays.
LEMMA ForwardIInv ==
    ASSUME IInv, Forward, ChainInv' PROVE IInv'
  <1>1. /\ ChainInv /\ Place /\ Tables
        /\ UNCHANGED <<spsr, lr, lspsr, stack, ctx, age, result, done, disk>>
        /\ Ring!ForwardStart \/ Ring!ForwardDelete \/ Ring!ForwardEnd
    BY SMTT(30) DEF Forward, Goto, IInv, cpu, locals, memory, devices, history
  <1>3. /\ kpc \in {"forward", "scan"} /\ kpc' \in {"scan", "restore", "hang"}
        /\ kpc' = "scan" => phase' = "scan"
        /\ kpc' = "restore" => phase' = "idle" /\ current_job' = current_job
        /\ alloc' \subseteq alloc
        /\ kpc' = "restore" => alloc' = alloc
    BY <1>1 DEF Forward, Goto, Place, Ring!ForwardStart, Ring!ForwardDelete,
                Ring!job_delete, Ring!ForwardEnd
  <1>4. phase' = "scan" => current_job' \in alloc'
    BY DEF ChainInv
  <1>5. kpc' = "restore" => kpc = "scan"
    BY Zenon, <1>1, <1>3 DEF Forward, Goto, Ring!ForwardStart
  <1>6. Place' /\ Tables'
    BY Zenon, <1>1, <1>3, <1>4, <1>5 DEF Place, Tables
  <1>7. CASE kpc' = "hang"
    BY Zenon, <1>1, <1>7, HangIInv
  <1>8. CASE TickOfProgram /\ kpc' # "hang"
    <2>1. TickOfProgram'
      BY ZenonT(40), <1>1, <1>3, <1>8, SameSaved DEF TickOfProgram
    <2>2. ~ Waiting'
      BY <1>1, <1>3, <1>8 DEF Waiting, TickOfProgram, ToUser, ToWait
    <2>. QED
      BY Zenon, <1>3, <1>6, <1>8, <2>1, <2>2 DEF IInv
  <1>9. CASE TickOfWait /\ kpc' # "hang"
    <2>. DEFINE c == lr.job
    <2>1. PICK d : d = c
      BY Zenon
    <2>2. \A j \in alloc' \ {d} : Saved(j)'
      BY ZenonT(40), <1>1, <1>3, <1>9, <2>1, SameSaved DEF TickOfWait, Serving
    <2>3. Serving(d)'
      BY Zenon, <1>1, <1>9, <2>1, <2>2 DEF TickOfWait, Serving
    <2>4. PICK f, g : stack = <<g, f>> /\ InFrame(f, d)
      BY ZenonT(40), <1>9, <2>1 DEF TickOfWait
    <2>5. InFrame(f, d)'
      BY Zenon, <1>1, <2>4 DEF InFrame, UserX
    <2>6. lr'.job = d /\ stack' = <<g, f>> /\ ToWait(spsr') /\ d \in Job
          /\ ctx'[d].pc = KernelImage(d) /\ ctx'[d].sp = Image(0, d, age'[d])
      BY ZenonT(40), <1>1, <1>9, <2>1, <2>4 DEF TickOfWait
    <2>7. TickOfWait'
      BY <1>3, <2>3, <2>5, <2>6 DEF TickOfWait, KernelImage, Serving, InFrame, UserX
    <2>8. done' \/ disk' \in {"busy", "raised"}
      BY ZenonT(40), <1>1, <1>3, <1>9 DEF IInv, Waiting, TickOfWait
    <2>. QED
      BY Zenon, <1>3, <1>6, <1>9, <2>7, <2>8 DEF IInv
  <1>. QED
    BY Zenon, <1>3, <1>7, <1>8, <1>9 DEF IInv

\* The context of the current job is put in place: a program's, or the wait's if
\* the tick came back to the job whose wait it interrupted.
LEMMA RestoreIInv ==
    ASSUME IInv, Restore, ChainInv' PROVE IInv'
  <1>. DEFINE c == current_job
  <1>1. /\ kpc = "restore" /\ kpc' = "fiqexit" /\ ChainInv /\ Place /\ Tables /\ c \in alloc
        /\ UNCHANGED ring
        /\ UNCHANGED <<alloc, current_job, phase, spsr, lr, lspsr, ctx, age, result, done, disk>>
        /\ elr' = ctx[c].pc /\ sp0' = ctx[c].sp /\ ttbr' = c
        /\ stack' = [stack EXCEPT ![1] = RestoreContext(stack[1], ctx[c].x)]
    BY Zenon DEF Restore, Apply, IInv, Place, ring, locals, devices, history
  <1>2. Place' /\ Tables'
    BY Zenon, <1>1 DEF Place, Tables
  <1>3. CASE TickOfProgram
    <2>1. PICK f : stack = <<f>>
      BY <1>3 DEF TickOfProgram
    <2>2. PICK g : g = RestoreContext(f, ctx[c].x)
      OBVIOUS
    <2>3. stack' = <<g>>
      BY Zenon, <1>1, <2>1, <2>2, ReplaceFirst
    <2>4. Saved(c)
      BY Zenon, <1>1, <1>3 DEF TickOfProgram
    <2>5. InFrame(g, c)
      BY Zenon, <2>2, <2>4, RestoreKeeps DEF Saved
    <2>6. InFrame(g, current_job)'
      BY ZenonT(40), <1>1, <2>5 DEF InFrame, UserX
    <2>7. \A j \in alloc \ {c} : Saved(j)'
      BY <1>1, <1>3, SameSaved DEF TickOfProgram
    <2>8. LeavingToProgram'
      BY ZenonT(40), <1>1, <1>3, <2>3, <2>4, <2>6, <2>7 DEF LeavingToProgram, TickOfProgram, Saved
    <2>9. ~ Waiting'
      BY <1>1, <1>3 DEF Waiting, TickOfProgram, ToUser, ToWait
    <2>. QED
      BY Zenon, <1>1, <1>2, <2>8, <2>9 DEF IInv
  <1>4. CASE TickOfWait
    <2>1. PICK d : d = lr.job
      OBVIOUS
    <2>2. PICK f, g : stack = <<g, f>> /\ InFrame(f, d)
      BY ZenonT(40), <1>4, <2>1 DEF TickOfWait
    <2>3. PICK h : h = RestoreContext(g, ctx[c].x)
      OBVIOUS
    <2>4. stack' = <<h, f>>
      BY ZenonT(40), <1>1, <2>2, <2>3, ReplaceFirst
    <2>5. done' \/ disk' \in {"busy", "raised"}
      BY Zenon, <1>1, <1>4 DEF IInv, Waiting, TickOfWait
    <2>6. ToWait(spsr')
      BY ZenonT(40), <1>1, <1>4 DEF TickOfWait
    <2>7. CASE c = d
      <3>1. /\ elr' = KernelImage(c) /\ sp0' = Image(0, c, age[c])
            /\ lr = Image(0, c, age[c]) /\ ToUser(lspsr)
            /\ \A j \in alloc \ {c} : Saved(j)
        BY ZenonT(40), <1>1, <1>4, <2>1, <2>7 DEF TickOfWait, Serving
      <3>2. \A j \in alloc \ {c} : Saved(j)'
        BY Zenon, <1>1, <3>1, SameSaved
      <3>3. Serving(current_job)'
        BY Zenon, <1>1, <3>1, <3>2 DEF Serving
      <3>4. InFrame(f, current_job)'
        BY ZenonT(40), <1>1, <2>2, <2>7 DEF InFrame, UserX
      <3>5. KernelImage(current_job)' = KernelImage(current_job)
        BY <1>1 DEF KernelImage
      <3>6. LeavingToWait'
        BY ZenonT(40), <1>1, <2>4, <2>6, <3>1, <3>3, <3>4, <3>5 DEF LeavingToWait
      <3>. QED
        BY ZenonT(40), <1>1, <1>2, <2>5, <3>6 DEF IInv
    <2>8. CASE c # d
      <3>1. Saved(c)
        BY ZenonT(40), <1>1, <1>4, <2>1, <2>8 DEF TickOfWait, Serving
      <3>2. elr'.level = 0
        BY <1>1, <3>1, ImageFields DEF Saved
      <3>3. LeavingToWait'
        BY Zenon, <2>4, <2>6, <3>2 DEF LeavingToWait
      <3>. QED
        BY <1>1, <1>2, <2>5, <3>3 DEF IInv
    <2>. QED
      BY <2>7, <2>8
  <1>. QED
    BY Zenon, <1>1, <1>3, <1>4 DEF IInv

\* The end of the tick: a program that goes on, a wait that goes on, or an abort.
LEMMA FiqExitIInv ==
    ASSUME IInv, FiqExit, ChainInv' PROVE IInv'
  <1>. DEFINE c == current_job
  <1>1. /\ kpc = "fiqexit" /\ ChainInv /\ Place /\ Tables /\ UNCHANGED ring
        /\ UNCHANGED <<alloc, current_job, phase, lr, lspsr, ctx, ttbr, age, result, sp0,
                       done, disk>>
        /\ x' = PopFrame(Head(stack)) /\ pc' = elr /\ el' = spsr.el
        /\ fmasked' = spsr.fmasked /\ kpc' = Resume(elr, spsr.el) /\ spsr' = spsr
        /\ stack' = Tail(stack)
    BY DEF FiqExit, Eret, IInv, ring, locals, memory, devices, history
  <1>2. kpc' \in {"user", "wait", "abort"}
    BY Zenon, <1>1 DEF Resume
  <1>3. Place' /\ Tables'
    BY Zenon, <1>1, <1>2 DEF Place, Tables
  <1>4. CASE LeavingToProgram
    <2>1. PICK f : stack = <<f>> /\ InFrame(f, c)
      BY Zenon, <1>4 DEF LeavingToProgram
    <2>2. elr.level = 0
      BY SMTT(30), <1>4, ImageFields DEF LeavingToProgram
    <2>3. kpc' = "user" /\ el' = 0 /\ fmasked' = FALSE /\ x' = PopFrame(f) /\ stack' = <<>>
      BY Zenon, <1>1, <1>4, <2>1, <2>2, Stacks DEF LeavingToProgram, ToUser, Resume
    <2>4. \A r \in Reg \ {1} : x'[r] = UserX(current_job)'[r]
      <3>1. \A r \in Reg \ {1} : x'[r] = UserX(c)[r]
        BY Zenon, <2>1, <2>3, PopKeeps
      <3>. QED
        BY Zenon, <1>1, <3>1 DEF UserX
    <2>5. \A j \in alloc \ {c} : Saved(j)'
      BY Zenon, <1>1, <1>4, SameSaved DEF LeavingToProgram
    <2>6. InProgram'
      BY Zenon, <1>1, <1>4, <2>3, <2>4, <2>5 DEF InProgram, LeavingToProgram
    <2>. QED
      BY Zenon, <1>3, <2>3, <2>6 DEF IInv, Waiting
  <1>5. CASE LeavingToWait /\ elr.level = 0
    <2>1. kpc' = "abort"
      BY <1>1, <1>5 DEF LeavingToWait, ToWait, Resume
    <2>. QED
      BY Zenon, <1>3, <2>1 DEF IInv, Waiting
  <1>6. CASE LeavingToWait /\ elr.level # 0
    <2>1. /\ elr = KernelImage(c) /\ ttbr = c /\ sp0 = Image(0, c, age[c])
          /\ Serving(c) /\ ToWait(spsr)
          /\ \E f, g : stack = <<g, f>> /\ InFrame(f, c)
      BY <1>6 DEF LeavingToWait
    <2>2. PICK f, g : stack = <<g, f>> /\ InFrame(f, c)
      BY ZenonT(40), <2>1
    <2>3. kpc' = "wait" /\ el' = 1 /\ fmasked' = FALSE /\ stack' = <<f>>
      <3>1. elr.level = 1
        BY <2>1, ImageFields
      <3>2. kpc' = "wait" /\ el' = 1 /\ fmasked' = FALSE
        BY <1>1, <2>1, <3>1 DEF ToWait, Resume
      <3>. QED
        BY Zenon, <1>1, <2>2, <3>2, Stacks
    <2>4. InFrame(f, current_job)'
      BY <1>1, <2>2 DEF InFrame, UserX
    <2>5. \A j \in alloc \ {c} : Saved(j)'
      BY Zenon, <1>1, <2>1, SameSaved DEF Serving
    <2>6. KernelImage(current_job)' = KernelImage(current_job)
      BY Zenon, <1>1 DEF KernelImage
    <2>7. InCall'
      BY ZenonT(40), <1>1, <2>1, <2>3, <2>4, <2>5, <2>6 DEF InCall, Serving
    <2>8. done' \/ disk' \in {"busy", "raised"}
      BY Zenon, <1>1, <2>1 DEF IInv, Waiting
    <2>. QED
      BY ZenonT(40), <1>3, <2>3, <2>7, <2>8 DEF IInv
  <1>. QED
    BY ZenonT(40), <1>1, <1>4, <1>5, <1>6 DEF IInv

\* Every step of programs, kernel and devices keeps the invariant, if it keeps the
\* chain of jobs in order.
LEMMA NextIInv == IInv /\ ChainInv' /\ [Next]_vars => IInv'
  <1>. SUFFICES ASSUME IInv, ChainInv', [Next]_vars PROVE IInv'
    OBVIOUS
  <1>1. CASE Terminate \/ Log \/ Unknown
    BY Zenon, <1>1, CallGoesOn DEF Terminate, Log, Unknown, Goto
  <1>2. CASE InstructionAbort \/ UserFault
    <2>1. kpc' = "hang" /\ UNCHANGED <<ctx, age, result>>
      BY <1>2 DEF InstructionAbort, UserFault, Goto, memory, history
    <2>. QED
      BY Zenon, <2>1, HangIInv
  <1>3. CASE DiskCompletes \/ TimerExpires \/ Hang \/ UNCHANGED vars
    <2>1. /\ UNCHANGED <<ring, kpc, cpu, locals, stack, memory, history>>
          /\ done' = done /\ (disk' = disk \/ disk' \in {"busy", "raised"})
      BY <1>3 DEF DiskCompletes, TimerExpires, Hang, vars, devices
    <2>. QED
      BY ZenonT(40), <2>1, DeviceIInv
  <1>. QED
    BY ZenonT(40), <1>1, <1>2, <1>3, EnterUserIInv, AnswerIInv, SpawnIInv, SvcExitIInv, RequestIInv,
       ForwardIInv, RestoreIInv, FiqExitIInv, FiqDiskIInv, FiqTimerIInv, UserStepIInv, SvcIInv
       DEF Next, KernelStep

\* Boot: no job has run.
LEMMA InitIInv == Init => IInv
  BY DEF Init, Ring!Init, IInv, ChainInv, Place, Tables, AtBoot, Waiting

-----------------------------------------------------------------------------
(* The chain of jobs: what is proved about JobRing holds inside the kernel.     *)

RP == INSTANCE JobRingProofs

\* The kernel's pool of jobs is one the chain can be built over.
LEMMA RingPool == RP!JobAssumption
  BY Zenon, KernelAssumption DEF RP!JobAssumption, IsFiniteSet, RP!IsFiniteSet

\* Whatever the kernel does to the chain is a step of JobRing, or leaves it alone.
LEMMA RingSteps == [Next]_vars => [RP!Next]_RP!vars
  <1>. SUFFICES ASSUME [Next]_vars PROVE [RP!Next]_RP!vars
    OBVIOUS
  <1>1. \/ Ring!job_create \/ Ring!job_terminate \/ Ring!ForwardStart
        \/ Ring!ForwardDelete \/ Ring!ForwardEnd \/ UNCHANGED ring
    <2>1. CASE KernelStep
      BY Zenon, <2>1 DEF KernelStep, EnterUser, Terminate, Log, Unknown, Answer, SetResult, Goto,
         Spawn, SvcExit, RequestStart, RequestEnd, Forward, Restore, FiqExit, InstructionAbort
    <2>2. CASE FiqDisk \/ FiqTimer \/ UserStep \/ UserFault
      BY Zenon, <2>2 DEF FiqDisk, FiqTimer, UserStep, UserFault, Goto
    <2>3. ASSUME NEW c \in Call, svc(c) PROVE UNCHANGED ring
      BY Zenon, <2>3 DEF svc
    <2>4. CASE DiskCompletes \/ TimerExpires \/ Hang \/ UNCHANGED vars
      BY Zenon, <2>4 DEF DiskCompletes, TimerExpires, Hang, vars
    <2>. QED
      BY Zenon, <2>1, <2>2, <2>3, <2>4 DEF Next
  <1>2. Ring!job_create => RP!job_create
    BY Zenon DEF RP!job_create, Ring!job_create, RP!Insert, Ring!Insert, RP!RUNNING, Ring!RUNNING
  <1>3. Ring!job_terminate => RP!job_terminate
    BY Zenon DEF RP!job_terminate, Ring!job_terminate, RP!TERMINATED, Ring!TERMINATED
  <1>4. Ring!ForwardStart => RP!ForwardStart
    BY Zenon DEF RP!ForwardStart, Ring!ForwardStart
  <1>5. Ring!ForwardDelete => RP!ForwardDelete
    BY Zenon DEF RP!ForwardDelete, Ring!ForwardDelete, RP!job_delete, Ring!job_delete,
       RP!TERMINATED, Ring!TERMINATED
  <1>6. Ring!ForwardEnd => RP!ForwardEnd
    BY Zenon DEF RP!ForwardEnd, Ring!ForwardEnd, RP!RUNNING, Ring!RUNNING
  <1>7. UNCHANGED ring => UNCHANGED RP!vars
    BY Zenon DEF ring, RP!vars
  <1>. QED
    BY Zenon, <1>1, <1>2, <1>3, <1>4, <1>5, <1>6, <1>7 DEF RP!Next

\* The kernel drives the chain of jobs as JobRing says: jobs are created at boot and
\* by spawn, terminated by the call of that name, and moved on only by the tick.
THEOREM KernelDrivesRing == Spec => RP!Spec
  <1>1. Init => RP!Init
    BY DEF Init, Ring!Init, RP!Init, Ring!TERMINATED, RP!TERMINATED
  <1>. QED
    BY <1>1, RingSteps, PTL DEF Spec, RP!Spec

\* So the jobs take turns in the order of a round-robin queue whatever system calls,
\* disk requests and interrupts come between two ticks.
THEOREM KernelIsRoundRobin == Spec => RP!ImplementsRoundRobin
  BY KernelDrivesRing, RingPool, RP!RingRefinesRoundRobin, PTL

\* The chain is in order at every point of the kernel.
LEMMA ChainInOrder == Spec => []ChainInv
  <1>1. RP!IInv => ChainInv
    BY RingPool DEF RP!IInv, RP!TypeOK, RP!SingleRing, RP!JobAssumption, ChainInv
  <1>. QED
    BY <1>1, KernelDrivesRing, RingPool, RP!RingInvariant, PTL

\* And a program waits for at most as many ticks as job_slab has other slots.
THEOREM KernelTurnsComeRound ==
    Spec => []RP!WaitIsBounded /\ [][RP!TurnComesNearer]_(RP!vars)
  BY KernelDrivesRing, RingPool, RP!TurnsComeRound, PTL

\* At every point of the kernel, it is known whose context is where.
THEOREM Invariance == Spec => []IInv
  BY InitIInv, NextIInv, ChainInOrder, PTL DEF Spec

-----------------------------------------------------------------------------
(* The condition flags, which no job keeps: they travel in SPSR_EL1 and in the  *)
(* copy that a call makes of it.                                                *)

\* These are the flags of the program that went on last, if its job still exists.
OfLast(f) == ran # NULL => f = Image(0, ran, age[ran])

FlagsInv ==
    /\ ran \in Job \cup {NULL}
    /\ kpc = "boot" => ran = NULL
    /\ kpc = "user" => OfLast(flags)
    /\ kpc \in {"serve", "served", "exit", "wait"} => OfLast(lspsr.flags)
    /\ kpc \in {"forward", "scan", "restore", "fiqexit"} =>
          IF spsr.el = 0 THEN OfLast(spsr.flags) ELSE OfLast(lspsr.flags)

\* Whose flags they are does not change while no program goes on.
LEMMA SameLast ==
    ASSUME NEW f, OfLast(f), UNCHANGED <<ran, age>> PROVE OfLast(f)'
  BY DEF OfLast

\* Kernel code between two points of one exception leaves SPSR_EL1 and its copy.
LEMMA InsideFlags ==
    ASSUME FlagsInv, UNCHANGED <<ran, age, spsr, lspsr>>,
           \/ /\ kpc \in {"serve", "served", "wait"}
              /\ kpc' \in {"serve", "served", "exit", "wait", "hang"}
           \/ /\ kpc \in {"forward", "scan", "restore"}
              /\ kpc' \in {"forward", "scan", "restore", "fiqexit", "hang"}
    PROVE  FlagsInv'
  BY SameLast DEF FlagsInv

\* Every step keeps the flags those of the program that went on last.
LEMMA NextFlags == IInv /\ FlagsInv /\ [Next]_vars => FlagsInv'
  <1>. SUFFICES ASSUME IInv, FlagsInv, [Next]_vars PROVE FlagsInv'
    OBVIOUS
  <1>1. CASE EnterUser
    BY <1>1 DEF EnterUser, history, FlagsInv, OfLast
  <1>2. CASE UserStep
    <2>1. current_job \in Job
      BY <1>2 DEF UserStep, IInv, ChainInv, Place
    <2>2. kpc' = "user" /\ ran' = current_job /\ flags' = Image(0, current_job, age'[current_job])
      BY <1>2 DEF UserStep
    <2>. QED
      BY <2>1, <2>2 DEF FlagsInv, OfLast
  <1>3. ASSUME NEW c \in Call, svc(c) PROVE FlagsInv'
    <2>1. /\ kpc = "user" /\ kpc' = "serve" /\ lspsr'.flags = flags /\ UNCHANGED <<ran, age>>
      BY <1>3 DEF svc, TakeException, history
    <2>. QED
      BY <2>1, SameLast DEF FlagsInv
  <1>4. CASE FiqDisk \/ FiqTimer
    <2>1. /\ kpc' \in {"fiqexit", "forward"} /\ UNCHANGED <<ran, age, lspsr>>
          /\ spsr'.el = el /\ spsr'.flags = flags /\ kpc \in {"user", "wait"}
      BY <1>4 DEF FiqDisk, FiqTimer, FiqTaken, TakeException, locals, history
    <2>2. (kpc = "user" => el = 0) /\ (kpc = "wait" => el = 1)
      BY DEF IInv, InProgram, InCall
    <2>. QED
      BY <2>1, <2>2, SameLast DEF FlagsInv
  <1>5. CASE FiqExit
    <2>1. /\ kpc = "fiqexit" /\ flags' = spsr.flags /\ UNCHANGED <<ran, age, lspsr>>
          /\ kpc' = Resume(elr, spsr.el)
      BY <1>5 DEF FiqExit, Eret, locals, history
    <2>2. /\ kpc' \in {"user", "wait", "abort"}
          /\ kpc' = "user" => spsr.el = 0
          /\ kpc' = "wait" => spsr.el # 0
      BY <2>1 DEF Resume
    <2>. QED
      BY <2>1, <2>2, SameLast DEF FlagsInv
  <1>6. CASE SvcExit
    <2>1. /\ kpc = "exit" /\ flags' = lspsr.flags /\ UNCHANGED <<ran, age>>
          /\ kpc' = Resume(lr, lspsr.el)
      BY <1>6 DEF SvcExit, Eret, history
    <2>2. lr.level = 0
      BY <2>1, ImageFields DEF IInv, InCall, Serving
    <2>3. kpc' \in {"user", "abort"}
      BY <2>1, <2>2 DEF Resume
    <2>. QED
      BY <2>1, <2>3, SameLast DEF FlagsInv
  <1>7. CASE Spawn
    <2>1. /\ kpc = "served" /\ kpc' = "exit" /\ lspsr' = lspsr /\ NewContext
      BY <1>7 DEF Spawn, Goto, locals
    <2>2. ran' = ran \/ ran' = NULL
      BY <2>1 DEF NewContext
    <2>3. ran' # NULL => ran' = ran /\ age'[ran] = age[ran]
      BY <2>1 DEF NewContext, FlagsInv
    <2>. QED
      BY <2>1, <2>2, <2>3 DEF FlagsInv, OfLast
  <1>8. CASE Terminate \/ Log \/ Answer \/ Unknown
    <2>1. /\ kpc \in {"serve", "served"} /\ kpc' \in {"exit", "hang"}
          /\ UNCHANGED <<ran, age, spsr, lspsr>>
      BY <1>8 DEF Terminate, Log, Answer, SetResult, Unknown, Goto, cpu, locals, history
    <2>. QED
      BY <2>1, InsideFlags
  <1>9. CASE RequestStart \/ RequestEnd
    <2>1. /\ kpc \in {"serve", "served", "wait"} /\ kpc' \in {"wait", "served"}
          /\ UNCHANGED <<ran, age, spsr, lspsr>>
      BY <1>9 DEF RequestStart, RequestEnd, locals, history
    <2>. QED
      BY <2>1, InsideFlags
  <1>10. CASE Forward \/ Restore
    <2>1. /\ kpc \in {"forward", "scan", "restore"} /\ UNCHANGED <<ran, age, spsr, lspsr>>
          /\ kpc' \in {"scan", "restore", "fiqexit", "hang"}
      BY <1>10 DEF Forward, Restore, Goto, cpu, locals, history
    <2>. QED
      BY <2>1, InsideFlags
  <1>11. CASE InstructionAbort \/ UserFault
    <2>1. kpc' = "hang" /\ UNCHANGED <<ran, age>>
      BY <1>11 DEF InstructionAbort, UserFault, Goto, history
    <2>. QED
      BY <2>1 DEF FlagsInv
  <1>12. CASE DiskCompletes \/ TimerExpires \/ Hang \/ UNCHANGED vars
    <2>1. UNCHANGED <<kpc, ran, age, flags, spsr, lspsr>>
      BY <1>12 DEF DiskCompletes, TimerExpires, Hang, vars, cpu, locals, history
    <2>. QED
      BY <2>1, SameLast DEF FlagsInv
  <1>. QED
    BY Zenon, <1>1, <1>2, <1>3, <1>4, <1>5, <1>6, <1>7, <1>8, <1>9, <1>10, <1>11, <1>12
       DEF Next, KernelStep

\* The flags that an exception returns with are those of the program that went on
\* last, also when the tick has switched to another job since.
THEOREM FlagsFollowLastProgram == Spec => []FlagsInv
  <1>1. Init => FlagsInv
    BY DEF Init, FlagsInv
  <1>. QED
    BY <1>1, NextFlags, Invariance, PTL DEF Spec

\* A program finds its own x0 and x2 to x30, program counter, stack pointer and
\* address space, however it was interrupted, and its own condition flags if no
\* other program has gone on since.  x1 and v0..v31 are not among what it finds.
THEOREM ProgramsKeepSavedContext == Spec => []SavedContextIntact
  <1>1. ASSUME IInv, FlagsInv PROVE SavedContextIntact
    <2>1. ASSUME kpc = "user", ran = current_job PROVE flags = pc
      <3>1. current_job \in Job /\ current_job # NULL
        BY <1>1, <2>1, KernelAssumption DEF IInv, ChainInv, Place
      <3>2. pc = Image(0, current_job, age[current_job])
        BY <1>1, <2>1 DEF IInv, InProgram
      <3>. QED
        BY <1>1, <2>1, <3>1, <3>2 DEF FlagsInv, OfLast
    <2>. QED
      BY ZenonT(40), <1>1, <2>1 DEF IInv, Place, InProgram, SavedContextIntact
  <1>. QED
    BY <1>1, Invariance, FlagsFollowLastProgram, PTL

\* A program runs with the kernel stack empty and FIQ unmasked.
THEOREM ProgramsPreemptible == Spec => []UserIsPreemptible
  <1>1. IInv => UserIsPreemptible
    BY DEF IInv, InProgram, UserIsPreemptible
  <1>. QED
    BY <1>1, Invariance, PTL

\* A tick during the wait does not lose the completion of the request.
THEOREM WaitsAreAnswered == Spec => []WaitIsAnswered
  <1>1. IInv => WaitIsAnswered
    BY DEF IInv, Waiting, WaitIsAnswered
  <1>. QED
    BY <1>1, Invariance, PTL
=============================================================================
