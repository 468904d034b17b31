# A TLA+ model of the armv8aarch64 kernel

The kernel under `src/` is small and has hard parts: allocators whose bookkeeping
must agree with itself, a ring of jobs that is rewired from a timer interrupt, a
context switch through an assembly frame, system calls that wait for a disk with
interrupts enabled, translation tables, a FAT reader, and a boot that switches
interrupts on before it is ready for all of them. The modules here model these
parts from the C and assembly code. TLC checks them on small instances; TLAPS
proves the safety of the allocators, the ring of jobs, the context switch, the
translation tables, the loading of programs, the files, the disk driver, the log and
boot for every size.
`PROJECT.json` gives the source lines of every definition.

## 1. The system

One processor and one kernel stack. `start.c` sets up heap, slabs, interrupt
controller, timer, paging and disk, loads `init.elf` and enters it at EL0. From
then on the kernel runs in exceptions only: a system call (`svc`), a tick
(interrupt 30) or a disk interrupt (79), the last two as FIQ. An exception masks
FIQ until its `eret`, except in `disk_create_request_sync`, which unmasks it and
spins until the disk's interrupt sets a flag. That window is the only place
where a tick or an interrupt meets the kernel itself.

| Part | Source | Modules | State |
|---|---|---|---|
| slab allocator | `alloc/slab.c` | `Slab`, `ObjectPool` | modelled, proved |
| heap | `alloc/heap.c`, `sysutils.c` | `Heap`, `HeapSearch`, `RegionAllocator` | modelled, proved |
| chain of jobs | `mp/job.c` | `JobRing`, `RoundRobin` | modelled, safety and refinement proved |
| vectors, system calls, context switch | `exceptions.asm`, `exceptions.c`, `mp/sched.c` | `Context`, `Kernel` | modelled, safety proved |
| translation tables | `mm/paging.c` | `Paging`, `AddressSpace` | partly, proved |
| address spaces and loading of jobs | `mp/job.c` | `JobSpace`, `JobLoad` | modelled, proved |
| ELF loader | `elf/` | `Elf` | partly, proved |
| descriptors and file calls | `mp/job.c`, `exceptions.c` | `JobFiles`, `Files` | modelled, proved |
| FAT16 and its files | `fs/fat.c`, `fat_fs.c`, `fs.c` | `Fat`, `FatFs` | partly, proved |
| disk driver, block layer | `device/` | `VirtioBlk` | partly, safety proved |
| interrupt controller | `gic/` | `Gic` | partly, safety proved |
| boot | `start.asm`, `start.c`, `sysutils.c` | `Boot` | modelled, safety proved |
| timer | `timer/` | in `Boot`, `Kernel`, `Log` | partly |
| log and strings | `log.c`, `string.c` | `Log` | partly, proved |
| files in memory | `fs/ram_fs.c` | | not modelled |
| memory layout | `linker.ld`, `start.c` | | not modelled |
| user programs | `userspace/` | in `Kernel` | any program: steps and calls |

What "partly" leaves out is in section 5.

## 2. Modules and their correspondence to the code

**Slab.** `header` holds the bits of the header, `slab_allocate` and `slab_free`
are the actions. The downward scan of `slab_get_next_slot` has no end of its own
(its counter is unsigned); at slot -1 it shifts by -1, which C leaves undefined
and the AArch64 build takes as a shift by 31, so the slot reads as empty and -1
is returned. `ObjectPool` says what clients may rely on. (`slab.h:56` says that
`slab_align_to_object` returns a number of objects; it returns bytes, and its
callers want bytes.)

**Heap, HeapSearch.** `table` holds the flags as sets, `free_blocks` the counter.
In `Heap` the search is one step, the lowest fit; `HeapSearch` is the same heap
with the loops of `heap_alloc` taken test by test, and is what TLC runs. The
loops stop at the lowest fit, whatever the byte after the table holds.
`RegionAllocator` is the abstract specification. `heap_createtable` clears only
the first entry of the table: that the rest is zero at power on is an assumption
(`power_on`).

**JobRing.** `next` is the `job->next` of every slot. `job_forward` is taken an
iteration at a time, `job_delete` is one step. `phase` is `hung` in the endless
loop of `job_delete` and `wild` once `current_job` is NULL. No code makes a job
SLEEPING. `RoundRobin` is the queue that the ring stands for.

**Context, Kernel.** `Context` is the frame that the vectors push and the copies
that `sched.c` makes of it, word by word. `Kernel` has the processor (level, FIQ
mask, condition flags, ELR, SPSR, x0 to x30), the stack of frames, the saved
contexts, the timer and the disk, and instantiates `JobRing` for the chain. A
register, and the four flags together, hold an image: whose it is, of which level,
and an age that changes when the program goes on. The flags travel through
exceptions in SPSR_EL1, which `sched.c` does not save with a job; `ran` is the
program that set them last. v0 to v31 are in no frame and not in the model. An
`eret` to a user address at EL1 is an instruction abort, which stops the
kernel: pages that EL0 can write are not executable at EL1. A call that
`exceptions_handle_syscall` does not know returns an uninitialised `res`: the
model takes either outcome.

**Paging, JobSpace, Elf, JobLoad.** Tables of `Entries` entries from one slab; the
recursion of `paging_insert_or_alloc` goes level by level. A table asked for when
none is left is at address 0, whose contents are not known: the model ends there
(`overrun`). `Translate` is the walk of the MMU. `AddressSpace` is a map from
pages to entries per manager, with the request that is being served: the mapping
sees to it that the manager, page and entry of `paging_manager_map_page` are the
ones that are mapped or refused. `JobSpace` drives `Paging` as `job_create_paging`
does and gives back what `job_delete` gives back: the manager, and no page or
table. `Elf` is the parser, as the set of its pointers that are not NULL and of its
flags that are set, for files with and without their headers. `JobLoad` is `job_create_from_file`:
parse, build the address space, apply it, copy the first segment to
`JOB_BASE_USER` through it. A byte of a page is the byte of the file it came from.
Only the first program header is used, and `p_memsz` bytes are copied, so that
what follows `p_filesz` is the rest of the file.

**JobFiles, Files.** `JobFiles` has `open_files`, `open_files_count` and the
inodes in use. `Files` composes it with `FatFs`: `SysOpen` and `SysGet` are the
system calls, each one step because a program waits for its call, and a spawn is
taken a byte at a time (`SpawnSize`, `SpawnRead`, `SpawnEnd`). `asked` and
`right` are history: which file each descriptor was opened for, how far it was
read, and whether every byte was the one due. With an inode that could not be
allocated, what the code stores through NULL is lost.

**Fat, FatFs.** A byte of the volume is its address on the device, so a buffer
says where its contents came from. `Fat` has the reads and the lookup of names as
operators, `FatFs` mounts any valid volume and has inodes and their buffers. The
data begins inside a sector of the device, so that a cluster is read in three
parts. Names are sequences of character codes: `fat_uppercase_and_pad` raises
the case and pads, and a part that is too long leaves the array as it was on the
stack, which may hold any name. Names have one dot, and before and after it no more
characters than `name[10]` and `ext[10]` of `fatfs_open` hold (`FilesAssumption`).

**VirtioBlk.** One request step by step against a device that reads
`ring[idx % QUEUE_SIZE]`. The driver does not reduce `idx`; the model has the
words after the ring too. The device may fail a request: it then leaves anything
in the buffer or the sector, and says so in `status`, the byte after `req` that no
code reads. A failed `disk_init` is not acted on by its caller; what follows is not
known.

**Gic, Boot.** `Gic` has the registers the driver writes, as words of bits and of
bytes, and the table of handlers. `Boot` is `start` and `usermode` call by call,
with a device that the kernel does not use asserting its own interrupt. At reset
every interrupt is in group 0 and private ones have priority 0; with affinity
routing the target bytes are not looked at (external: the controller). `Boot` ends
where `Kernel` starts.

**Log.** A line of the log from `klogf` to the console. A buffer is the memory
from its start on, so that a write past it shows; what it held before (`junk`) is
any content of the stack. The loop of `sprintf_internal` takes a turn per step:
`Ordinary` copies a character, `Conversion` appends a number or a string with
`strcat`, which looks for the end of what the buffer holds, and `Unknown` stores a
'?' for the '%' and leaves the type to the next turn. `klog` and `put_string` are
the rest of `klog`. `Scan` is the reference: what a format means, read from left to
right without a buffer.

## 3. Runs

| Run | Bounds | Distinct states | Shows |
|---|---|---|---|
| `slab` | 9 objects of 3 bytes, a 2-byte header | 10240 | header and pointers agree; objects disjoint; an object pool |
| `heap` | 5 blocks of 2 bytes, sizes 0 to 11 | 55212 | flags describe the regions; exact counter; the loops stop, at the first fit |
| `job_ring` | 4 slots | 4901 | one ring; round robin; jobs get turns, terminated ones go |
| `kernel` | 2 slots, 2 ages of one program, 1 of the other | 189928 | what the kernel saves of a program survives; stack balanced; no completion lost; calls return, but for named stops |
| `paging` | 2 managers, 5 tables of 3 entries | 60618 | trees; one address space per manager, each request answered for its own page |
| `job_load` | 2 managers, 12 tables, 7 pages, 5 files | 22618 | private pages; program, stack and kernel mapped; the program's bytes in place |
| `files` | 2 jobs, 2 descriptors, 2 inodes, 3 clusters, 2 files, 4 names | 1145043 | private descriptors, all reachable; programs get the bytes of the files they named; spawn loads whole files |
| `virtio` | ring of 2, index of 4 | 32224 | requests return, with their own data if they did not fail |
| `boot` | 96 interrupts, 3 requests | 400 | only the kernel's interrupts; every one finds its handler, but for an early tick; boot ends, ready for programs |
| `text` | formats of up to 3 pieces, 2 clocks at 3 counts | 103344 | lines that fit are exact and stay in their buffers, at every turn of the loop |

The bounds reach the cases the properties are about: roundings that are not
whole, every slab full and one request more, slots and inodes used again by
another owner, a ring and an index that wrap, a volume in every order of clusters,
a job preempted in its program and in its call, an interrupt number whose word is
shared, a stamp that grows by a digit. Two slots in `kernel` suffice for one job
to be switched against another; longer rings are `JobRing`'s, and the theorems
have no bound. Deadlock is checked everywhere; where the code stops for good, or
does what is not known, a step that changes nothing says so.

Every property is one that a plausible mistake in the code breaks; the mutated
operators stand before the ones they replace, with "mutated" in their comments.

### Where code and text disagree

`kernel_registers` ends in a counterexample to what a comment says: `sched.h:15`
has "31 registers (from the memory zone)", but word 1 of the frame is xzr and x1
is word 31, so that x1 is neither saved nor restored.

`kernel_tick` ends in a counterexample to another: of a tick, `exceptions.h:30-33`
has "Coming from EL1: just reload the timer since there is no usermode process to
switch", but `internal_handler` switches jobs on every tick, also on one in the wait
for the disk. `CallerStaysCurrent` says that the job whose call is served stays the
current one. In the code it does not, and when another job becomes current its
program is resumed at EL1, where it may not be executed, and the kernel stops. That
is why `SavedContextIntact` holds all the same (no program ever runs there) and why
`CallReturns` names the case as one in which a call does not return.

These were read in the code and no run states them:

- `scheduling_save_context` saves neither SPSR_EL1 nor v0 to v31. A tick that
  switches jobs gives the next program the condition flags of the one it
  interrupted, and the vector registers too, which `start.asm:12-15` enables and the
  build's flags leave to the compiler. No comment says that they are kept, so there
  is no statement to refute: `SavedContextIntact` claims the flags only where no
  other program has gone on in between, `FlagsFollowLastProgram` says whose they
  are, and nothing is said of the vector registers.
- `disk_create_request_sync` returns 0 whatever status the device reported
  (`virtioblk.c:177`).
- `job_create` with `job_slab` full cuts the chain it "Adds a new job to"
  (`job.h:39`, `job.c:44`); `JobRing` has the step, and its properties hold until
  then.
- `fat_read_entry_offset_size` (`fat.h:151`) delivers the first cluster of a
  request only (`fat.c:236`); `fatfs_get` asks for no more.
- Ring entries go to the words after the ring once `idx` has passed it
  (`virtioblk.c:151`); `VirtioBlk` has these words.
- The timer runs before the tick has its handler (`start.c:103`): a tick in boot
  with FIQ unmasked is never quieted. `BootEnds` names the case.
- `klog`'s `prefix[15]` is full once the microseconds have 12 digits, and
  `buffer[50]` cannot take a prefix and a message of 39 characters; the properties
  of `text` are about lines that fit. A clock that is not a whole number of MHz
  makes the stamps run fast (`timer.c:46`). The count that `sprintf` returns
  leaves out numbers and strings, whose `inserted` shadows it (`log.c:51`).
- The heap ends at 0x50180000, over the kernel's code, where `docs/mmap.txt:5-6`
  ends it at 0x50000000 (`start.c:45`).
- In code without callers: `ramfs_put` counts a byte that it overwrites as a new
  one (`ram_fs.c:126`), `ramfs_open_internal` does not advance (`ram_fs.c:60`), and
  `fat_clear` frees only what is NULL (`fat.c:145`).

### Fairness

- `JobRing`: the timer is reloaded on every tick, so `job_forward` comes again;
  its loop waits for nothing.
- `HeapSearch`: weak fairness of the loops, which wait for nothing.
- `VirtioBlk`: the driver goes on, the device serves, a FIQ that is pending and
  not masked is taken.
- `Kernel`: weak fairness of kernel code and of the device. Strong fairness of the
  disk's interrupt and of the end of the wait (a tick reloads the timer for a
  second, far longer than either), and of the last step of a call (a file has
  finitely many sectors). User programs and the timer have no fairness: neither is
  needed for a call to return.
- `Boot`: boot goes on when no FIQ is pending (one that always is may take all the
  time), the disk answers, the tick with a handler is taken, and the disk's
  interrupt, which ticks may interrupt again and again, is taken at last (strong
  fairness; ticks are a second apart).

## 4. Proofs

Each is in a module of its own that extends the component; the constants are
arbitrary within the component's named assumption.

- **SlabProofs** (`SlabTypeCorrect`, `SlabHeaderMatchesHeld`,
  `SlabObjectsDisjoint`, `SlabRefinesPool`). From `SlabAssumption`: positive
  sizes and a zone below 2^32 bytes, so the 32-bit `slot_position` does not wrap.
  The pointers in clients' hands are those of the set bits; with the geometry
  lemmas (the header covers its bits, slots map to distinct addresses) this is
  inductive and gives disjointness and the refinement.
- **HeapProofs**, first the heap (`HeapTypeCorrect`, `HeapTableMatchesRegions`,
  `HeapFreeBlocksExact`, `HeapRefinesRegions`). The inductive invariant is types,
  table and counter together: `heap_free` stops at the end of its own region only
  because the table matches the regions, and the counter is exact only because it
  does. Then its loops (`SearchFindsFirstFit`, `SearchReadsStayInTable`,
  `SearchImplementsHeap`, `SearchKeepsHeap`). The strengthening is the loop
  invariant: no fit starts below `start`, and the blocks from `start` to `block`
  are free. It is why the search need not go back. With it every step of the
  loops is a stutter of `Heap` and the last one its `heap_alloc`, so that
  everything shown of the heap holds of the heap with its loops. `SearchIsBounded`
  bounds the loops: a block is tested at most four times, because the loop that
  counts is only entered at a free block (`FreshCount`).
- **JobRingProofs** (`RingTypeCorrect`, `RingStaysSingle`, `RingHaltsOnlyWhen`,
  `RingRefinesRoundRobin`). From `JobAssumption`: finitely many slots, and NULL is
  none of them. A ring is a successor function that stays in the set, is injective
  there, and leaves no proper non-empty subset closed. Two lemmas say that
  inserting and unlinking a node keep that; the strengthening adds what is known
  while `job_forward` scans and after an overrun. The queue of `RoundRobin` is the
  chain followed from `current_job` for as many steps as there are jobs
  (`Follow`). Its first steps until one repeats are closed under `next`, so they
  are all the jobs: the walk meets every job once and is back at its start
  (`RoundTrip`). What insertion, deletion and `job_forward` do to the pointers is
  then what the queue does to its sequence (`InsertChain`, `UnlinkChain`,
  `RotateChain`). On this rests `TurnsComeRound`. New jobs are put in front of the
  ones that wait, so a place in the queue can get worse; but what is behind a job
  stays there until that job has had its turn, and every tick adds one. So a job
  waits for at most as many ticks as `job_slab` has other slots.
- **KernelProofs** (`ProgramsKeepSavedContext`, `FlagsFollowLastProgram`,
  `ProgramsPreemptible`, `WaitsAreAnswered`, `KernelDrivesRing`, `KernelIsRoundRobin`,
  `KernelTurnsComeRound`). For any number of job slots. The invariant says, for every
  point the kernel can be at, where the context of every job is: in the registers
  (`InProgram`), in the frame and the locals of a call (`InCall`), in its saved
  context (`Saved`), or, after a tick in the wait, in the lower of two frames
  (`TickOfWait`). Four lemmas follow the registers through push, save, restore and
  pop, and lose x1 on the way. Each step is shown to keep this if it keeps the
  chain of jobs in order (`ChainInv`), which is why `current_job` is a job with a
  saved context when it is restored. The flags have an invariant of their own
  (`FlagsInv`): they are the last program's in PSTATE while it runs, then in
  SPSR_EL1, and in the copy that a call has of it while an interrupt nested in the
  call uses SPSR_EL1 for the kernel's. The chain is not proved again: the kernel's
  steps are steps of `JobRing` or leave its variables alone (`KernelDrivesRing`),
  so the invariant, the refinement and the bound of JobRingProofs hold inside the
  kernel.
- **PagingProofs** (`TablesStayTrees`, `Refinement`). For any number of managers,
  tables and entries per table. Every table has a level (`Leveled`), no two
  entries lead to the same table (`Tree`), and the recursion is where the address
  leads to (`Walk`). The three offsets are the digits of a page number, so that
  two addresses with the same offsets are the same (`SamePage`): a write at the
  end of one walk is seen by no other, which is the refinement to `AddressSpace`.
  On it rests the loading of programs (`PagesArePrivate`, `JobsHaveTheirPages`,
  `KernelIsInEveryJob`, `ProgramsAreLoaded`, `CompleteFilesLoad`), from
  `JobSpaceAssumption` (jobs start at 2 GB or above, the pages they ask for are
  addresses, sizes with the stack fit the int of `job_create_paging`, page 0 is no
  user page) and `JobLoadAssumption` (in a file with the
  magic number the first segment is inside the file and not longer than in
  memory). The inductive invariant `LoadInv` says what each job's translation is
  (`Spaces`): the kernel's blocks, user pages for the slots it asked for, nothing
  else; for the job that is being built, up to the page that is on its way. User
  pages are slots handed out once (`Private`). What a live job's pages hold is
  what was copied there (`Loaded`), and a copy for another job goes through that
  job's translation, so to other pages. `Phase` ties the parser's flags to the
  place `job_create_from_file` is at.
- **JobFilesProofs** (`DescriptorsStayPrivate`, `SearchEnds`,
  `FilesStayReachable`, `CallsUseDescriptors`, `CallsKeepDescriptors`). The
  strengthening is `FreeFromCount`: the slots from `open_files_count` on are free.
  The search of `job_add_file` has no bound of its own and `job_get_file` accepts
  only descriptors below the count; both are right because of it. The calls of
  `Files` are steps of `JobFiles`, whatever the volume.
  Then what files contain (`FilesInvariant`, `ProgramsReadTheirFiles`,
  `SpawnLoadsWholeFile`), from `FilesAssumption`: `BUFFERSIZE` divides the size of
  a cluster (512 does, in FAT16), the FAT as `fat_load` sizes it has every cluster,
  a name has one dot, at most 9 characters before and after it, and stands for at
  most one entry. Sectors, clusters, files,
  names and the order of clusters are otherwise arbitrary. `Loaded` says that
  `fat_load_data` copies consecutive bytes from its offset on, whether or not the
  offset is inside a sector; so the FAT and the directory in memory are those of
  the volume (`TableLoaded`, `EntriesLoaded`), and `fatfs_get`'s reads, which stay
  inside a cluster, are the bytes of the file (`Aligned`, `PartRead`). An entry
  compares equal to a name exactly when the name stands for it (`FoundByName`),
  whatever the arrays held before (`LookupFinds`). The FAT links the clusters of
  each chain (`Linked`) and the loop over it reaches them (`Followed`). The
  inductive invariant `FInv` ties inodes to all this: the buffer of an open inode
  holds the part that `loaded_buffer_index` says (`Reading`), a descriptor is at
  the file and the position its program takes it to be at (`AsAsked`, where inodes
  must be private: this is where the first half is used), and what spawn has read
  is the beginning of the file (`Spawning`).
- **DeviceProofs**, first the log (`NumbersReadBack`, `LogInvariance`, `LineExact`,
  `WritesInside`), from `LogAssumption`: a clock of at least 1 MHz, and slots that
  hold numbers and strings. Formats, arguments, sizes of buffers and contents of the
  stack are arbitrary; the statements are about lines that fit (`Fits`). The
  inductive invariant `IInv` says of each turn of the loop that the buffer holds
  exactly what the format means so far (`LoopAt`), then zeros up to its size, then
  what was there before (`Holding`). That is why `strcat` finds the end at `str`:
  the rest was cleared. After a '%' with an unknown type the loop is one character
  behind the reference, which knows the type only then; `Sofar` is the text with
  that '?'. That the text never outgrows the buffer follows from the whole fitting,
  since a scan's text only grows (`ScanTypes`). `NumberDigits` follows the loop of
  `uint64_to_string` down to zero and its digits back up.
  Then the disk driver (`RequestMovesData`, `SyncIsLive`, `NoLostWakeup`), for any
  size of the ring and range of the index. At every point of a request the entry is
  not yet taken and the data still to move, or taken and moved with the interrupt
  pending until it has set `done` (`DiskInv`); of a request that the device failed
  the same holds, but for the data. The device may take an entry before it
  is notified; then FIQ is masked until the new `sync` is registered. For
  `NoLostWakeup` the words that the index has passed are written (`RingInv`), so that
  the device finds an entry at `last % QUEUE_SIZE` although the driver wrote it at
  `last`; here the index must have a range of at least two (`VirtioAssumption`).
- **BootProofs** (`OwnInterruptsOnly`, `UnhandledIsEarlyTick`, `UserStartsReady`).
  For any number of interrupts, handlers and requests (`BootAssumption`: more
  interrupts than the disk's number, and NULL is no handler). The invariant says
  for every point of boot which groups, enable bits and priorities are programmed,
  which handlers are set, and whether FIQ is masked. A word of a register holds
  bits or bytes of several interrupts; what the sequence of writes leaves in all
  of them is a lemma (`EnableProgrammes`).

Where a proof follows a recursive function along the natural numbers, it uses a
lemma of its own (`AllNumbers`: a set of numbers with 0 and all successors is
everything), which follows from the library's facts about finite sets.

Model-checked only: the liveness properties (`SearchStops`, `TerminatedIsDeleted`,
`RunningGetsTurn`, `CallReturns`, `RequestReturns`, `BootEnds`),
as fairness is outside the prover's reach, and the counterexamples of
`kernel_registers` and `kernel_tick`. Of four of them the part that is safety is proved:
`SearchIsBounded` for `SearchStops`, `TurnsComeRound` for `RunningGetsTurn` and
`TerminatedIsDeleted`, `NoLostWakeup` for `RequestReturns`; what is left to TLC is that a step which is
possible is taken. Every invariant, action property and refinement that a run
checks is the statement of a theorem.

## 5. Not modelled, and why

- `ram_fs.c`: nothing in the kernel creates such a file system, so no state of
  the program has one.
- The memory layout (`linker.ld`, the addresses of `setup_heap`): constants,
  without states to check.
- Functions without callers: `paging_try_map`; the lookups of ELF sections by
  name; `fat_read_entry`, `fat_read_entry_cluster_offset`, `fat_clear`,
  `fatfs_read`, `fatfs_deletefs`; the binary points and
  `gic_redistributor_erase_handlers`; `timer_disable`; the string functions that
  no modelled code calls.
- The handshake of `disk_init` with the device's registers: only its outcome is
  used. What boot does after a failure is not known.
- Allocations that fail outside the heap, the slabs and the descriptors: the code
  goes on with NULL, and what is at address 0 is not known. The models end there.
- `heap_createtable` with memory that was not zero at power on, a clock below
  1 MHz, file names without a dot or longer than the arrays of `fatfs_open`
  (`fat_fs.c:35-49`), programs whose `p_memsz` does not fit the int of
  `job_create_paging` (`job.c:155`): excluded by assumption.
- Strings that a program passes to log, open or spawn and that its tables do not map
  (`exceptions.c:24`, `57-61`, `85`). The read is a data abort at EL1, whose vector
  pushes no frame and which is then taken for a system call with the syndrome's low
  bits as its number (`exceptions.c:125-138`); what the registers hold after it is
  not known. Log lines that such a string makes too long are those that do not fit.
- ELF files whose `e_shentsize` or `e_phentsize` is not the size of the struct: the
  headers are read with the former and their memory is allocated with the latter
  (`elf.c:77-79`, `94-96`).
- v0 to v31, which no code of the kernel names.
- Disk errors above the driver: `Files` and `JobLoad` read a volume whose requests
  succeed. The words of memory that ring entries past the ring overwrite: the model
  has the entries, not what else is there.
- The contents of user programs, and console output below `put_string`.
