------------------------------- MODULE JobLoad ------------------------------
(***************************************************************************)
(* job_create_from_file of kernel/mp/job.c: a file is read (module FatFs), *)
(* parsed (module Elf), an address space is built for it (module JobSpace) *)
(* and its first program segment is copied there through the tables of the *)
(* new job, which are applied for the copy.  The disk is waited for while  *)
(* the file is read and at no later point, so that FIQ is masked from the  *)
(* parsing on and one job is built at a time.                              *)
(***************************************************************************)
EXTENDS JobSpace, Elf

CONSTANTS
    File,
    header         \* the header of every file

\* An ELF file holds the bytes that its program header speaks of.
ASSUME JobLoadAssumption ==
    /\ header \in [File -> Header]
    /\ \A f \in File : header[f].magic =>
         /\ header[f].p_filesz <= header[f].p_memsz
         /\ header[f].p_offset + header[f].p_filesz <= header[f].size
    /\ \A f \in File : header[f].p_memsz \in Sizes

VARIABLES
    pc,            \* what job_create_from_file does next; "wild": lost
    file, elf,     \* the file being loaded, its parser
    mem,           \* the bytes of the pages of user_space
    program        \* history: the file of every manager

load == <<pc, file, elf, mem, program>>
loadVars == <<allVars, load>>

Byte == 0 .. blocksize - 1   \* the bytes of a page

Unwritten == <<>>

\* Byte k of the buffer that the file was read into: a byte of the file or,
\* past its end, whatever the heap has there.
BufferByte(f, k) == IF k < header[f].size THEN <<f, k>> ELSE Unwritten

LoadInit ==
    /\ JobInit
    /\ pc = "idle"
    /\ file = NULL /\ elf = elf_fromfilebuffer
    /\ mem = [p \in UserPage |-> [o \in Byte |-> Unwritten]]
    /\ program = [m \in Manager |-> NULL]

\* The file is read into init_mem, byte by byte until there is none left.
\* Manager bounds the number of jobs that exist together.
Read(f) ==
    /\ pc = "idle" /\ ~ overrun
    /\ live # Manager
    /\ file' = f
    /\ elf' = elf_fromfilebuffer
    /\ pc' = "parse"
    /\ UNCHANGED <<allVars, mem, program>>

\* elf_alloc_and_parse.  p_memsz is then read from the first program header,
\* also when that is at address 0.
Parse ==
    /\ pc = "parse"
    /\ elf' = elf_alloc_and_parse(elf, header[file])
    /\ pc' = IF elf_get_programheader_byid(elf') THEN "create" ELSE "wild"
    /\ UNCHANGED <<allVars, file, mem, program>>

Create(m) ==
    /\ pc = "create"
    /\ CreateStart(m, header[file].p_memsz)
    /\ program' = [program EXCEPT ![m] = file]
    /\ pc' = "map"
    /\ UNCHANGED <<file, elf, mem>>

Map ==
    /\ pc = "map"
    /\ MapNext \/ MapStep
    /\ UNCHANGED load

\* elf_dump_program_content: p_memsz bytes of the file from p_offset on go to
\* the pages that m has at JOB_BASE_USER.
CopyThrough(m) ==
    LET h == header[file]
    IN  mem' = [p \in UserPage |-> [o \in Byte |->
          LET at == {k \in 0 .. h.p_memsz - 1 :
                       /\ Translate(m, JOB_BASE_USER + k \div blocksize).to = p
                       /\ k % blocksize = o}
          IN  IF at = {} THEN mem[p][o]
              ELSE BufferByte(file, h.p_offset + CHOOSE k \in at : \A j \in at : j <= k)]]

\* The copy, mutated: the tables of a job that runs stay applied.
CopyWithoutApply ==
    /\ pc = "map" /\ Mapped
    /\ \E m \in live \cup {building} :
         (m = building => live = {}) /\ CopyThrough(m)
    /\ pc' = "finish"
    /\ UNCHANGED <<allVars, file, elf, program>>

\* paging_manager_apply(pm), the copy, paging_manager_apply(old_paging).
Copy ==
    /\ pc = "map" /\ Mapped
    /\ CopyThrough(building)
    /\ pc' = "finish"
    /\ UNCHANGED <<allVars, file, elf, program>>

\* elf_free, then job_create.  kfree(NULL) reads before the heap's table: it
\* returns if the flag it finds there is not set.
Finish ==
    /\ pc = "finish"
    /\ CreateEnd
    /\ pc' \in {"idle"} \cup (IF FreesNull(elf) THEN {"wild"} ELSE {})
    /\ UNCHANGED <<file, elf, mem, program>>

Remove(m) ==
    /\ pc = "idle"
    /\ Delete(m)
    /\ UNCHANGED load

Stopped == (pc = "wild" \/ overrun) /\ UNCHANGED loadVars

LoadNext ==
    \/ \E f \in File : Read(f)
    \/ Parse
    \/ \E m \in Manager : Create(m) \/ Remove(m)
    \/ Map \/ Copy \/ Finish
    \/ Stopped

LoadSpec == LoadInit /\ [][LoadNext]_loadVars

-----------------------------------------------------------------------------
(***************************************************************************)
(* Properties.                                                             *)
(***************************************************************************)

\* A job finds its program at JOB_BASE_USER, every byte of its first segment,
\* also after other jobs were loaded, which is done by writing to the same
\* virtual addresses; until user_space runs out.
ProgramIsLoaded ==
    ~ exhausted =>
      \A m \in live :
        LET h == header[program[m]]
        IN  \A k \in 0 .. h.p_filesz - 1 :
              mem[Translate(m, JOB_BASE_USER + k \div blocksize).to][k % blocksize]
                = <<program[m], h.p_offset + k>>

\* A file with its headers in order.
Complete(h) ==
    h.magic /\ h.e_phnum > 0 /\ h.e_shstrndx < h.e_shnum /\ h.strings_size > 0

\* The flags and pointers of the parser are consistent: job_create_from_file
\* dereferences or frees NULL for incomplete files only.
LoadsCompleteFiles == pc = "wild" => ~ Complete(header[file])
=============================================================================
