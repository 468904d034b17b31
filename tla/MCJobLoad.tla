------------------------------ MODULE MCJobLoad -----------------------------
(* Pages of two bytes, programs of up to five pages with their stack (two    *)
(* level 3 tables), seven user pages and twelve tables: two jobs live        *)
(* together, the first deleted and another created, until both slabs run     *)
(* out.  Of the files, one is larger than its program, one ends with it, one *)
(* has no sections, one no program and one is no ELF file.                   *)
EXTENDS JobLoad

CONSTANTS m1, m2, large, small, stripped, object, text

TwoManagers == {m1, m2}
TwelveTables == 1 .. 12
SevenPages == 1 .. 7
Pages == 0 .. 7
AllVA == 0 .. 26
SomeSizes == {0, 1, 5}
UserWrites == {<<TRUE, FALSE>>}

Files == {large, small, stripped, object, text}

Whole(off, bytes, space) ==
    [magic |-> TRUE, e_phnum |-> 2, e_shnum |-> 3, e_shstrndx |-> 2,
     strings_size |-> 4, p_offset |-> off, p_filesz |-> bytes,
     p_memsz |-> space, size |-> 6]

Headers ==
    [f \in Files |->
       CASE f = large -> Whole(1, 4, 5)
         [] f = small -> Whole(5, 1, 1)
         [] f = stripped -> [Whole(2, 1, 1) EXCEPT !.e_shnum = 0, !.e_shstrndx = 0]
         [] f = object -> [Whole(0, 0, 0) EXCEPT !.e_phnum = 0]
         [] f = text -> [Whole(0, 0, 0) EXCEPT !.magic = FALSE]]
=============================================================================
