--------------------------------- MODULE Elf --------------------------------
(***************************************************************************)
(* The ELF loader, kernel/elf/elf.c, as far as the kernel uses it.  A file *)
(* is its header fields: whether it begins with the magic number, the      *)
(* numbers of its headers, and what its first program header says.  The    *)
(* parser state (ELF) is the set of its pointers that are not NULL and of  *)
(* its flags that are set.  Lookups of sections by name have no caller and *)
(* are left out.                                                           *)
(***************************************************************************)
EXTENDS Integers

Header ==
    [magic : BOOLEAN, e_phnum : Nat, e_shnum : Nat, e_shstrndx : Nat,
     strings_size : Nat,                       \* sh_size of section e_shstrndx
     p_offset : Nat, p_filesz : Nat, p_memsz : Nat,
     size : Nat]                               \* bytes of the file

Shdr == 64    \* sizeof(ElfN_Shdr)
Phdr == 56    \* sizeof(ElfN_Phdr)

elf_fromfilebuffer == {}

\* The pointer is assigned NULL or not.
Assign(elf, pointer, nonnull) ==
    IF nonnull THEN elf \cup {pointer} ELSE elf \ {pointer}

\* Whether kalloc returns a pointer: not for 0 bytes, nor for -1, which is
\* 2^64 - 1 there.  The sizes of headers never use up the heap.
kalloc(bytes) == bytes > 0

elf_parseheader(elf, h) == IF h.magic THEN elf \cup {"header_loaded"} ELSE elf

elf_get_sectionheaders_bytes(elf, h) ==
    IF "header_loaded" \in elf THEN Shdr * h.e_shnum ELSE -1

elf_get_programheaders_bytes(elf, h) ==
    IF "header_loaded" \in elf THEN Phdr * h.e_phnum ELSE -1

\* The headers are read with the sizes that the file gives, e_shentsize and
\* e_phentsize, which are those of the structs in every file considered here.
elf_load_sectionheaders(elf) ==
    IF {"header_loaded", "section_headers"} \subseteq elf
    THEN elf \cup {"section_headers_loaded"} ELSE elf

\* elf_load_programheaders, mutated: the headers do not count as loaded.
LoadProgramHeadersOnly(elf) == elf

elf_load_programheaders(elf) ==
    IF {"header_loaded", "program_headers"} \subseteq elf
    THEN elf \cup {"program_headers_loaded"} ELSE elf

\* elf_get_sectionsize of the strings section.
elf_get_stringsectionsize(elf, h) ==
    IF "section_headers_loaded" \in elf /\ h.e_shstrndx < h.e_shnum
    THEN h.strings_size ELSE -1

elf_load_strings_section(elf) ==
    IF {"section_headers_loaded", "strings_section"} \subseteq elf
    THEN elf \cup {"strings_section_loaded"} ELSE elf

elf_alloc_and_parse(elf, h) ==
    LET e1 == elf_parseheader(elf, h)
        e2 == elf_load_sectionheaders(
                Assign(e1, "section_headers", kalloc(elf_get_sectionheaders_bytes(e1, h))))
        e3 == elf_load_programheaders(
                Assign(e2, "program_headers", kalloc(elf_get_programheaders_bytes(e2, h))))
    IN  elf_load_strings_section(
          Assign(e3, "strings_section", kalloc(elf_get_stringsectionsize(e3, h))))

\* Whether elf_get_programheader_byid returns a pointer.
elf_get_programheader_byid(elf) == "program_headers_loaded" \in elf

\* Whether elf_free passes NULL to kfree.
FreesNull(elf) ==
    ~ ({"section_headers", "program_headers", "strings_section"} \subseteq elf)
=============================================================================
