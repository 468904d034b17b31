------------------------------- MODULE Paging -------------------------------
(***************************************************************************)
(* Translation tables, kernel/mm/paging.c.  A manager owns a level 1       *)
(* table; tables come from one slab and are never given back.  The         *)
(* recursion of paging_insert_or_alloc is taken one level at a time.       *)
(*                                                                         *)
(* Addresses are counted in pages, and a table has Entries entries (512):  *)
(* a level 3 entry maps a page, a level 2 entry Entries pages (2 MB), a    *)
(* level 1 entry Entries^2 pages (1 GB).                                   *)
(***************************************************************************)
EXTENDS Integers

CONSTANTS
    Entries,       \* PAGING_ENTRIES_PER_TABLE
    Table,         \* the slots of the slab of tables, by number
    Manager,       \* the places of the paging managers
    MapVA, PA,     \* virtual pages that callers map, and to which pages
    Access,        \* with which <<unprivileged_access, read_only>>
    NULL

ASSUME PagingAssumption ==
    /\ Entries \in Nat /\ Entries >= 2
    /\ Table \subseteq Int /\ NULL \notin Table
    /\ MapVA \subseteq 0 .. Entries * Entries * Entries - 1
    /\ Access \subseteq BOOLEAN \X BOOLEAN

Index == 0 .. Entries - 1
VA == 0 .. Entries * Entries * Entries - 1

\* An entry: its two low bits (kind), its address bits (to), AP1 and AP2.  The
\* bits do not overlap, so entries are equal when these four are.  Tables and
\* pages are aligned (module Slab), so no mask drops a bit of an address.
Word(k, a, u, r) == [kind |-> k, to |-> a, user |-> u, ro |-> r]

Invalid == Word("invalid", 0, FALSE, FALSE)
l012_block(gb, u, r) == Word("block", gb, u, r)
l012_table(t) == Word("table", t, FALSE, FALSE)
l3_page(pa, u, r) == Word("page", pa, u, r)

PageEntry == {l3_page(pa, acc[1], acc[2]) : pa \in PA, acc \in Access}
EntryValue == {Invalid} \cup PageEntry \cup {l012_table(t) : t \in Table}
                 \cup {l012_block(gb, FALSE, FALSE) : gb \in {0, 1}}

\* paging_split_address
l1_offset(va) == va \div (Entries * Entries)
l2_offset(va) == (va % (Entries * Entries)) \div Entries
l3_offset(va) == va % Entries

VARIABLES
    used,          \* tables handed out
    store,         \* store[t][i]: the entries of every table of the slab
    l1,            \* paging_manager->l1
    level,         \* level that paging_insert_or_alloc is at; 0: not running
    pm, table, va, new,   \* its arguments; new is the entry to be written
    res,           \* what the last paging_manager_map_page returned
    overrun        \* history: a table was asked for and none was left

vars == <<used, store, l1, level, pm, table, va, new, res, overrun>>

Init ==
    /\ used = {}
    /\ store = [t \in Table |-> [i \in Index |-> Invalid]]
    /\ l1 = [m \in Manager |-> NULL]
    /\ level = 0
    /\ pm \in Manager /\ table = NULL /\ va = 0 /\ new = Invalid
    /\ res = 0
    /\ overrun = FALSE

\* slab_allocate: the free slot of highest number (module Slab); none if full.
NextSlot(slots) == {s \in slots : \A r \in slots : r <= s}

EmptyTable == [i \in Index |-> Invalid]

\* A table asked for when none is left is at address 0.  The writes to it are
\* lost and what it holds is not known: the model ends there.
NoTable ==
    /\ used = Table
    /\ overrun' = TRUE
    /\ UNCHANGED <<used, store, l1, level, pm, table, va, new, res>>

\* paging_manager_create, mutated: only the first GB is mapped.
CreateFirstGB(m) ==
    /\ level = 0 /\ ~ overrun
    /\ \/ \E t \in NextSlot(Table \ used) :
            /\ used' = used \cup {t}
            /\ store' = [store EXCEPT ![t] =
                           [EmptyTable EXCEPT ![0] = l012_block(0, FALSE, FALSE)]]
            /\ l1' = [l1 EXCEPT ![m] = t]
            /\ UNCHANGED <<level, pm, table, va, new, res, overrun>>
       \/ NoTable

\* paging_manager_init, then paging_manager_map_kernel: the first two GB are
\* mapped to themselves, for the kernel only.
paging_manager_create(m) ==
    /\ level = 0 /\ ~ overrun
    /\ \/ \E t \in NextSlot(Table \ used) :
            /\ used' = used \cup {t}
            /\ store' = [store EXCEPT ![t] =
                           [i \in Index |-> IF i \in {0, 1}
                                            THEN l012_block(i, FALSE, FALSE)
                                            ELSE Invalid]]
            /\ l1' = [l1 EXCEPT ![m] = t]
            /\ UNCHANGED <<level, pm, table, va, new, res, overrun>>
       \/ NoTable

\* paging_manager_map_page: the call of paging_insert_or_alloc at level 1.
paging_manager_map_page(m, a, pa, u, r) ==
    /\ level = 0 /\ ~ overrun
    /\ l1[m] # NULL
    /\ level' = 1
    /\ pm' = m /\ table' = l1[m] /\ va' = a /\ new' = l3_page(pa, u, r)
    /\ UNCHANGED <<used, store, l1, res, overrun>>

\* The entry of this level's table that the address selects.
Offset == IF level = 1 THEN l1_offset(va)
          ELSE IF level = 2 THEN l2_offset(va) ELSE l3_offset(va)
OldValue == store[table][Offset]

Return(r) ==
    /\ level' = 0
    /\ res' = r
    /\ UNCHANGED <<used, store, l1, pm, table, va, new, overrun>>

\* Levels 1 and 2: the entry is a block ...
DescendBlock ==
    /\ level \in {1, 2} /\ ~ overrun
    /\ OldValue.kind = "block"
    /\ Return(-1)

\* ... or mutated: the table stays free, and is handed out again ...
DescendKeepsFree ==
    /\ level \in {1, 2} /\ ~ overrun
    /\ OldValue.kind = "invalid"
    /\ \E t \in NextSlot(Table \ used) :
            /\ store' = [store EXCEPT ![t] = EmptyTable,
                                      ![table][Offset] = l012_table(t)]
            /\ table' = t
            /\ level' = level + 1
            /\ UNCHANGED <<used, l1, pm, va, new, res, overrun>>

\* ... or is invalid, and a table is allocated for it ...
DescendAllocate ==
    /\ level \in {1, 2} /\ ~ overrun
    /\ OldValue.kind = "invalid"
    /\ \/ \E t \in NextSlot(Table \ used) :
            /\ used' = used \cup {t}
            /\ store' = [store EXCEPT ![t] = EmptyTable,
                                      ![table][Offset] = l012_table(t)]
            /\ table' = t
            /\ level' = level + 1
            /\ UNCHANGED <<l1, pm, va, new, res, overrun>>
       \/ NoTable

\* ... or is a table.
DescendTable ==
    /\ level \in {1, 2} /\ ~ overrun
    /\ OldValue.kind = "table"
    /\ table' = OldValue.to
    /\ level' = level + 1
    /\ UNCHANGED <<used, store, l1, pm, va, new, res, overrun>>

\* Level 3, mutated: a page that is mapped is mapped again.
WriteAlways ==
    /\ level = 3 /\ ~ overrun
    /\ store' = [store EXCEPT ![table][Offset] = new]
    /\ level' = 0
    /\ res' = 0
    /\ UNCHANGED <<used, l1, pm, table, va, new, overrun>>

\* Level 3: an equal entry, another valid entry, or a free one.
Write ==
    /\ level = 3 /\ ~ overrun
    /\ \/ OldValue = new /\ Return(0)
       \/ OldValue # new /\ OldValue.kind # "invalid" /\ Return(-1)
       \/ /\ OldValue # new /\ OldValue.kind = "invalid"
          /\ store' = [store EXCEPT ![table][Offset] = new]
          /\ level' = 0
          /\ res' = 0
          /\ UNCHANGED <<used, l1, pm, table, va, new, overrun>>

Insert == DescendBlock \/ DescendAllocate \/ DescendTable \/ Write

\* Out of tables.
Lost == overrun /\ UNCHANGED vars

Next ==
    \/ \E m \in Manager : paging_manager_create(m)
    \/ \E m \in Manager, a \in MapVA, pa \in PA, acc \in Access :
          paging_manager_map_page(m, a, pa, acc[1], acc[2])
    \/ Insert
    \/ Lost

Spec == Init /\ [][Next]_vars

-----------------------------------------------------------------------------
(***************************************************************************)
(* Properties.                                                             *)
(***************************************************************************)
TypeOK ==
    /\ used \subseteq Table
    /\ store \in [Table -> [Index -> EntryValue]]
    /\ l1 \in [Manager -> Table \cup {NULL}]
    /\ level \in 0 .. 3
    /\ pm \in Manager /\ table \in Table \cup {NULL} /\ va \in VA
    /\ new \in PageEntry \cup {Invalid}
    /\ res \in {0, -1}
    /\ overrun \in BOOLEAN

\* What the processor finds for a page (external: the table walk of the MMU,
\* level 1 first).
Translate(m, a) ==
    LET e1 == store[l1[m]][l1_offset(a)]
        e2 == store[e1.to][l2_offset(a)]
        e3 == store[e2.to][l3_offset(a)]
    IN  IF l1[m] = NULL THEN Invalid
        ELSE IF e1.kind # "table" THEN e1
        ELSE IF e2.kind # "table" THEN e2
        ELSE e3

\* No table hangs below two entries, or below an entry and a manager, and no
\* table that is free hangs below any: a write for one page of one manager can
\* reach no other page and no other manager (paging_insert_or_alloc takes a
\* fresh table for every invalid entry and follows the others).  The tables of
\* a manager that is created again hang below no manager any more.
TablesFormTrees ==
    LET Ref == {e \in used \X Index : store[e[1]][e[2]].kind = "table"}
        Root == {l1[m] : m \in Manager} \ {NULL}
    IN  /\ Root \subseteq used
        /\ \A m, n \in Manager : l1[m] = l1[n] /\ l1[m] # NULL => m = n
        /\ \A e \in Ref : store[e[1]][e[2]].to \in used \ Root
        /\ \A e, f \in Ref : store[e[1]][e[2]] = store[f[1]][f[2]] => e = f

KernelEntry(a) == IF l1_offset(a) \in {0, 1}
                  THEN l012_block(l1_offset(a), FALSE, FALSE) ELSE Invalid

Space == INSTANCE AddressSpace WITH
            Entry <- PageEntry,
            Kernel <- KernelEntry,
            space <- [m \in Manager |-> [a \in VA |-> Translate(m, a)]],
            asked <- level # 0, who <- pm, page <- va, entry <- new

\* The tables implement an address space per manager: what the MMU finds for a
\* page is what was mapped there first, the kernel's two GB never change, a
\* call of paging_manager_map_page changes the page of the manager it was
\* called for and no other, and it returns -1 exactly when that page was taken.
ImplementsAddressSpace == Space!Spec
=============================================================================
