----------------------------- MODULE PagingProofs ----------------------------
(* Proofs about Paging, JobSpace and JobLoad: the tables form trees, what the   *)
(* MMU finds in them is an address space per manager, and every job finds its   *)
(* program, its stack and the kernel there, for tables of any size and any      *)
(* number of tables, jobs and files.                                            *)
EXTENDS JobLoad, TLAPS

(* Entries and offsets.                                                         *)

\* The two low bits tell the entries apart.
LEMMA EntryKinds ==
    ASSUME NEW e \in EntryValue
    PROVE  /\ e.kind \in {"invalid", "block", "table", "page"}
           /\ e.kind = "invalid" <=> e = Invalid
           /\ e.kind = "table" => e.to \in Table /\ e = l012_table(e.to)
           /\ e \in PageEntry => e.kind = "page"
  BY DEF EntryValue, PageEntry, Invalid, l012_block, l012_table, l3_page, Word

\* An entry that refers to a table says which one.
LEMMA TableEntry ==
    ASSUME NEW t \in Table
    PROVE  /\ l012_table(t) \in EntryValue
           /\ l012_table(t).kind = "table" /\ l012_table(t).to = t
  BY Zenon DEF EntryValue, l012_table, Word

\* A write to one entry leaves the others.
LEMMA OtherEntries ==
    /\ Invalid \in EntryValue /\ Invalid.kind = "invalid"
    /\ PageEntry \subseteq EntryValue
    /\ \A x \in {0, 1} : /\ l012_block(x, FALSE, FALSE) \in EntryValue
                         /\ l012_block(x, FALSE, FALSE).kind = "block"
  BY DEF EntryValue, PageEntry, Invalid, l012_block, l3_page, Word

\* Quotient and remainder determine each other.
LEMMA DivisionIsUnique ==
    ASSUME NEW n \in Nat, n > 0, NEW j \in Int, NEW k \in Int,
           NEW q \in 0 .. n - 1, NEW r \in 0 .. n - 1, n * j + q = n * k + r
    PROVE  j = k /\ q = r
  <1>1. CASE j < k
    <2>1. n * k >= n * j + n
      BY <1>1
    <2>. QED
      BY <2>1
  <1>2. CASE k < j
    <2>1. n * j >= n * k + n
      BY <1>2
    <2>. QED
      BY <2>1
  <1>. QED
    BY <1>1, <1>2

\* Quotient and remainder exist.
LEMMA Division ==
    ASSUME NEW a \in Nat, NEW n \in Nat, n > 0
    PROVE  a \div n \in Nat /\ a % n \in 0 .. n - 1 /\ a = n * (a \div n) + (a % n)
  OBVIOUS

\* A page number in base Entries.
LEMMA Digits ==
    ASSUME NEW a \in VA
    PROVE  /\ l1_offset(a) \in Index /\ l2_offset(a) \in Index /\ l3_offset(a) \in Index
           /\ a = Entries * (Entries * l1_offset(a) + l2_offset(a)) + l3_offset(a)
  <1>. DEFINE n == Entries
              s == n * n
              q == a \div s
              r == a % s
  <1>1. n \in Nat /\ n >= 2 /\ a \in Nat /\ a < s * n
    BY PagingAssumption DEF VA
  <1>2. s \in Nat /\ s > 0
    BY <1>1
  <1>. HIDE DEF s
  <1>3. q \in Nat /\ r \in 0 .. s - 1 /\ a = s * q + r
    BY <1>1, <1>2
  <1>. HIDE DEF q, r
  <1>4. q < n
    <2>. SUFFICES ASSUME q >= n PROVE FALSE
      BY <1>1, <1>3
    <2>1. s * q >= s * n
      BY <1>1, <1>2, <1>3
    <2>2. s * q \in Nat /\ s * n \in Nat
      BY <1>1, <1>2, <1>3
    <2>. QED
      BY <1>1, <1>3, <2>1, <2>2
  <1>. DEFINE v == r \div n
              w == r % n
  <1>5. v \in Nat /\ w \in 0 .. n - 1 /\ r = n * v + w
    BY <1>1, <1>3, <1>2
  <1>. HIDE DEF v, w
  <1>6. v < n
    <2>. SUFFICES ASSUME v >= n PROVE FALSE
      BY <1>1, <1>5
    <2>1. n * v >= n * n
      BY <1>1, <1>5
    <2>. QED
      BY <1>1, <1>2, <1>3, <1>5, <2>1 DEF s
  <1>7. a = n * (n * q + v) + w
    BY <1>1, <1>3, <1>5 DEF s
  <1>. DEFINE c == n * q + v
  <1>8. c \in Int /\ a = n * c + w
    BY <1>1, <1>3, <1>5, <1>7
  <1>. HIDE DEF c
  <1>9. a \div n \in Int /\ a % n \in 0 .. n - 1 /\ a = n * (a \div n) + (a % n)
    BY <1>1, Division
  <1>10. a % n = w
    <2>. DEFINE d == a \div n
                m == a % n
    <2>1. n \in Nat /\ n > 0 /\ d \in Int /\ m \in 0 .. n - 1 /\ n * d + m = n * c + w
      BY <1>1, <1>8, <1>9
    <2>. HIDE DEF d, m, n
    <2>2. m = w
      BY Zenon, <2>1, <1>5, <1>8, DivisionIsUnique
    <2>. QED
      BY <2>2 DEF m
  <1>. QED
    BY <1>1, <1>3, <1>4, <1>5, <1>6, <1>7, <1>10
       DEF l1_offset, l2_offset, l3_offset, Index, q, r, s, v, w

\* An address is determined by its three offsets.
LEMMA SamePage ==
    ASSUME NEW a \in VA, NEW b \in VA, l1_offset(a) = l1_offset(b),
           l2_offset(a) = l2_offset(b), l3_offset(a) = l3_offset(b)
    PROVE  a = b
  BY Digits

-----------------------------------------------------------------------------
(* The inductive invariant.                                                     *)

\* d is the level of every table: roots are at level 1, a table entry leads one
\* level down, blocks are at level 1 and pages at level 3, and the recursion is
\* at the level it says.
Leveled(d) ==
    /\ \A m \in Manager : l1[m] # NULL => l1[m] \in used /\ d[l1[m]] = 1
    /\ \A t \in used, x \in Index :
         /\ store[t][x].kind = "table" =>
              store[t][x].to \in used /\ d[t] < 3 /\ d[store[t][x].to] = d[t] + 1
         /\ store[t][x].kind = "page" => d[t] = 3
         /\ store[t][x].kind = "block" => d[t] = 1
    /\ level # 0 => table \in used /\ d[table] = level

\* No two managers share a root and no two entries lead to the same table.
Tree ==
    /\ \A m, n \in Manager : l1[m] = l1[n] /\ l1[m] # NULL => m = n
    /\ \A t, u \in used, x, j \in Index :
         store[t][x].kind = "table" /\ store[t][x] = store[u][j] => t = u /\ x = j

E1(m, a) == store[l1[m]][l1_offset(a)]
E2(m, a) == store[E1(m, a).to][l2_offset(a)]
E3(m, a) == store[E2(m, a).to][l3_offset(a)]

\* The recursion is where the address leads to.
Walk ==
    /\ level # 0 => l1[pm] # NULL /\ new \in PageEntry
    /\ level = 1 => table = l1[pm]
    /\ level \in {2, 3} => E1(pm, va).kind = "table"
    /\ level = 2 => table = E1(pm, va).to
    /\ level = 3 => E2(pm, va).kind = "table" /\ table = E2(pm, va).to

IInv == TypeOK /\ Tree /\ Walk /\ \E d \in [Table -> 1 .. 3] : Leveled(d)

\* The offset of an address at any level is an index of a table.
LEMMA OffsetType == TypeOK => Offset \in Index
  BY Digits DEF TypeOK, Offset

\* Without managers there are no tables.
LEMMA InitIInv == Init => IInv
  <1>. SUFFICES ASSUME Init PROVE IInv
    OBVIOUS
  <1>1. TypeOK
    <2>1. 0 \in VA
      <3>1. Entries * Entries * Entries \in Nat /\ Entries * Entries * Entries > 0
        BY PagingAssumption
      <3>. QED
        BY <3>1 DEF VA
    <2>2. store \in [Table -> [Index -> EntryValue]] /\ l1 \in [Manager -> Table \cup {NULL}]
      BY OtherEntries DEF Init
    <2>3. level \in 0 .. 3 /\ res \in {0, -1}
      BY DEF Init
    <2>. QED
      BY Zenon, <2>1, <2>2, <2>3 DEF Init, TypeOK
  <1>2. Tree /\ Walk
    BY DEF Init, Tree, Walk
  <1>3. [t \in Table |-> 1] \in [Table -> 1 .. 3] /\ Leveled([t \in Table |-> 1])
    BY DEF Init, Leveled
  <1>. QED
    BY <1>1, <1>2, <1>3 DEF IInv

\* What a walk from a root finds, level by level.
LEMMA Path ==
    ASSUME TypeOK, NEW d \in [Table -> 1 .. 3], Leveled(d),
           NEW m \in Manager, NEW a \in VA, l1[m] # NULL
    PROVE  /\ l1[m] \in used /\ d[l1[m]] = 1
           /\ E1(m, a) \in EntryValue /\ E1(m, a).kind # "page"
           /\ E1(m, a).kind = "table" =>
                /\ E1(m, a).to \in used /\ d[E1(m, a).to] = 2
                /\ E2(m, a) \in EntryValue /\ E2(m, a).kind \in {"invalid", "table"}
                /\ E2(m, a).kind = "table" =>
                     /\ E2(m, a).to \in used /\ d[E2(m, a).to] = 3
                     /\ E3(m, a) \in EntryValue /\ E3(m, a).kind \in {"invalid", "page"}
  <1>1. l1_offset(a) \in Index /\ l2_offset(a) \in Index /\ l3_offset(a) \in Index
    BY Digits
  <1>2. l1[m] \in used /\ d[l1[m]] = 1 /\ used \subseteq Table
    BY DEF Leveled, TypeOK
  <1>3. \A t \in used, x \in Index : store[t][x] \in EntryValue
    BY DEF TypeOK
  <1>4. E1(m, a) \in EntryValue /\ E1(m, a).kind # "page"
    BY <1>1, <1>2, <1>3 DEF Leveled, E1
  <1>5. ASSUME E1(m, a).kind = "table"
        PROVE  /\ E1(m, a).to \in used /\ d[E1(m, a).to] = 2
               /\ E2(m, a) \in EntryValue /\ E2(m, a).kind \in {"invalid", "table"}
    <2>1. E1(m, a).to \in used /\ d[E1(m, a).to] = 2
      BY <1>1, <1>2, <1>5 DEF Leveled, E1
    <2>2. E2(m, a) \in EntryValue
      BY <1>1, <1>3, <2>1 DEF E2
    <2>3. E2(m, a).kind # "page" /\ E2(m, a).kind # "block"
      BY <1>1, <2>1 DEF Leveled, E2
    <2>. QED
      BY <2>1, <2>2, <2>3, EntryKinds
  <1>6. ASSUME E1(m, a).kind = "table", E2(m, a).kind = "table"
        PROVE  /\ E2(m, a).to \in used /\ d[E2(m, a).to] = 3
               /\ E3(m, a) \in EntryValue /\ E3(m, a).kind \in {"invalid", "page"}
    <2>1. E2(m, a).to \in used /\ d[E2(m, a).to] = 3
      BY <1>1, <1>5, <1>6 DEF Leveled, E2
    <2>2. E3(m, a) \in EntryValue
      BY <1>1, <1>3, <2>1 DEF E3
    <2>3. E3(m, a).kind # "table" /\ E3(m, a).kind # "block"
      BY <1>1, <2>1 DEF Leveled, E3
    <2>. QED
      BY Zenon, <2>1, <2>2, <2>3, EntryKinds
  <1>. QED
    BY <1>2, <1>4, <1>5, <1>6

\* The entry that the recursion looks at is the one of its address.
LEMMA AtEntry ==
    ASSUME IInv, level # 0
    PROVE  /\ table \in used /\ Offset \in Index /\ OldValue \in EntryValue
           /\ level = 1 => OldValue = E1(pm, va)
           /\ level = 2 => OldValue = E2(pm, va)
           /\ level = 3 => OldValue = E3(pm, va)
  <1>1. table \in used /\ Offset \in Index
    BY OffsetType DEF IInv, Leveled
  <1>2. OldValue \in EntryValue
    BY <1>1 DEF IInv, TypeOK, OldValue
  <1>3. CASE level = 1
    BY <1>1, <1>2, <1>3 DEF IInv, Walk, OldValue, Offset, E1
  <1>4. CASE level = 2
    BY <1>1, <1>2, <1>4 DEF IInv, Walk, OldValue, Offset, E2
  <1>5. CASE level = 3
    BY <1>1, <1>2, <1>5 DEF IInv, Walk, OldValue, Offset, E3
  <1>. QED
    BY <1>3, <1>4, <1>5 DEF IInv, TypeOK

\* The arguments of the recursion while it runs.
LEMMA Running ==
    ASSUME IInv, level # 0
    PROVE  /\ pm \in Manager /\ va \in VA /\ new \in PageEntry /\ l1[pm] # NULL
           /\ level \in {2, 3} => E1(pm, va).kind = "table"
           /\ level = 3 => E2(pm, va).kind = "table"
  <1>1. pm \in Manager /\ va \in VA
    BY Zenon DEF IInv, TypeOK
  <1>2. /\ l1[pm] # NULL /\ new \in PageEntry
        /\ level \in {2, 3} => E1(pm, va).kind = "table"
        /\ level = 3 => E2(pm, va).kind = "table"
    BY Zenon DEF IInv, Walk
  <1>. QED
    BY Zenon, <1>1, <1>2

\* No table is below two entries.
LEMMA OneParent ==
    ASSUME IInv, NEW t \in used, NEW u \in used, NEW x \in Index, NEW y \in Index,
           store[t][x].kind = "table", store[t][x] = store[u][y]
    PROVE  t = u /\ x = y
  <1>1. Tree
    BY Zenon DEF IInv
  <1>. QED
    BY <1>1 DEF Tree

\* Tables and recursion that stay as they are.
LEMMA SameIInv ==
    ASSUME IInv, UNCHANGED <<used, store, l1, level, pm, table, va, new>>, TypeOK'
    PROVE  IInv'
  <1>1. PICK d \in [Table -> 1 .. 3] : Leveled(d)
    BY Zenon DEF IInv
  <1>2. Leveled(d)'
    BY <1>1 DEF Leveled
  <1>3. Tree'
    <2>1. Tree
      BY Zenon DEF IInv
    <2>. QED
      BY <2>1 DEF Tree
  <1>4. Walk'
    BY Zenon DEF IInv, Walk, E1, E2
  <1>. QED
    BY Zenon, <1>2, <1>3, <1>4 DEF IInv

\* Without a table left, the model stops.
LEMMA NoTableIInv ==
    ASSUME IInv, NoTable PROVE IInv'
  <1>1. TypeOK'
    BY DEF NoTable, IInv, TypeOK
  <1>. QED
    BY <1>1, SameIInv DEF NoTable

\* A new root: a fresh table with the kernel's blocks.
LEMMA CreateIInv ==
    ASSUME IInv, NEW m \in Manager, paging_manager_create(m) PROVE IInv'
  <1>1. CASE NoTable
    BY <1>1, NoTableIInv
  <1>2. CASE ~ NoTable
    <2>1. PICK t \in Table \ used :
            /\ used' = used \cup {t}
            /\ store' = [store EXCEPT ![t] =
                           [x \in Index |-> IF x \in {0, 1}
                                            THEN l012_block(x, FALSE, FALSE) ELSE Invalid]]
            /\ l1' = [l1 EXCEPT ![m] = t]
            /\ UNCHANGED <<level, pm, table, va, new, res, overrun>>
      BY Zenon, <1>2 DEF paging_manager_create, NextSlot
    <2>2. level = 0
      BY DEF paging_manager_create
    <2>3. /\ \A u \in used : store'[u] = store[u]
          /\ \A x \in Index : /\ store'[t][x] \in EntryValue
                               /\ store'[t][x].kind \in {"invalid", "block"}
      BY Zenon, <2>1, OtherEntries DEF IInv, TypeOK
    <2>4. TypeOK'
      BY Zenon, <2>1, <2>3, OtherEntries DEF IInv, TypeOK
    <2>5. Tree'
      <3>1. \A n \in Manager : l1[n] # NULL => l1[n] \in used
        BY DEF IInv, Leveled
      <3>2. \A k, n \in Manager : l1'[k] = l1'[n] /\ l1'[k] # NULL => k = n
        BY <2>1, <3>1 DEF IInv, TypeOK, Tree
      <3>3. ASSUME NEW u \in used', NEW v \in used', NEW x \in Index, NEW j \in Index,
                   store'[u][x].kind = "table", store'[u][x] = store'[v][j]
            PROVE  u = v /\ x = j
        <4>1. u # t /\ v # t
          BY <2>3, <3>3
        <4>2. /\ u \in used /\ v \in used
              /\ store[u][x].kind = "table" /\ store[u][x] = store[v][j]
          BY <2>1, <2>3, <3>3, <4>1
        <4>. QED
          BY <4>2 DEF IInv, Tree
      <3>. QED
        BY <3>2, <3>3 DEF Tree
    <2>6. PICK d \in [Table -> 1 .. 3] : Leveled(d)
      BY DEF IInv
    <2>7. \E e \in [Table -> 1 .. 3] : Leveled(e)'
      <3>. DEFINE e == [d EXCEPT ![t] = 1]
      <3>1. e \in [Table -> 1 .. 3] /\ \A u \in used : e[u] = d[u]
        BY <2>1, <2>6 DEF IInv, TypeOK
      <3>2. e[t] = 1
        BY <2>1
      <3>. HIDE DEF e
      <3>3. \A n \in Manager : l1'[n] # NULL => l1'[n] \in used' /\ e[l1'[n]] = 1
        BY <2>1, <2>6, <3>1, <3>2 DEF Leveled, IInv, TypeOK
      <3>4. ASSUME NEW u \in used', NEW x \in Index
            PROVE  /\ store'[u][x].kind = "table" =>
                        /\ store'[u][x].to \in used' /\ e[u] < 3
                        /\ e[store'[u][x].to] = e[u] + 1
                   /\ store'[u][x].kind = "page" => e[u] = 3
                   /\ store'[u][x].kind = "block" => e[u] = 1
        <4>1. CASE u = t
          BY <4>1, <2>3, <3>2
        <4>2. CASE u \in used
          <5>1. store'[u][x] = store[u][x] /\ e[u] = d[u]
            BY <4>2, <2>3, <3>1
          <5>2. /\ store[u][x].kind = "table" =>
                     store[u][x].to \in used /\ d[u] < 3 /\ d[store[u][x].to] = d[u] + 1
                /\ store[u][x].kind = "page" => d[u] = 3
                /\ store[u][x].kind = "block" => d[u] = 1
            BY <4>2, <2>6 DEF Leveled
          <5>. QED
            BY <5>1, <5>2, <2>1, <3>1
        <4>. QED
          BY Zenon, <4>1, <4>2, <2>1
      <3>. QED
        BY Zenon, <2>1, <2>2, <3>1, <3>3, <3>4 DEF Leveled
    <2>8. Walk'
      BY <2>1, <2>2 DEF Walk
    <2>. QED
      BY <2>4, <2>5, <2>7, <2>8 DEF IInv
  <1>. QED
    BY Zenon, <1>1, <1>2

\* paging_manager_map_page starts at the first level of its manager.
LEMMA MapPageIInv ==
    ASSUME IInv, NEW m \in Manager, NEW a \in MapVA, NEW pa \in PA, NEW acc \in Access,
           paging_manager_map_page(m, a, pa, acc[1], acc[2])
    PROVE  IInv'
  <1>1. PICK d \in [Table -> 1 .. 3] : Leveled(d)
    BY DEF IInv
  <1>2. l3_page(pa, acc[1], acc[2]) \in PageEntry
    BY DEF PageEntry
  <1>3. TypeOK'
    BY <1>2, PagingAssumption DEF IInv, TypeOK, paging_manager_map_page, VA
  <1>4. Tree' /\ Walk' /\ Leveled(d)'
    BY <1>1, <1>2 DEF IInv, TypeOK, Tree, Walk, Leveled, paging_manager_map_page, E1, E2
  <1>. QED
    BY <1>3, <1>4 DEF IInv

\* A return without a write changes no table.
LEMMA ReturnIInv ==
    ASSUME IInv, NEW r \in {0, -1}, Return(r) PROVE IInv'
  <1>1. PICK d \in [Table -> 1 .. 3] : Leveled(d)
    BY Zenon DEF IInv
  <1>2. Tree /\ level' = 0 /\ UNCHANGED <<used, store, l1>>
    BY Zenon DEF IInv, Return
  <1>3. TypeOK'
    BY DEF IInv, TypeOK, Return
  <1>4. Leveled(d)'
    BY <1>1, <1>2 DEF Leveled
  <1>5. Tree'
    BY <1>2 DEF Tree
  <1>6. Walk'
    BY <1>2 DEF Walk
  <1>. QED
    BY Zenon, <1>3, <1>4, <1>5, <1>6 DEF IInv

\* A step that allocates table t: the entries afterwards.
Allocates(t) ==
    /\ t \in Table \ used
    /\ used' = used \cup {t}
    /\ \A u \in Table, x \in Index :
         store'[u][x] = IF u = t THEN Invalid
                        ELSE IF u = table /\ x = Offset THEN l012_table(t)
                        ELSE store[u][x]
    /\ store' \in [Table -> [Index -> EntryValue]]
    /\ table' = t /\ level' = level + 1
    /\ UNCHANGED <<l1, pm, va, new, res, overrun>>

\* What DescendAllocate writes: an empty table, and the entry that refers to it.
LEMMA AllocateEffect ==
    ASSUME IInv, DescendAllocate, ~ NoTable
    PROVE  /\ level \in {1, 2} /\ OldValue = Invalid
           /\ \E t \in Table : Allocates(t)
  <1>1. level \in {1, 2} /\ OldValue = Invalid
    BY AtEntry, EntryKinds DEF DescendAllocate
  <1>2. PICK t \in Table \ used :
          /\ used' = used \cup {t}
          /\ store' = [store EXCEPT ![t] = EmptyTable, ![table][Offset] = l012_table(t)]
          /\ table' = t
          /\ level' = level + 1
          /\ UNCHANGED <<l1, pm, va, new, res, overrun>>
    BY DEF DescendAllocate, NextSlot
  <1>3. table \in Table /\ table # t /\ Offset \in Index
    BY <1>1, <1>2, AtEntry DEF IInv, TypeOK
  <1>4. Invalid \in EntryValue /\ l012_table(t) \in EntryValue
    BY <1>2, OtherEntries, TableEntry
  <1>5. store \in [Table -> [Index -> EntryValue]]
    BY DEF IInv, TypeOK
  <1>. HIDE DEF IInv
  <1>6. store' \in [Table -> [Index -> EntryValue]]
    BY <1>2, <1>3, <1>4, <1>5 DEF EmptyTable
  <1>7. \A u \in Table, x \in Index :
          store'[u][x] = IF u = t THEN Invalid
                         ELSE IF u = table /\ x = Offset THEN l012_table(t)
                         ELSE store[u][x]
    BY <1>2, <1>3, <1>5 DEF EmptyTable
  <1>. QED
    BY <1>1, <1>2, <1>6, <1>7 DEF Allocates

\* A new table hangs below one entry only.
LEMMA AllocateIInv ==
    ASSUME IInv, DescendAllocate PROVE IInv'
  <1>1. CASE NoTable
    BY <1>1, NoTableIInv
  <1>2. CASE ~ NoTable
    <2>1. PICK t \in Table : Allocates(t)
      BY <1>2, AllocateEffect
    <2>2. level \in {1, 2} /\ OldValue = Invalid /\ table \in used /\ Offset \in Index
      BY <1>2, AllocateEffect, AtEntry
    <2>3. PICK d \in [Table -> 1 .. 3] : Leveled(d)
      BY DEF IInv
    <2>. DEFINE e == [d EXCEPT ![t] = level + 1]
    <2>4. /\ e \in [Table -> 1 .. 3] /\ e[t] = level + 1
          /\ \A u \in used : e[u] = d[u]
      BY <2>1, <2>2, <2>3 DEF Allocates, IInv, TypeOK
    <2>. HIDE DEF e
    <2>5. d[table] = level
      BY <2>2, <2>3 DEF Leveled
    <2>6. used \subseteq Table /\ used' = used \cup {t} /\ t \notin used
      BY <2>1 DEF Allocates, IInv, TypeOK
    <2>7. \A u \in used, x \in Index :
            /\ <<u, x>> # <<table, Offset>> => store'[u][x] = store[u][x]
            /\ <<u, x>> = <<table, Offset>> => store'[u][x] = l012_table(t)
      BY <2>1, <2>6 DEF Allocates
    <2>8. \A x \in Index : store'[t][x].kind = "invalid"
      BY <2>1, OtherEntries DEF Allocates
    <2>9. l012_table(t).kind = "table" /\ l012_table(t).to = t
      BY TableEntry
    <2>10. \A u \in used, x \in Index : store[u][x].kind = "table" => store[u][x].to # t
      BY <2>3, <2>6 DEF Leveled
    <2>11. TypeOK'
      BY <2>1, <2>2 DEF Allocates, IInv, TypeOK
    <2>12. Tree'
      <3>1. \A m, n \in Manager : l1'[m] = l1'[n] /\ l1'[m] # NULL => m = n
        BY <2>1 DEF Allocates, IInv, Tree
      <3>2. ASSUME NEW u \in used', NEW v \in used', NEW x \in Index, NEW j \in Index,
                   store'[u][x].kind = "table", store'[u][x] = store'[v][j]
            PROVE  u = v /\ x = j
        <4>1. u \in used /\ v \in used
          BY <3>2, <2>6, <2>8
        <4>2. CASE <<u, x>> = <<table, Offset>> \/ <<v, j>> = <<table, Offset>>
          BY <3>2, <4>1, <4>2, <2>7, <2>9, <2>10
        <4>3. CASE <<u, x>> # <<table, Offset>> /\ <<v, j>> # <<table, Offset>>
          BY <3>2, <4>1, <4>3, <2>7 DEF IInv, Tree
        <4>. QED
          BY <4>2, <4>3
      <3>. QED
        BY <3>1, <3>2 DEF Tree
    <2>13. \E f \in [Table -> 1 .. 3] : Leveled(f)'
      <3>1. \A m \in Manager : l1'[m] # NULL => l1'[m] \in used' /\ e[l1'[m]] = 1
        BY <2>1, <2>3, <2>4, <2>6 DEF Allocates, Leveled
      <3>2. ASSUME NEW u \in used', NEW x \in Index
            PROVE  /\ store'[u][x].kind = "table" =>
                        /\ store'[u][x].to \in used' /\ e[u] < 3
                        /\ e[store'[u][x].to] = e[u] + 1
                   /\ store'[u][x].kind = "page" => e[u] = 3
                   /\ store'[u][x].kind = "block" => e[u] = 1
        <4>1. CASE u = t
          BY <4>1, <2>8
        <4>2. CASE <<u, x>> = <<table, Offset>>
          BY <4>2, <2>2, <2>4, <2>5, <2>6, <2>7, <2>9
        <4>3. CASE u \in used /\ <<u, x>> # <<table, Offset>>
          BY <4>3, <2>3, <2>4, <2>6, <2>7 DEF Leveled
        <4>. QED
          BY <4>1, <4>2, <4>3, <2>6
      <3>3. table' \in used' /\ e[table'] = level'
        BY <2>1, <2>4 DEF Allocates
      <3>. QED
        BY <2>4, <3>1, <3>2, <3>3 DEF Leveled
    <2>14. Walk'
      <3>1. /\ l1[pm] # NULL /\ new \in PageEntry /\ pm \in Manager /\ va \in VA
            /\ level' = level + 1 /\ table' = t /\ UNCHANGED <<l1, pm, va, new>>
        BY <2>1, <2>2 DEF Allocates, IInv, Walk, TypeOK
      <3>2. /\ l1[pm] \in used /\ d[l1[pm]] = 1
            /\ l1_offset(va) \in Index /\ l2_offset(va) \in Index
        BY <2>3, <3>1, Digits DEF Leveled
      <3>3. CASE level = 1
        <4>1. table = l1[pm] /\ Offset = l1_offset(va)
          BY <3>3 DEF IInv, Walk, Offset
        <4>2. E1(pm, va)' = l012_table(t)
          BY <3>1, <3>2, <4>1, <2>7 DEF E1
        <4>. QED
          BY <3>1, <3>3, <4>2, <2>9 DEF Walk
      <3>4. CASE level = 2
        <4>1. E1(pm, va).kind = "table" /\ table = E1(pm, va).to /\ Offset = l2_offset(va)
          BY <3>4 DEF IInv, Walk, Offset
        <4>2. E1(pm, va)' = E1(pm, va)
          BY <3>1, <3>2, <3>4, <2>5, <2>7 DEF E1
        <4>3. E2(pm, va)' = l012_table(t)
          BY <3>1, <3>2, <4>1, <4>2, <2>2, <2>7 DEF E2
        <4>. QED
          BY <3>1, <3>4, <4>1, <4>2, <4>3, <2>9 DEF Walk
      <3>. QED
        BY <2>2, <3>3, <3>4
    <2>. QED
      BY <2>11, <2>12, <2>13, <2>14 DEF IInv
  <1>. QED
    BY Zenon, <1>1, <1>2

\* Descending goes one level down the tree of the manager.
LEMMA DescendTableIInv ==
    ASSUME IInv, DescendTable PROVE IInv'
  <1>1. PICK d \in [Table -> 1 .. 3] : Leveled(d)
    BY DEF IInv
  <1>2. /\ table \in used /\ Offset \in Index /\ OldValue \in EntryValue
        /\ level \in {1, 2} /\ OldValue.kind = "table"
    BY AtEntry DEF DescendTable
  <1>3. OldValue.to \in used /\ d[OldValue.to] = level + 1
    BY <1>1, <1>2 DEF Leveled, OldValue
  <1>4. Leveled(d)'
    BY <1>1, <1>2, <1>3 DEF Leveled, DescendTable
  <1>5. TypeOK' /\ Tree'
    BY <1>2, <1>3 DEF IInv, TypeOK, Tree, DescendTable
  <1>6. Walk'
    <2>1. /\ UNCHANGED <<store, l1, pm, va, new>>
          /\ level' = level + 1 /\ table' = OldValue.to
      BY DEF DescendTable
    <2>2. E1(pm, va)' = E1(pm, va) /\ E2(pm, va)' = E2(pm, va)
      BY <2>1 DEF E1, E2
    <2>3. level = 1 => OldValue = E1(pm, va)
      BY AtEntry
    <2>4. level = 2 => OldValue = E2(pm, va)
      BY AtEntry
    <2>5. l1[pm] # NULL /\ new \in PageEntry /\ (level = 2 => E1(pm, va).kind = "table")
      BY <1>2 DEF IInv, Walk
    <2>6. CASE level = 1
      BY <2>6, <1>2, <2>1, <2>2, <2>3, <2>5 DEF Walk
    <2>7. CASE level = 2
      BY <2>7, <1>2, <2>1, <2>2, <2>4, <2>5 DEF Walk
    <2>. QED
      BY <1>2, <2>6, <2>7
  <1>. QED
    BY <1>4, <1>5, <1>6 DEF IInv

\* The last disjunct of Write: a free entry of a level 3 table gets the page.
Writes ==
    /\ level = 3 /\ OldValue = Invalid
    /\ \A u \in Table, x \in Index :
         store'[u][x] = IF u = table /\ x = Offset THEN new ELSE store[u][x]
    /\ store' \in [Table -> [Index -> EntryValue]]
    /\ level' = 0 /\ res' = 0
    /\ UNCHANGED <<used, l1, pm, table, va, new, overrun>>

\* What a last-level write changes.
LEMMA WriteEffect ==
    ASSUME IInv, Write
    PROVE  \/ OldValue = new /\ Return(0)
           \/ OldValue \notin {new, Invalid} /\ Return(-1)
           \/ Writes
  <1>1. OldValue \in EntryValue /\ table \in Table /\ Offset \in Index /\ level = 3
    BY AtEntry DEF Write, IInv, TypeOK
  <1>2. new \in EntryValue
    BY <1>1, OtherEntries DEF IInv, Walk
  <1>3. ASSUME OldValue.kind = "invalid",
               store' = [store EXCEPT ![table][Offset] = new],
               level' = 0, res' = 0, UNCHANGED <<used, l1, pm, table, va, new, overrun>>
        PROVE  Writes
    BY Zenon, <1>1, <1>2, <1>3, EntryKinds DEF Writes, IInv, TypeOK
  <1>. QED
    BY <1>1, <1>3, EntryKinds DEF Write

\* A page or block entry refers to no table.
LEMMA WritesIInv ==
    ASSUME IInv, Writes PROVE IInv'
  <1>1. PICK d \in [Table -> 1 .. 3] : Leveled(d)
    BY Zenon DEF IInv
  <1>2. new \in EntryValue /\ new.kind = "page"
    BY OtherEntries, EntryKinds DEF IInv, Walk, Writes
  <1>3. table \in used /\ d[table] = 3 /\ Offset \in Index /\ used \subseteq Table
    <2>1. level = 3 /\ used \subseteq Table
      BY DEF Writes, IInv, TypeOK
    <2>2. table \in used /\ Offset \in Index
      BY <2>1, AtEntry
    <2>. QED
      BY <1>1, <2>1, <2>2 DEF Leveled
  <1>4. TypeOK'
    BY DEF Writes, IInv, TypeOK
  <1>5. /\ UNCHANGED <<used, l1>> /\ level' = 0
        /\ \A u \in used, x \in Index :
             store'[u][x] = IF u = table /\ x = Offset THEN new ELSE store[u][x]
    BY <1>3 DEF Writes
  <1>6. Leveled(d)'
    BY <1>1, <1>2, <1>3, <1>5 DEF Leveled
  <1>7. Tree'
    BY <1>2, <1>5 DEF IInv, Tree
  <1>. QED
    BY <1>4, <1>5, <1>6, <1>7 DEF IInv, Walk

\* Every step keeps the trees and the place of the walk in them.
LEMMA NextIInv == IInv /\ [Next]_vars => IInv'
  <1>. SUFFICES ASSUME IInv, [Next]_vars PROVE IInv'
    OBVIOUS
  <1>1. CASE DescendBlock
    BY <1>1, ReturnIInv DEF DescendBlock
  <1>2. CASE Write
    BY <1>2, WriteEffect, ReturnIInv, WritesIInv
  <1>3. CASE UNCHANGED vars
    <2>1. TypeOK'
      BY <1>3 DEF vars, IInv, TypeOK
    <2>. QED
      BY <1>3, <2>1, SameIInv DEF vars
  <1>. QED
    BY <1>1, <1>2, <1>3, CreateIInv, MapPageIInv, AllocateIInv, DescendTableIInv
       DEF Next, Insert, Lost

\* Tables have levels, are shared by nobody, and the recursion of
\* paging_insert_or_alloc is where its address leads to.
THEOREM Invariance == Spec => []IInv
  BY InitIInv, NextIInv, PTL DEF Spec

\* A write for one page of one manager reaches no other page or manager.
THEOREM TablesStayTrees == Spec => []TablesFormTrees
  <1>1. IInv => TablesFormTrees
    <2>. SUFFICES ASSUME IInv PROVE TablesFormTrees
      OBVIOUS
    <2>. DEFINE Ref == {e \in used \X Index : store[e[1]][e[2]].kind = "table"}
                Root == {l1[m] : m \in Manager} \ {NULL}
    <2>1. PICK d \in [Table -> 1 .. 3] : Leveled(d)
      BY DEF IInv
    <2>2. Root \subseteq used /\ \A t \in Root : d[t] = 1
      BY <2>1 DEF Leveled
    <2>3. \A m, n \in Manager : l1[m] = l1[n] /\ l1[m] # NULL => m = n
      BY DEF IInv, Tree
    <2>4. ASSUME NEW e \in Ref PROVE store[e[1]][e[2]].to \in used \ Root
      <3>1. e[1] \in used /\ e[2] \in Index /\ store[e[1]][e[2]].kind = "table"
        OBVIOUS
      <3>2. store[e[1]][e[2]].to \in used /\ d[store[e[1]][e[2]].to] = d[e[1]] + 1
        BY <2>1, <3>1 DEF Leveled
      <3>3. d[e[1]] \in 1 .. 3
        BY <3>1 DEF IInv, TypeOK
      <3>. QED
        BY <2>2, <3>2, <3>3
    <2>5. \A e, f \in Ref : store[e[1]][e[2]] = store[f[1]][f[2]] => e = f
      BY DEF IInv, Tree
    <2>. QED
      BY <2>2, <2>3, <2>4, <2>5 DEF TablesFormTrees
  <1>. QED
    BY <1>1, Invariance, PTL

-----------------------------------------------------------------------------
(* The refinement: what the MMU finds, as an address space.                     *)

\* The MMU's walk of an address depends on the entries at its three offsets.
LEMMA Translation ==
    ASSUME NEW m, NEW a
    PROVE  /\ l1[m] = NULL => Translate(m, a) = Invalid
           /\ l1[m] # NULL =>
                Translate(m, a) = IF E1(m, a).kind # "table" THEN E1(m, a)
                                  ELSE IF E2(m, a).kind # "table" THEN E2(m, a)
                                  ELSE E3(m, a)
  BY ZenonT(40) DEF Translate, E1, E2, E3

\* The same entries on the way give the same translation.
LEMMA SameWalk ==
    ASSUME NEW m, NEW a, l1'[m] = l1[m],
           l1[m] # NULL =>
             /\ E1(m, a)' = E1(m, a)
             /\ E1(m, a).kind = "table" => E2(m, a)' = E2(m, a)
             /\ E1(m, a).kind = "table" /\ E2(m, a).kind = "table" => E3(m, a)' = E3(m, a)
    PROVE  Translate(m, a)' = Translate(m, a)
  <1>1. CASE l1[m] = NULL
    BY <1>1 DEF Translate
  <1>2. CASE l1[m] # NULL
    <2>1. Translate(m, a)' = IF E1(m, a)'.kind # "table" THEN E1(m, a)'
                             ELSE IF E2(m, a)'.kind # "table" THEN E2(m, a)'
                             ELSE E3(m, a)'
      BY Zenon, <1>2 DEF Translate, E1, E2, E3
    <2>. QED
      BY <1>2, <2>1, Translation
  <1>. QED
    BY Zenon, <1>1, <1>2

\* A fresh root has the kernel's map; the other managers keep theirs.
LEMMA CreateSpace ==
    ASSUME IInv, NEW m \in Manager, paging_manager_create(m), ~ NoTable
    PROVE  /\ \A a \in VA : Translate(m, a)' = KernelEntry(a)
           /\ \A n \in Manager, a \in VA : n # m => Translate(n, a)' = Translate(n, a)
           /\ res' = res
  <1>1. PICK t \in Table \ used :
          /\ store' = [store EXCEPT ![t] =
                         [x \in Index |-> IF x \in {0, 1}
                                          THEN l012_block(x, FALSE, FALSE) ELSE Invalid]]
          /\ l1' = [l1 EXCEPT ![m] = t]
          /\ UNCHANGED res
    BY Zenon DEF paging_manager_create, NextSlot
  <1>2. PICK d \in [Table -> 1 .. 3] : Leveled(d)
    BY DEF IInv
  <1>3. ASSUME NEW a \in VA PROVE Translate(m, a)' = KernelEntry(a)
    <2>1. l1'[m] = t /\ t # NULL /\ l1_offset(a) \in Index
      BY <1>1, Digits, PagingAssumption DEF IInv, TypeOK
    <2>2. store'[t][l1_offset(a)] = KernelEntry(a) /\ KernelEntry(a).kind # "table"
      BY Zenon, <1>1, <2>1, OtherEntries DEF IInv, TypeOK, KernelEntry
    <2>. QED
      BY <2>1, <2>2 DEF Translate
  <1>4. ASSUME NEW n \in Manager, NEW a \in VA, n # m
        PROVE  Translate(n, a)' = Translate(n, a)
    <2>1. l1'[n] = l1[n]
      BY <1>1, <1>4 DEF IInv, TypeOK
    <2>2. \A u \in used : store'[u] = store[u]
      BY <1>1 DEF IInv, TypeOK
    <2>3. ASSUME l1[n] # NULL
          PROVE  /\ E1(n, a)' = E1(n, a)
                 /\ E1(n, a).kind = "table" => E2(n, a)' = E2(n, a)
                 /\ E1(n, a).kind = "table" /\ E2(n, a).kind = "table" =>
                      E3(n, a)' = E3(n, a)
      <3>1. /\ l1[n] \in used
            /\ E1(n, a).kind = "table" => E1(n, a).to \in used
            /\ E1(n, a).kind = "table" /\ E2(n, a).kind = "table" => E2(n, a).to \in used
        BY <1>2, <2>3, Path DEF IInv
      <3>2. E1(n, a)' = E1(n, a)
        BY Zenon, <2>1, <2>2, <3>1 DEF E1
      <3>3. E1(n, a).kind = "table" => E2(n, a)' = E2(n, a)
        BY Zenon, <2>2, <3>1, <3>2 DEF E2
      <3>4. E1(n, a).kind = "table" /\ E2(n, a).kind = "table" => E3(n, a)' = E3(n, a)
        BY <2>2, <3>1, <3>3 DEF E3
      <3>. QED
        BY Zenon, <3>2, <3>3, <3>4
    <2>. QED
      BY <2>1, <2>3, SameWalk
  <1>. QED
    BY <1>1, <1>3, <1>4

\* An allocated table changes no translation: what it is put in place of was
\* invalid, and so are its entries.
LEMMA AllocateSpace ==
    ASSUME IInv, DescendAllocate, ~ NoTable, NEW n \in Manager, NEW a \in VA
    PROVE  Translate(n, a)' = Translate(n, a)
  <1>1. PICK t \in Table : Allocates(t)
    BY AllocateEffect
  <1>2. level \in {1, 2} /\ OldValue = Invalid /\ table \in used
    BY AllocateEffect, AtEntry
  <1>3. PICK d \in [Table -> 1 .. 3] : Leveled(d)
    BY Zenon DEF IInv
  <1>4. d[table] = level /\ used \subseteq Table /\ t \notin used
    <2>1. d[table] = level
      BY <1>2, <1>3 DEF Leveled
    <2>2. used \subseteq Table /\ t \notin used
      BY Zenon, <1>1 DEF IInv, TypeOK, Allocates
    <2>. QED
      BY <2>1, <2>2
  <1>5. l1' = l1 /\ \A u \in used, x \in Index :
          store'[u][x] = IF u = table /\ x = Offset THEN l012_table(t) ELSE store[u][x]
    BY Zenon, <1>1, <1>4 DEF Allocates
  <1>6. \A x \in Index : store'[t][x] = Invalid
    BY <1>1 DEF Allocates
  <1>7. l1_offset(a) \in Index /\ l2_offset(a) \in Index /\ l3_offset(a) \in Index
    BY Digits
  <1>8. CASE l1[n] = NULL
    BY <1>5, <1>8 DEF Translate
  <1>9. CASE l1[n] # NULL
    <2>. DEFINE r == l1[n]
                o1 == l1_offset(a)
                o2 == l2_offset(a)
                o3 == l3_offset(a)
    <2>1. /\ r \in used /\ d[r] = 1
          /\ E1(n, a) = store[r][o1]
          /\ E1(n, a).kind = "table" =>
               /\ E1(n, a).to \in used /\ d[E1(n, a).to] = 2
               /\ E2(n, a) = store[E1(n, a).to][o2]
          /\ E1(n, a).kind = "table" /\ E2(n, a).kind = "table" =>
               /\ E2(n, a).to \in used /\ d[E2(n, a).to] = 3
               /\ E3(n, a) = store[E2(n, a).to][o3]
      BY ZenonT(40), <1>3, <1>9, Path DEF IInv, E1, E2, E3
    <2>2. Translate(n, a)' =
            IF store'[r][o1].kind # "table" THEN store'[r][o1]
            ELSE IF store'[store'[r][o1].to][o2].kind # "table" THEN store'[store'[r][o1].to][o2]
            ELSE store'[store'[store'[r][o1].to][o2].to][o3]
      BY <1>5, <1>9 DEF Translate
    <2>3. l012_table(t).kind = "table" /\ l012_table(t).to = t /\ Invalid.kind # "table"
      BY Zenon, TableEntry, OtherEntries
    <2>4. CASE r = table /\ o1 = Offset
      <3>1. E1(n, a) = Invalid /\ store'[r][o1] = l012_table(t)
        BY <1>2, <1>5, <1>7, <2>1, <2>4 DEF OldValue
      <3>2. store'[store'[r][o1].to][o2] = Invalid
        BY <1>6, <1>7, <2>3, <3>1
      <3>. QED
        BY Zenon, <1>9, <2>2, <2>3, <3>1, <3>2, Translation
    <2>5. CASE ~ (r = table /\ o1 = Offset)
      <3>1. store'[r][o1] = E1(n, a)
        BY <1>5, <1>7, <2>1, <2>5
      <3>2. CASE E1(n, a).kind # "table"
        BY Zenon, <1>9, <2>2, <3>1, <3>2, Translation
      <3>3. CASE E1(n, a).kind = "table" /\ E1(n, a).to = table /\ o2 = Offset
        <4>1. E2(n, a) = Invalid /\ store'[E1(n, a).to][o2] = l012_table(t)
          BY <1>2, <1>5, <1>7, <2>1, <3>3 DEF OldValue
        <4>2. store'[store'[E1(n, a).to][o2].to][o3] = Invalid
          BY Zenon, <1>6, <1>7, <2>3, <4>1
        <4>. QED
          BY Zenon, <1>9, <2>2, <2>3, <3>1, <3>3, <4>1, <4>2, Translation
      <3>4. CASE E1(n, a).kind = "table" /\ ~ (E1(n, a).to = table /\ o2 = Offset)
        <4>1. store'[E1(n, a).to][o2] = E2(n, a)
          BY Zenon, <1>5, <1>7, <2>1, <3>4
        <4>2. E2(n, a).kind = "table" => store'[E2(n, a).to][o3] = E3(n, a)
          <5>. SUFFICES ASSUME E2(n, a).kind = "table"
                        PROVE  store'[E2(n, a).to][o3] = E3(n, a)
            OBVIOUS
          <5>1. /\ E2(n, a).to \in used /\ d[E2(n, a).to] = 3
                /\ E3(n, a) = store[E2(n, a).to][o3]
            BY Zenon, <2>1, <3>4
          <5>2. E2(n, a).to # table
            BY <1>2, <1>4, <5>1
          <5>. QED
            BY Zenon, <1>5, <1>7, <5>1, <5>2
        <4>. QED
          BY Zenon, <1>9, <2>2, <3>1, <3>4, <4>1, <4>2, Translation
      <3>. QED
        BY Zenon, <3>2, <3>3, <3>4
    <2>. QED
      BY <2>4, <2>5
  <1>. QED
    BY <1>8, <1>9

\* A page is written: only a walk for its address from its manager's root ends at
\* its entry.
LEMMA WritesSpace ==
    ASSUME IInv, Writes
    PROVE  /\ Translate(pm, va) = Invalid /\ Translate(pm, va)' = new
           /\ \A n \in Manager, a \in VA :
                n # pm \/ a # va => Translate(n, a)' = Translate(n, a)
  <1>1. PICK d \in [Table -> 1 .. 3] : Leveled(d)
    BY DEF IInv
  <1>2. /\ pm \in Manager /\ va \in VA /\ l1[pm] # NULL /\ new \in PageEntry
        /\ E1(pm, va).kind = "table" /\ E2(pm, va).kind = "table"
        /\ table = E2(pm, va).to /\ E3(pm, va) = Invalid /\ Offset = l3_offset(va)
    <2>1. level = 3 /\ OldValue = Invalid
      BY Zenon DEF Writes
    <2>2. level # 0 /\ level \in {2, 3} /\ Offset = l3_offset(va)
      BY <2>1 DEF Offset
    <2>3. table = E2(pm, va).to
      BY Zenon, <2>1 DEF IInv, Walk
    <2>. QED
      BY Zenon, <2>1, <2>2, <2>3, AtEntry, Running
  <1>3. table \in used /\ d[table] = 3 /\ used \subseteq Table
    <2>1. E2(pm, va).to \in used /\ d[E2(pm, va).to] = 3
      BY Zenon, <1>1, <1>2, Path DEF IInv
    <2>2. used \subseteq Table
      BY Zenon DEF IInv, TypeOK
    <2>. QED
      BY Zenon, <1>2, <2>1, <2>2
  <1>4. l1' = l1 /\ pm' = pm /\ va' = va /\ \A u \in used, x \in Index :
          store'[u][x] = IF u = table /\ x = Offset THEN new ELSE store[u][x]
    BY <1>3 DEF Writes
  <1>5. ASSUME NEW n \in Manager, NEW a \in VA, l1[n] # NULL
        PROVE  /\ E1(n, a)' = E1(n, a)
               /\ E1(n, a).kind = "table" => E2(n, a)' = E2(n, a)
               /\ E1(n, a).kind = "table" /\ E2(n, a).kind = "table" =>
                    E3(n, a)' = IF E2(n, a).to = table /\ l3_offset(a) = Offset
                                THEN new ELSE E3(n, a)
    <2>1. l1_offset(a) \in Index /\ l2_offset(a) \in Index /\ l3_offset(a) \in Index
      BY Zenon, Digits
    <2>2. /\ l1[n] \in used /\ d[l1[n]] = 1
          /\ E1(n, a).kind = "table" => E1(n, a).to \in used /\ d[E1(n, a).to] = 2
          /\ E1(n, a).kind = "table" /\ E2(n, a).kind = "table" => E2(n, a).to \in used
      BY Zenon, <1>1, <1>5, Path DEF IInv
    <2>3. E1(n, a)' = E1(n, a)
      <3>1. 1 # 3
        OBVIOUS
      <3>2. l1[n] # table
        BY Zenon, <1>3, <2>2, <3>1
      <3>. QED
        BY Zenon, <1>4, <2>1, <2>2, <3>2 DEF E1
    <2>4. E1(n, a).kind = "table" => E2(n, a)' = E2(n, a)
      <3>1. 2 # 3
        OBVIOUS
      <3>2. E1(n, a).kind = "table" => E1(n, a).to # table
        BY Zenon, <1>3, <2>2, <3>1
      <3>3. ASSUME E1(n, a).kind = "table"
            PROVE  store'[E1(n, a).to][l2_offset(a)] = store[E1(n, a).to][l2_offset(a)]
        BY <1>4, <2>1, <2>2, <3>2, <3>3
      <3>. QED
        BY Zenon, <2>3, <3>3 DEF E2
    <2>5. ASSUME E1(n, a).kind = "table", E2(n, a).kind = "table"
          PROVE  E3(n, a)' = IF E2(n, a).to = table /\ l3_offset(a) = Offset
                             THEN new ELSE E3(n, a)
      <3>1. E2(n, a)' = E2(n, a) /\ E2(n, a).to \in used
        BY Zenon, <2>2, <2>4, <2>5
      <3>2. store'[E2(n, a).to][l3_offset(a)]
              = IF E2(n, a).to = table /\ l3_offset(a) = Offset
                THEN new ELSE store[E2(n, a).to][l3_offset(a)]
        BY <1>4, <2>1, <3>1
      <3>. QED
        BY Zenon, <3>1, <3>2 DEF E3
    <2>. QED
      BY <2>3, <2>4, <2>5
  <1>6. Translate(pm, va) = Invalid
    BY <1>2, OtherEntries, Translation
  <1>7. Translate(pm, va)' = new
    <2>1. PICK n \in Manager, a \in VA : n = pm /\ a = va
      BY <1>2
    <2>2. /\ l1[n] # NULL /\ E1(n, a).kind = "table" /\ E2(n, a).kind = "table"
          /\ E2(n, a).to = table /\ l3_offset(a) = Offset
      BY <1>2, <2>1
    <2>3. E1(n, a)' = E1(n, a) /\ E2(n, a)' = E2(n, a) /\ E3(n, a)' = new
      BY ZenonT(40), <1>5, <2>2
    <2>4. Translate(n, a)' = IF E1(n, a)'.kind # "table" THEN E1(n, a)'
                             ELSE IF E2(n, a)'.kind # "table" THEN E2(n, a)'
                             ELSE E3(n, a)'
      BY <1>4, <2>2 DEF Translate, E1, E2, E3
    <2>5. Translate(n, a)' = new
      BY Zenon, <2>2, <2>3, <2>4
    <2>. QED
      BY Zenon, <1>4, <2>1, <2>5 DEF Translate
  <1>8. ASSUME NEW n \in Manager, NEW a \in VA, n # pm \/ a # va
        PROVE  Translate(n, a)' = Translate(n, a)
    <2>1. ASSUME l1[n] # NULL, E1(n, a).kind = "table", E2(n, a).kind = "table",
                 E2(n, a).to = table, l3_offset(a) = Offset
          PROVE  FALSE
      <3>1. /\ l1_offset(a) \in Index /\ l2_offset(a) \in Index
            /\ l1_offset(va) \in Index /\ l2_offset(va) \in Index
        BY Zenon, <1>2, Digits
      <3>2. /\ l1[n] \in used /\ E1(n, a).to \in used
            /\ E1(n, a) \in EntryValue /\ E2(n, a) \in EntryValue
        BY Zenon, <1>1, <2>1, Path DEF IInv
      <3>3. /\ l1[pm] \in used /\ E1(pm, va).to \in used
            /\ E1(pm, va) \in EntryValue /\ E2(pm, va) \in EntryValue
        BY Zenon, <1>1, <1>2, Path DEF IInv
      <3>4. E2(n, a) = E2(pm, va)
        BY Zenon, <1>2, <2>1, <3>2, <3>3, EntryKinds
      <3>5. E1(n, a).to = E1(pm, va).to /\ l2_offset(a) = l2_offset(va)
        <4>1. /\ store[E1(n, a).to][l2_offset(a)].kind = "table"
              /\ store[E1(n, a).to][l2_offset(a)] = store[E1(pm, va).to][l2_offset(va)]
          BY Zenon, <2>1, <3>4 DEF E2
        <4>. QED
          BY <3>1, <3>2, <3>3, <4>1, OneParent
      <3>6. E1(n, a) = E1(pm, va)
        BY Zenon, <1>2, <2>1, <3>2, <3>3, <3>5, EntryKinds
      <3>7. l1[n] = l1[pm] /\ l1_offset(a) = l1_offset(va)
        <4>1. /\ store[l1[n]][l1_offset(a)].kind = "table"
              /\ store[l1[n]][l1_offset(a)] = store[l1[pm]][l1_offset(va)]
          BY Zenon, <2>1, <3>6 DEF E1
        <4>. QED
          BY <3>1, <3>2, <3>3, <4>1, OneParent
      <3>8. n = pm
        BY <1>2, <3>7 DEF IInv, Tree
      <3>9. a = va
        BY Zenon, <1>2, <2>1, <3>5, <3>7, SamePage
      <3>. QED
        BY <1>8, <3>8, <3>9
    <2>. QED
      BY <1>4, <1>5, <2>1, SameWalk
  <1>. QED
    BY Zenon, <1>6, <1>7, <1>8

\* Every step changes the translation of at most the page that is being mapped.
LEMMA StepRefines == IInv /\ [Next]_vars => [Space!Next]_Space!vars
  <1>. SUFFICES ASSUME IInv, [Next]_vars PROVE [Space!Next]_Space!vars
    OBVIOUS
  <1>. DEFINE S == [m \in Manager |-> [a \in VA |-> Translate(m, a)]]
  <1>1. ASSUME \A n \in Manager, a \in VA : Translate(n, a)' = Translate(n, a)
        PROVE  S' = S
    BY <1>1
  <1>2. ASSUME UNCHANGED <<l1, store>>
        PROVE  \A n \in Manager, a \in VA : Translate(n, a)' = Translate(n, a)
    BY <1>2 DEF Translate
  <1>3. ASSUME S' = S, UNCHANGED <<res, pm, va, new>>, (level' # 0) <=> (level # 0)
        PROVE  UNCHANGED Space!vars
    BY <1>3 DEF Space!vars, Space!request
  <1>4. ASSUME NEW m \in Manager, paging_manager_create(m)
        PROVE  [Space!Next]_Space!vars
    <2>1. CASE NoTable
      BY <1>1, <1>2, <1>3, <2>1 DEF NoTable
    <2>2. CASE ~ NoTable
      <3>1. /\ \A a \in VA : Translate(m, a)' = KernelEntry(a)
            /\ \A n \in Manager, a \in VA : n # m => Translate(n, a)' = Translate(n, a)
            /\ UNCHANGED <<level, pm, va, new, res>> /\ level = 0
        BY <1>4, <2>2, CreateSpace DEF paging_manager_create, NoTable
      <3>2. S' = [S EXCEPT ![m] = [a \in VA |-> KernelEntry(a)]]
        BY Zenon, <3>1
      <3>3. Space!Create(m)
        BY <3>1, <3>2 DEF Space!Create, Space!request
      <3>. QED
        BY <3>3 DEF Space!Next
    <2>. QED
      BY <2>1, <2>2
  <1>5. ASSUME level # 0, NEW r \in {0, -1}, Return(r),
               IF r = 0 THEN Translate(pm, va) = new ELSE Translate(pm, va) \notin {Invalid, new}
        PROVE  [Space!Next]_Space!vars
    <2>1. pm \in Manager /\ va \in VA /\ new \in PageEntry
      BY <1>5 DEF IInv, TypeOK, Walk
    <2>2. S' = S /\ res' = r
      BY <1>1, <1>2, <1>5 DEF Return
    <2>3. CASE r = 0
      <3>1. S[pm][va] = new /\ S = [S EXCEPT ![pm][va] = new]
        BY <1>5, <2>1, <2>3
      <3>2. Space!Map
        BY <1>5, <2>2, <2>3, <3>1 DEF Space!Map, Space!request, Return
      <3>. QED
        BY <3>2 DEF Space!Next
    <2>4. CASE r = -1
      <3>1. S[pm][va] \notin {Invalid, new}
        BY <1>5, <2>1, <2>4
      <3>2. Space!Refuse
        BY <1>5, <2>2, <2>4, <3>1 DEF Space!Refuse, Space!request, Return
      <3>. QED
        BY <3>2 DEF Space!Next
    <2>. QED
      BY <2>3, <2>4
  <1>6. CASE DescendBlock
    <2>1. level \in {1, 2} /\ OldValue.kind = "block" /\ Return(-1)
      BY Zenon, <1>6 DEF DescendBlock
    <2>2. PICK d \in [Table -> 1 .. 3] : Leveled(d)
      BY SMTT(30) DEF IInv
    <2>3. l1[pm] # NULL /\ pm \in Manager /\ va \in VA /\ new \in PageEntry
      BY <2>1, Running
    <2>4. level = 1
      <3>1. ASSUME level = 2 PROVE FALSE
        <4>1. OldValue = E2(pm, va) /\ E1(pm, va).kind = "table"
          BY <3>1, AtEntry, Running
        <4>2. E2(pm, va).kind \in {"invalid", "table"}
          BY <2>2, <2>3, <4>1, Path DEF IInv
        <4>. QED
          BY Zenon, <2>1, <4>1, <4>2
      <3>. QED
        BY <2>1, <3>1
    <2>5. Translate(pm, va) = OldValue
      BY <2>1, <2>3, <2>4, AtEntry, Translation
    <2>6. OldValue # Invalid /\ OldValue # new
      BY <2>1, <2>3, OtherEntries, EntryKinds
    <2>. QED
      BY <1>5, <2>1, <2>5, <2>6
  <1>7. CASE DescendAllocate
    <2>1. CASE NoTable
      BY <1>1, <1>2, <1>3, <2>1 DEF NoTable
    <2>2. CASE ~ NoTable
      BY <1>1, <1>3, <1>7, <2>2, AllocateSpace, AllocateEffect DEF Allocates
    <2>. QED
      BY <2>1, <2>2
  <1>8. CASE Write
    <2>1. level = 3 /\ pm \in Manager /\ va \in VA /\ new \in PageEntry
      BY <1>8, Running DEF Write
    <2>2. Translate(pm, va) = OldValue
      BY <2>1, AtEntry, Running, Translation
    <2>3. CASE Writes
      <3>1. S[pm][va] = Invalid /\ res' = 0
        BY <2>1, <2>3, WritesSpace DEF Writes
      <3>2. /\ pm' = pm /\ va' = va
            /\ \A n \in Manager, a \in VA :
                 Translate(n, a)' = IF n = pm /\ a = va THEN new ELSE Translate(n, a)
        <4>1. pm' = pm /\ va' = va
          BY <2>3 DEF Writes
        <4>2. Translate(pm, va)' = new
          BY Zenon, <2>3, WritesSpace
        <4>3. ASSUME NEW n \in Manager, NEW a \in VA, n = pm, a = va
              PROVE  Translate(n, a)' = Translate(pm, va)'
          BY <4>1, <4>3 DEF Translate
        <4>. QED
          BY <2>3, <4>1, <4>2, <4>3, WritesSpace
      <3>3. S' = [S EXCEPT ![pm][va] = new]
        BY Zenon, <2>1, <3>2
      <3>4. level # 0 /\ level' = 0 /\ res' = 0 /\ UNCHANGED <<pm, va, new>>
        BY <2>1, <2>3 DEF Writes
      <3>5. S[pm][va] \in {Invalid, new}
        BY Zenon, <3>1
      <3>. HIDE DEF S
      <3>6. Space!Map
        BY <3>3, <3>4, <3>5 DEF Space!Map, Space!request, S
      <3>. QED
        BY Zenon, <3>6 DEF Space!Next
    <2>4. CASE OldValue = new /\ Return(0)
      BY <1>5, <2>1, <2>2, <2>4
    <2>5. CASE OldValue \notin {new, Invalid} /\ Return(-1)
      BY <1>5, <2>1, <2>2, <2>5
    <2>. QED
      BY Zenon, <1>8, <2>3, <2>4, <2>5, WriteEffect
  <1>9. ASSUME NEW m \in Manager, NEW a \in MapVA, NEW pa \in PA, NEW acc \in Access,
               paging_manager_map_page(m, a, pa, acc[1], acc[2])
        PROVE  [Space!Next]_Space!vars
    <2>1. a \in VA /\ l3_page(pa, acc[1], acc[2]) \in PageEntry
      BY PagingAssumption DEF VA, PageEntry
    <2>2. S' = S
      BY <1>1, <1>2, <1>9 DEF paging_manager_map_page
    <2>3. Space!Ask(m, a, l3_page(pa, acc[1], acc[2]))
      BY <1>9, <2>2 DEF Space!Ask, paging_manager_map_page
    <2>. QED
      BY <2>1, <2>3 DEF Space!Next
  <1>10. CASE DescendTable
    BY <1>1, <1>2, <1>3, <1>10 DEF DescendTable
  <1>11. CASE UNCHANGED vars
    BY <1>1, <1>2, <1>3, <1>11 DEF vars
  <1>. QED
    BY <1>4, <1>6, <1>7, <1>8, <1>9, <1>10, <1>11 DEF Next, Insert, Lost

\* The tables implement an address space per manager.
THEOREM Refinement == Spec => ImplementsAddressSpace
  <1>1. Init => Space!Init
    BY PagingAssumption DEF Init, Space!Init, Translate, VA
  <1>. QED
    BY <1>1, StepRefines, Invariance, PTL DEF Spec, ImplementsAddressSpace, Space!Spec
-----------------------------------------------------------------------------
(* The address spaces of jobs.                                                  *)

\* What the MMU finds, as a function.
Trans == [m \in Manager |-> [a \in VA |-> Translate(m, a)]]

\* The entries that job_create_paging maps, and where it maps the first n.
UserEntry == {l3_page(pa, TRUE, FALSE) : pa \in PA}
UserRange(n) == JOB_BASE_USER .. JOB_BASE_USER + n - 1

\* A user page can be told from the kernel's entries and from no entry.
LEMMA UserEntries ==
    /\ UserEntry \subseteq PageEntry
    /\ \A pa \in PA : l3_page(pa, TRUE, FALSE) \in UserEntry /\ l3_page(pa, TRUE, FALSE).to = pa
    /\ \A e \in UserEntry : e.kind = "page" /\ e.user /\ e.to \in PA
    /\ \A a : ~ KernelEntry(a).user /\ KernelEntry(a) \notin UserEntry
  <1>1. UserEntry \subseteq PageEntry
    <2>1. PICK acc \in Access : acc = <<TRUE, FALSE>>
      BY JobSpaceAssumption
    <2>2. acc[1] = TRUE /\ acc[2] = FALSE
      BY <2>1
    <2>3. \A pa \in PA : l3_page(pa, acc[1], acc[2]) \in PageEntry
      BY DEF PageEntry
    <2>. QED
      BY Zenon, <2>2, <2>3 DEF UserEntry
  <1>2. ASSUME NEW pa \in PA
        PROVE  l3_page(pa, TRUE, FALSE) \in UserEntry /\ l3_page(pa, TRUE, FALSE).to = pa
    <2>1. l3_page(pa, TRUE, FALSE) \in UserEntry
      BY Zenon DEF UserEntry
    <2>2. l3_page(pa, TRUE, FALSE).to = pa
      BY DEF l3_page, Word
    <2>. QED
      BY Zenon, <2>1, <2>2
  <1>3. \A e \in UserEntry : e.kind = "page" /\ e.user /\ e.to \in PA
    <2>1. ASSUME NEW pa \in PA
          PROVE  LET e == l3_page(pa, TRUE, FALSE) IN e.kind = "page" /\ e.user /\ e.to \in PA
      <3>1. l3_page(pa, TRUE, FALSE).user
        BY Zenon DEF l3_page, Word
      <3>2. l3_page(pa, TRUE, FALSE).kind = "page"
        BY DEF l3_page, Word
      <3>. QED
        BY Zenon, <1>2, <3>1, <3>2
    <2>. QED
      BY Zenon, <2>1 DEF UserEntry
  <1>4. \A a : ~ KernelEntry(a).user /\ KernelEntry(a).kind # "page"
    BY Zenon DEF KernelEntry, l012_block, Invalid, Word
  <1>. QED
    BY Zenon, <1>1, <1>2, <1>3, <1>4

\* need_slots rounds up, and adds a page for the stack.
LEMMA Slots ==
    ASSUME NEW s \in Nat
    PROVE  /\ need_slots(s) \in Nat /\ (need_slots(s) - 1) * blocksize >= s
           /\ \A k \in 0 .. s - 1 : k \div blocksize \in 0 .. need_slots(s) - 1
  <1>. DEFINE n == blocksize
              b == s + n
              q == b \div n
              r == b % n
  <1>1. n \in Nat /\ n > 0 /\ b \in Nat
    BY JobSpaceAssumption
  <1>2. q \in Nat /\ r \in 0 .. n - 1 /\ b = n * q + r
    BY <1>1, Division
  <1>3. need_slots(s) = q + (IF r # 0 THEN 1 ELSE 0)
    BY Zenon DEF need_slots
  <1>4. b = s + n
    OBVIOUS
  <1>. HIDE DEF n, q, r, b
  <1>. DEFINE c == need_slots(s)
  <1>5. c \in Nat /\ n * c >= s + n
    <2>1. CASE r = 0
      BY <1>1, <1>2, <1>3, <1>4, <2>1
    <2>2. CASE r # 0
      <3>1. c = q + 1
        BY <1>3, <2>2
      <3>2. n * (q + 1) = n * q + n
        BY <1>1, <1>2
      <3>. QED
        BY <1>1, <1>2, <1>4, <3>1, <3>2
    <2>. QED
      BY <2>1, <2>2
  <1>. HIDE DEF c
  <1>6. (c - 1) * n >= s
    BY <1>1, <1>5
  <1>7. ASSUME NEW k \in 0 .. s - 1 PROVE k \div n \in 0 .. c - 1
    <2>. DEFINE d == k \div n
                e == k % n
    <2>1. d \in Nat /\ e \in 0 .. n - 1 /\ k = n * d + e
      BY <1>1, Division
    <2>. HIDE DEF d, e
    <2>2. d < c
      <3>. SUFFICES ASSUME d >= c PROVE FALSE
        BY <1>5, <2>1
      <3>1. n * d >= n * c
        BY <1>1, <1>5, <2>1
      <3>. QED
        BY <1>1, <1>5, <2>1, <3>1
    <2>. QED
      BY <1>5, <2>1, <2>2 DEF d
  <1>. QED
    BY <1>5, <1>6, <1>7 DEF n, c

\* A program's pages are above the kernel's blocks and within the address space.
LEMMA UserPages ==
    ASSUME NEW s \in Sizes, NEW n \in 0 .. need_slots(s), NEW a \in UserRange(n)
    PROVE  a \in VA /\ a \in MapVA /\ KernelEntry(a) = Invalid
  <1>1. s \in Nat /\ need_slots(s) \in Nat
    BY Slots, JobSpaceAssumption
  <1>2. a \in MapVA /\ a \in VA
    <2>1. a \in JOB_BASE_USER .. JOB_BASE_USER + need_slots(s) - 1
      BY <1>1, JobSpaceAssumption DEF UserRange, VA
    <2>. QED
      BY <2>1, JobSpaceAssumption, PagingAssumption DEF VA
  <1>3. a >= 2 * (Entries * Entries) /\ a \in Nat
    <2>1. a \in Nat /\ a >= JOB_BASE_USER /\ JOB_BASE_USER \in Nat
      BY <1>1, <1>2, JobSpaceAssumption DEF UserRange, VA
    <2>2. JOB_BASE_USER >= 2 * (Entries * Entries) /\ Entries \in Nat
      BY JobSpaceAssumption, PagingAssumption
    <2>. QED
      BY <2>1, <2>2
  <1>4. Entries * Entries \in Nat /\ Entries * Entries > 0
    BY PagingAssumption
  <1>5. l1_offset(a) >= 2
    <2>. DEFINE e == Entries * Entries
                q == a \div e
                r == a % e
    <2>1. q \in Nat /\ r \in 0 .. e - 1 /\ a = e * q + r
      BY <1>3, <1>4, Division
    <2>2. a >= 2 * e /\ e \in Nat /\ e > 0
      BY <1>3, <1>4
    <2>. HIDE DEF q, r, e
    <2>3. q >= 2
      <3>. SUFFICES ASSUME q < 2 PROVE FALSE
        BY <2>1
      <3>1. q = 0 \/ q = 1
        BY <2>1
      <3>2. e * q <= e
        BY <2>2, <3>1
      <3>. QED
        BY <2>1, <2>2, <3>1, <3>2
    <2>. QED
      BY <2>3 DEF q, e, l1_offset
  <1>6. l1_offset(a) \notin {0, 1}
    BY <1>5
  <1>. QED
    BY Zenon, <1>2, <1>6 DEF KernelEntry

\* The tables determine what the MMU finds.
LEMMA SameTrans ==
    /\ \A m \in Manager, a \in VA : Trans[m][a] = Translate(m, a)
    /\ UNCHANGED <<l1, store>> => Trans' = Trans
  BY Zenon DEF Trans, Translate

\* A fresh manager has the kernel's pages only, and the others keep theirs.
LEMMA CreateTrans ==
    ASSUME IInv, NEW m \in Manager, paging_manager_create(m)
    PROVE  /\ level = 0 /\ level' = 0
           /\ overrun' => Trans' = Trans
           /\ ~ overrun' => \A n \in Manager, a \in VA :
                Trans'[n][a] = IF n = m THEN KernelEntry(a) ELSE Trans[n][a]
  <1>1. CASE NoTable
    BY Zenon, <1>1, SameTrans DEF NoTable, paging_manager_create
  <1>2. CASE ~ NoTable
    <2>1. level = 0 /\ ~ overrun
      BY Zenon DEF paging_manager_create
    <2>2. UNCHANGED <<level, overrun>>
      BY Zenon, <1>2 DEF paging_manager_create
    <2>3. ASSUME NEW n \in Manager, NEW a \in VA
          PROVE  Trans'[n][a] = IF n = m THEN KernelEntry(a) ELSE Trans[n][a]
      <3>1. Trans'[n][a] = Translate(n, a)' /\ Trans[n][a] = Translate(n, a)
        BY Zenon DEF Trans
      <3>2. /\ n = m => Translate(m, a)' = KernelEntry(a)
            /\ n # m => Translate(n, a)' = Translate(n, a)
        BY Zenon, <1>2, CreateSpace
      <3>. QED
        BY Zenon, <3>1, <3>2
    <2>. QED
      BY Zenon, <2>1, <2>2, <2>3
  <1>. QED
    BY Zenon, <1>1, <1>2

\* paging_insert_or_alloc, called for a page that is free, maps that page when
\* it returns and changes no other.
LEMMA InsertTrans ==
    ASSUME IInv, Insert, Trans[pm][va] = Invalid
    PROVE  /\ level # 0
           /\ UNCHANGED <<pm, va, new>>
           /\ overrun' => Trans' = Trans
           /\ ~ overrun' => \A n \in Manager, a \in VA :
                Trans'[n][a] = IF level' = 0 /\ n = pm /\ a = va THEN new ELSE Trans[n][a]
  <1>1. level # 0 /\ ~ overrun
    BY DEF Insert, DescendBlock, DescendAllocate, DescendTable, Write
  <1>2. /\ pm \in Manager /\ va \in VA /\ new \in PageEntry /\ l1[pm] # NULL
        /\ level \in {2, 3} => E1(pm, va).kind = "table"
        /\ level = 3 => E2(pm, va).kind = "table"
    BY Zenon, <1>1, Running
  <1>3. Translate(pm, va) = Invalid
    BY Zenon, <1>2, SameTrans
  <1>4. CASE DescendBlock
    <2>1. level \in {1, 2} /\ OldValue.kind = "block"
      BY Zenon, <1>4 DEF DescendBlock
    <2>2. Translate(pm, va) = OldValue
      BY <1>1, <1>2, <2>1, AtEntry, Translation
    <2>. QED
      BY Zenon, <1>3, <2>1, <2>2, OtherEntries
  <1>5. CASE DescendAllocate
    <2>1. CASE NoTable
      BY Zenon, <1>1, <2>1, SameTrans DEF NoTable
    <2>2. CASE ~ NoTable
      <3>1. \A n \in Manager, a \in VA : Translate(n, a)' = Translate(n, a)
        BY Zenon, <1>5, <2>2, AllocateSpace
      <3>2. PICK t \in Table : Allocates(t)
        BY Zenon, <1>5, <2>2, AllocateEffect
      <3>3. level' = level + 1 /\ level \in {1, 2} /\ UNCHANGED <<pm, va, new, overrun>>
        BY Zenon, <1>5, <3>2 DEF Allocates, DescendAllocate
      <3>4. level' # 0
        BY <3>3
      <3>5. \A n \in Manager, a \in VA : Trans'[n][a] = Trans[n][a]
        BY Zenon, <3>1 DEF Trans
      <3>. QED
        BY Zenon, <1>1, <3>3, <3>4, <3>5
    <2>. QED
      BY Zenon, <2>1, <2>2
  <1>6. CASE DescendTable
    <2>1. /\ level \in {1, 2} /\ level' = level + 1
          /\ UNCHANGED <<store, l1, pm, va, new, overrun>>
      BY Zenon, <1>6 DEF DescendTable
    <2>2. level' # 0
      BY <2>1
    <2>. QED
      BY Zenon, <1>1, <2>1, <2>2, SameTrans
  <1>7. CASE Write
    <2>1. level = 3
      BY Zenon, <1>7 DEF Write
    <2>2. Translate(pm, va) = OldValue
      BY <1>2, <2>1, AtEntry, Translation
    <2>3. new # Invalid
      BY Zenon, <1>2, OtherEntries, EntryKinds
    <2>4. Writes
      BY Zenon, <1>3, <1>7, <2>2, <2>3, WriteEffect
    <2>5. level' = 0 /\ UNCHANGED <<pm, va, new, overrun>>
      BY Zenon, <2>4 DEF Writes
    <2>6. /\ Translate(pm, va)' = new
          /\ \A n \in Manager, a \in VA :
               n # pm \/ a # va => Translate(n, a)' = Translate(n, a)
      BY Zenon, <2>4, WritesSpace
    <2>7. ASSUME NEW n \in Manager, NEW a \in VA
          PROVE  Trans'[n][a] = IF n = pm /\ a = va THEN new ELSE Trans[n][a]
      <3>1. Trans'[n][a] = Translate(n, a)' /\ Trans[n][a] = Translate(n, a)
        BY Zenon DEF Trans
      <3>2. n = pm /\ a = va => Translate(n, a)' = Translate(pm, va)'
        BY Zenon, <2>5 DEF Translate
      <3>. QED
        BY Zenon, <2>6, <3>1, <3>2
    <2>. QED
      BY Zenon, <1>1, <2>5, <2>7
  <1>. QED
    BY Zenon, <1>4, <1>5, <1>6, <1>7 DEF Insert

\* Manager m maps the kernel, n user pages and nothing else.
Filled(m, n) ==
    \A a \in VA : IF a \in UserRange(n) THEN Trans[m][a] \in UserEntry
                  ELSE Trans[m][a] = KernelEntry(a)

\* The jobs whose tables are in order: not the one that got no root.
Owner == live \cup (IF building = NULL \/ overrun THEN {} ELSE {building})

JobTypes ==
    /\ taken \subseteq UserPage /\ live \subseteq Manager
    /\ building \in Manager \cup {NULL} /\ building \notin live
    /\ i \in Nat /\ memsz \in [Manager -> Nat]
    /\ building = NULL => level = 0

\* Jobs that exist have all their pages, the one being built has i of them; the
\* last of the i is on its way while paging_insert_or_alloc runs.
Spaces ==
    /\ \A m \in live : Filled(m, need_slots(memsz[m]))
    /\ building # NULL /\ ~ overrun =>
         /\ size \in Sizes /\ memsz[building] = size /\ i <= need_slots(size)
         /\ level = 0 => Filled(building, i)
         /\ level # 0 => /\ i > 0 /\ pm = building /\ va = JOB_BASE_USER + (i - 1)
                         /\ new \in UserEntry
                         /\ Filled(building, i - 1)

\* User pages are slots that were handed out, each for one page of one job.
Private ==
    /\ \A m \in Owner, a \in VA :
         Trans[m][a] \in UserEntry => Trans[m][a].to \in taken
    /\ \A m, n \in Owner, a, b \in VA :
         /\ Trans[m][a] \in UserEntry /\ Trans[n][b] \in UserEntry
         /\ Trans[m][a].to = Trans[n][b].to
         => m = n /\ a = b
    /\ level # 0 /\ ~ overrun =>
         /\ new.to \in taken
         /\ \A m \in Owner, a \in VA :
              Trans[m][a] \in UserEntry => Trans[m][a].to # new.to

JobInv == JobTypes /\ Spaces /\ (~ exhausted => Private)

\* No job, no page.
LEMMA InitJob == JobInit => JobInv
  <1>. SUFFICES ASSUME JobInit PROVE JobInv
    OBVIOUS
  <1>1. /\ taken = {} /\ live = {} /\ building = NULL /\ i = 0 /\ level = 0
        /\ memsz = [m \in Manager |-> 0]
    BY Zenon DEF JobInit, Init
  <1>2. JobTypes
    BY <1>1 DEF JobTypes
  <1>3. Owner = {}
    BY <1>1 DEF Owner
  <1>4. Spaces /\ Private
    BY Zenon, <1>1, <1>3 DEF Spaces, Private
  <1>. QED
    BY Zenon, <1>2, <1>4 DEF JobInv

\* Private pages stay so when no page is mapped, and the page that is going to be
\* mapped is nobody's.
LEMMA SamePrivate ==
    ASSUME Private, taken \subseteq taken',
           \A m \in Owner', a \in VA :
             Trans'[m][a] \in UserEntry => m \in Owner /\ Trans'[m][a] = Trans[m][a],
           level' # 0 /\ ~ overrun' =>
             /\ new'.to \in taken'
             /\ \A m \in Owner, a \in VA : Trans[m][a] \in UserEntry => Trans[m][a].to # new'.to
    PROVE  Private'
  <1>1. \A m \in Owner', a \in VA : Trans'[m][a] \in UserEntry => Trans'[m][a].to \in taken'
    BY DEF Private
  <1>2. \A m, n \in Owner', a, b \in VA :
          /\ Trans'[m][a] \in UserEntry /\ Trans'[n][b] \in UserEntry
          /\ Trans'[m][a].to = Trans'[n][b].to
          => m = n /\ a = b
    <2>. TAKE m, n \in Owner', a, b \in VA
    <2>1. HAVE /\ Trans'[m][a] \in UserEntry /\ Trans'[n][b] \in UserEntry
               /\ Trans'[m][a].to = Trans'[n][b].to
    <2>2. /\ m \in Owner /\ Trans'[m][a] = Trans[m][a]
          /\ n \in Owner /\ Trans'[n][b] = Trans[n][b]
      BY Zenon, <2>1
    <2>. QED
      BY <2>1, <2>2 DEF Private
  <1>3. ASSUME level' # 0, ~ overrun'
        PROVE  /\ new'.to \in taken'
               /\ \A m \in Owner', a \in VA :
                    Trans'[m][a] \in UserEntry => Trans'[m][a].to # new'.to
    BY Zenon, <1>3
  <1>. QED
    BY Zenon, <1>1, <1>2, <1>3 DEF Private

\* job_create_paging begins with a manager that no job has.
LEMMA CreateJob ==
    ASSUME IInv, JobInv, NEW m \in Manager, NEW s \in Sizes, CreateStart(m, s)
    PROVE  /\ JobInv'
           /\ \A n \in live, a \in VA : Trans'[n][a] = Trans[n][a]
  <1>1. /\ building = NULL /\ m \notin live /\ paging_manager_create(m)
        /\ building' = m /\ size' = s /\ i' = 0
        /\ memsz' = [memsz EXCEPT ![m] = s]
        /\ UNCHANGED <<taken, live, exhausted>>
    BY Zenon DEF CreateStart
  <1>2. /\ level = 0 /\ level' = 0
        /\ overrun' => Trans' = Trans
        /\ ~ overrun' => \A n \in Manager, a \in VA :
             Trans'[n][a] = IF n = m THEN KernelEntry(a) ELSE Trans[n][a]
    BY Zenon, <1>1, CreateTrans
  <1>3. live \subseteq Manager /\ m # NULL /\ s \in Nat
    BY JobSpaceAssumption DEF JobInv, JobTypes
  <1>4. \A n \in live, a \in VA : Trans'[n][a] = Trans[n][a]
    BY <1>1, <1>2, <1>3
  <1>5. JobTypes'
    BY <1>1, <1>3 DEF JobInv, JobTypes
  <1>6. Spaces'
    <2>1. ASSUME NEW n \in live PROVE Filled(n, need_slots(memsz[n]))'
      <3>1. memsz'[n] = memsz[n]
        BY <1>1, <1>3 DEF JobInv, JobTypes
      <3>2. Filled(n, need_slots(memsz[n]))
        BY DEF JobInv, Spaces
      <3>. QED
        BY <1>4, <3>1, <3>2 DEF Filled
    <2>2. ASSUME ~ overrun'
          PROVE  /\ s \in Sizes /\ memsz'[m] = s /\ 0 <= need_slots(s)
                 /\ Filled(building, i)'
      <3>1. memsz'[m] = s /\ 0 <= need_slots(s)
        BY <1>1, <1>3, Slots DEF JobInv, JobTypes
      <3>2. UserRange(0) = {}
        BY JobSpaceAssumption DEF UserRange, VA
      <3>3. Filled(building, i)'
        BY <1>1, <1>2, <2>2, <3>2 DEF Filled
      <3>. QED
        BY <3>1, <3>3
    <2>. QED
      BY <1>1, <1>2, <2>1, <2>2 DEF Spaces
  <1>7. ASSUME ~ exhausted' PROVE Private'
    <2>1. Private /\ Owner = live
      BY <1>1, <1>7 DEF JobInv, Owner
    <2>2. Owner' \subseteq live \cup {m} /\ (m \in Owner' => ~ overrun')
      BY <1>1 DEF Owner
    <2>3. ASSUME NEW n \in Owner', NEW a \in VA, Trans'[n][a] \in UserEntry
          PROVE  n \in live /\ Trans'[n][a] = Trans[n][a]
      <3>1. n # m
        BY <1>2, <2>2, <2>3, UserEntries
      <3>. QED
        BY <1>4, <2>2, <3>1
    <2>. QED
      BY Zenon, <1>1, <1>2, <2>1, <2>3, SamePrivate
  <1>. QED
    BY Zenon, <1>4, <1>5, <1>6, <1>7 DEF JobInv

\* An iteration takes a slot that no job has, for the page after the last.
LEMMA MapNextJob ==
    ASSUME IInv, JobInv, MapNext
    PROVE  /\ JobInv'
           /\ \A n \in live, a \in VA : Trans'[n][a] = Trans[n][a]
  <1>1. PICK slot \in PA :
          /\ building # NULL /\ i < need_slots(size)
          /\ \/ slot \in NextSlot(UserPage \ taken)
             \/ slot = 0 /\ taken = UserPage
          /\ taken' = taken \cup ({slot} \cap UserPage)
          /\ exhausted' = (exhausted \/ slot = 0)
          /\ paging_manager_map_page(building, JOB_BASE_USER + i, slot, TRUE, FALSE)
          /\ i' = i + 1
          /\ UNCHANGED <<live, building, size, memsz>>
    BY Zenon DEF MapNext
  <1>2. /\ level = 0 /\ ~ overrun /\ level' = 1
        /\ pm' = building /\ va' = JOB_BASE_USER + i /\ new' = l3_page(slot, TRUE, FALSE)
        /\ UNCHANGED <<l1, store, overrun>>
    BY Zenon, <1>1 DEF paging_manager_map_page
  <1>3. Trans' = Trans
    BY Zenon, <1>2, SameTrans
  <1>4. /\ i \in Nat /\ size \in Sizes /\ memsz[building] = size
        /\ Filled(building, i) /\ \A m \in live : Filled(m, need_slots(memsz[m]))
    BY Zenon, <1>1, <1>2 DEF JobInv, JobTypes, Spaces
  <1>5. need_slots(size) \in Nat
    BY <1>4, Slots, JobSpaceAssumption
  <1>6. new' \in UserEntry /\ new'.to = slot
    BY Zenon, <1>2, UserEntries
  <1>7. JobTypes'
    BY <1>1, <1>4 DEF JobInv, JobTypes
  <1>8. Spaces'
    <2>1. \A m \in live' : Filled(m, need_slots(memsz[m]))'
      BY Zenon, <1>1, <1>3, <1>4 DEF Filled
    <2>2. i' > 0 /\ i' - 1 = i /\ i' <= need_slots(size') /\ level' # 0
      <3>1. i' = i + 1 /\ i < need_slots(size) /\ size' = size /\ level' = 1
        BY Zenon, <1>1, <1>2
      <3>. QED
        BY <1>4, <1>5, <3>1
    <2>3. Filled(building, i - 1)'
      BY Zenon, <1>1, <1>3, <1>4, <2>2 DEF Filled
    <2>. QED
      BY Zenon, <1>1, <1>2, <1>4, <1>6, <2>1, <2>2, <2>3 DEF Spaces
  <1>9. ASSUME ~ exhausted' PROVE Private'
    <2>1. Private /\ slot # 0
      BY Zenon, <1>1, <1>9 DEF JobInv
    <2>2. slot \in UserPage /\ slot \notin taken
      BY <1>1, <2>1 DEF NextSlot
    <2>3. Owner' = Owner
      BY Zenon, <1>1, <1>2 DEF Owner
    <2>4. taken' = taken \cup {slot} /\ new'.to \in taken'
      BY <1>1, <1>6, <2>2
    <2>5. \A m \in Owner, a \in VA : Trans[m][a] \in UserEntry => Trans[m][a].to # new'.to
      BY <1>6, <2>1, <2>2 DEF Private
    <2>. QED
      BY Zenon, <1>3, <2>1, <2>3, <2>4, <2>5, SamePrivate
  <1>. QED
    BY Zenon, <1>3, <1>7, <1>8, <1>9 DEF JobInv

\* paging_insert_or_alloc maps the page that it was asked to, which was free.
LEMMA MapStepJob ==
    ASSUME IInv, JobInv, MapStep
    PROVE  /\ JobInv'
           /\ \A n \in live, a \in VA : Trans'[n][a] = Trans[n][a]
  <1>1. building # NULL /\ Insert /\ UNCHANGED <<taken, live, building, size, i, memsz, exhausted>>
    BY Zenon DEF MapStep, jobs
  <1>2. level # 0 /\ ~ overrun
    BY <1>1 DEF Insert, DescendBlock, DescendAllocate, DescendTable, Write
  <1>3. /\ size \in Sizes /\ memsz[building] = size /\ i <= need_slots(size)
        /\ i \in Nat /\ i > 0 /\ pm = building /\ va = JOB_BASE_USER + (i - 1)
        /\ new \in UserEntry /\ Filled(building, i - 1)
        /\ building \in Manager /\ building \notin live /\ live \subseteq Manager
        /\ \A m \in live : Filled(m, need_slots(memsz[m]))
    BY Zenon, <1>1, <1>2 DEF JobInv, JobTypes, Spaces
  <1>4. need_slots(size) \in Nat /\ JOB_BASE_USER \in Nat
    BY <1>3, Slots, JobSpaceAssumption DEF VA
  <1>5. /\ va \in UserRange(i) /\ va \notin UserRange(i - 1)
        /\ \A a \in VA : a # va => (a \in UserRange(i) <=> a \in UserRange(i - 1))
    BY <1>3, <1>4 DEF UserRange, VA
  <1>6. va \in VA /\ KernelEntry(va) = Invalid
    <2>1. i \in 0 .. need_slots(size)
      BY <1>3, <1>4
    <2>. QED
      BY Zenon, <1>3, <1>5, <2>1, UserPages
  <1>7. Trans[pm][va] = Invalid
    BY Zenon, <1>3, <1>5, <1>6 DEF Filled
  <1>8. /\ UNCHANGED <<pm, va, new>>
        /\ overrun' => Trans' = Trans
        /\ ~ overrun' => \A n \in Manager, a \in VA :
             Trans'[n][a] = IF level' = 0 /\ n = pm /\ a = va THEN new ELSE Trans[n][a]
    BY Zenon, <1>1, <1>7, InsertTrans
  <1>9. \A n \in live, a \in VA : Trans'[n][a] = Trans[n][a]
    BY <1>3, <1>8
  <1>10. JobTypes'
    BY Zenon, <1>1 DEF JobInv, JobTypes
  <1>11. Spaces'
    <2>1. ASSUME NEW n \in live PROVE Filled(n, need_slots(memsz[n]))'
      <3>1. Filled(n, need_slots(memsz[n]))
        BY Zenon, <1>3
      <3>. QED
        BY <1>1, <1>9, <3>1 DEF Filled
    <2>2. ASSUME ~ overrun', level' = 0 PROVE Filled(building, i)'
      BY <1>1, <1>3, <1>5, <1>8, <2>2 DEF Filled
    <2>3. ASSUME ~ overrun', level' # 0 PROVE Filled(building, i - 1)'
      BY <1>1, <1>3, <1>8, <2>3 DEF Filled
    <2>. QED
      BY Zenon, <1>1, <1>3, <1>8, <2>1, <2>2, <2>3 DEF Spaces
  <1>12. ASSUME ~ exhausted' PROVE Private'
    <2>1. Private
      BY Zenon, <1>1, <1>12 DEF JobInv
    <2>2. Owner = live \cup {building} /\ building \in Owner
      BY <1>1, <1>2 DEF Owner
    <2>3. CASE overrun'
      <3>1. Owner' \subseteq Owner /\ Trans' = Trans
        BY <1>1, <1>8, <2>2, <2>3 DEF Owner
      <3>. QED
        BY Zenon, <1>1, <2>1, <2>3, <3>1, SamePrivate
    <2>4. CASE ~ overrun'
      <3>1. Owner' = Owner /\ Owner \subseteq Manager
        BY <1>1, <1>2, <1>3, <2>2, <2>4 DEF Owner
      <3>2. /\ new.to \in taken
            /\ \A m \in Owner, a \in VA :
                 Trans[m][a] \in UserEntry => Trans[m][a].to \in taken /\ Trans[m][a].to # new.to
        BY Zenon, <1>2, <2>1 DEF Private
      <3>3. \A m \in Owner, a \in VA : Trans'[m][a] \in UserEntry => Trans'[m][a].to \in taken'
        BY <1>1, <1>8, <2>4, <3>1, <3>2
      <3>4. ASSUME NEW m \in Owner, NEW n \in Owner, NEW a \in VA, NEW b \in VA,
                   Trans'[m][a] \in UserEntry, Trans'[n][b] \in UserEntry,
                   Trans'[m][a].to = Trans'[n][b].to
            PROVE  m = n /\ a = b
        <4>1. /\ Trans'[m][a] = IF level' = 0 /\ m = pm /\ a = va THEN new ELSE Trans[m][a]
              /\ Trans'[n][b] = IF level' = 0 /\ n = pm /\ b = va THEN new ELSE Trans[n][b]
          BY Zenon, <1>8, <2>4, <3>1
        <4>2. /\ Trans[m][a] \in UserEntry /\ Trans[n][b] \in UserEntry
              /\ Trans[m][a].to = Trans[n][b].to
              => m = n /\ a = b
          BY Zenon, <2>1 DEF Private
        <4>. QED
          BY <3>2, <3>4, <4>1, <4>2
      <3>5. ASSUME level' # 0
            PROVE  /\ new'.to \in taken'
                   /\ \A m \in Owner, a \in VA :
                        Trans'[m][a] \in UserEntry => Trans'[m][a].to # new'.to
        BY <1>1, <1>8, <2>4, <3>1, <3>2, <3>5
      <3>. QED
        BY <3>1, <3>3, <3>4, <3>5 DEF Private
    <2>. QED
      BY Zenon, <2>3, <2>4
  <1>. QED
    BY Zenon, <1>9, <1>10, <1>11, <1>12 DEF JobInv

\* The job exists once its last page is mapped.
LEMMA EndJob ==
    ASSUME IInv, JobInv, CreateEnd
    PROVE  JobInv'
  <1>1. /\ building # NULL /\ level = 0 /\ ~ overrun /\ i = need_slots(size)
        /\ live' = live \cup {building} /\ building' = NULL
        /\ UNCHANGED <<l1, store, level, pm, va, new, overrun, taken, size, i, memsz, exhausted>>
    BY Zenon DEF CreateEnd, Mapped, vars
  <1>2. Trans' = Trans
    BY Zenon, <1>1, SameTrans
  <1>3. Owner' = Owner
    BY <1>1 DEF Owner
  <1>4. JobTypes'
    BY <1>1, JobSpaceAssumption DEF JobInv, JobTypes
  <1>5. Spaces'
    <2>1. \A m \in live' : Filled(m, need_slots(memsz[m]))
      BY <1>1 DEF JobInv, Spaces
    <2>. QED
      BY Zenon, <1>1, <1>2, <2>1 DEF Spaces, Filled
  <1>6. ~ exhausted' => Private'
    <2>1. level = 0 \/ overrun
      BY Zenon, <1>1 DEF JobInv, JobTypes
    <2>. QED
      BY Zenon, <1>1, <1>2, <1>3, <2>1, SamePrivate DEF JobInv
  <1>. QED
    BY Zenon, <1>4, <1>5, <1>6 DEF JobInv

\* A job that is deleted takes no page from another.
LEMMA DeleteJob ==
    ASSUME IInv, JobInv, NEW m \in Manager, Delete(m)
    PROVE  JobInv'
  <1>1. /\ building = NULL /\ live' = live \ {m}
        /\ UNCHANGED <<l1, store, level, pm, va, new, overrun>>
        /\ UNCHANGED <<taken, building, size, i, memsz, exhausted>>
    BY Zenon DEF Delete, vars
  <1>2. Trans' = Trans
    BY Zenon, <1>1, SameTrans
  <1>3. Owner' \subseteq Owner
    BY <1>1 DEF Owner
  <1>4. JobTypes'
    BY Zenon, <1>1 DEF JobInv, JobTypes
  <1>5. Spaces'
    <2>1. \A n \in live' : Filled(n, need_slots(memsz[n]))
      BY Zenon, <1>1 DEF JobInv, Spaces
    <2>. QED
      BY Zenon, <1>1, <1>2, <2>1 DEF Spaces, Filled
  <1>6. ~ exhausted' => Private'
    <2>1. level = 0 \/ overrun
      BY Zenon, <1>1 DEF JobInv, JobTypes
    <2>. QED
      BY Zenon, <1>1, <1>2, <1>3, <2>1, SamePrivate DEF JobInv
  <1>. QED
    BY Zenon, <1>4, <1>5, <1>6 DEF JobInv

\* Neither tables nor jobs change.
LEMMA SameJob ==
    ASSUME JobInv, UNCHANGED allVars
    PROVE  JobInv'
  <1>1. /\ UNCHANGED <<l1, store, level, pm, va, new, overrun>>
        /\ UNCHANGED <<taken, live, building, size, i, memsz, exhausted>>
    BY Zenon DEF allVars, vars, jobs
  <1>2. Trans' = Trans /\ Owner' = Owner
    BY Zenon, <1>1, SameTrans DEF Owner
  <1>3. JobTypes' /\ Spaces'
    BY Zenon, <1>1, <1>2 DEF JobInv, JobTypes, Spaces, Filled
  <1>4. ~ exhausted' => Private'
    BY Zenon, <1>1, <1>2, SamePrivate DEF JobInv, Private
  <1>. QED
    BY Zenon, <1>3, <1>4 DEF JobInv

-----------------------------------------------------------------------------
(* Loading programs.                                                            *)

\* The program headers are loaded of ELF files only, and no pointer is NULL
\* after the parsing of a complete file.
LEMMA ElfParsed ==
    ASSUME NEW h \in Header
    PROVE  LET e == elf_alloc_and_parse(elf_fromfilebuffer, h)
           IN  /\ elf_get_programheader_byid(e) => h.magic
               /\ Complete(h) => elf_get_programheader_byid(e) /\ ~ FreesNull(e)
  <1>. DEFINE e1 == elf_parseheader(elf_fromfilebuffer, h)
              a2 == Assign(e1, "section_headers", kalloc(elf_get_sectionheaders_bytes(e1, h)))
              e2 == elf_load_sectionheaders(a2)
              a3 == Assign(e2, "program_headers", kalloc(elf_get_programheaders_bytes(e2, h)))
              e3 == elf_load_programheaders(a3)
              a4 == Assign(e3, "strings_section", kalloc(elf_get_stringsectionsize(e3, h)))
              e4 == elf_load_strings_section(a4)
  <1>1. elf_alloc_and_parse(elf_fromfilebuffer, h) = e4
    BY Zenon DEF elf_alloc_and_parse
  <1>2. e1 = IF h.magic THEN {"header_loaded"} ELSE {}
    BY DEF elf_fromfilebuffer, elf_parseheader
  <1>. HIDE DEF e1
  <1>3. "header_loaded" \in e2 <=> h.magic
    BY <1>2 DEF Assign, elf_load_sectionheaders
  <1>4. "program_headers_loaded" \notin e2
    BY <1>2 DEF Assign, elf_load_sectionheaders
  <1>5. ASSUME Complete(h)
        PROVE  /\ h.magic /\ Shdr * h.e_shnum > 0 /\ Phdr * h.e_phnum > 0
               /\ h.e_shstrndx < h.e_shnum /\ h.strings_size > 0
    BY <1>5 DEF Complete, Header, Shdr, Phdr
  <1>6. ASSUME Complete(h) PROVE {"header_loaded", "section_headers", "section_headers_loaded"} \subseteq e2
    <2>1. kalloc(elf_get_sectionheaders_bytes(e1, h))
      BY <1>2, <1>5, <1>6 DEF kalloc, elf_get_sectionheaders_bytes
    <2>. QED
      BY <1>2, <1>5, <1>6, <2>1 DEF Assign, elf_load_sectionheaders
  <1>. HIDE DEF a2, e2
  <1>7. "program_headers_loaded" \in e3 => h.magic
    BY <1>3, <1>4 DEF Assign, elf_load_programheaders
  <1>8. ASSUME Complete(h)
        PROVE  {"header_loaded", "section_headers", "section_headers_loaded",
                "program_headers", "program_headers_loaded"} \subseteq e3
    <2>1. kalloc(elf_get_programheaders_bytes(e2, h))
      BY <1>3, <1>5, <1>8 DEF kalloc, elf_get_programheaders_bytes
    <2>. QED
      BY <1>6, <1>8, <2>1 DEF Assign, elf_load_programheaders
  <1>. HIDE DEF a3, e3
  <1>9. "program_headers_loaded" \in e4 => h.magic
    BY <1>7 DEF Assign, elf_load_strings_section
  <1>10. ASSUME Complete(h)
         PROVE  {"section_headers", "program_headers", "program_headers_loaded",
                 "strings_section"} \subseteq e4
    <2>1. kalloc(elf_get_stringsectionsize(e3, h))
      BY <1>5, <1>8, <1>10 DEF kalloc, elf_get_stringsectionsize
    <2>. QED
      BY <1>8, <1>10, <2>1 DEF Assign, elf_load_strings_section
  <1>. HIDE DEF e4
  <1>. QED
    BY <1>1, <1>9, <1>10 DEF FreesNull, elf_get_programheader_byid

\* The program of manager m is in its pages.
Contents(m) ==
    \A k \in 0 .. header[program[m]].p_filesz - 1 :
       mem[Trans[m][JOB_BASE_USER + k \div blocksize].to][k % blocksize]
         = <<program[m], header[program[m]].p_offset + k>>

\* Manager m is for a file with a program.
Programmed(m) ==
    /\ program[m] \in File /\ header[program[m]].magic
    /\ memsz[m] = header[program[m]].p_memsz

\* What job_create_from_file knows of the file at each point.
Phase ==
    /\ pc \in {"idle", "parse", "create", "map", "finish", "wild"}
    /\ building # NULL <=> pc \in {"map", "finish"}
    /\ overrun => pc = "map"
    /\ pc # "idle" => file \in File
    /\ pc = "parse" => elf = elf_fromfilebuffer
    /\ pc \in {"create", "map", "finish"} =>
         /\ elf = elf_alloc_and_parse(elf_fromfilebuffer, header[file])
         /\ elf_get_programheader_byid(elf)
    /\ pc = "finish" => level = 0 /\ i = need_slots(size)
    /\ LoadsCompleteFiles

Programs ==
    /\ program \in [Manager -> File \cup {NULL}]
    /\ building # NULL => program[building] = file /\ Programmed(building)
    /\ \A m \in live : Programmed(m)

Loaded ==
    ~ exhausted =>
      /\ \A m \in live : Contents(m)
      /\ pc = "finish" => Contents(building)

LoadInv == IInv /\ JobInv /\ Phase /\ Programs /\ Loaded

\* The header of a file with a program.
LEMMA Headers ==
    ASSUME NEW f \in File, header[f].magic
    PROVE  /\ header[f] \in Header
           /\ header[f].p_offset \in Nat /\ header[f].p_filesz \in Nat
           /\ header[f].p_memsz \in Nat /\ header[f].size \in Nat
           /\ header[f].p_memsz \in Sizes
           /\ header[f].p_filesz <= header[f].p_memsz
           /\ header[f].p_offset + header[f].p_filesz <= header[f].size
  <1>1. header[f] \in Header
    BY JobLoadAssumption
  <1>. QED
    BY <1>1, JobLoadAssumption DEF Header

\* A byte of the program is in a page of the program.
LEMMA BytePage ==
    ASSUME NEW s \in Sizes, NEW k \in 0 .. s - 1
    PROVE  /\ JOB_BASE_USER + k \div blocksize \in UserRange(need_slots(s))
           /\ JOB_BASE_USER + k \div blocksize \in VA
           /\ k % blocksize \in Byte
           /\ k \div blocksize \in Nat /\ k = blocksize * (k \div blocksize) + (k % blocksize)
  <1>1. s \in Nat /\ need_slots(s) \in Nat /\ k \div blocksize \in 0 .. need_slots(s) - 1
    BY Slots, JobSpaceAssumption
  <1>2. JOB_BASE_USER \in Nat
    BY JobSpaceAssumption DEF VA
  <1>. DEFINE a == JOB_BASE_USER + k \div blocksize
  <1>3. a \in UserRange(need_slots(s))
    BY <1>1, <1>2 DEF UserRange
  <1>4. need_slots(s) \in 0 .. need_slots(s)
    BY <1>1
  <1>. HIDE DEF a
  <1>5. a \in VA
    BY Zenon, <1>3, <1>4, UserPages
  <1>6. /\ k % blocksize \in 0 .. blocksize - 1 /\ k \div blocksize \in Nat
        /\ k = blocksize * (k \div blocksize) + (k % blocksize)
    <2>1. k \in Nat /\ blocksize \in Nat /\ blocksize > 0
      BY <1>1, JobSpaceAssumption
    <2>. QED
      BY <2>1, Division
  <1>. QED
    BY Zenon, <1>3, <1>5, <1>6 DEF a, Byte

\* A program stays where it is while its pages do.
LEMMA ContentsKept ==
    ASSUME NEW m \in Manager, Programmed(m), Contents(m), mem' = mem,
           program'[m] = program[m], \A a \in VA : Trans'[m][a] = Trans[m][a]
    PROVE  Contents(m)'
  <1>. DEFINE f == program[m]
  <1>1. f \in File /\ header[f].magic
    BY Zenon DEF Programmed
  <1>. SUFFICES ASSUME NEW k \in 0 .. header[f].p_filesz - 1
                PROVE  mem[Trans'[m][JOB_BASE_USER + k \div blocksize].to][k % blocksize]
                         = <<f, header[f].p_offset + k>>
    BY Zenon DEF Contents
  <1>2. header[f].p_memsz \in Sizes /\ k \in 0 .. header[f].p_memsz - 1
    <2>. HIDE DEF f
    <2>. QED
      BY <1>1, Headers
  <1>3. JOB_BASE_USER + k \div blocksize \in VA
    BY Zenon, <1>2, BytePage
  <1>. QED
    BY Zenon, <1>3 DEF Contents

\* Nothing is loaded yet.
LEMMA InitLoad == LoadInit => LoadInv
  <1>. SUFFICES ASSUME LoadInit PROVE LoadInv
    OBVIOUS
  <1>1. IInv /\ JobInv
    BY Zenon, InitIInv, InitJob DEF LoadInit, JobInit
  <1>2. /\ pc = "idle" /\ live = {} /\ building = NULL /\ overrun = FALSE
        /\ program = [m \in Manager |-> NULL]
    BY Zenon DEF LoadInit, JobInit, Init
  <1>3. Phase
    BY <1>2 DEF Phase, LoadsCompleteFiles
  <1>4. Programs /\ Loaded
    BY <1>2 DEF Programs, Loaded
  <1>. QED
    BY Zenon, <1>1, <1>3, <1>4 DEF LoadInv

\* Steps that leave tables and jobs alone: programs stay loaded.
LEMMA StillLoaded ==
    ASSUME LoadInv, UNCHANGED <<allVars, mem, program>>, pc' # "finish"
    PROVE  IInv' /\ JobInv' /\ Loaded'
  <1>1. UNCHANGED <<vars, l1, store, live, building, exhausted, memsz>>
    BY Zenon DEF allVars, vars, jobs
  <1>2. IInv' /\ JobInv'
    BY Zenon, <1>1, NextIInv, SameJob DEF LoadInv
  <1>3. Trans' = Trans
    BY Zenon, <1>1, SameTrans
  <1>4. Loaded'
    BY Zenon, <1>1, <1>3 DEF LoadInv, Loaded, Contents
  <1>. QED
    BY Zenon, <1>2, <1>4

\* A file is read.
LEMMA ReadLoad ==
    ASSUME LoadInv, NEW f \in File, Read(f)
    PROVE  LoadInv'
  <1>1. /\ pc = "idle" /\ ~ overrun /\ file' = f /\ elf' = elf_fromfilebuffer /\ pc' = "parse"
        /\ UNCHANGED <<allVars, mem, program>>
    BY Zenon DEF Read
  <1>2. UNCHANGED <<live, building, memsz, overrun, level, i, size, program>>
    BY Zenon, <1>1 DEF allVars, vars, jobs
  <1>3. building = NULL
    BY <1>1 DEF LoadInv, Phase
  <1>4. Phase'
    BY <1>1, <1>2, <1>3 DEF Phase, LoadsCompleteFiles
  <1>5. Programs'
    BY Zenon, <1>2, <1>3 DEF LoadInv, Programs, Programmed
  <1>6. IInv' /\ JobInv' /\ Loaded'
    BY <1>1, StillLoaded
  <1>. QED
    BY Zenon, <1>4, <1>5, <1>6 DEF LoadInv

\* The parser leaves a complete file with its program headers.
LEMMA ParseLoad ==
    ASSUME LoadInv, Parse
    PROVE  LoadInv'
  <1>1. /\ pc = "parse" /\ elf' = elf_alloc_and_parse(elf, header[file])
        /\ pc' = IF elf_get_programheader_byid(elf') THEN "create" ELSE "wild"
        /\ UNCHANGED <<allVars, file, mem, program>>
    BY Zenon DEF Parse
  <1>2. UNCHANGED <<live, building, memsz, overrun, level, i, size, program, file>>
    BY Zenon, <1>1 DEF allVars, vars, jobs
  <1>3. building = NULL /\ ~ overrun /\ file \in File /\ elf = elf_fromfilebuffer
    BY <1>1 DEF LoadInv, Phase
  <1>4. header[file] \in Header
    BY <1>3, JobLoadAssumption
  <1>5. Complete(header[file]) => elf_get_programheader_byid(elf')
    BY Zenon, <1>1, <1>3, <1>4, ElfParsed
  <1>6. Phase'
    BY <1>1, <1>2, <1>3, <1>5 DEF Phase, LoadsCompleteFiles
  <1>7. Programs'
    BY Zenon, <1>2, <1>3 DEF LoadInv, Programs, Programmed
  <1>8. IInv' /\ JobInv' /\ Loaded'
    <2>1. pc' # "finish"
      BY <1>1
    <2>. QED
      BY Zenon, <1>1, <2>1, StillLoaded
  <1>. QED
    BY Zenon, <1>6, <1>7, <1>8 DEF LoadInv

\* The address space of a program that fits in it is begun.
LEMMA CreateLoad ==
    ASSUME LoadInv, NEW m \in Manager, Create(m)
    PROVE  LoadInv'
  <1>1. /\ pc = "create" /\ CreateStart(m, header[file].p_memsz)
        /\ program' = [program EXCEPT ![m] = file]
        /\ pc' = "map" /\ UNCHANGED <<file, elf, mem>>
    BY Zenon DEF Create
  <1>2. /\ building = NULL /\ m \notin live /\ paging_manager_create(m)
        /\ building' = m /\ memsz' = [memsz EXCEPT ![m] = header[file].p_memsz]
        /\ UNCHANGED <<live, exhausted>>
    BY Zenon, <1>1 DEF CreateStart
  <1>3. /\ file \in File /\ elf = elf_alloc_and_parse(elf_fromfilebuffer, header[file])
        /\ elf_get_programheader_byid(elf)
    BY <1>1 DEF LoadInv, Phase
  <1>4. header[file].magic /\ header[file] \in Header
    <2>1. header[file] \in Header
      BY <1>3, JobLoadAssumption
    <2>. QED
      BY Zenon, <1>3, <2>1, ElfParsed
  <1>5. header[file].p_memsz \in Sizes
    BY Zenon, <1>3, <1>4, Headers
  <1>6. IInv'
    BY Zenon, <1>2, CreateIInv DEF LoadInv
  <1>7. JobInv' /\ \A n \in live, a \in VA : Trans'[n][a] = Trans[n][a]
    BY Zenon, <1>1, <1>5, CreateJob DEF LoadInv
  <1>8. Phase'
    <2>1. m # NULL
      BY JobSpaceAssumption
    <2>. QED
      BY <1>1, <1>2, <1>3, <2>1 DEF Phase, LoadsCompleteFiles
  <1>9. live \subseteq Manager /\ memsz \in [Manager -> Nat]
    BY Zenon DEF LoadInv, JobInv, JobTypes
  <1>10. \A n \in live : program'[n] = program[n] /\ memsz'[n] = memsz[n]
    BY <1>1, <1>2, <1>9 DEF LoadInv, Programs
  <1>11. Programs'
    <2>1. /\ program' \in [Manager -> File \cup {NULL}]
          /\ program'[m] = file /\ memsz'[m] = header[file].p_memsz
      BY <1>1, <1>2, <1>3, <1>9 DEF LoadInv, Programs
    <2>2. Programmed(building)'
      BY Zenon, <1>2, <1>3, <1>4, <2>1 DEF Programmed
    <2>3. \A n \in live' : Programmed(n)'
      BY Zenon, <1>2, <1>10 DEF LoadInv, Programs, Programmed
    <2>. QED
      BY Zenon, <1>1, <1>2, <2>1, <2>2, <2>3 DEF Programs
  <1>12. Loaded'
    <2>1. ASSUME ~ exhausted, NEW n \in live PROVE Contents(n)'
      <3>1. Contents(n) /\ Programmed(n)
        BY Zenon, <2>1 DEF LoadInv, Loaded, Programs
      <3>. QED
        BY Zenon, <1>1, <1>7, <1>9, <1>10, <3>1, ContentsKept
    <2>. QED
      BY <1>1, <1>2, <2>1 DEF Loaded
  <1>. QED
    BY Zenon, <1>6, <1>7, <1>8, <1>11, <1>12 DEF LoadInv

\* A page of the new job is mapped, and the programs of the others stay.
LEMMA MapLoad ==
    ASSUME LoadInv, Map
    PROVE  LoadInv'
  <1>1. pc = "map" /\ (MapNext \/ MapStep) /\ UNCHANGED <<pc, file, elf, mem, program>>
    BY Zenon DEF Map, load
  <1>2. UNCHANGED <<live, building, memsz>> /\ building # NULL
    BY Zenon, <1>1 DEF MapNext, MapStep, jobs
  <1>3. exhausted => exhausted'
    BY Zenon, <1>1 DEF MapNext, MapStep, jobs
  <1>4. JobInv' /\ \A n \in live, a \in VA : Trans'[n][a] = Trans[n][a]
    BY Zenon, <1>1, MapNextJob, MapStepJob DEF LoadInv
  <1>5. IInv'
    <2>1. CASE MapStep
      BY Zenon, <2>1, NextIInv DEF LoadInv, MapStep, Next
    <2>2. CASE MapNext
      <3>1. PICK slot \in PA :
              paging_manager_map_page(building, JOB_BASE_USER + i, slot, TRUE, FALSE)
        BY Zenon, <2>2 DEF MapNext
      <3>2. /\ i < need_slots(size) /\ i \in Nat /\ building \in Manager
            /\ level = 0 /\ ~ overrun
        BY Zenon, <1>2, <2>2, <3>1
           DEF MapNext, LoadInv, JobInv, JobTypes, paging_manager_map_page
      <3>3. size \in Sizes
        BY Zenon, <1>2, <3>2 DEF LoadInv, JobInv, Spaces
      <3>4. need_slots(size) \in Nat
        BY <3>3, Slots, JobSpaceAssumption
      <3>5. JOB_BASE_USER + i \in UserRange(i + 1) /\ i + 1 \in 0 .. need_slots(size)
        BY <3>2, <3>4, JobSpaceAssumption DEF UserRange, VA
      <3>6. JOB_BASE_USER + i \in MapVA
        BY Zenon, <3>3, <3>5, UserPages
      <3>7. PICK acc \in Access : acc = <<TRUE, FALSE>>
        BY JobSpaceAssumption
      <3>8. acc[1] = TRUE /\ acc[2] = FALSE
        BY <3>7
      <3>. QED
        BY Zenon, <3>1, <3>2, <3>6, <3>8, MapPageIInv DEF LoadInv
    <2>. QED
      BY Zenon, <1>1, <2>1, <2>2
  <1>6. Phase'
    BY <1>1, <1>2 DEF LoadInv, Phase, LoadsCompleteFiles
  <1>7. Programs'
    BY Zenon, <1>1, <1>2 DEF LoadInv, Programs, Programmed
  <1>8. live \subseteq Manager
    BY Zenon DEF LoadInv, JobInv, JobTypes
  <1>9. Loaded'
    <2>1. ASSUME ~ exhausted, NEW n \in live PROVE Contents(n)'
      <3>1. Contents(n) /\ Programmed(n)
        BY Zenon, <2>1 DEF LoadInv, Loaded, Programs
      <3>. QED
        BY Zenon, <1>1, <1>4, <1>8, <3>1, ContentsKept
    <2>. QED
      BY <1>1, <1>2, <1>3, <2>1 DEF Loaded
  <1>. QED
    BY Zenon, <1>4, <1>5, <1>6, <1>7, <1>9 DEF LoadInv

\* The copy writes the pages of the new job and no others.
LEMMA CopyWrites ==
    ASSUME LoadInv, Copy, ~ exhausted
    PROVE  /\ Contents(building)'
           /\ \A m \in live : Contents(m)'
  <1>. DEFINE h == header[file]
              At(k) == JOB_BASE_USER + k \div blocksize
              Page(m, k) == Trans[m][At(k)].to
              Into(p, o) == {k \in 0 .. h.p_memsz - 1 : Page(building, k) = p /\ k % blocksize = o}
  <1>1. /\ pc = "map" /\ building # NULL /\ level = 0 /\ ~ overrun /\ i = need_slots(size)
        /\ CopyThrough(building)
        /\ UNCHANGED <<l1, store, building, program, exhausted>>
    BY Zenon DEF Copy, Mapped, allVars, vars, jobs
  <1>2. /\ building \in Manager /\ building \notin live /\ live \subseteq Manager
        /\ taken \subseteq UserPage
    BY Zenon, <1>1 DEF LoadInv, JobInv, JobTypes
  <1>3. /\ program[building] = file /\ Programmed(building)
        /\ \A m \in live : Programmed(m) /\ Contents(m)
    BY Zenon, <1>1 DEF LoadInv, Programs, Loaded
  <1>4. /\ Filled(building, need_slots(memsz[building]))
        /\ \A m \in live : Filled(m, need_slots(memsz[m]))
    BY Zenon, <1>1 DEF LoadInv, JobInv, Spaces
  <1>5. Private /\ Owner = live \cup {building}
    BY Zenon, <1>1 DEF LoadInv, JobInv, Owner
  <1>6. Trans' = Trans
    BY Zenon, <1>1, SameTrans
  <1>7. ASSUME NEW m \in live \cup {building}, NEW k \in 0 .. header[program[m]].p_memsz - 1
        PROVE  /\ At(k) \in VA /\ Trans[m][At(k)] \in UserEntry
               /\ Page(m, k) \in UserPage /\ k % blocksize \in Byte
               /\ k \div blocksize \in Nat
               /\ k = blocksize * (k \div blocksize) + (k % blocksize)
    <2>. DEFINE f == program[m]
                s == header[f].p_memsz
    <2>1. f \in File /\ header[f].magic /\ memsz[m] = s
      BY Zenon, <1>3 DEF Programmed
    <2>2. s \in Sizes
      BY Zenon, <2>1, Headers
    <2>3. /\ At(k) \in UserRange(need_slots(s)) /\ At(k) \in VA /\ k % blocksize \in Byte
          /\ k \div blocksize \in Nat
          /\ k = blocksize * (k \div blocksize) + (k % blocksize)
      BY Zenon, <2>2, BytePage
    <2>4. Filled(m, need_slots(s))
      BY Zenon, <1>4, <2>1
    <2>5. Trans[m][At(k)] \in UserEntry
      BY Zenon, <2>3, <2>4 DEF Filled
    <2>6. Page(m, k) \in taken
      BY Zenon, <1>5, <2>3, <2>5 DEF Private
    <2>. QED
      BY Zenon, <1>2, <2>3, <2>5, <2>6
  <1>8. ASSUME NEW m \in live \cup {building}, NEW k \in 0 .. header[program[m]].p_memsz - 1,
               NEW j \in Into(Page(m, k), k % blocksize)
        PROVE  m = building /\ j = k
    <2>1. /\ j \in 0 .. header[program[building]].p_memsz - 1
          /\ Page(building, j) = Page(m, k) /\ j % blocksize = k % blocksize
      BY Zenon, <1>3
    <2>2. /\ At(k) \in VA /\ Trans[m][At(k)] \in UserEntry
          /\ At(j) \in VA /\ Trans[building][At(j)] \in UserEntry
      BY Zenon, <1>7, <2>1
    <2>3. m = building /\ At(j) = At(k)
      BY Zenon, <1>5, <2>1, <2>2 DEF Private
    <2>4. /\ k \div blocksize \in Nat /\ k = blocksize * (k \div blocksize) + (k % blocksize)
          /\ j \div blocksize \in Nat /\ j = blocksize * (j \div blocksize) + (j % blocksize)
      BY Zenon, <1>7, <2>1
    <2>5. j \div blocksize = k \div blocksize
      BY <2>3, <2>4, JobSpaceAssumption DEF VA
    <2>. QED
      BY Zenon, <2>1, <2>3, <2>4, <2>5
  <1>9. ASSUME NEW p \in UserPage, NEW o \in Byte
        PROVE  mem'[p][o] =
                 IF Into(p, o) = {} THEN mem[p][o]
                 ELSE BufferByte(file, h.p_offset
                        + CHOOSE k \in Into(p, o) : \A j \in Into(p, o) : j <= k)
    <2>. DEFINE X == {k \in 0 .. h.p_memsz - 1 :
                        /\ Translate(building, JOB_BASE_USER + k \div blocksize).to = p
                        /\ k % blocksize = o}
    <2>1. \A k \in 0 .. h.p_memsz - 1 :
            Translate(building, JOB_BASE_USER + k \div blocksize).to = Page(building, k)
      BY Zenon, <1>2, <1>3, <1>7, SameTrans
    <2>2. X = Into(p, o)
      BY Zenon, <2>1
    <2>3. mem'[p][o] = IF X = {} THEN mem[p][o]
                       ELSE BufferByte(file, h.p_offset
                              + CHOOSE k \in X : \A j \in X : j <= k)
      BY Zenon, <1>1 DEF CopyThrough
    <2>. HIDE DEF Into, X
    <2>. QED
      BY Zenon, <2>2, <2>3
  <1>10. ASSUME NEW k \in 0 .. h.p_filesz - 1
         PROVE  mem'[Page(building, k)][k % blocksize] = <<file, h.p_offset + k>>
    <2>1. /\ file \in File /\ h.magic /\ file = program[building]
      BY Zenon, <1>3 DEF Programmed
    <2>2. /\ h.p_offset \in Nat /\ h.p_filesz \in Nat /\ h.p_memsz \in Nat /\ h.size \in Nat
          /\ h.p_filesz <= h.p_memsz /\ h.p_offset + h.p_filesz <= h.size
      BY Zenon, <2>1, Headers
    <2>3. k \in 0 .. h.p_memsz - 1 /\ h.p_offset + k < h.size /\ k \in Nat
      <3>. HIDE DEF h
      <3>. QED
        BY <2>2 
    <2>4. Page(building, k) \in UserPage /\ k % blocksize \in Byte
      BY Zenon, <1>7, <2>1, <2>3
    <2>. DEFINE X == Into(Page(building, k), k % blocksize)
    <2>5. k \in X /\ \A j \in X : j = k
      BY Zenon, <1>8, <2>1, <2>3
    <2>6. mem'[Page(building, k)][k % blocksize] =
            IF X = {} THEN mem[Page(building, k)][k % blocksize]
            ELSE BufferByte(file, h.p_offset + CHOOSE n \in X : \A j \in X : j <= n)
      BY Zenon, <1>9, <2>4
    <2>. HIDE DEF X
    <2>7. (CHOOSE n \in X : \A j \in X : j <= n) = k
      <3>1. \E n \in X : \A j \in X : j <= n
        BY <2>3, <2>5
      <3>. QED
        BY Zenon, <2>5, <3>1
    <2>8. X # {}
      BY Zenon, <2>5
    <2>. QED
      BY Zenon, <2>3, <2>6, <2>7, <2>8 DEF BufferByte
  <1>11. ASSUME NEW m \in live, NEW k \in 0 .. header[program[m]].p_filesz - 1
         PROVE  mem'[Page(m, k)][k % blocksize] = mem[Page(m, k)][k % blocksize]
    <2>. DEFINE f == program[m]
    <2>1. f \in File /\ header[f].magic
      BY Zenon, <1>3 DEF Programmed
    <2>2. header[f].p_filesz \in Nat /\ header[f].p_memsz \in Nat /\ header[f].p_filesz <= header[f].p_memsz
      BY Zenon, <2>1, Headers
    <2>3. k \in 0 .. header[f].p_memsz - 1
      BY <2>2
    <2>4. Page(m, k) \in UserPage /\ k % blocksize \in Byte
      BY Zenon, <1>7, <2>3
    <2>5. Into(Page(m, k), k % blocksize) = {}
      BY Zenon, <1>2, <1>8, <2>3
    <2>. HIDE DEF Into, Page
    <2>. QED
      BY Zenon, <1>9, <2>4, <2>5
  <1>12. Contents(building)'
    BY Zenon, <1>1, <1>3, <1>6, <1>10 DEF Contents
  <1>13. ASSUME NEW m \in live PROVE Contents(m)'
    <2>1. Contents(m)
      BY Zenon, <1>3
    <2>. QED
      BY Zenon, <1>1, <1>6, <1>11, <2>1 DEF Contents
  <1>. QED
    BY Zenon, <1>12, <1>13

\* The program is copied through the tables of its job.
LEMMA CopyLoad ==
    ASSUME LoadInv, Copy
    PROVE  LoadInv'
  <1>1. /\ pc = "map" /\ building # NULL /\ level = 0 /\ ~ overrun /\ i = need_slots(size)
        /\ pc' = "finish" /\ UNCHANGED <<allVars, file, elf, program>>
    BY Zenon DEF Copy, Mapped
  <1>2. UNCHANGED <<vars, live, building, memsz, overrun, level, i, size, exhausted>>
    BY Zenon, <1>1 DEF allVars, vars, jobs
  <1>3. IInv' /\ JobInv'
    BY Zenon, <1>1, <1>2, NextIInv, SameJob DEF LoadInv
  <1>4. Phase'
    BY <1>1, <1>2 DEF LoadInv, Phase, LoadsCompleteFiles
  <1>5. Programs'
    BY Zenon, <1>1, <1>2 DEF LoadInv, Programs, Programmed
  <1>6. Loaded'
    BY Zenon, <1>2, CopyWrites DEF Loaded
  <1>. QED
    BY Zenon, <1>3, <1>4, <1>5, <1>6 DEF LoadInv

\* The job exists, with its program.
LEMMA FinishLoad ==
    ASSUME LoadInv, Finish
    PROVE  LoadInv'
  <1>1. /\ pc = "finish" /\ CreateEnd
        /\ pc' \in {"idle"} \cup (IF FreesNull(elf) THEN {"wild"} ELSE {})
        /\ UNCHANGED <<file, elf, mem, program>>
    BY Zenon DEF Finish
  <1>2. /\ building # NULL /\ ~ overrun
        /\ live' = live \cup {building} /\ building' = NULL
        /\ UNCHANGED <<vars, l1, store, overrun, level, size, i, memsz, exhausted>>
    BY Zenon, <1>1 DEF CreateEnd, Mapped, vars
  <1>3. IInv' /\ JobInv'
    BY Zenon, <1>1, <1>2, NextIInv, EndJob DEF LoadInv
  <1>4. Trans' = Trans
    BY Zenon, <1>2, SameTrans
  <1>5. file \in File /\ elf = elf_alloc_and_parse(elf_fromfilebuffer, header[file])
    BY <1>1 DEF LoadInv, Phase
  <1>6. Complete(header[file]) => ~ FreesNull(elf)
    <2>1. header[file] \in Header
      BY <1>5, JobLoadAssumption
    <2>. QED
      BY Zenon, <1>5, <2>1, ElfParsed
  <1>7. pc' \in {"idle", "wild"} /\ (pc' = "wild" => FreesNull(elf))
    BY <1>1
  <1>8. Phase'
    BY <1>1, <1>2, <1>5, <1>6, <1>7 DEF Phase, LoadsCompleteFiles
  <1>9. Programs'
    BY Zenon, <1>1, <1>2 DEF LoadInv, Programs, Programmed
  <1>10. Loaded'
    <2>1. pc' # "finish"
      BY <1>7
    <2>2. ~ exhausted => \A m \in live' : Contents(m)
      BY Zenon, <1>1, <1>2 DEF LoadInv, Loaded
    <2>. QED
      BY Zenon, <1>1, <1>2, <1>4, <2>1, <2>2 DEF Loaded, Contents
  <1>. QED
    BY Zenon, <1>3, <1>8, <1>9, <1>10 DEF LoadInv

\* The other jobs keep their programs when one is deleted.
LEMMA RemoveLoad ==
    ASSUME LoadInv, NEW m \in Manager, Remove(m)
    PROVE  LoadInv'
  <1>1. pc = "idle" /\ Delete(m) /\ UNCHANGED <<pc, file, elf, mem, program>>
    BY Zenon DEF Remove, load
  <1>2. /\ live' = live \ {m}
        /\ UNCHANGED <<vars, l1, store, overrun, level, building, size, i, memsz, exhausted>>
    BY Zenon, <1>1 DEF Delete, vars
  <1>3. IInv' /\ JobInv'
    BY Zenon, <1>1, <1>2, NextIInv, DeleteJob DEF LoadInv
  <1>4. Trans' = Trans
    BY Zenon, <1>2, SameTrans
  <1>5. Phase'
    BY Zenon, <1>1, <1>2 DEF LoadInv, Phase, LoadsCompleteFiles
  <1>6. Programs'
    BY Zenon, <1>1, <1>2 DEF LoadInv, Programs, Programmed
  <1>7. Loaded'
    BY Zenon, <1>1, <1>2, <1>4 DEF LoadInv, Loaded, Contents
  <1>. QED
    BY Zenon, <1>3, <1>5, <1>6, <1>7 DEF LoadInv

\* Every step keeps tables, jobs and programs in order.
LEMMA NextLoad == LoadInv /\ [LoadNext]_loadVars => LoadInv'
  <1>. SUFFICES ASSUME LoadInv, [LoadNext]_loadVars PROVE LoadInv'
    OBVIOUS
  <1>1. CASE UNCHANGED loadVars
    <2>1. UNCHANGED <<allVars, pc, file, elf, mem, program>>
      BY Zenon, <1>1 DEF loadVars, load
    <2>2. UNCHANGED <<vars, l1, store, live, building, exhausted, memsz, overrun, level, i, size>>
      BY Zenon, <2>1 DEF allVars, vars, jobs
    <2>3. IInv' /\ JobInv'
      BY Zenon, <2>1, <2>2, NextIInv, SameJob DEF LoadInv
    <2>4. Trans' = Trans
      BY Zenon, <2>2, SameTrans
    <2>5. Phase' /\ Programs'
      BY Zenon, <2>1, <2>2 DEF LoadInv, Phase, LoadsCompleteFiles, Programs, Programmed
    <2>6. Loaded'
      BY Zenon, <2>1, <2>2, <2>4 DEF LoadInv, Loaded, Contents
    <2>. QED
      BY Zenon, <2>3, <2>5, <2>6 DEF LoadInv
  <1>. QED
    BY Zenon, <1>1, ReadLoad, ParseLoad, CreateLoad, MapLoad, CopyLoad, FinishLoad, RemoveLoad
       DEF LoadNext, Stopped

\* Tables, jobs and programs are in order in every state of job_create_from_file
\* and job_delete.
THEOREM LoadInvariance == LoadSpec => []LoadInv
  BY InitLoad, NextLoad, PTL DEF LoadSpec

\* What a manager of a job that exists maps, in terms of the MMU's walk.
LEMMA JobMaps ==
    ASSUME LoadInv, NEW m \in live, NEW a \in VA
    PROVE  /\ m \in Manager /\ memsz[m] \in Sizes
           /\ a \in UserRange(need_slots(memsz[m])) =>
                Translate(m, a) \in UserEntry /\ Translate(m, a).user
           /\ a \notin UserRange(need_slots(memsz[m])) =>
                Translate(m, a) = KernelEntry(a) /\ ~ Translate(m, a).user
  <1>1. m \in Manager /\ Filled(m, need_slots(memsz[m]))
    BY Zenon DEF LoadInv, JobInv, JobTypes, Spaces
  <1>2. memsz[m] \in Sizes
    BY Zenon, Headers DEF LoadInv, Programs, Programmed
  <1>3. Trans[m][a] = Translate(m, a)
    BY Zenon, <1>1, SameTrans
  <1>4. IF a \in UserRange(need_slots(memsz[m])) THEN Translate(m, a) \in UserEntry
        ELSE Translate(m, a) = KernelEntry(a)
    BY Zenon, <1>1, <1>3 DEF Filled
  <1>. QED
    BY Zenon, <1>1, <1>2, <1>4, UserEntries

\* No page of memory is in two jobs or twice in one.
THEOREM PagesArePrivate == LoadSpec => []UserPagesPrivate
  <1>1. LoadInv => UserPagesPrivate
    <2>. SUFFICES ASSUME LoadInv, ~ exhausted, NEW m \in live, NEW n \in live,
                         NEW a \in UserMapped(m), NEW b \in UserMapped(n)
                  PROVE  /\ Translate(m, a).to \in UserPage
                         /\ Translate(m, a).to = Translate(n, b).to => m = n /\ a = b
      BY Zenon DEF UserPagesPrivate
    <2>1. a \in VA /\ b \in VA /\ Translate(m, a).user /\ Translate(n, b).user
      BY Zenon DEF UserMapped
    <2>2. /\ Translate(m, a) \in UserEntry /\ Translate(n, b) \in UserEntry
          /\ m \in Manager /\ n \in Manager
      BY Zenon, <2>1, JobMaps
    <2>3. Trans[m][a] = Translate(m, a) /\ Trans[n][b] = Translate(n, b)
      BY Zenon, <2>1, <2>2, SameTrans
    <2>4. Private /\ m \in Owner /\ n \in Owner /\ taken \subseteq UserPage
      BY Zenon DEF LoadInv, JobInv, JobTypes, Owner
    <2>5. Trans[m][a] \in UserEntry /\ Trans[n][b] \in UserEntry
      BY Zenon, <2>2, <2>3
    <2>6. /\ Trans[m][a].to \in taken
          /\ Trans[m][a].to = Trans[n][b].to => m = n /\ a = b
      BY <2>1, <2>4, <2>5 DEF Private
    <2>. QED
      BY Zenon, <2>3, <2>4, <2>6
  <1>. QED
    BY <1>1, LoadInvariance, PTL

\* No mapping of job_create_paging failed: the pages hold program and stack.
THEOREM JobsHaveTheirPages == LoadSpec => []ProgramAndStackMapped
  <1>1. LoadInv => ProgramAndStackMapped
    <2>. SUFFICES ASSUME LoadInv, NEW m \in live
                  PROVE  LET top == JOB_BASE_USER + need_slots(memsz[m])
                         IN  /\ UserMapped(m) = JOB_BASE_USER .. top - 1
                             /\ (top - 1 - JOB_BASE_USER) * blocksize >= memsz[m]
      BY Zenon DEF ProgramAndStackMapped
    <2>. DEFINE n == need_slots(memsz[m])
                top == JOB_BASE_USER + n
    <2>1. JOB_BASE_USER \in VA /\ JOB_BASE_USER \in Nat
      BY JobSpaceAssumption DEF VA
    <2>2. memsz[m] \in Sizes
      BY Zenon, <2>1, JobMaps
    <2>3. memsz[m] \in Nat /\ n \in Nat /\ (n - 1) * blocksize >= memsz[m]
      BY <2>2, Slots, JobSpaceAssumption
    <2>4. (top - 1 - JOB_BASE_USER) = n - 1
      BY <2>1, <2>3
    <2>5. n \in 0 .. n
      BY <2>3
    <2>6. UserRange(n) \subseteq VA
      BY Zenon, <2>2, <2>5, UserPages
    <2>7. UserMapped(m) = UserRange(n)
      BY Zenon, <2>6, JobMaps DEF UserMapped
    <2>8. UserRange(n) = JOB_BASE_USER .. top - 1
      BY <2>1, <2>3 DEF UserRange
    <2>. QED
      BY Zenon, <2>3, <2>4, <2>7, <2>8
  <1>. QED
    BY <1>1, LoadInvariance, PTL

\* The kernel's two GB are mapped in every job, for the kernel.
THEOREM KernelIsInEveryJob == LoadSpec => []KernelInEveryJob
  <1>1. LoadInv => KernelInEveryJob
    <2>. SUFFICES ASSUME LoadInv, NEW m \in live, NEW a \in VA, l1_offset(a) \in {0, 1}
                  PROVE  Translate(m, a) = KernelEntry(a)
      BY Zenon DEF KernelInEveryJob
    <2>. DEFINE n == need_slots(memsz[m])
    <2>1. memsz[m] \in Sizes
      BY Zenon, JobMaps
    <2>2. n \in 0 .. n
      <3>1. n \in Nat
        BY <2>1, Slots, JobSpaceAssumption
      <3>. HIDE DEF n
      <3>. QED
        BY <3>1
    <2>3. a \notin UserRange(n)
      <3>1. KernelEntry(a) # Invalid
        BY Zenon, OtherEntries DEF KernelEntry
      <3>. QED
        BY Zenon, <2>1, <2>2, <3>1, UserPages
    <2>. QED
      BY Zenon, <2>3, JobMaps
  <1>. QED
    BY <1>1, LoadInvariance, PTL

\* A job finds its program at JOB_BASE_USER, whatever was loaded after it.
THEOREM ProgramsAreLoaded == LoadSpec => []ProgramIsLoaded
  <1>1. LoadInv => ProgramIsLoaded
    <2>. SUFFICES ASSUME LoadInv, ~ exhausted, NEW m \in live,
                         NEW k \in 0 .. header[program[m]].p_filesz - 1
                  PROVE  mem[Translate(m, JOB_BASE_USER + k \div blocksize).to][k % blocksize]
                           = <<program[m], header[program[m]].p_offset + k>>
      BY Zenon DEF ProgramIsLoaded
    <2>. DEFINE f == program[m]
    <2>1. Contents(m) /\ m \in Manager /\ f \in File /\ header[f].magic
      BY Zenon DEF LoadInv, Loaded, Programs, Programmed, JobInv, JobTypes
    <2>2. /\ header[f].p_filesz \in Nat /\ header[f].p_memsz \in Nat
          /\ header[f].p_filesz <= header[f].p_memsz /\ header[f].p_memsz \in Sizes
      BY Zenon, <2>1, Headers
    <2>3. k \in 0 .. header[f].p_memsz - 1
      BY <2>2
    <2>4. JOB_BASE_USER + k \div blocksize \in VA
      BY Zenon, <2>2, <2>3, BytePage
    <2>5. Trans[m][JOB_BASE_USER + k \div blocksize]
            = Translate(m, JOB_BASE_USER + k \div blocksize)
      BY Zenon, <2>1, <2>4, SameTrans
    <2>. QED
      BY Zenon, <2>1, <2>5 DEF Contents
  <1>. QED
    BY <1>1, LoadInvariance, PTL

\* job_create_from_file uses a NULL pointer of the parser for incomplete files only.
THEOREM CompleteFilesLoad == LoadSpec => []LoadsCompleteFiles
  <1>1. LoadInv => LoadsCompleteFiles
    BY Zenon DEF LoadInv, Phase
  <1>. QED
    BY <1>1, LoadInvariance, PTL
=============================================================================
