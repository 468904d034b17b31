--------------------------- MODULE JobFilesProofs ---------------------------
(* Proofs about JobFiles: descriptors are private, the search of job_add_file  *)
(* ends inside the array and every open file can be reached, for any number of *)
(* jobs, inodes and descriptors; and that the calls of module Files, with the  *)
(* files of the volume behind them, take no other step.  Then that programs    *)
(* get the bytes of the files they open, and spawn loads the whole file: from  *)
(* what fat_load_data copies, over the names that fat_get_entry_by_file        *)
(* compares, to an invariant of the inodes, for volumes of any geometry.       *)
EXTENDS Files, TLAPS

\* job_add_file fills the first free slot and counts every call, so the slots
\* from open_files_count on are free: what the search and job_get_file rely on.
FreeFromCount ==
    \A j \in alive : \A k \in Slot :
        k >= open_files_count[j] => open_files[j][k] = NULL

IInv == TypeOK /\ FreeFromCount /\ DescriptorsPrivate

\* With room in the count, the first free slot is not behind the count.
LEMMA FirstFreeWithinCount ==
    ASSUME TypeOK, FreeFromCount, NEW j \in alive, NEW fd \in Slot,
           open_files_count[j] < JOB_MAX_FILES, FirstFree(j, fd)
    PROVE  fd <= open_files_count[j]
  <1>1. open_files_count[j] \in 0 .. JOB_MAX_FILES
    BY Zenon DEF TypeOK
  <1>2. open_files_count[j] \in Slot
    BY <1>1, JobFilesAssumption DEF Slot
  <1>3. open_files[j][open_files_count[j]] = NULL
    BY <1>1, <1>2 DEF FreeFromCount
  <1>. QED
    BY <1>1, <1>2, <1>3, JobFilesAssumption DEF FirstFree, Slot

\* The initial state: no job, so nothing to show but the types.
LEMMA InitIInv == Init => IInv
  <1>. SUFFICES ASSUME Init PROVE IInv
    OBVIOUS
  <1>1. TypeOK
    BY JobFilesAssumption DEF Init, TypeOK, Slot
  <1>. QED
    BY Zenon, <1>1 DEF Init, IInv, FreeFromCount, DescriptorsPrivate

\* spawn takes an inode that no descriptor has, or none.
LEMMA SpawnOpenIInv ==
    ASSUME IInv, NEW inode \in Inode \cup {NULL}, spawn_open(inode) PROVE IInv'
  <1>. USE JobFilesAssumption DEF IInv, spawn_open, fs_allocate_inode
  <1>1. TypeOK'
    BY Zenon DEF TypeOK
  <1>2. FreeFromCount'
    BY Zenon DEF FreeFromCount
  <1>3. DescriptorsPrivate'
    BY DEF DescriptorsPrivate, TypeOK
  <1>. QED
    BY Zenon, <1>1, <1>2, <1>3

\* The inode that spawn closes is no descriptor's, and the new job has none.
LEMMA SpawnEndIInv ==
    ASSUME IInv, NEW i \in Job, spawn_end(i) PROVE IInv'
  <1>. USE JobFilesAssumption DEF IInv, spawn_end, job_create
  <1>1. TypeOK'
    BY DEF TypeOK, Slot
  <1>2. /\ alive' = alive \cup {i} /\ i \notin alive
        /\ \A j \in alive : /\ open_files'[j] = open_files[j]
                            /\ open_files_count'[j] = open_files_count[j]
        /\ \A k \in Slot : open_files'[i][k] = NULL
    BY DEF TypeOK
  <1>3. FreeFromCount'
    BY ZenonT(40), <1>2 DEF FreeFromCount
  <1>4. DescriptorsPrivate'
    BY <1>2 DEF DescriptorsPrivate, TypeOK
  <1>. QED
    BY Zenon, <1>1, <1>3, <1>4

\* job_delete leaves the inodes and descriptors of the others alone.
LEMMA DeleteIInv ==
    ASSUME IInv, NEW i \in Job, job_delete(i) PROVE IInv'
  BY DEF IInv, TypeOK, FreeFromCount, DescriptorsPrivate, job_delete

\* open: the inode is new, and its slot is one that the count now covers.
LEMMA OpenIInv ==
    ASSUME IInv, NEW i \in Job, NEW inode \in Inode \cup {NULL}, NEW fd \in Slot \cup {-1},
           open(i, inode, fd)
    PROVE  IInv'
  <1>. USE JobFilesAssumption DEF IInv
  <1>1. CASE open_files_count[i] >= JOB_MAX_FILES
    <2>1. UNCHANGED <<alive, loading, open_files, open_files_count>> /\ inodes \subseteq inodes'
      BY <1>1 DEF open, job_add_file, fs_allocate_inode, TypeOK
    <2>2. inodes' \subseteq Inode
      BY DEF open, fs_allocate_inode, TypeOK
    <2>. QED
      BY <2>1, <2>2 DEF TypeOK, FreeFromCount, DescriptorsPrivate
  <1>2. CASE open_files_count[i] < JOB_MAX_FILES
    <2>1. /\ i \in alive /\ loading = NULL /\ UNCHANGED <<alive, loading>>
          /\ fd \in Slot /\ FirstFree(i, fd)
          /\ open_files' = [open_files EXCEPT ![i][fd] = inode]
          /\ open_files_count' = [open_files_count EXCEPT ![i] = @ + 1]
          /\ inodes' \subseteq Inode /\ inodes \subseteq inodes'
          /\ inode # NULL => inode \in inodes' \ inodes
      BY <1>2 DEF open, job_add_file, fs_allocate_inode, TypeOK
    <2>2. open_files_count[i] \in 0 .. JOB_MAX_FILES
      BY <2>1 DEF TypeOK
    <2>3. TypeOK'
      BY <1>2, <2>1, <2>2 DEF TypeOK, Slot
    <2>4. \A j \in alive, k \in Slot :
             open_files'[j][k] = IF j = i /\ k = fd THEN inode ELSE open_files[j][k]
      BY <2>1 DEF TypeOK
    <2>5. fd <= open_files_count[i]
      BY Zenon, <1>2, <2>1, FirstFreeWithinCount
    <2>6. FreeFromCount'
      <3>. SUFFICES ASSUME NEW j \in alive, NEW k \in Slot, k >= open_files_count'[j]
                    PROVE  open_files'[j][k] = NULL
        BY <2>1 DEF FreeFromCount
      <3>1. CASE j = i
        BY <3>1, <2>1, <2>2, <2>4, <2>5 DEF FreeFromCount, TypeOK, Slot
      <3>2. CASE j # i
        BY Zenon, <3>2, <2>1, <2>4 DEF FreeFromCount, TypeOK
      <3>. QED
        BY <3>1, <3>2
    <2>7. DescriptorsPrivate'
      BY <2>1, <2>4 DEF DescriptorsPrivate, TypeOK
    <2>. QED
      BY Zenon, <2>3, <2>6, <2>7
  <1>. QED
    BY <1>1, <1>2 DEF TypeOK

\* Every call keeps the invariant.
LEMMA NextIInv == IInv /\ [Next]_vars => IInv'
  <1>. SUFFICES ASSUME IInv, [Next]_vars PROVE IInv'
    OBVIOUS
  <1>1. CASE Next
    BY Zenon, <1>1, SpawnOpenIInv, SpawnEndIInv, DeleteIInv, OpenIInv DEF Next
  <1>2. CASE UNCHANGED vars
    BY <1>2 DEF vars, IInv, TypeOK, FreeFromCount, DescriptorsPrivate
  <1>. QED
    BY <1>1, <1>2

\* The inductive invariant of job_add_file, spawn and job_delete.
THEOREM Invariance == Spec => []IInv
  BY InitIInv, NextIInv, PTL DEF Spec

\* Descriptors share no inode, and spawn closes none of theirs.
THEOREM DescriptorsStayPrivate == Spec => []DescriptorsPrivate
  <1>1. IInv => DescriptorsPrivate
    BY Zenon DEF IInv
  <1>. QED
    BY <1>1, Invariance, PTL

\* job_add_file's search finds a slot before the end of open_files.
THEOREM SearchEnds == Spec => []SearchEndsInArray
  <1>1. IInv => SearchEndsInArray
    <2>. SUFFICES ASSUME IInv, NEW j \in alive, open_files_count[j] < JOB_MAX_FILES
                  PROVE  \E fd \in Slot : open_files[j][fd] = NULL
      BY DEF SearchEndsInArray
    <2>1. open_files_count[j] \in 0 .. JOB_MAX_FILES
      BY DEF IInv, TypeOK
    <2>2. open_files_count[j] \in Slot
      BY <2>1, JobFilesAssumption DEF Slot
    <2>. QED
      BY <2>1, <2>2 DEF IInv, FreeFromCount
  <1>. QED
    BY <1>1, Invariance, PTL

\* job_get_file accepts every descriptor that holds an inode.
THEOREM FilesStayReachable == Spec => []OpenFilesReachable
  <1>1. IInv => OpenFilesReachable
    BY JobFilesAssumption
       DEF IInv, TypeOK, FreeFromCount, OpenFilesReachable, job_get_file, Slot
  <1>. QED
    BY <1>1, Invariance, PTL

\* What the system calls of module Files do to descriptors and inodes is what
\* module JobFiles says.
THEOREM CallsUseDescriptors == FilesSpec => Spec
  <1>1. FilesInit => Init
    BY DEF FilesInit
  <1>2. FilesNext => [Next]_vars
    <2>. SUFFICES ASSUME FilesNext PROVE [Next]_vars
      OBVIOUS
    <2>1. CASE Mount \/ SpawnSize \/ SpawnRead \/ Stop
      BY <2>1 DEF Mount, SpawnSize, SpawnRead, Stop, allVars
    <2>2. ASSUME NEW filename \in Filename, SysSpawn(filename) PROVE Next
      BY <2>2 DEF SysSpawn, Next
    <2>3. ASSUME NEW j \in Job, SpawnEnd(j) \/ Delete(j) PROVE Next
      BY Zenon, <2>3 DEF SpawnEnd, Delete, Next
    <2>4. ASSUME NEW j \in Job, NEW filename \in Filename, SysOpen(j, filename) PROVE Next
      BY <2>4 DEF SysOpen, Next
    <2>5. ASSUME NEW j \in Job, NEW fd \in -1 .. JOB_MAX_FILES, SysGet(j, fd)
          PROVE UNCHANGED vars
      BY <2>5 DEF SysGet
    <2>. QED
      BY ZenonT(40), <2>1, <2>2, <2>3, <2>4, <2>5 DEF FilesNext
  <1>3. UNCHANGED allVars => UNCHANGED vars
    BY DEF allVars
  <1>. QED
    BY <1>1, <1>2, <1>3, PTL DEF FilesSpec, Spec

\* Hence programs that open, get and spawn files keep their descriptors private and
\* reach every file they have open.
THEOREM CallsKeepDescriptors ==
    FilesSpec => [](DescriptorsPrivate /\ SearchEndsInArray /\ OpenFilesReachable)
  BY CallsUseDescriptors, DescriptorsStayPrivate, SearchEnds, FilesStayReachable, PTL

-----------------------------------------------------------------------------
(* Reading the volume.                                                       *)

\* Quotient and remainder.
LEMMA Division ==
    ASSUME NEW a \in Nat, NEW d \in Nat \ {0}
    PROVE  /\ a \div d \in Nat /\ a % d \in 0 .. d - 1
           /\ a = d * (a \div d) + (a % d)
  OBVIOUS

\* A quotient is determined by its remainder being small.
LEMMA Quotient ==
    ASSUME NEW q \in Nat, NEW d \in Nat \ {0}, NEW r \in 0 .. d - 1
    PROVE  (d * q + r) \div d = q /\ (d * q + r) % d = r
  OBVIOUS

\* The array s holds the n bytes of the device from address x on.
Bytes(s, n, x) == s \in Seq(Nat) /\ Len(s) = n /\ \A k \in 1 .. n : s[k] = x + k - 1

\* An array that is given byte by byte.
LEMMA BytesByByte ==
    ASSUME NEW s, NEW n \in Nat, NEW x \in Nat,
           s = [k \in 1 .. n |-> s[k]], \A k \in 1 .. n : s[k] = x + k - 1
    PROVE  Bytes(s, n, x)
  <1>1. s \in [1 .. n -> Nat]
    OBVIOUS
  <1>. QED
    BY <1>1 DEF Bytes

\* What a concatenation of two arrays has at an index.
LEMMA Joined ==
    ASSUME NEW s \in Seq(Nat), NEW t \in Seq(Nat)
    PROVE  /\ s \o t \in Seq(Nat) /\ Len(s \o t) = Len(s) + Len(t)
           /\ \A k \in 1 .. Len(s) : (s \o t)[k] = s[k]
           /\ \A k \in 1 .. Len(t) : (s \o t)[Len(s) + k] = t[k]
  OBVIOUS

\* What is copied behind an array.
LEMMA BytesJoined ==
    ASSUME NEW s, NEW t, NEW a \in Nat, NEW b \in Nat, NEW x \in Nat, NEW y \in Nat,
           Bytes(s, a, x), Bytes(t, b, y), y = x + a
    PROVE  Bytes(s \o t, a + b, x)
  <1>. DEFINE u == s \o t
  <1>1. /\ u \in Seq(Nat) /\ Len(u) = a + b
        /\ \A k \in 1 .. a : u[k] = s[k]
        /\ \A k \in 1 .. b : u[a + k] = t[k]
    <2>1. s \in Seq(Nat) /\ Len(s) = a /\ t \in Seq(Nat) /\ Len(t) = b
      BY DEF Bytes
    <2>. QED
      BY Zenon, <2>1, Joined
  <1>. HIDE DEF u
  <1>2. \A k \in 1 .. a : s[k] = x + k - 1
    BY DEF Bytes
  <1>3. \A k \in 1 .. b : t[k] = y + k - 1
    BY DEF Bytes
  <1>4. ASSUME NEW k \in 1 .. a + b PROVE u[k] = x + k - 1
    <2>1. CASE k <= a
      BY <2>1, <1>1, <1>2
    <2>2. CASE k > a
      <3>1. k - a \in 1 .. b /\ a + (k - a) = k
        BY <2>2
      <3>2. u[a + (k - a)] = y + (k - a) - 1
        BY <3>1, <1>1, <1>3
      <3>. QED
        BY <3>1, <3>2
    <2>. QED
      BY <2>1, <2>2
  <1>. QED
    BY <1>1, <1>4 DEF Bytes, u

\* What is copied from the middle of an array.
LEMMA BytesOfPart ==
    ASSUME NEW s, NEW n \in Nat, NEW x \in Nat, Bytes(s, n, x),
           NEW lo \in Nat \ {0}, NEW hi \in Nat, lo <= hi + 1, hi <= n,
           NEW l, l = hi + 1 - lo, NEW y, y = x + lo - 1
    PROVE  Bytes(SubSeq(s, lo, hi), l, y)
  <1>1. /\ SubSeq(s, lo, hi) \in Seq(Nat) /\ Len(SubSeq(s, lo, hi)) = l
        /\ \A i \in 1 .. l : SubSeq(s, lo, hi)[i] = s[lo + i - 1]
    BY DEF Bytes
  <1>2. \A i \in 1 .. l : lo + i - 1 \in 1 .. n
    OBVIOUS
  <1>. QED
    BY <1>1, <1>2 DEF Bytes

\* A sector.
LEMMA BytesOfSector ==
    ASSUME NEW s \in Nat
    PROVE  Bytes(Fs!Sector(s), SECTOR_SIZE, s * SECTOR_SIZE)
  <1>1. SECTOR_SIZE \in Nat /\ s * SECTOR_SIZE \in Nat
    BY FilesAssumption
  <1>2. Fs!Sector(s) = [k \in 1 .. SECTOR_SIZE |-> Fs!Sector(s)[k]]
        /\ \A k \in 1 .. SECTOR_SIZE : Fs!Sector(s)[k] = s * SECTOR_SIZE + k - 1
    BY DEF Fs!Sector
  <1>. QED
    BY <1>1, <1>2, BytesByByte

\* The loop of fat_load_data: sectors that follow each other give bytes that do.
LEMMA Consecutive ==
    ASSUME NEW a \in Nat, NEW j \in Nat
    PROVE  Fs!Sector(a + j \div SECTOR_SIZE)[(j % SECTOR_SIZE) + 1] = SECTOR_SIZE * a + j
  <1>1. SECTOR_SIZE \in Nat \ {0}
    BY FilesAssumption
  <1>2. /\ j \div SECTOR_SIZE \in Nat /\ j % SECTOR_SIZE \in 0 .. SECTOR_SIZE - 1
        /\ j = SECTOR_SIZE * (j \div SECTOR_SIZE) + (j % SECTOR_SIZE)
    BY <1>1, Division
  <1>3. (j % SECTOR_SIZE) + 1 \in 1 .. SECTOR_SIZE
    BY <1>1, <1>2
  <1>4. \A s : \A k \in 1 .. SECTOR_SIZE : Fs!Sector(s)[k] = s * SECTOR_SIZE + k - 1
    BY DEF Fs!Sector
  <1>5. Fs!Sector(a + j \div SECTOR_SIZE)[(j % SECTOR_SIZE) + 1]
          = (a + j \div SECTOR_SIZE) * SECTOR_SIZE + ((j % SECTOR_SIZE) + 1) - 1
    BY <1>3, <1>4
  <1>. QED
    BY <1>1, <1>2, <1>5

\* How many sectors fat_load_data reads, and where the parts that it copies end: a
\* bytes of the first sector, m of the middle ones, c of the last.
LEMMA PartsCover ==
    ASSUME NEW S \in Nat \ {0}, NEW sec \in Nat, NEW off \in 0 .. S - 1, NEW n \in Nat,
           NEW whole \in Nat, n <= S * whole, n > S * (whole - 1),
           NEW cnt, cnt = whole + (IF off = 0 THEN 0 ELSE 1)
    PROVE  /\ cnt \in Nat /\ S - off \in Nat
           /\ cnt < 2 => n <= S - off
           /\ cnt >= 2 =>
                /\ S * (cnt - 2) \in Nat
                /\ S * (sec + 1) = S * sec + off + (S - off)
                /\ (sec + cnt - 1) * S = S * sec + off + (S - off) + S * (cnt - 2)
                /\ n <= (S - off) + S * (cnt - 2) + (IF off # 0 THEN off ELSE S)
  <1>1. CASE off = 0
    BY <1>1
  <1>2. CASE off # 0
    BY <1>2
  <1>. QED
    BY <1>1, <1>2

\* fat_load_data copies the n bytes from offset on, wherever sectors begin, and
\* perhaps some more.
LEMMA Loaded ==
    ASSUME NEW offset \in Nat, NEW n \in Nat
    PROVE  \E l \in Nat : l >= n /\ Bytes(Fs!fat_load_data(offset, n), l, offset)
  <1>. DEFINE S == SECTOR_SIZE
              sec == offset \div S
              off == offset % S
              cnt == Fs!sector_count(offset, n)
              a == S - off
              m == S * (cnt - 2)
              c == IF off # 0 THEN off ELSE S
              whole == n \div S + (IF n % S = 0 THEN 0 ELSE 1)
              first == SubSeq(Fs!Sector(sec), off + 1, S)
              middle == [i \in 1 .. S * (cnt - 2) |->
                           Fs!Sector(sec + 1 + (i - 1) \div S)[((i - 1) % S) + 1]]
              last == Fs!LastPart(offset, n)
  <1>1. S \in Nat \ {0}
    BY FilesAssumption
  <1>2. sec \in Nat /\ off \in 0 .. S - 1 /\ offset = S * sec + off
    BY <1>1, Division
  <1>3. whole \in Nat /\ n <= S * whole /\ n > S * (whole - 1)
    <2>1. n \div S \in Nat /\ n % S \in 0 .. S - 1 /\ n = S * (n \div S) + (n % S)
      BY <1>1, Division
    <2>. QED
      BY <1>1, <2>1
  <1>4. cnt = whole + (IF off = 0 THEN 0 ELSE 1)
    BY DEF Fs!sector_count
  <1>5. last = SubSeq(Fs!Sector(sec + cnt - 1), 1, c)
    BY DEF Fs!LastPart
  <1>6. Fs!fat_load_data(offset, n) = IF cnt < 2 THEN first ELSE first \o middle \o last
    BY Zenon DEF Fs!fat_load_data
  <1>7. \A i \in 1 .. m : middle[i] = Fs!Sector(sec + 1 + (i - 1) \div S)[((i - 1) % S) + 1]
    OBVIOUS
  <1>8. middle = [i \in 1 .. m |-> middle[i]]
    OBVIOUS
  <1>. HIDE DEF sec, off, cnt, whole, middle, last
  <1>9. /\ cnt \in Nat /\ a \in Nat
        /\ cnt < 2 => n <= a
        /\ cnt >= 2 => /\ m \in Nat
                       /\ S * (sec + 1) = offset + a
                       /\ (sec + cnt - 1) * S = offset + a + m
                       /\ n <= a + m + c
    BY <1>1, <1>2, <1>3, <1>4, PartsCover
  <1>10. Bytes(first, a, offset)
    <2>1. Bytes(Fs!Sector(sec), S, sec * S) /\ sec * S \in Nat /\ sec * S + off = offset
      BY <1>1, <1>2, BytesOfSector
    <2>2. off + 1 \in Nat \ {0} /\ off + 1 <= S + 1 /\ S <= S /\ S \in Nat
          /\ a = S + 1 - (off + 1) /\ offset = sec * S + (off + 1) - 1
      BY <1>1, <1>2, <2>1
    <2>. HIDE DEF a, S
    <2>. QED
      BY Zenon, <2>1, <2>2, BytesOfPart
  <1>11. CASE cnt < 2
    BY <1>6, <1>9, <1>10, <1>11
  <1>12. CASE cnt >= 2
    <2>. HIDE DEF first, a, m, c, S
    <2>1. Bytes(middle, m, offset + a)
      <3>1. ASSUME NEW i \in 1 .. m PROVE middle[i] = (offset + a) + i - 1
        <4>1. i - 1 \in Nat /\ sec + 1 \in Nat
          BY <1>2, <1>9, <1>12
        <4>2. middle[i] = S * (sec + 1) + (i - 1)
          BY <1>7, <4>1, Consecutive DEF S
        <4>. QED
          BY <1>9, <1>12, <4>1, <4>2
      <3>. QED
        BY <1>8, <1>9, <1>12, <3>1, BytesByByte
    <2>2. Bytes(last, c, offset + a + m)
      <3>1. sec + cnt - 1 \in Nat
        BY <1>2, <1>9, <1>12
      <3>2. Bytes(Fs!Sector(sec + cnt - 1), S, offset + a + m)
        BY <1>9, <1>12, <3>1, BytesOfSector DEF S
      <3>3. c \in Nat /\ c <= S /\ offset + a + m \in Nat
        BY <1>1, <1>2, <1>9, <1>12 DEF c
      <3>. DEFINE x == offset + a + m
      <3>4. 1 \in Nat \ {0} /\ 1 <= c + 1 /\ c = c + 1 - 1 /\ x = x + 1 - 1 /\ S \in Nat
        BY <1>1, <3>3
      <3>. HIDE DEF x
      <3>. QED
        BY Zenon, <1>5, <3>2, <3>3, <3>4, BytesOfPart DEF x
    <2>3. m \in Nat /\ a \in Nat /\ c \in Nat
      BY <1>1, <1>2, <1>9, <1>12 DEF c
    <2>4. Bytes(first \o middle, a + m, offset)
      BY <1>10, <2>1, <2>3, BytesJoined
    <2>5. Bytes(first \o middle \o last, a + m + c, offset)
      BY <2>2, <2>3, <2>4, BytesJoined
    <2>. QED
      BY <1>6, <1>9, <1>12, <2>3, <2>5
  <1>. QED
    BY <1>9, <1>11, <1>12

\* Where the parts of the volume are.
LEMMA Layout ==
    /\ Fs!fat_offset \in Nat /\ Fs!dir_entry_offset \in Nat /\ Fs!data_offset \in Nat
    /\ Fs!fat_size_bytes \in Nat /\ Fs!dir_entry_size_bytes \in Nat
    /\ Fs!fat_get_cluster_size \in Nat \ {0}
    /\ Fs!dir_entry_size_bytes = 32 * possible_root_entries
  <1>1. /\ SECTOR_SIZE \in Nat /\ bytes_per_sector \in Nat \ {0}
        /\ sectors_per_cluster \in Nat \ {0}
        /\ reserved_sectors \in Nat /\ sectors_per_fat \in Nat /\ fat_copies \in Nat
        /\ possible_root_entries \in Nat /\ small_sectors \in Nat /\ large_sectors \in Nat
    BY FilesAssumption
  <1>2. Fs!fat_offset \in Nat /\ Fs!fat_size_bytes \in Nat
    BY <1>1 DEF Fs!fat_offset, Fs!fat_size_bytes
  <1>3. Fs!dir_entry_offset \in Nat
    <2>1. sectors_per_fat * fat_copies * bytes_per_sector \in Nat
      BY <1>1
    <2>. QED
      BY <1>2, <2>1 DEF Fs!dir_entry_offset
  <1>4. Fs!dir_entry_size_bytes \in Nat /\ Fs!dir_entry_size_bytes = 32 * possible_root_entries
    BY <1>1 DEF Fs!dir_entry_size_bytes, Fs!DirEntrySize
  <1>5. Fs!fat_get_cluster_size \in Nat \ {0}
    BY <1>1 DEF Fs!fat_get_cluster_size
  <1>. QED
    BY <1>2, <1>3, <1>4, <1>5 DEF Fs!data_offset

\* The element of an array that was loaded from its start is the one on the volume.
LEMMA ElementLoaded ==
    ASSUME NEW offset \in Nat, NEW n \in Nat, NEW size \in Nat \ {0}, NEW k \in Nat,
           size * k + size <= n
    PROVE  Fs!Element(Fs!fat_load_data(offset, n), offset, size, k) = k
  <1>. DEFINE loaded == Fs!fat_load_data(offset, n)
              m == size * k
              h == size * (k + 1)
              bytes == SubSeq(loaded, m + 1, h)
  <1>1. PICK l \in Nat : l >= n /\ Bytes(loaded, l, offset)
    BY Loaded
  <1>2. m \in Nat /\ h \in Nat /\ h = m + size /\ h <= n
    OBVIOUS
  <1>. HIDE DEF loaded, m, h
  <1>3. Bytes(bytes, size, offset + m)
    <2>1. /\ m + 1 \in Nat \ {0} /\ m + 1 <= h + 1 /\ h <= l
          /\ size = h + 1 - (m + 1) /\ offset + m = offset + (m + 1) - 1
      BY <1>1, <1>2
    <2>. QED
      BY Zenon, <1>1, <1>2, <2>1, BytesOfPart
  <1>. HIDE DEF bytes
  <1>4. bytes[1] - offset = m
    BY <1>2, <1>3 DEF Bytes
  <1>5. m \div size = k
    <2>1. (size * k + 0) \div size = k
      BY Quotient
    <2>. QED
      BY <2>1 DEF m
  <1>6. bytes = [b \in 1 .. size |-> offset + m + b - 1]
    BY <1>3 DEF Bytes
  <1>. QED
    BY <1>4, <1>5, <1>6 DEF Fs!Element, loaded, bytes, m, h

\* What fat_load_table leaves in memory is the FAT of the volume.
LEMMA TableLoaded ==
    ASSUME NEW F, F = [c \in Cluster \cup {0, 1} |-> F[c]]
    PROVE  Fs!fat_load_table(F) = F
  <1>. DEFINE loaded == Fs!fat_load_data(Fs!fat_offset, Fs!fat_size_bytes)
  <1>1. \A c \in Cluster \cup {0, 1} : Fs!Element(loaded, Fs!fat_offset, 2, c) = c
    <2>. SUFFICES ASSUME NEW c \in Cluster \cup {0, 1}
                  PROVE  Fs!Element(loaded, Fs!fat_offset, 2, c) = c
      OBVIOUS
    <2>1. c \in Nat /\ 2 * c + 2 <= Fs!fat_size_bytes /\ 2 \in Nat \ {0}
      BY FilesAssumption
    <2>. QED
      BY <2>1, Layout, ElementLoaded
  <1>2. DOMAIN F = Cluster \cup {0, 1}
    OBVIOUS
  <1>. QED
    BY Zenon, <1>1, <1>2 DEF Fs!fat_load_table

\* What fat_load_entries leaves in memory is the directory of the volume.
LEMMA EntriesLoaded ==
    ASSUME NEW E, E = [f \in 1 .. possible_root_entries |-> E[f]]
    PROVE  Fs!fat_load_entries(E) = E
  <1>. DEFINE loaded == Fs!fat_load_data(Fs!dir_entry_offset, Fs!dir_entry_size_bytes)
  <1>1. \A i \in 1 .. possible_root_entries :
          Fs!Element(loaded, Fs!dir_entry_offset, 32, i - 1) + 1 = i
    <2>. SUFFICES ASSUME NEW i \in 1 .. possible_root_entries
                  PROVE  Fs!Element(loaded, Fs!dir_entry_offset, 32, i - 1) + 1 = i
      OBVIOUS
    <2>0. possible_root_entries \in Nat
      BY FilesAssumption
    <2>1. i - 1 \in Nat /\ 32 * (i - 1) + 32 <= Fs!dir_entry_size_bytes /\ 32 \in Nat \ {0}
      BY <2>0, Layout
    <2>2. Fs!Element(loaded, Fs!dir_entry_offset, 32, i - 1) = i - 1
      BY <2>1, Layout, ElementLoaded
    <2>. QED
      BY <2>1, <2>2
  <1>. QED
    BY Zenon, <1>1 DEF Fs!fat_load_entries, Fs!DirEntrySize

\* Where the parts of BUFFERSIZE bytes are in the clusters of a file: inside one.
LEMMA Aligned ==
    ASSUME NEW idx \in Nat, NEW k \in 1 .. BUFFERSIZE
    PROVE  LET cs == Fs!fat_get_cluster_size
               p == BUFFERSIZE * idx
           IN  /\ p \in Nat /\ p \div cs \in Nat /\ p % cs \in Nat
               /\ (p % cs) + BUFFERSIZE <= cs
               /\ (p + (k - 1)) \div cs = p \div cs
               /\ (p + (k - 1)) % cs = (p % cs) + (k - 1)
  <1>. DEFINE cs == Fs!fat_get_cluster_size
              p == BUFFERSIZE * idx
              B == BUFFERSIZE
              q == cs \div B
              u == idx \div q
              w == idx % q
  <1>1. B \in Nat \ {0} /\ cs \in Nat \ {0} /\ cs % B = 0
    BY FilesAssumption, Layout
  <1>. HIDE DEF cs
  <1>2. cs = B * q /\ q \in Nat \ {0}
    <2>1. q \in Nat /\ cs = B * q + 0
      BY <1>1, Division
    <2>2. q # 0
      BY <1>1, <2>1
    <2>. QED
      BY <2>1, <2>2, <1>1
  <1>. HIDE DEF q
  <1>3. u \in Nat /\ w \in 0 .. q - 1 /\ idx = q * u + w
    BY <1>2, Division
  <1>. HIDE DEF u, w
  <1>4. B * w \in Nat /\ B * w + B <= cs
    <2>1. w + 1 <= q /\ w \in Nat
      BY <1>2, <1>3
    <2>2. B * (w + 1) <= B * q
      BY <1>1, <1>2, <2>1
    <2>. QED
      BY <1>1, <1>2, <2>1, <2>2
  <1>5. p = cs * u + B * w
    <2>1. p = B * (q * u + w)
      BY <1>3
    <2>2. B * (q * u + w) = (B * q) * u + B * w
      BY <1>1, <1>2, <1>3
    <2>. QED
      BY <1>2, <2>1, <2>2
  <1>. DEFINE m == B * w
              c == cs * u
  <1>6. m \in 0 .. cs - 1 /\ m + (k - 1) \in 0 .. cs - 1 /\ c \in Nat
    BY <1>1, <1>2, <1>3, <1>4
  <1>7. ASSUME NEW r \in 0 .. cs - 1 PROVE (c + r) \div cs = u /\ (c + r) % cs = r
    BY <1>1, <1>3, Quotient
  <1>8. p = c + m /\ m + B <= cs
    BY <1>4, <1>5
  <1>. HIDE DEF m, c, p
  <1>9. p + (k - 1) = c + (m + (k - 1))
    BY <1>6, <1>8, <1>1
  <1>10. (c + m) \div cs = u /\ (c + m) % cs = m
    BY <1>6, <1>7
  <1>11. (c + (m + (k - 1))) \div cs = u /\ (c + (m + (k - 1))) % cs = m + (k - 1)
    BY <1>6, <1>7
  <1>12. /\ p \in Nat /\ p \div cs \in Nat /\ p % cs \in Nat
         /\ (p % cs) + B <= cs
         /\ (p + (k - 1)) \div cs = p \div cs
         /\ (p + (k - 1)) % cs = (p % cs) + (k - 1)
    BY <1>1, <1>3, <1>6, <1>8, <1>9, <1>10, <1>11
  <1>. QED
    BY Zenon, <1>12 DEF p, cs

\* fatfs_get's read of one part of a file: every byte is the one of the file.
LEMMA PartRead ==
    ASSUME NEW F, NEW entry, NEW old, NEW idx \in Nat, NEW k \in 1 .. BUFFERSIZE,
           Fs!NthCluster(F, entry.starting_cluster,
                         (BUFFERSIZE * idx) \div Fs!fat_get_cluster_size) \in Cluster
    PROVE  /\ Fs!FileByte(F, entry, BUFFERSIZE * idx + (k - 1)) \in Nat
           /\ Fs!fat_read_entry_offset_size(F, entry, old, BUFFERSIZE * idx, BUFFERSIZE)[k]
                = Fs!FileByte(F, entry, BUFFERSIZE * idx + (k - 1))
  <1>. DEFINE cs == Fs!fat_get_cluster_size
              p == BUFFERSIZE * idx
              c == Fs!NthCluster(F, entry.starting_cluster, p \div cs)
              at == sectors_per_cluster * bytes_per_sector * (c - 2)
              loaded == Fs!fat_load_data(Fs!data_offset + at, cs)
              m == p % cs
  <1>1. /\ cs \in Nat \ {0} /\ BUFFERSIZE \in Nat \ {0} /\ Fs!data_offset \in Nat
        /\ c \in Nat /\ c >= 2
    BY FilesAssumption, Layout
  <1>2. /\ p \in Nat /\ m \in Nat /\ m + BUFFERSIZE <= cs
        /\ (p + (k - 1)) \div cs = p \div cs /\ (p + (k - 1)) % cs = m + (k - 1)
    BY Zenon, Aligned
  <1>3. at \in Nat /\ at = cs * (c - 2)
    <2>1. sectors_per_cluster \in Nat /\ bytes_per_sector \in Nat /\ c - 2 \in Nat
      <3>1. sectors_per_cluster \in Nat /\ bytes_per_sector \in Nat
        BY FilesAssumption
      <3>. HIDE DEF c
      <3>2. c - 2 \in Nat
        BY <1>1
      <3>. QED
        BY Zenon, <3>1, <3>2
    <2>2. cs = bytes_per_sector * sectors_per_cluster
      BY DEF Fs!fat_get_cluster_size
    <2>. HIDE DEF cs, c
    <2>. QED
      BY <2>1, <2>2
  <1>4. Fs!FileByte(F, entry, p + (k - 1)) = Fs!data_offset + (m + (k - 1)) + cs * (c - 2)
    BY Zenon, <1>2 DEF Fs!FileByte
  <1>. HIDE DEF cs, c, at, m
  <1>5. PICK l \in Nat : l >= cs /\ Bytes(loaded, l, Fs!data_offset + at)
    <2>1. Fs!data_offset + at \in Nat /\ cs \in Nat
      BY <1>1, <1>3
    <2>. QED
      BY Zenon, <2>1, Loaded
  <1>6. loaded[m + k] = Fs!data_offset + at + (m + k) - 1
    <2>1. m + k \in 1 .. l
      BY <1>1, <1>2, <1>5
    <2>. HIDE DEF loaded
    <2>. QED
      BY <2>1, <1>5 DEF Bytes
  <1>7. Fs!fat_read_entry_offset_size(F, entry, old, p, BUFFERSIZE)[k] = loaded[m + k]
    <2>1. Fs!MinOf(BUFFERSIZE, cs - m) = BUFFERSIZE
      BY <1>1, <1>2 DEF Fs!MinOf
    <2>2. k <= BUFFERSIZE
      BY <1>1
    <2>. QED
      BY Zenon, <2>1, <2>2 DEF Fs!fat_read_entry_offset_size, Fs!fat_read_cluster,
                             cs, c, at, m
  <1>. HIDE DEF loaded, p
  <1>8. loaded[m + k] = Fs!data_offset + (m + (k - 1)) + cs * (c - 2)
    <2>1. loaded[m + k] = Fs!data_offset + (m + (k - 1)) + at
      BY <1>1, <1>2, <1>3, <1>6
    <2>. QED
      BY Zenon, <2>1, <1>3
  <1>9. Fs!data_offset + (m + (k - 1)) + at \in Nat
    BY <1>1, <1>2, <1>3
  <1>. QED
    BY Zenon, <1>3, <1>4, <1>7, <1>8, <1>9 DEF p

-----------------------------------------------------------------------------
(* Looking up a name.                                                        *)

\* Only a dot is a dot in upper case.
LEMMA UpperDot ==
    ASSUME NEW c \in Nat
    PROVE  Fs!fat_char_get_uppercase(c) \in Nat
           /\ (Fs!fat_char_get_uppercase(c) = 46 <=> c = 46)
  BY DEF Fs!fat_char_get_uppercase

\* The array t has the l characters of s in upper case, then blanks.
Pads(t, s, l) ==
    (\A k \in 1 .. l : t[k] = Fs!fat_char_get_uppercase(s[k])) /\ BlankFrom(t, l + 1)

\* fat_uppercase_and_pad of a name that fits: its characters in upper case, then
\* blanks.
LEMMA Padded ==
    ASSUME NEW dest, NEW dim \in Nat, NEW s \in Seq(Nat), NEW l \in Nat, l = Len(s), l <= dim,
           NEW t \in [1 .. dim -> Nat]
    PROVE  t = Fs!fat_uppercase_and_pad(dest, s, dim) <=> Pads(t, s, l)
  <1>. DEFINE up(k) == Fs!fat_char_get_uppercase(s[k])
              u == [k \in 1 .. dim |-> IF k <= l THEN up(k) ELSE 32]
  <1>1. Fs!fat_uppercase_and_pad(dest, s, dim) = u
    BY DEF Fs!fat_uppercase_and_pad
  <1>2. t = u <=> \A k \in 1 .. dim : t[k] = IF k <= l THEN up(k) ELSE 32
    BY Zenon
  <1>. HIDE DEF up
  <1>3. ASSUME \A k \in 1 .. dim : t[k] = IF k <= l THEN up(k) ELSE 32
        PROVE  /\ \A k \in 1 .. l : t[k] = up(k)
               /\ \A k \in 1 .. dim : k >= l + 1 => t[k] = 32
    BY <1>3
  <1>4. ASSUME \A k \in 1 .. l : t[k] = up(k),
               \A k \in 1 .. dim : k >= l + 1 => t[k] = 32
        PROVE  \A k \in 1 .. dim : t[k] = IF k <= l THEN up(k) ELSE 32
    BY <1>4
  <1>5. BlankFrom(t, l + 1) <=> \A k \in 1 .. dim : k >= l + 1 => t[k] = 32
    BY DEF BlankFrom
  <1>. QED
    BY Zenon, <1>1, <1>2, <1>3, <1>4, <1>5 DEF up, Pads

\* The first n elements of an array.
LEMMA Prefix ==
    ASSUME NEW s \in Seq(Nat), NEW n \in Nat, n <= Len(s)
    PROVE  /\ SubSeq(s, 1, n) \in Seq(Nat) /\ Len(SubSeq(s, 1, n)) = n
           /\ \A k \in 1 .. n : SubSeq(s, 1, n)[k] = s[k]
  OBVIOUS

\* The elements of an array behind index d.
LEMMA Suffix ==
    ASSUME NEW s \in Seq(Nat), NEW l \in Nat, Len(s) = l, NEW d \in 1 .. l
    PROVE  /\ SubSeq(s, d + 1, l) \in Seq(Nat) /\ Len(SubSeq(s, d + 1, l)) = l - d
           /\ \A k \in 1 .. l - d : SubSeq(s, d + 1, l)[k] = s[d + k]
  <1>1. SubSeq(s, d + 1, l) \in Seq(Nat)
    OBVIOUS
  <1>2. Len(SubSeq(s, d + 1, l)) = l - d
    OBVIOUS
  <1>3. \A k \in 1 .. l - d : SubSeq(s, d + 1, l)[k] = s[d + k]
    OBVIOUS
  <1>. QED
    BY Zenon, <1>1, <1>2, <1>3

\* Arrays that agree everywhere are the same.
LEMMA SameArray ==
    ASSUME NEW s \in Seq(Nat), NEW t \in Seq(Nat), Len(s) = Len(t),
           \A k \in 1 .. Len(s) : s[k] = t[k]
    PROVE  s = t
  OBVIOUS

\* The array w has the elements of s, a dot, and the elements of t.
Dots(w, s, n, t, e) ==
    /\ w \in Seq(Nat) /\ Len(w) = n + 1 + e /\ w[n + 1] = 46
    /\ \A k \in 1 .. n : w[k] = s[k]
    /\ \A k \in 1 .. e : w[n + 1 + k] = t[k]

\* A dot behind an array.
LEMMA DotBehind ==
    ASSUME NEW s \in Seq(Nat)
    PROVE  /\ s \o <<46>> \in Seq(Nat) /\ Len(s \o <<46>>) = Len(s) + 1
           /\ (s \o <<46>>)[Len(s) + 1] = 46
           /\ \A k \in 1 .. Len(s) : (s \o <<46>>)[k] = s[k]
  OBVIOUS

\* A dot between two arrays.
LEMMA DotBetween ==
    ASSUME NEW s \in Seq(Nat), NEW t \in Seq(Nat), NEW n \in Nat, n = Len(s),
           NEW e \in Nat, e = Len(t)
    PROVE  Dots(s \o <<46>> \o t, s, n, t, e)
  <1>. DEFINE v == s \o <<46>>
              w == v \o t
  <1>1. /\ v \in Seq(Nat) /\ Len(v) = n + 1 /\ v[n + 1] = 46
        /\ \A k \in 1 .. n : v[k] = s[k]
    BY DotBehind
  <1>. HIDE DEF v
  <1>2. /\ w \in Seq(Nat) /\ Len(w) = Len(v) + Len(t)
        /\ \A k \in 1 .. Len(v) : w[k] = v[k]
        /\ \A k \in 1 .. Len(t) : w[Len(v) + k] = t[k]
    <2>1. v \in Seq(Nat)
      BY <1>1
    <2>. QED
      BY Zenon, <2>1, Joined
  <1>. HIDE DEF w
  <1>3. w \in Seq(Nat) /\ Len(w) = n + 1 + e
    BY <1>1, <1>2
  <1>4. \A k \in 1 .. n + 1 : w[k] = v[k]
    BY Zenon, <1>1, <1>2
  <1>5. \A k \in 1 .. e : w[n + 1 + k] = t[k]
    BY Zenon, <1>1, <1>2
  <1>6. n + 1 \in 1 .. n + 1 /\ \A k \in 1 .. n : k \in 1 .. n + 1
    OBVIOUS
  <1>7. w[n + 1] = 46 /\ \A k \in 1 .. n : w[k] = s[k]
    BY Zenon, <1>1, <1>4, <1>6
  <1>8. Dots(w, s, n, t, e)
    BY Zenon, <1>3, <1>5, <1>7 DEF Dots
  <1>. QED
    BY Zenon, <1>8 DEF w, v

\* An array with such elements is that one.
LEMMA DotsDetermine ==
    ASSUME NEW s, NEW t, NEW n \in Nat, NEW e \in Nat, NEW u, NEW w,
           Dots(u, s, n, t, e), Dots(w, s, n, t, e)
    PROVE  u = w
  <1>1. ASSUME NEW k \in 1 .. n + 1 + e PROVE u[k] = w[k]
    <2>1. CASE k \in 1 .. n
      BY Zenon, <2>1 DEF Dots
    <2>2. CASE k = n + 1
      BY Zenon, <2>2 DEF Dots
    <2>3. CASE k > n + 1
      <3>. DEFINE i == k - (n + 1)
      <3>1. i \in 1 .. e /\ n + 1 + i = k
        BY <2>3
      <3>. HIDE DEF i
      <3>2. u[n + 1 + i] = t[i]
        BY Zenon, <3>1 DEF Dots
      <3>3. w[n + 1 + i] = t[i]
        BY Zenon, <3>1 DEF Dots
      <3>. QED
        BY Zenon, <3>1, <3>2, <3>3
    <2>. QED
      BY <2>1, <2>2, <2>3
  <1>2. u \in Seq(Nat) /\ w \in Seq(Nat) /\ Len(u) = n + 1 + e /\ Len(w) = n + 1 + e
    BY Zenon DEF Dots
  <1>. QED
    BY Zenon, <1>1, <1>2, SameArray

\* When a sequence is the first n of N, a dot, and the first e of E.
LEMMA Dotted ==
    ASSUME NEW u, NEW N \in Seq(Nat), NEW E \in Seq(Nat),
           NEW n \in Nat, n <= Len(N), NEW e \in Nat, e <= Len(E)
    PROVE  u = SubSeq(N, 1, n) \o <<46>> \o SubSeq(E, 1, e) <=> Dots(u, N, n, E, e)
  <1>. DEFINE s == SubSeq(N, 1, n)
              t == SubSeq(E, 1, e)
              w == s \o <<46>> \o t
  <1>1. s \in Seq(Nat) /\ Len(s) = n /\ \A k \in 1 .. n : s[k] = N[k]
    BY Prefix
  <1>2. t \in Seq(Nat) /\ Len(t) = e /\ \A k \in 1 .. e : t[k] = E[k]
    BY Prefix
  <1>. HIDE DEF s, t
  <1>3. Dots(w, s, n, t, e)
    BY DotBetween, <1>1, <1>2
  <1>. HIDE DEF w
  <1>4. Dots(w, N, n, E, e)
    BY Zenon, <1>1, <1>2, <1>3 DEF Dots
  <1>5. Dots(u, N, n, E, e) => u = w
    BY Zenon, <1>4, DotsDetermine
  <1>. QED
    BY Zenon, <1>4, <1>5 DEF w, s, t

\* A filename with its dot at d, of l characters.
OneDot(filename, l, d) ==
    /\ filename \in Seq(Nat) /\ Len(filename) = l
    /\ \A i \in 1 .. l : filename[i] = 46 <=> i = d

\* The name of entry f is filename, which has n characters before its dot and e
\* after it: character by character.
IsName(f, filename, n, e) ==
    /\ n <= FILENAME /\ e <= EXTENSION
    /\ \A k \in 1 .. n : DirName[f].filename[k] = Fs!fat_char_get_uppercase(filename[k])
    /\ BlankFrom(DirName[f].filename, n + 1)
    /\ \A k \in 1 .. e :
         DirName[f].extension[k] = Fs!fat_char_get_uppercase(filename[n + 1 + k])
    /\ BlankFrom(DirName[f].extension, e + 1)

\* A filename in upper case, character by character.
LEMMA UpperOf ==
    ASSUME NEW filename \in Seq(Nat), NEW l, l = Len(filename)
    PROVE  /\ Upper(filename) \in Seq(Nat) /\ Len(Upper(filename)) = l
           /\ \A k \in 1 .. l : Upper(filename)[k] = Fs!fat_char_get_uppercase(filename[k])
  <1>1. DOMAIN filename = 1 .. l /\ l \in Nat /\ \A k \in 1 .. l : filename[k] \in Nat
    OBVIOUS
  <1>2. Upper(filename) = [k \in 1 .. l |-> Fs!fat_char_get_uppercase(filename[k])]
    BY Zenon, <1>1 DEF Upper
  <1>3. Upper(filename) \in [1 .. l -> Nat]
    <2>1. \A k \in 1 .. l : Fs!fat_char_get_uppercase(filename[k]) \in Nat
      BY Zenon, <1>1, UpperDot
    <2>. QED
      BY Zenon, <1>2, <2>1
  <1>4. Upper(filename) \in Seq(Nat) /\ Len(Upper(filename)) = l
    BY <1>1, <1>3
  <1>. QED
    BY Zenon, <1>2, <1>4

\* What the directory holds for an entry.
LEMMA NameTypes ==
    /\ FILENAME \in Nat /\ EXTENSION \in Nat /\ possible_root_entries \in Nat
    /\ Fs!File = 1 .. possible_root_entries
    /\ \A f \in Fs!File : /\ f \in Nat \ {0}
                          /\ DirName[f].filename \in [1 .. FILENAME -> Nat]
                          /\ DirName[f].extension \in [1 .. EXTENSION -> Nat]
  <1>1. /\ FILENAME \in Nat /\ EXTENSION \in Nat /\ possible_root_entries \in Nat
        /\ DirName \in [1 .. possible_root_entries ->
                      [filename : [1 .. FILENAME -> Nat], extension : [1 .. EXTENSION -> Nat]]]
    BY FilesAssumption
  <1>2. Fs!File = 1 .. possible_root_entries
    BY Zenon, <1>1 DEF Fs!File
  <1>3. ASSUME NEW f \in Fs!File
        PROVE  DirName[f] \in [filename : [1 .. FILENAME -> Nat],
                               extension : [1 .. EXTENSION -> Nat]]
    BY Zenon, <1>1, <1>2
  <1>4. ASSUME NEW f \in Fs!File
        PROVE  /\ DirName[f].filename \in [1 .. FILENAME -> Nat]
               /\ DirName[f].extension \in [1 .. EXTENSION -> Nat]
    BY Zenon, <1>3
  <1>5. \A f \in Fs!File : f \in Nat \ {0}
    BY <1>2
  <1>. QED
    BY Zenon, <1>1, <1>2, <1>4, <1>5

\* Match is the comparison of characters at the only dot.
LEMMA MatchByCharacter ==
    ASSUME NEW filename, NEW l \in Nat, NEW d \in 1 .. l, OneDot(filename, l, d),
           NEW n, n = d - 1, NEW e, e = l - d, NEW f \in Fs!File
    PROVE  f \in Match(filename) <=> IsName(f, filename, n, e)
  <1>. DEFINE N == DirName[f].filename
              E == DirName[f].extension
              u == Upper(filename)
              up(k) == Fs!fat_char_get_uppercase(filename[k])
              has(m, i) == /\ u = SubSeq(N, 1, m) \o <<46>> \o SubSeq(E, 1, i)
                           /\ BlankFrom(N, m + 1) /\ BlankFrom(E, i + 1)
  <1>1. FILENAME \in Nat /\ EXTENSION \in Nat
    BY NameTypes
  <1>2. N \in Seq(Nat) /\ Len(N) = FILENAME /\ E \in Seq(Nat) /\ Len(E) = EXTENSION
    <2>1. N \in [1 .. FILENAME -> Nat] /\ E \in [1 .. EXTENSION -> Nat]
      BY Zenon, NameTypes
    <2>. HIDE DEF N, E
    <2>. QED
      BY <1>1, <2>1
  <1>3. f \in Match(filename) <=> \E m \in 0 .. FILENAME, i \in 0 .. EXTENSION : has(m, i)
    BY Zenon DEF Match, Fs!File
  <1>4. u \in Seq(Nat) /\ Len(u) = l /\ \A k \in 1 .. l : u[k] = up(k)
    BY Zenon, UpperOf DEF OneDot
  <1>5. \A k \in 1 .. l : up(k) = 46 <=> k = d
    <2>1. \A k \in 1 .. l : filename[k] \in Nat
      BY DEF OneDot
    <2>. QED
      BY Zenon, <2>1, UpperDot DEF OneDot
  <1>6. n \in Nat /\ e \in Nat /\ n + 1 = d /\ n + 1 + e = l
    OBVIOUS
  <1>. HIDE DEF N, E, u, up
  <1>7. ASSUME NEW m \in 0 .. FILENAME, NEW i \in 0 .. EXTENSION
        PROVE  has(m, i) <=> /\ l = m + 1 + i /\ u[m + 1] = 46
                             /\ \A k \in 1 .. m : u[k] = N[k]
                             /\ \A k \in 1 .. i : u[m + 1 + k] = E[k]
                             /\ BlankFrom(N, m + 1) /\ BlankFrom(E, i + 1)
    <2>1. m \in Nat /\ m <= Len(N) /\ i \in Nat /\ i <= Len(E)
      BY <1>1, <1>2
    <2>2. u = SubSeq(N, 1, m) \o <<46>> \o SubSeq(E, 1, i) <=> Dots(u, N, m, E, i)
      BY Dotted, <1>2, <2>1
    <2>3. Dots(u, N, m, E, i) <=> /\ l = m + 1 + i /\ u[m + 1] = 46
                                  /\ \A k \in 1 .. m : u[k] = N[k]
                                  /\ \A k \in 1 .. i : u[m + 1 + k] = E[k]
      BY Zenon, <1>4 DEF Dots
    <2>. QED
      BY Zenon, <2>2, <2>3
  <1>. HIDE DEF has
  <1>8. ASSUME NEW m \in 0 .. FILENAME, NEW i \in 0 .. EXTENSION, has(m, i)
        PROVE  m = n /\ i = e
    <2>1. l = m + 1 + i /\ u[m + 1] = 46
      BY Zenon, <1>7, <1>8
    <2>2. m + 1 \in 1 .. l /\ m \in Nat /\ i \in Nat
      BY <1>1, <2>1
    <2>3. m + 1 = d
      BY Zenon, <2>1, <2>2, <1>4, <1>5
    <2>. QED
      BY <2>1, <2>2, <2>3
  <1>9. u[n + 1] = 46
    <2>1. n + 1 = d
      BY Zenon, <1>6
    <2>2. u[d] = up(d) /\ up(d) = 46
      BY Zenon, <1>4, <1>5
    <2>. QED
      BY Zenon, <2>1, <2>2
  <1>10. (\A k \in 1 .. n : u[k] = N[k]) <=> (\A k \in 1 .. n : N[k] = up(k))
    <2>1. \A k \in 1 .. n : k \in 1 .. l
      BY <1>6
    <2>. QED
      BY Zenon, <2>1, <1>4
  <1>11. (\A k \in 1 .. e : u[n + 1 + k] = E[k]) <=> (\A k \in 1 .. e : E[k] = up(n + 1 + k))
    <2>1. \A k \in 1 .. e : n + 1 + k \in 1 .. l
      BY <1>6
    <2>. QED
      BY Zenon, <2>1, <1>4
  <1>12. IsName(f, filename, n, e) <=>
            /\ n <= FILENAME /\ e <= EXTENSION
            /\ \A k \in 1 .. n : N[k] = up(k)
            /\ BlankFrom(N, n + 1)
            /\ \A k \in 1 .. e : E[k] = up(n + 1 + k)
            /\ BlankFrom(E, e + 1)
    BY Zenon DEF IsName, N, E, up
  <1>13. n \in 0 .. FILENAME /\ e \in 0 .. EXTENSION <=> n <= FILENAME /\ e <= EXTENSION
    BY <1>1, <1>6
  <1>14. ASSUME n \in 0 .. FILENAME, e \in 0 .. EXTENSION
         PROVE  has(n, e) <=> /\ \A k \in 1 .. n : N[k] = up(k)
                              /\ \A k \in 1 .. e : E[k] = up(n + 1 + k)
                              /\ BlankFrom(N, n + 1) /\ BlankFrom(E, e + 1)
    BY Zenon, <1>6, <1>7, <1>9, <1>10, <1>11, <1>14
  <1>. QED
    BY Zenon, <1>3, <1>8, <1>12, <1>13, <1>14

\* The names that programs open have one dot, which fatfs_open finds, and no two
\* files.
LEMMA DotOf ==
    ASSUME NEW filename \in Filename
    PROVE  /\ \E l \in Nat : \E d \in 1 .. l : OneDot(filename, l, d) /\ Fs!Dot(filename) = d
           /\ \A f, g \in Match(filename) : f = g
  <1>1. /\ filename \in Seq(Nat)
        /\ \E d \in DOMAIN filename : \A i \in DOMAIN filename : filename[i] = 46 <=> i = d
        /\ \A f, g \in Match(filename) : f = g
    BY Zenon, FilesAssumption
  <1>. DEFINE l == Len(filename)
  <1>2. l \in Nat /\ DOMAIN filename = 1 .. l
    BY <1>1
  <1>. HIDE DEF l
  <1>3. PICK d \in 1 .. l : \A i \in 1 .. l : filename[i] = 46 <=> i = d
    <2>1. PICK d \in DOMAIN filename : \A i \in DOMAIN filename : filename[i] = 46 <=> i = d
      BY Zenon, <1>1
    <2>2. d \in 1 .. l /\ \A i \in 1 .. l : i \in DOMAIN filename
      BY Zenon, <1>2
    <2>3. \A i \in 1 .. l : filename[i] = 46 <=> i = d
      BY Zenon, <2>1, <2>2
    <2>. QED
      BY Zenon, <2>2, <2>3
  <1>. DEFINE P(i) == filename[i] = 46 /\ \A j \in 1 .. i - 1 : filename[j] # 46
  <1>4. P(d)
    <2>1. \A j \in 1 .. d - 1 : j \in 1 .. l /\ j # d
      BY <1>2
    <2>. QED
      BY Zenon, <1>3, <2>1
  <1>5. \A i \in 1 .. l : P(i) => i = d
    BY Zenon, <1>3
  <1>. HIDE DEF P
  <1>6. (CHOOSE i \in 1 .. l : P(i)) = d
    BY Zenon, <1>4, <1>5
  <1>7. Fs!Dot(filename) = d
    BY Zenon, <1>2, <1>6 DEF Fs!Dot, P
  <1>8. OneDot(filename, l, d)
    BY Zenon, <1>1, <1>3 DEF OneDot, l
  <1>. QED
    BY Zenon, <1>1, <1>2, <1>7, <1>8

\* The entries in memory have the names of the directory.
Directory(E) ==
    /\ DOMAIN E = Fs!File
    /\ \A f \in Fs!File : /\ E[f].filename = DirName[f].filename
                          /\ E[f].extension = DirName[f].extension

\* fat_get_entry_by_file compares an entry with what the arrays hold.
Compares(entry, stale, name, ext) ==
    /\ entry.filename = Fs!fat_uppercase_and_pad(stale.filename, name, FILENAME)
    /\ entry.extension = Fs!fat_uppercase_and_pad(stale.extension, ext, EXTENSION)

\* What fat_get_entry_by_file finds is a file of that name.
LEMMA FoundByName ==
    ASSUME NEW filename, NEW l \in Nat, NEW d \in 1 .. l, OneDot(filename, l, d),
           d - 1 <= FILENAME, l - d <= EXTENSION,
           Directory(entries), NEW f \in Fs!File, NEW stale
    PROVE  Compares(entries[f], stale, SubSeq(filename, 1, d - 1), SubSeq(filename, d + 1, l))
             <=> IsName(f, filename, d - 1, l - d)
  <1>. DEFINE n == d - 1
              e == l - d
              name == SubSeq(filename, 1, n)
              ext == SubSeq(filename, d + 1, l)
              N == DirName[f].filename
              X == DirName[f].extension
              up(c) == Fs!fat_char_get_uppercase(c)
  <1>1. n \in Nat /\ e \in Nat /\ n + 1 = d /\ n <= l /\ n <= FILENAME /\ e <= EXTENSION
    OBVIOUS
  <1>2. filename \in Seq(Nat) /\ Len(filename) = l
    BY DEF OneDot
  <1>. HIDE DEF n
  <1>3. name \in Seq(Nat) /\ Len(name) = n /\ \A k \in 1 .. n : name[k] = filename[k]
    BY Zenon, <1>1, <1>2, Prefix
  <1>4. ext \in Seq(Nat) /\ Len(ext) = e /\ \A k \in 1 .. e : ext[k] = filename[n + 1 + k]
    <2>1. ext \in Seq(Nat) /\ Len(ext) = e /\ \A k \in 1 .. e : ext[k] = filename[d + k]
      BY Zenon, <1>2, Suffix
    <2>. QED
      BY Zenon, <1>1, <2>1
  <1>5. /\ FILENAME \in Nat /\ EXTENSION \in Nat
        /\ N \in [1 .. FILENAME -> Nat] /\ X \in [1 .. EXTENSION -> Nat]
    BY Zenon, NameTypes
  <1>6. entries[f].filename = N /\ entries[f].extension = X
    BY Zenon DEF Directory
  <1>. HIDE DEF name, ext, N, X, up, e
  <1>7. N = Fs!fat_uppercase_and_pad(stale.filename, name, FILENAME) <=> Pads(N, name, n)
    <2>1. name \in Seq(Nat) /\ n = Len(name)
      BY Zenon, <1>3
    <2>. QED
      BY Zenon, <1>1, <1>5, <2>1, Padded
  <1>8. X = Fs!fat_uppercase_and_pad(stale.extension, ext, EXTENSION) <=> Pads(X, ext, e)
    <2>1. ext \in Seq(Nat) /\ e = Len(ext)
      BY Zenon, <1>4
    <2>. QED
      BY Zenon, <1>1, <1>5, <2>1, Padded
  <1>9. Pads(N, name, n)
          <=> (\A k \in 1 .. n : N[k] = up(filename[k])) /\ BlankFrom(N, n + 1)
    BY Zenon, <1>3 DEF Pads, up
  <1>10. Pads(X, ext, e)
          <=> (\A k \in 1 .. e : X[k] = up(filename[n + 1 + k])) /\ BlankFrom(X, e + 1)
    BY Zenon, <1>4 DEF Pads, up
  <1>11. IsName(f, filename, n, e) <=>
            /\ \A k \in 1 .. n : N[k] = up(filename[k])
            /\ BlankFrom(N, n + 1)
            /\ \A k \in 1 .. e : X[k] = up(filename[n + 1 + k])
            /\ BlankFrom(X, e + 1)
    BY Zenon, <1>1 DEF IsName, N, X, up
  <1>12. Compares(entries[f], stale, name, ext) <=> Pads(N, name, n) /\ Pads(X, ext, e)
    BY Zenon, <1>6, <1>7, <1>8 DEF Compares
  <1>13. Compares(entries[f], stale, name, ext) <=> IsName(f, filename, n, e)
    BY Zenon, <1>9, <1>10, <1>11, <1>12
  <1>. QED
    BY Zenon, <1>13 DEF n, e, name, ext

\* A name that stands for a file is found, whatever the arrays held before.
LEMMA LookupFinds ==
    ASSUME NEW filename \in Filename, NEW stale, Directory(entries),
           Named(filename) # NoFile
    PROVE  Fs!Lookup(filename, stale) = Named(filename) /\ Named(filename) \in Fs!File
  <1>1. PICK l \in Nat : \E d \in 1 .. l : OneDot(filename, l, d) /\ Fs!Dot(filename) = d
    BY Zenon, DotOf
  <1>2. PICK d \in 1 .. l : OneDot(filename, l, d) /\ Fs!Dot(filename) = d
    BY Zenon, <1>1
  <1>3. PICK f : f \in Match(filename)
    BY Zenon DEF Named
  <1>4. \A g \in Match(filename) : g = f
    BY Zenon, <1>3, DotOf
  <1>5. Named(filename) = f /\ f \in Fs!File
    <2>1. f \in Fs!File
      BY Zenon, <1>3 DEF Match, Fs!File
    <2>2. Match(filename) # {} /\ \A g \in Match(filename) : g = f
      BY Zenon, <1>3, <1>4
    <2>. HIDE DEF Match
    <2>3. (CHOOSE g \in Match(filename) : TRUE) = f
      BY Zenon, <1>3, <1>4
    <2>. QED
      BY Zenon, <2>1, <2>2, <2>3 DEF Named
  <1>. DEFINE name == SubSeq(filename, 1, Fs!Dot(filename) - 1)
              ext == SubSeq(filename, Fs!Dot(filename) + 1, Len(filename))
              found == {i \in DOMAIN entries : Compares(entries[i], stale, name, ext)}
  <1>6. \A g \in Fs!File : g \in Match(filename) <=> IsName(g, filename, d - 1, l - d)
    BY Zenon, <1>2, MatchByCharacter
  <1>7. d - 1 <= FILENAME /\ l - d <= EXTENSION
    BY Zenon, <1>3, <1>5, <1>6 DEF IsName
  <1>8. ASSUME NEW g \in Fs!File
        PROVE  Compares(entries[g], stale, name, ext) <=> g \in Match(filename)
    <2>1. Compares(entries[g], stale, SubSeq(filename, 1, d - 1), SubSeq(filename, d + 1, l))
             <=> IsName(g, filename, d - 1, l - d)
      BY Zenon, <1>2, <1>7, FoundByName
    <2>2. Len(filename) = l /\ Fs!Dot(filename) = d
      BY Zenon, <1>2 DEF OneDot
    <2>. QED
      BY Zenon, <1>6, <2>1, <2>2
  <1>9. DOMAIN entries = Fs!File
    BY Zenon DEF Directory
  <1>. HIDE DEF name, ext
  <1>10. f \in found /\ \A g \in found : g = f
    BY Zenon, <1>3, <1>4, <1>5, <1>8, <1>9
  <1>11. Fs!Lookup(filename, stale)
           = IF found = {} THEN 0 ELSE CHOOSE i \in found : \A j \in found : i <= j
    BY Zenon DEF Fs!Lookup, Fs!fat_get_entry_by_file, name, ext, Compares
  <1>. HIDE DEF found
  <1>12. f <= f
    BY <1>5, NameTypes
  <1>13. (CHOOSE i \in found : \A j \in found : i <= j) = f
    BY Zenon, <1>10, <1>12
  <1>. QED
    BY Zenon, <1>5, <1>10, <1>11, <1>13

\* Every set of numbers has a least one.
LeastNumber == \A S \in SUBSET Nat : S # {} => \E m \in S : \A k \in S : m <= k

\* What fat_get_entry_by_file returns: an entry, or none.
LEMMA LookupType ==
    ASSUME NEW filename, NEW stale, Directory(entries), LeastNumber
    PROVE  Fs!Lookup(filename, stale) \in Fs!File \cup {NoFile}
  <1>. DEFINE name == SubSeq(filename, 1, Fs!Dot(filename) - 1)
              ext == SubSeq(filename, Fs!Dot(filename) + 1, Len(filename))
              found == {i \in DOMAIN entries :
                    /\ entries[i].filename = Fs!fat_uppercase_and_pad(stale.filename, name, FILENAME)
                    /\ entries[i].extension = Fs!fat_uppercase_and_pad(stale.extension, ext, EXTENSION)}
              least == CHOOSE i \in found : \A j \in found : i <= j
  <1>1. Fs!Lookup(filename, stale) = IF found = {} THEN 0 ELSE least
    BY Zenon DEF Fs!Lookup, Fs!fat_get_entry_by_file
  <1>2. found \subseteq Fs!File
    BY Zenon DEF Directory
  <1>. HIDE DEF found
  <1>3. found \in SUBSET Nat
    BY <1>2, NameTypes
  <1>4. found # {} => least \in found
    <2>1. found # {} => \E m \in found : \A k \in found : m <= k
      BY Zenon, <1>3 DEF LeastNumber
    <2>. QED
      BY Zenon, <2>1
  <1>. QED
    BY Zenon, <1>1, <1>2, <1>4 DEF NoFile

-----------------------------------------------------------------------------
(* The invariant of the files that are open.                                 *)

\* A file of the volume, its size, and a byte of it.
SizeOf(f) == disk_entries[f].filesize_bytes
ByteOf(f, position_) == Fs!FileByte(disk_fat, disk_entries[f], position_)

\* The volume is valid: names are the directory's, and the FAT has a cluster for
\* every part of a file.
Volume ==
    /\ disk_fat = [c \in Cluster \cup {0, 1} |-> disk_fat[c]]
    /\ disk_entries = [f \in Fs!File |-> disk_entries[f]]
    /\ \A f \in Fs!File :
         /\ disk_entries[f].filename = DirName[f].filename
         /\ disk_entries[f].extension = DirName[f].extension
         /\ SizeOf(f) \in Nat
         /\ \A n \in Nat : Fs!fat_get_cluster_size * n < SizeOf(f) =>
              Fs!NthCluster(disk_fat, disk_entries[f].starting_cluster, n) \in Cluster

\* What fat_load left in memory is what the volume has; before it nothing is open.
Handle ==
    /\ mounted = "yes" => fat = disk_fat /\ entries = disk_entries
    /\ mounted # "yes" => \A n \in Inode : opened[n] = NULL

FsTypes ==
    /\ opened \in [Inode -> Fs!File \cup {NoFile, NULL}]
    /\ position \in [Inode -> Nat]
    /\ loaded_buffer_index \in [Inode -> Nat \cup {-1}]
    /\ buffer = [n \in Inode |-> buffer[n]]

\* The buffer b holds part i of file f.
Holds(b, i, f) ==
    /\ BUFFERSIZE * i < SizeOf(f)
    /\ \A k \in 1 .. BUFFERSIZE : b[k] = ByteOf(f, BUFFERSIZE * i + (k - 1))

\* An open file is read up to its size, and its buffer holds the part it says.
Reading ==
    \A n \in Inode : opened[n] \in Fs!File =>
        /\ position[n] <= SizeOf(opened[n])
        /\ loaded_buffer_index[n] # -1 => Holds(buffer[n], loaded_buffer_index[n], opened[n])

\* A descriptor is at the file and the position that its program takes it to be at.
AtAsked(n, a) ==
    opened[n] # NULL /\ (a.file # NoFile => opened[n] = a.file /\ position[n] = a.count)
AsAsked ==
    /\ asked \in [Job -> [Slot -> [file : Fs!File \cup {NoFile}, count : Nat]]]
    /\ \A j \in alive, fd \in Slot :
         open_files[j][fd] # NULL => AtAsked(open_files[j][fd], asked[j][fd])

\* What job_create_from_file has read so far is the beginning of the file.
Spawning ==
    /\ image \in Seq(Nat)
    /\ stage \in {"idle", "lost"} => image = <<>> /\ file_size = 0
    /\ stage \notin {"idle", "lost"} =>
         /\ loading \in Inode /\ opened[loading] \in Fs!File
         /\ wanted # NoFile => opened[loading] = wanted
         /\ Len(image) = position[loading]
         /\ \A k \in 1 .. Len(image) : image[k] = ByteOf(opened[loading], k - 1)
         /\ stage = "size" => position[loading] = 0 /\ file_size = 0
         /\ stage # "size" => file_size = SizeOf(opened[loading])
         /\ stage \notin {"size", "read"} => Len(image) = file_size

FInv == Volume /\ Handle /\ FsTypes /\ Reading /\ AsAsked /\ Spawning /\ right = TRUE

\* Numbers of entries are no addresses, and none is 0.
LEMMA FileNumbers ==
    /\ Fs!File \subseteq Nat \ {0} /\ NULL \notin Fs!File /\ NoFile \notin Fs!File
    /\ NoFile # NULL /\ BUFFERSIZE \in Nat \ {0}
  <1>1. NULL \notin Nat /\ BUFFERSIZE \in Nat \ {0}
    BY FilesAssumption
  <1>2. Fs!File \subseteq Nat \ {0}
    BY NameTypes
  <1>3. NoFile \in Nat /\ NoFile \notin Nat \ {0}
    BY DEF NoFile
  <1>. QED
    BY Zenon, <1>1, <1>2, <1>3

\* Nothing changes the volume: its files stay what they are.
LEMMA VolumeStays ==
    ASSUME Volume, UNCHANGED <<disk_fat, disk_entries>>
    PROVE  /\ Volume'
           /\ \A f : SizeOf(f)' = SizeOf(f)
           /\ \A f, x : ByteOf(f, x)' = ByteOf(f, x)
           /\ \A b, i, f : Holds(b, i, f)' <=> Holds(b, i, f)
  <1>1. disk_fat' = disk_fat /\ disk_entries' = disk_entries
    OBVIOUS
  <1>2. \A f : SizeOf(f)' = SizeOf(f)
    BY Zenon, <1>1 DEF SizeOf
  <1>3. \A f, x : ByteOf(f, x)' = ByteOf(f, x)
    BY Zenon, <1>1 DEF ByteOf
  <1>4. \A b, i, f : Holds(b, i, f)' <=> Holds(b, i, f)
    BY Zenon, <1>2, <1>3 DEF Holds
  <1>5. Volume'
    BY <1>1 DEF Volume, SizeOf
  <1>. QED
    BY Zenon, <1>2, <1>3, <1>4, <1>5

\* What is open is of a volume that is mounted, and has the names of the directory.
LEMMA OpenIsMounted ==
    ASSUME Handle, Volume, NEW n \in Inode, opened[n] # NULL
    PROVE  mounted = "yes" /\ fat = disk_fat /\ entries = disk_entries
  BY Zenon DEF Handle

\* The directory that fat_load left in memory has the names of the volume.
LEMMA DirectoryLoaded ==
    ASSUME Handle, Volume, mounted = "yes"
    PROVE  Directory(entries)
  <1>1. entries = disk_entries
    BY Zenon DEF Handle
  <1>2. DOMAIN disk_entries = Fs!File
    BY Zenon DEF Volume
  <1>. QED
    BY Zenon, <1>1, <1>2 DEF Volume, Directory

\* The buffer after fatfs_get made sure that it holds the part of the position.
LEMMA FilledHolds ==
    ASSUME Volume, Handle, FsTypes, Reading, NEW n \in Inode, opened[n] \in Fs!File,
           position[n] < SizeOf(opened[n])
    PROVE  LET i == position[n] \div BUFFERSIZE
           IN  /\ i \in Nat /\ Holds(Fs!Filled(n, i), i, opened[n])
               /\ ByteOf(opened[n], position[n]) \in Nat
               /\ Fs!Filled(n, i)[(position[n] % BUFFERSIZE) + 1]
                    = ByteOf(opened[n], position[n])
  <1>. DEFINE B == BUFFERSIZE
              p == position[n]
              f == opened[n]
              i == p \div B
              r == p % B
              cs == Fs!fat_get_cluster_size
              entry == disk_entries[f]
              read == Fs!fat_read_entry_offset_size(disk_fat, entry, buffer[n], B * i, B)
  <1>1. B \in Nat \ {0} /\ p \in Nat /\ SizeOf(f) \in Nat
    BY Zenon, FileNumbers DEF FsTypes, Volume
  <1>2. i \in Nat /\ r \in 0 .. B - 1 /\ p = B * i + r
    BY Zenon, <1>1, Division
  <1>. HIDE DEF i, r
  <1>3. B * i \in Nat /\ B * i < SizeOf(f)
    <2>1. B * i \in Nat
      BY <1>1, <1>2
    <2>. QED
      BY <1>1, <1>2, <2>1
  <1>4. Fs!NthCluster(disk_fat, entry.starting_cluster, (B * i) \div cs) \in Cluster
    <2>. DEFINE m == B * i
                q == m \div cs
    <2>1. cs \in Nat \ {0}
      BY Layout
    <2>2. q \in Nat /\ m % cs \in 0 .. cs - 1 /\ m = cs * q + (m % cs)
      BY Zenon, <1>3, <2>1, Division
    <2>3. cs * q < SizeOf(f)
      <3>1. cs * q \in Nat
        BY <2>1, <2>2
      <3>. HIDE DEF m, q
      <3>2. m < SizeOf(f)
        BY <1>3 DEF m
      <3>. QED
        BY <1>1, <2>1, <2>2, <3>1, <3>2
    <2>4. f \in Fs!File
      OBVIOUS
    <2>. QED
      BY Zenon, <2>2, <2>3, <2>4 DEF Volume
  <1>5. ASSUME NEW k \in 1 .. B
        PROVE  /\ ByteOf(f, B * i + (k - 1)) \in Nat
               /\ read[k] = ByteOf(f, B * i + (k - 1))
    <2>1. i \in Nat /\ k \in 1 .. BUFFERSIZE
      BY <1>2
    <2>2. Fs!FileByte(disk_fat, entry, BUFFERSIZE * i + (k - 1)) \in Nat
      BY Zenon, <2>1, <1>4, PartRead
    <2>3. read[k] = Fs!FileByte(disk_fat, entry, BUFFERSIZE * i + (k - 1))
      BY <2>1, <1>4, PartRead
    <2>. QED
      BY Zenon, <2>2, <2>3 DEF ByteOf
  <1>6. Holds(Fs!Filled(n, i), i, f)
    <2>1. CASE i = loaded_buffer_index[n]
      <3>1. i # -1
        BY <1>2
      <3>2. Holds(buffer[n], i, f)
        BY Zenon, <2>1, <3>1 DEF Reading
      <3>. QED
        BY Zenon, <2>1, <3>2 DEF Fs!Filled
    <2>2. CASE i # loaded_buffer_index[n]
      <3>1. fat = disk_fat /\ entries = disk_entries
        BY Zenon, FileNumbers, OpenIsMounted
      <3>2. Fs!Filled(n, i) = read
        BY Zenon, <2>2, <3>1 DEF Fs!Filled
      <3>3. Holds(read, i, f)
        BY Zenon, <1>3, <1>5 DEF Holds
      <3>. QED
        BY Zenon, <3>2, <3>3
    <2>. QED
      BY Zenon, <2>1, <2>2
  <1>7. r + 1 \in 1 .. B /\ B * i + ((r + 1) - 1) = p
    <2>. DEFINE m == B * i
    <2>1. m \in Nat /\ p = m + r
      BY <1>1, <1>2
    <2>. HIDE DEF m
    <2>2. r + 1 \in 1 .. B /\ m + ((r + 1) - 1) = p
      BY <1>1, <1>2, <2>1
    <2>. QED
      BY Zenon, <2>2 DEF m
  <1>8. Fs!Filled(n, i)[r + 1] = ByteOf(f, p)
    BY Zenon, <1>6, <1>7 DEF Holds
  <1>9. ByteOf(f, p) \in Nat
    BY Zenon, <1>5, <1>7
  <1>. QED
    BY Zenon, <1>2, <1>6, <1>8, <1>9 DEF i, r

\* Conjuncts of the invariant whose variables a step leaves alone.
LEMMA ReadingStays ==
    ASSUME Volume, Reading, UNCHANGED <<disk_fat, disk_entries>>,
           UNCHANGED <<opened, position, loaded_buffer_index, buffer>>
    PROVE  Reading'
  <1>1. /\ opened' = opened /\ position' = position /\ buffer' = buffer
        /\ loaded_buffer_index' = loaded_buffer_index
    OBVIOUS
  <1>. QED
    BY Zenon, <1>1, VolumeStays DEF Reading

\* A step that opens, reads and deletes nothing keeps what descriptors stand for.
LEMMA AsAskedStays ==
    ASSUME AsAsked, UNCHANGED <<opened, position, alive, open_files, asked>>
    PROVE  AsAsked'
  BY DEF AsAsked, AtAsked

\* And so does what spawn has read.
LEMMA SpawningStays ==
    ASSUME Volume, Spawning, UNCHANGED <<disk_fat, disk_entries>>,
           UNCHANGED <<opened, position, loading, stage, image, file_size, wanted>>
    PROVE  Spawning'
  <1>1. /\ opened' = opened /\ position' = position /\ loading' = loading /\ stage' = stage
        /\ image' = image /\ file_size' = file_size /\ wanted' = wanted
    OBVIOUS
  <1>2. /\ \A f : SizeOf(f)' = SizeOf(f)
        /\ \A f, x : ByteOf(f, x)' = ByteOf(f, x)
    BY Zenon, VolumeStays
  <1>. HIDE DEF SizeOf, ByteOf
  <1>. QED
    BY <1>1, <1>2 DEF Spawning

\* fatfs_createfs, before any file is open.
LEMMA MountFInv ==
    ASSUME IInv, FInv, Mount PROVE FInv'
  <1>1. /\ mounted = "no" /\ mounted' \in {"yes", "lost"}
        /\ disk_fat' = disk_fat /\ disk_entries' = disk_entries
        /\ UNCHANGED <<opened, position, loaded_buffer_index, buffer>>
        /\ UNCHANGED <<alive, open_files, loading, stage, image, file_size, wanted, asked, right>>
    BY DEF Mount, Fs!fatfs_createfs, vars, load, history
  <1>2. Volume'
    BY Zenon, <1>1, VolumeStays DEF FInv
  <1>3. Handle'
    <2>1. \A n \in Inode : opened[n] = NULL
      BY <1>1 DEF FInv, Handle
    <2>2. mounted' = "yes" => fat' = disk_fat /\ entries' = disk_entries
      <3>. SUFFICES ASSUME mounted' = "yes" PROVE fat' = disk_fat /\ entries' = disk_entries
        OBVIOUS
      <3>1. fat' = Fs!fat_load_table(disk_fat) /\ entries' = Fs!fat_load_entries(disk_entries)
        BY DEF Mount, Fs!fatfs_createfs
      <3>2. disk_fat = [c \in Cluster \cup {0, 1} |-> disk_fat[c]]
        BY Zenon DEF FInv, Volume
      <3>3. disk_entries = [f \in 1 .. possible_root_entries |-> disk_entries[f]]
        BY Zenon, NameTypes DEF FInv, Volume
      <3>. QED
        BY Zenon, <3>1, <3>2, <3>3, TableLoaded, EntriesLoaded
    <2>. QED
      BY <1>1, <2>1, <2>2 DEF Handle
  <1>4. FsTypes'
    BY <1>1 DEF FInv, FsTypes
  <1>5. Reading'
    BY <1>1, ReadingStays DEF FInv
  <1>6. AsAsked'
    BY <1>1, AsAskedStays DEF FInv
  <1>7. Spawning'
    BY <1>1, SpawningStays DEF FInv
  <1>. QED
    BY <1>1, <1>2, <1>3, <1>4, <1>5, <1>6, <1>7 DEF FInv

\* What fatfs_open does to an inode: g is the file of that name, if there is one.
Opened(n, g) ==
    /\ mounted = "yes" /\ g \in Fs!File \cup {NoFile}
    /\ opened' = [opened EXCEPT ![n] = g]
    /\ position' = [position EXCEPT ![n] = 0]
    /\ loaded_buffer_index' = [loaded_buffer_index EXCEPT ![n] = -1]
    /\ UNCHANGED <<mounted, disk_fat, disk_entries, fat, entries, buffer>>

\* fatfs_open of a name yields an entry, its own if the name stands for one.
LEMMA OpenFinds ==
    ASSUME FInv, LeastNumber, NEW filename \in Filename, NEW n \in Inode,
           Fs!fatfs_open(filename, n)
    PROVE  \E g : Opened(n, g) /\ (Named(filename) # NoFile => g = Named(filename))
  <1>1. n # NULL
    BY JobFilesAssumption
  <1>2. PICK stale \in Fs!Stale :
          /\ mounted = "yes"
          /\ opened' = [opened EXCEPT ![n] = Fs!Lookup(filename, stale)]
          /\ position' = [position EXCEPT ![n] = 0]
          /\ loaded_buffer_index' = [loaded_buffer_index EXCEPT ![n] = -1]
          /\ UNCHANGED <<Fs!handle, buffer>>
    BY Zenon, <1>1 DEF Fs!fatfs_open
  <1>3. Directory(entries)
    BY Zenon, <1>2, DirectoryLoaded DEF FInv
  <1>4. Fs!Lookup(filename, stale) \in Fs!File \cup {NoFile}
    BY Zenon, <1>3, LookupType
  <1>5. Named(filename) # NoFile => Fs!Lookup(filename, stale) = Named(filename)
    BY Zenon, <1>3, LookupFinds
  <1>6. UNCHANGED <<mounted, disk_fat, disk_entries, fat, entries, buffer>>
    BY <1>2 DEF Fs!handle
  <1>7. Opened(n, Fs!Lookup(filename, stale))
    BY Zenon, <1>2, <1>4, <1>6 DEF Opened
  <1>. QED
    BY Zenon, <1>5, <1>7

\* An open inode is at the first byte, and no other inode is touched.
LEMMA OpenedInv ==
    ASSUME FInv, NEW n \in Inode, NEW g, Opened(n, g)
    PROVE  /\ Volume' /\ Handle' /\ FsTypes' /\ Reading'
           /\ opened'[n] = g /\ position'[n] = 0 /\ g # NULL
           /\ \A m \in Inode : m # n => opened'[m] = opened[m] /\ position'[m] = position[m]
  <1>1. /\ disk_fat' = disk_fat /\ disk_entries' = disk_entries
        /\ mounted = "yes" /\ mounted' = "yes" /\ fat' = fat /\ entries' = entries
        /\ buffer' = buffer
    BY DEF Opened
  <1>2. Volume'
    BY Zenon, <1>1, VolumeStays DEF FInv
  <1>3. Handle'
    BY Zenon, <1>1 DEF FInv, Handle
  <1>4. /\ \A m \in Inode : opened'[m] = IF m = n THEN g ELSE opened[m]
        /\ \A m \in Inode : position'[m] = IF m = n THEN 0 ELSE position[m]
        /\ \A m \in Inode : loaded_buffer_index'[m]
                              = IF m = n THEN -1 ELSE loaded_buffer_index[m]
    BY DEF Opened, FInv, FsTypes
  <1>5. FsTypes'
    BY <1>1 DEF Opened, FInv, FsTypes
  <1>6. Reading'
    <2>. SUFFICES ASSUME NEW m \in Inode, opened'[m] \in Fs!File
                  PROVE  /\ (position[m] <= SizeOf(opened[m]))'
                         /\ (loaded_buffer_index[m] # -1 =>
                               Holds(buffer[m], loaded_buffer_index[m], opened[m]))'
      BY Zenon DEF Reading
    <2>1. /\ SizeOf(opened[m])' = SizeOf(opened'[m])
          /\ Holds(buffer[m], loaded_buffer_index[m], opened[m])'
               <=> Holds(buffer'[m], loaded_buffer_index'[m], opened'[m])
      BY Zenon, <1>1, VolumeStays DEF FInv
    <2>2. CASE m = n
      <3>1. SizeOf(opened'[m]) \in Nat
        BY Zenon DEF FInv, Volume
      <3>. HIDE DEF SizeOf, Holds
      <3>. QED
        BY <1>4, <2>1, <2>2, <3>1
    <2>3. CASE m # n
      BY Zenon, <1>1, <1>4, <2>1, <2>3 DEF FInv, Reading
    <2>. QED
      BY Zenon, <2>2, <2>3
  <1>7. g # NULL
    BY Zenon, FileNumbers DEF Opened
  <1>. QED
    BY Zenon, <1>2, <1>3, <1>4, <1>5, <1>6, <1>7

\* While spawn loads no file, calls of other jobs do not concern it.
LEMMA NotSpawning ==
    ASSUME Spawning, loading = NULL
    PROVE  /\ stage \in {"idle", "lost"} /\ image = <<>> /\ file_size = 0
           /\ UNCHANGED <<stage, image, file_size>> => Spawning'
  <1>1. stage \in {"idle", "lost"}
    BY Zenon, JobFilesAssumption DEF Spawning
  <1>2. image = <<>> /\ file_size = 0 /\ image \in Seq(Nat)
    BY Zenon, <1>1 DEF Spawning
  <1>3. UNCHANGED <<stage, image, file_size>> => Spawning'
    <2>. SUFFICES ASSUME stage' = stage, image' = image, file_size' = file_size PROVE Spawning'
      BY Zenon
    <2>. QED
      BY Zenon, <1>1, <1>2 DEF Spawning
  <1>. QED
    BY Zenon, <1>1, <1>2, <1>3

\* The name that a program opens is a file of the directory, or none.
LEMMA NamedType ==
    ASSUME FInv, mounted = "yes", NEW filename \in Filename
    PROVE  Named(filename) \in Fs!File \cup {NoFile}
  <1>1. Directory(entries)
    BY Zenon, DirectoryLoaded DEF FInv
  <1>. QED
    BY Zenon, <1>1, LookupFinds

\* What open does to descriptors.
NewDescriptor(j, inode, fd) ==
    /\ j \in alive /\ loading = NULL /\ alive' = alive /\ inode \notin inodes
    /\ \A k \in alive, b \in Slot :
         open_files'[k][b] = IF k = j /\ b = fd THEN inode ELSE open_files[k][b]

\* What open does to the descriptors: all but a new one stay.
LEMMA OpenDescriptor ==
    ASSUME IInv, NEW j \in Job, NEW inode \in Inode \cup {NULL}, NEW fd \in Slot \cup {-1},
           open(j, inode, fd)
    PROVE  NewDescriptor(j, inode, fd)
  <1>1. j \in alive /\ loading = NULL /\ alive' = alive /\ inode \notin inodes
    BY JobFilesAssumption DEF open, fs_allocate_inode, IInv, TypeOK
  <1>2. CASE open_files' = open_files /\ fd = -1
    <2>1. -1 \notin Slot
      BY JobFilesAssumption DEF Slot
    <2>. QED
      BY Zenon, <1>1, <1>2, <2>1 DEF NewDescriptor
  <1>3. CASE open_files' = [open_files EXCEPT ![j][fd] = inode] /\ fd \in Slot
    BY <1>1, <1>3 DEF IInv, TypeOK, NewDescriptor
  <1>. QED
    BY Zenon, <1>2, <1>3 DEF open, job_add_file

\* exceptions_internal_open: the descriptor is at the first byte of the file that
\* was asked for, and those of other inodes are where they were.
LEMMA SysOpenFInv ==
    ASSUME IInv, FInv, LeastNumber, NEW j \in Job, NEW filename \in Filename,
           SysOpen(j, filename)
    PROVE  FInv'
  <1>1. PICK inode \in Inode \cup {NULL}, fd \in Slot \cup {-1} :
          /\ open(j, inode, fd) /\ Fs!fatfs_open(filename, inode)
          /\ asked' = IF fd = -1 THEN asked
                      ELSE [asked EXCEPT ![j][fd] = [file |-> Named(filename), count |-> 0]]
    BY Zenon DEF SysOpen
  <1>2. UNCHANGED <<stage, image, file_size>> /\ right' = right
    BY DEF SysOpen, load
  <1>3. /\ j \in alive /\ loading = NULL /\ alive' = alive /\ inode \notin inodes
        /\ \A k \in alive, b \in Slot :
             open_files'[k][b] = IF k = j /\ b = fd THEN inode ELSE open_files[k][b]
    <2>1. NewDescriptor(j, inode, fd)
      BY Zenon, <1>1, OpenDescriptor
    <2>. QED
      BY Zenon, <2>1 DEF NewDescriptor
  <1>4. mounted = "yes"
    BY Zenon, <1>1 DEF Fs!fatfs_open
  <1>5. Spawning'
    BY Zenon, <1>2, <1>3, NotSpawning DEF FInv
  <1>. DEFINE a == [file |-> Named(filename), count |-> 0]
  <1>6. a \in [file : Fs!File \cup {NoFile}, count : Nat]
        /\ a.file = Named(filename) /\ a.count = 0
    <2>1. Named(filename) \in Fs!File \cup {NoFile} /\ 0 \in Nat
      BY <1>4, NamedType
    <2>. QED
      BY Zenon, <2>1
  <1>7. -1 \notin Slot
    BY JobFilesAssumption DEF Slot
  <1>8. /\ asked' \in [Job -> [Slot -> [file : Fs!File \cup {NoFile}, count : Nat]]]
        /\ \A k \in Job, b \in Slot : asked'[k][b] = IF k = j /\ b = fd THEN a ELSE asked[k][b]
    <2>. HIDE DEF a
    <2>1. asked \in [Job -> [Slot -> [file : Fs!File \cup {NoFile}, count : Nat]]]
      BY Zenon DEF FInv, AsAsked
    <2>2. CASE fd = -1
      BY Zenon, <1>1, <1>7, <2>1, <2>2
    <2>3. CASE fd # -1
      <3>1. asked' = [asked EXCEPT ![j][fd] = a] /\ fd \in Slot
        BY Zenon, <1>1, <2>3 DEF a
      <3>. DEFINE R == [file : Fs!File \cup {NoFile}, count : Nat]
      <3>2. a \in R /\ asked \in [Job -> [Slot -> R]]
        BY Zenon, <1>6, <2>1
      <3>. HIDE DEF R
      <3>3. /\ asked' \in [Job -> [Slot -> R]]
            /\ \A k \in Job, b \in Slot :
                 asked'[k][b] = IF k = j /\ b = fd THEN a ELSE asked[k][b]
        BY <3>1, <3>2
      <3>. QED
        BY Zenon, <3>3 DEF R
    <2>. QED
      BY Zenon, <2>2, <2>3
  <1>. HIDE DEF a
  <1>9. alive \subseteq Job
    BY Zenon DEF IInv, TypeOK
  <1>10. CASE inode = NULL
    <2>1. /\ UNCHANGED <<mounted, disk_fat, disk_entries, fat, entries>>
          /\ UNCHANGED <<opened, position, loaded_buffer_index, buffer>>
      BY <1>1, <1>10 DEF Fs!fatfs_open, Fs!fsVars, Fs!handle
    <2>2. Volume'
      BY Zenon, <2>1, VolumeStays DEF FInv
    <2>3. Handle' /\ FsTypes'
      BY <2>1 DEF FInv, Handle, FsTypes
    <2>4. Reading'
      BY <2>1, ReadingStays DEF FInv
    <2>5. AsAsked'
      <3>1. opened' = opened /\ position' = position
        BY <2>1
      <3>2. ASSUME NEW k \in alive, NEW b \in Slot, open_files'[k][b] # NULL
            PROVE  AtAsked(open_files[k][b], asked[k][b])'
        <4>1. open_files'[k][b] = open_files[k][b] /\ asked'[k][b] = asked[k][b]
          BY Zenon, <1>3, <1>8, <1>9, <1>10, <3>2
        <4>2. AtAsked(open_files[k][b], asked[k][b])
          BY Zenon, <3>2, <4>1 DEF FInv, AsAsked
        <4>. QED
          BY Zenon, <3>1, <4>1, <4>2 DEF AtAsked
      <3>. QED
        BY Zenon, <1>3, <1>8, <3>2 DEF AsAsked
    <2>. QED
      BY Zenon, <1>2, <1>5, <2>2, <2>3, <2>4, <2>5 DEF FInv
  <1>11. CASE inode \in Inode
    <2>1. PICK g : Opened(inode, g) /\ (Named(filename) # NoFile => g = Named(filename))
      BY Zenon, <1>1, <1>11, OpenFinds
    <2>2. /\ Volume' /\ Handle' /\ FsTypes' /\ Reading'
          /\ opened'[inode] = g /\ position'[inode] = 0 /\ g # NULL
          /\ \A m \in Inode : m # inode => opened'[m] = opened[m] /\ position'[m] = position[m]
      BY Zenon, <1>11, <2>1, OpenedInv
    <2>3. AsAsked'
      <3>1. ASSUME NEW k \in alive, NEW b \in Slot, open_files'[k][b] # NULL
            PROVE  AtAsked(open_files[k][b], asked[k][b])'
        <4>1. CASE k = j /\ b = fd
          <5>1. open_files'[k][b] = inode /\ asked'[k][b] = a
            BY Zenon, <1>3, <1>8, <1>9, <4>1
          <5>. QED
            BY Zenon, <1>6, <2>1, <2>2, <5>1 DEF AtAsked
        <4>2. CASE ~ (k = j /\ b = fd)
          <5>1. open_files'[k][b] = open_files[k][b] /\ asked'[k][b] = asked[k][b]
            BY Zenon, <1>3, <1>8, <1>9, <4>2
          <5>2. AtAsked(open_files[k][b], asked[k][b])
            BY Zenon, <3>1, <5>1 DEF FInv, AsAsked
          <5>3. open_files[k][b] \in inodes
            BY Zenon, <3>1, <5>1 DEF IInv, DescriptorsPrivate
          <5>4. open_files[k][b] \in Inode /\ open_files[k][b] # inode
            BY Zenon, <1>3, <5>3 DEF IInv, TypeOK
          <5>. QED
            BY Zenon, <2>2, <5>1, <5>2, <5>4 DEF AtAsked
        <4>. QED
          BY Zenon, <4>1, <4>2
      <3>. QED
        BY Zenon, <1>3, <1>8, <3>1 DEF AsAsked
    <2>. QED
      BY Zenon, <1>2, <1>5, <2>2, <2>3 DEF FInv
  <1>. QED
    BY Zenon, <1>10, <1>11

\* spawn opens an inode that no descriptor has.
LEMMA SysSpawnFInv ==
    ASSUME IInv, FInv, LeastNumber, NEW filename \in Filename, SysSpawn(filename)
    PROVE  FInv'
  <1>1. PICK inode \in Inode \cup {NULL} : spawn_open(inode) /\ Fs!fatfs_open(filename, inode)
    BY Zenon DEF SysSpawn
  <1>2. /\ loading = NULL /\ loading' = inode /\ alive' = alive /\ open_files' = open_files
        /\ inode \notin inodes
    BY <1>1, JobFilesAssumption DEF spawn_open, fs_allocate_inode, IInv, TypeOK
  <1>3. /\ stage' = IF loading' = NULL \/ opened'[loading'] = NoFile THEN "lost" ELSE "size"
        /\ wanted' = Named(filename) /\ image' = image /\ file_size' = file_size
        /\ asked' = asked /\ right' = right
    BY DEF SysSpawn, history
  <1>4. image = <<>> /\ file_size = 0
    BY Zenon, <1>2, NotSpawning DEF FInv
  <1>5. CASE inode = NULL
    <2>1. /\ UNCHANGED <<mounted, disk_fat, disk_entries, fat, entries>>
          /\ UNCHANGED <<opened, position, loaded_buffer_index, buffer>>
      BY <1>1, <1>5 DEF Fs!fatfs_open, Fs!fsVars, Fs!handle
    <2>2. Volume'
      BY Zenon, <2>1, VolumeStays DEF FInv
    <2>3. Handle' /\ FsTypes'
      BY <2>1 DEF FInv, Handle, FsTypes
    <2>4. Reading'
      BY <2>1, ReadingStays DEF FInv
    <2>5. AsAsked'
      BY <1>2, <1>3, <2>1, AsAskedStays DEF FInv
    <2>6. Spawning'
      <3>1. stage' = "lost" /\ image' \in Seq(Nat)
        BY <1>2, <1>3, <1>4, <1>5
      <3>. QED
        BY Zenon, <1>3, <1>4, <3>1 DEF Spawning
    <2>. QED
      BY Zenon, <1>3, <2>2, <2>3, <2>4, <2>5, <2>6 DEF FInv
  <1>6. CASE inode \in Inode
    <2>1. PICK g : Opened(inode, g) /\ (Named(filename) # NoFile => g = Named(filename))
      BY Zenon, <1>1, <1>6, OpenFinds
    <2>2. /\ Volume' /\ Handle' /\ FsTypes' /\ Reading'
          /\ opened'[inode] = g /\ position'[inode] = 0 /\ g # NULL
          /\ \A m \in Inode : m # inode => opened'[m] = opened[m] /\ position'[m] = position[m]
      BY Zenon, <1>6, <2>1, OpenedInv
    <2>3. AsAsked'
      <3>1. ASSUME NEW k \in alive, NEW b \in Slot, open_files[k][b] # NULL
            PROVE  AtAsked(open_files[k][b], asked[k][b])'
        <4>1. open_files[k][b] \in Inode /\ open_files[k][b] # inode
          <5>1. open_files[k][b] \in inodes
            BY Zenon, <3>1 DEF IInv, DescriptorsPrivate
          <5>. QED
            BY Zenon, <1>2, <5>1 DEF IInv, TypeOK
        <4>2. AtAsked(open_files[k][b], asked[k][b])
          BY Zenon, <3>1 DEF FInv, AsAsked
        <4>. QED
          BY Zenon, <1>2, <1>3, <2>2, <4>1, <4>2 DEF AtAsked
      <3>. QED
        BY Zenon, <1>2, <1>3, <3>1 DEF FInv, AsAsked
    <2>4. Spawning'
      <3>1. g \in Fs!File \cup {NoFile} /\ inode # NULL
        BY Zenon, <1>6, <2>1, JobFilesAssumption DEF Opened
      <3>2. CASE g = NoFile
        <4>1. stage' = "lost" /\ image' \in Seq(Nat)
          <5>1. <<>> \in Seq(Nat)
            OBVIOUS
          <5>. QED
            BY Zenon, <1>2, <1>3, <1>4, <2>2, <3>2, <5>1
        <4>. QED
          BY Zenon, <1>3, <1>4, <4>1 DEF Spawning
      <3>3. CASE g \in Fs!File
        <4>1. stage' = "size" /\ image' \in Seq(Nat) /\ image' = <<>> /\ Len(image') = 0
              /\ 1 .. 0 = {} /\ file_size' = 0
          BY <1>2, <1>3, <1>4, <2>2, <3>1, <3>3, FileNumbers
        <4>2. stage' \notin {"idle", "lost"} /\ stage' # "read" /\ stage' \in {"size", "read"}
          BY <4>1
        <4>3. loading' \in Inode /\ opened'[loading'] = g /\ position'[loading'] = 0
              /\ (wanted' # NoFile => g = wanted')
          BY Zenon, <1>2, <1>3, <1>6, <2>1, <2>2
        <4>. QED
          BY Zenon, <3>3, <4>1, <4>2, <4>3 DEF Spawning
      <3>. QED
        BY Zenon, <3>1, <3>2, <3>3
    <2>. QED
      BY Zenon, <1>3, <2>2, <2>3, <2>4 DEF FInv
  <1>. QED
    BY Zenon, <1>5, <1>6

\* What fatfs_get does to an inode whose file has more bytes, and what it returns.
Advanced(n) ==
    /\ position[n] < SizeOf(opened[n])
    /\ position' = [position EXCEPT ![n] = @ + 1]
    /\ ByteOf(opened[n], position[n]) \in Nat
    /\ Fs!Results(n) = {[ret |-> 1, byte |-> ByteOf(opened[n], position[n])]}

\* fatfs_get at the end of a file, or without an entry.
Stayed(n) ==
    /\ position' = position
    /\ \A r \in Fs!Results(n) : r.byte = Fs!Unknown
    /\ opened[n] # NoFile => /\ position[n] = SizeOf(opened[n])
                             /\ Fs!Results(n) = {[ret |-> 0, byte |-> Fs!Unknown]}

\* fatfs_get keeps what is known of the open files, and returns the next byte.
LEMMA GetInv ==
    ASSUME FInv, NEW n \in Inode, opened[n] # NULL, Fs!fatfs_get(n)
    PROVE  /\ Volume' /\ Handle' /\ FsTypes' /\ Reading'
           /\ disk_fat' = disk_fat /\ disk_entries' = disk_entries /\ opened' = opened
           /\ (opened[n] # NoFile /\ Advanced(n)) \/ Stayed(n)
  <1>1. /\ UNCHANGED <<mounted, disk_fat, disk_entries, fat, entries>> /\ opened' = opened
        /\ disk_fat' = disk_fat /\ disk_entries' = disk_entries
    BY DEF Fs!fatfs_get, Fs!handle
  <1>2. Volume'
    BY Zenon, <1>1, VolumeStays DEF FInv
  <1>3. Handle'
    BY <1>1 DEF FInv, Handle
  <1>4. opened[n] \in Fs!File \cup {NoFile} /\ entries = disk_entries
    BY Zenon, OpenIsMounted DEF FInv, FsTypes
  <1>5. CASE opened[n] = NoFile
    <2>1. UNCHANGED <<position, loaded_buffer_index, buffer>>
      BY <1>5 DEF Fs!fatfs_get, NoFile
    <2>2. FsTypes'
      BY <1>1, <2>1 DEF FInv, FsTypes
    <2>3. Reading'
      BY <1>1, <2>1, ReadingStays DEF FInv
    <2>4. Stayed(n)
      <3>1. Fs!Results(n) = [ret : {0, 1}, byte : {Fs!Unknown}]
        BY Zenon, <1>5 DEF Fs!Results, NoFile
      <3>2. \A r \in Fs!Results(n) : r.byte = Fs!Unknown
        BY <3>1
      <3>. QED
        BY Zenon, <1>5, <2>1, <3>2 DEF Stayed
    <2>. QED
      BY Zenon, <1>1, <1>2, <1>3, <2>2, <2>3, <2>4
  <1>6. CASE opened[n] \in Fs!File
    <2>1. opened[n] # NoFile /\ position[n] \in Nat /\ SizeOf(opened[n]) \in Nat
          /\ position[n] <= SizeOf(opened[n])
      BY Zenon, <1>6, FileNumbers DEF FInv, FsTypes, Volume, Reading
    <2>2. Fs!AtEnd(n) <=> position[n] >= SizeOf(opened[n])
      BY Zenon, <1>4 DEF Fs!AtEnd, SizeOf
    <2>3. CASE Fs!AtEnd(n)
      <3>1. UNCHANGED <<position, loaded_buffer_index, buffer>>
        BY <2>3 DEF Fs!fatfs_get
      <3>2. FsTypes'
        BY <1>1, <3>1 DEF FInv, FsTypes
      <3>3. Reading'
        BY <1>1, <3>1, ReadingStays DEF FInv
      <3>4. position[n] = SizeOf(opened[n])
        BY <2>1, <2>2, <2>3
      <3>5. Fs!Results(n) = {[ret |-> 0, byte |-> Fs!Unknown]}
        BY Zenon, <2>1, <2>3 DEF Fs!Results, NoFile
      <3>6. \A r \in Fs!Results(n) : r.byte = Fs!Unknown
        BY <3>5
      <3>7. Stayed(n)
        BY Zenon, <3>1, <3>4, <3>5, <3>6 DEF Stayed
      <3>. QED
        BY Zenon, <1>1, <1>2, <1>3, <3>2, <3>3, <3>7
    <2>4. CASE ~ Fs!AtEnd(n)
      <3>. DEFINE i == position[n] \div BUFFERSIZE
      <3>1. position[n] < SizeOf(opened[n])
        BY <2>1, <2>2, <2>4
      <3>2. /\ i \in Nat /\ Holds(Fs!Filled(n, i), i, opened[n])
            /\ ByteOf(opened[n], position[n]) \in Nat
            /\ Fs!Filled(n, i)[(position[n] % BUFFERSIZE) + 1] = ByteOf(opened[n], position[n])
        BY Zenon, <1>6, <3>1, FilledHolds DEF FInv
      <3>3. /\ buffer' = [buffer EXCEPT ![n] = Fs!Filled(n, i)]
            /\ loaded_buffer_index' = [loaded_buffer_index EXCEPT ![n] = i]
            /\ position' = [position EXCEPT ![n] = @ + 1]
        BY Zenon, <2>1, <2>4 DEF Fs!fatfs_get, NoFile
      <3>. HIDE DEF i
      <3>4. /\ \A m \in Inode : buffer'[m] = IF m = n THEN Fs!Filled(n, i) ELSE buffer[m]
            /\ \A m \in Inode : position'[m] = IF m = n THEN position[n] + 1 ELSE position[m]
            /\ \A m \in Inode : loaded_buffer_index'[m]
                                  = IF m = n THEN i ELSE loaded_buffer_index[m]
        BY <3>3 DEF FInv, FsTypes
      <3>5. FsTypes'
        <4>1. position' \in [Inode -> Nat] /\ loaded_buffer_index' \in [Inode -> Nat \cup {-1}]
          BY <3>2, <3>3 DEF FInv, FsTypes
        <4>2. buffer' = [m \in Inode |-> buffer'[m]]
          BY <3>3 DEF FInv, FsTypes
        <4>. QED
          BY Zenon, <1>1, <4>1, <4>2 DEF FInv, FsTypes
      <3>6. Reading'
        <4>. SUFFICES ASSUME NEW m \in Inode, opened'[m] \in Fs!File
                      PROVE  /\ (position[m] <= SizeOf(opened[m]))'
                             /\ (loaded_buffer_index[m] # -1 =>
                                   Holds(buffer[m], loaded_buffer_index[m], opened[m]))'
          BY Zenon DEF Reading
        <4>1. /\ SizeOf(opened[m])' = SizeOf(opened[m])
              /\ Holds(buffer[m], loaded_buffer_index[m], opened[m])'
                   <=> Holds(buffer'[m], loaded_buffer_index'[m], opened[m])
          BY Zenon, <1>1, VolumeStays DEF FInv
        <4>2. CASE m = n
          <5>1. position'[m] <= SizeOf(opened[m])
            <6>1. position'[m] = position[n] + 1 /\ SizeOf(opened[m]) = SizeOf(opened[n])
              BY Zenon, <3>4, <4>2
            <6>2. position[n] + 1 <= SizeOf(opened[n])
              <7>. DEFINE x == position[n]
                          y == SizeOf(opened[n])
              <7>1. x \in Nat /\ y \in Nat /\ x < y
                BY Zenon, <2>1, <3>1
              <7>. HIDE DEF x, y
              <7>2. x + 1 <= y
                BY <7>1
              <7>. QED
                BY Zenon, <7>2 DEF x, y
            <6>. QED
              BY Zenon, <6>1, <6>2
          <5>. QED
            BY Zenon, <3>2, <3>4, <4>1, <4>2, <5>1
        <4>3. CASE m # n
          BY Zenon, <1>1, <3>4, <4>1, <4>3 DEF FInv, Reading
        <4>. QED
          BY Zenon, <4>2, <4>3
      <3>7. Fs!Results(n) = {[ret |-> 1, byte |-> ByteOf(opened[n], position[n])]}
        BY Zenon, <2>1, <2>4, <3>2 DEF Fs!Results, NoFile, i
      <3>8. Advanced(n)
        BY Zenon, <3>1, <3>2, <3>3, <3>7 DEF Advanced
      <3>. QED
        BY Zenon, <1>1, <1>2, <1>3, <2>1, <3>5, <3>6, <3>8
    <2>. QED
      BY Zenon, <2>3, <2>4
  <1>. QED
    BY Zenon, <1>4, <1>5, <1>6

\* The bytes of a file.
LEMMA ContentOf ==
    ASSUME Volume, NEW f \in Fs!File
    PROVE  /\ SizeOf(f) \in Nat
           /\ Fs!Content(f) = [k \in 1 .. SizeOf(f) |-> ByteOf(f, k - 1)]
           /\ Len(Fs!Content(f)) = SizeOf(f)
  <1>1. SizeOf(f) \in Nat
    BY Zenon DEF Volume
  <1>2. Fs!Content(f) = [k \in 1 .. SizeOf(f) |-> ByteOf(f, k - 1)]
    BY Zenon DEF Fs!Content, SizeOf, ByteOf
  <1>. HIDE DEF SizeOf, ByteOf
  <1>3. Len([k \in 1 .. SizeOf(f) |-> ByteOf(f, k - 1)]) = SizeOf(f)
    BY <1>1
  <1>. QED
    BY Zenon, <1>1, <1>2, <1>3

\* The byte that is due next.
LEMMA DueIs ==
    ASSUME Volume, NEW a, a.file \in Fs!File, a.count \in Nat
    PROVE  Due(a) = IF a.count < SizeOf(a.file) THEN ByteOf(a.file, a.count) ELSE Fs!Unknown
  <1>. DEFINE f == a.file
              c == a.count
  <1>1. SizeOf(f) \in Nat /\ Len(Fs!Content(f)) = SizeOf(f) /\ f # NoFile
        /\ Fs!Content(f) = [k \in 1 .. SizeOf(f) |-> ByteOf(f, k - 1)]
    BY Zenon, ContentOf, FileNumbers
  <1>2. Due(a) = IF c < SizeOf(f) THEN Fs!Content(f)[c + 1] ELSE Fs!Unknown
    BY Zenon, <1>1 DEF Due
  <1>. HIDE DEF f, c
  <1>3. c < SizeOf(f) => Fs!Content(f)[c + 1] = ByteOf(f, c)
    <2>. SUFFICES ASSUME c < SizeOf(f) PROVE Fs!Content(f)[c + 1] = ByteOf(f, c)
      OBVIOUS
    <2>1. c + 1 \in 1 .. SizeOf(f) /\ (c + 1) - 1 = c
      BY <1>1 DEF c
    <2>2. Fs!Content(f)[c + 1] = ByteOf(f, (c + 1) - 1)
      BY Zenon, <1>1, <2>1
    <2>. QED
      BY Zenon, <2>1, <2>2
  <1>. QED
    BY Zenon, <1>2, <1>3 DEF f, c

\* exceptions_internal_get: the byte is the one that was due, and the descriptor
\* goes on with the next.
LEMMA SysGetFInv ==
    ASSUME IInv, FInv, NEW j \in Job, NEW fd \in -1 .. JOB_MAX_FILES, SysGet(j, fd)
    PROVE  FInv'
  <1>. DEFINE n == job_get_file(j, fd)
              a == asked[j][fd]
  <1>1. /\ j \in alive /\ loading = NULL
        /\ UNCHANGED <<alive, open_files, loading, stage, image, file_size, wanted>>
    BY DEF SysGet, vars, load
  <1>2. Spawning'
    BY <1>1, NotSpawning DEF FInv
  <1>3. CASE n = NULL
    <2>1. UNCHANGED <<fs, history>>
      BY Zenon, <1>3 DEF SysGet
    <2>2. /\ UNCHANGED <<mounted, disk_fat, disk_entries, fat, entries>>
          /\ UNCHANGED <<opened, position, loaded_buffer_index, buffer>>
          /\ asked' = asked /\ right' = right
      BY <2>1 DEF fs, history
    <2>3. Volume'
      BY Zenon, <2>2, VolumeStays DEF FInv
    <2>4. Handle' /\ FsTypes'
      BY <2>2 DEF FInv, Handle, FsTypes
    <2>5. Reading'
      BY <2>2, ReadingStays DEF FInv
    <2>6. AsAsked'
      BY <1>1, <2>2, AsAskedStays DEF FInv
    <2>. QED
      BY Zenon, <1>2, <2>2, <2>3, <2>4, <2>5, <2>6 DEF FInv
  <1>4. CASE n # NULL
    <2>1. PICK r \in Fs!Results(n) : right' = (right /\ Due(a) \in {Fs!Unknown, r.byte})
      BY Zenon, <1>4 DEF SysGet
    <2>2. /\ Fs!fatfs_get(n)
          /\ asked' = [asked EXCEPT ![j][fd].count = IF Due(a) = Fs!Unknown THEN @ ELSE @ + 1]
      BY Zenon, <1>4 DEF SysGet
    <2>3. fd \in Slot /\ n = open_files[j][fd] /\ n \in Inode
      <3>1. open_files_count[j] \in 0 .. JOB_MAX_FILES
        BY Zenon DEF IInv, TypeOK
      <3>2. ~ (fd < 0 \/ fd >= open_files_count[j]) /\ n = open_files[j][fd]
        BY Zenon, <1>4 DEF job_get_file
      <3>3. fd \in Slot
        BY <3>1, <3>2, JobFilesAssumption DEF Slot
      <3>. QED
        BY Zenon, <1>4, <3>2, <3>3 DEF IInv, TypeOK
    <2>. HIDE DEF n
    <2>4. AtAsked(n, a)
      BY Zenon, <1>1, <1>4, <2>3 DEF FInv, AsAsked
    <2>5. /\ Volume' /\ Handle' /\ FsTypes' /\ Reading'
          /\ disk_fat' = disk_fat /\ disk_entries' = disk_entries /\ opened' = opened
          /\ (opened[n] # NoFile /\ Advanced(n)) \/ Stayed(n)
      BY Zenon, <2>2, <2>3, <2>4, GetInv DEF AtAsked
    <2>6. /\ asked \in [Job -> [Slot -> [file : Fs!File \cup {NoFile}, count : Nat]]]
          /\ a.file \in Fs!File \cup {NoFile} /\ a.count \in Nat
          /\ a = [file |-> a.file, count |-> a.count]
      <3>1. asked \in [Job -> [Slot -> [file : Fs!File \cup {NoFile}, count : Nat]]]
        BY Zenon DEF FInv, AsAsked
      <3>2. a \in [file : Fs!File \cup {NoFile}, count : Nat]
        BY Zenon, <2>3, <3>1
      <3>. QED
        BY <3>1, <3>2
    <2>. DEFINE c == IF Due(a) = Fs!Unknown THEN a.count ELSE a.count + 1
    <2>7. /\ asked' \in [Job -> [Slot -> [file : Fs!File \cup {NoFile}, count : Nat]]]
          /\ \A k \in Job, b \in Slot : k # j \/ b # fd => asked'[k][b] = asked[k][b]
          /\ asked'[j][fd].file = a.file /\ asked'[j][fd].count = c
      <3>. DEFINE R == [file : Fs!File \cup {NoFile}, count : Nat]
                  d == [a EXCEPT !.count = c]
      <3>1. asked' = [asked EXCEPT ![j][fd] = d]
        BY Zenon, <2>2
      <3>2. d \in R /\ d.file = a.file /\ d.count = c
        <4>1. c \in Nat
          BY <2>6
        <4>. HIDE DEF c, a
        <4>. QED
          BY <2>6, <4>1
      <3>. HIDE DEF d, R
      <3>3. asked \in [Job -> [Slot -> R]]
        BY Zenon, <2>6 DEF R
      <3>4. /\ asked' \in [Job -> [Slot -> R]] /\ asked'[j][fd] = d
            /\ \A k \in Job, b \in Slot : k # j \/ b # fd => asked'[k][b] = asked[k][b]
        BY <2>3, <3>1, <3>2, <3>3
      <3>. QED
        BY Zenon, <3>2, <3>4 DEF R
    <2>. HIDE DEF a, c
    <2>8. ASSUME a.file = NoFile
          PROVE  right' = TRUE /\ AtAsked(open_files[j][fd], asked[j][fd])'
      <3>1. Due(a) = Fs!Unknown
        BY Zenon, <2>8 DEF Due
      <3>2. right' = TRUE
        BY Zenon, <2>1, <3>1 DEF FInv
      <3>3. AtAsked(open_files[j][fd], asked[j][fd])'
        <4>1. opened'[n] # NULL /\ asked'[j][fd].file = NoFile /\ open_files'[j][fd] = n
          BY Zenon, <1>1, <2>3, <2>4, <2>5, <2>7, <2>8 DEF AtAsked
        <4>. QED
          BY Zenon, <4>1 DEF AtAsked
      <3>. QED
        BY Zenon, <3>2, <3>3
    <2>9. ASSUME a.file # NoFile
          PROVE  right' = TRUE /\ AtAsked(open_files[j][fd], asked[j][fd])'
      <3>1. opened[n] = a.file /\ position[n] = a.count /\ a.file \in Fs!File /\ opened[n] # NULL
        BY Zenon, <2>4, <2>6, <2>9 DEF AtAsked
      <3>2. Due(a) = IF a.count < SizeOf(a.file) THEN ByteOf(a.file, a.count) ELSE Fs!Unknown
        BY Zenon, <2>6, <3>1, DueIs DEF FInv
      <3>3. CASE Advanced(n)
        <4>1. /\ a.count < SizeOf(a.file) /\ ByteOf(a.file, a.count) \in Nat
              /\ Fs!Results(n) = {[ret |-> 1, byte |-> ByteOf(a.file, a.count)]}
              /\ position' = [position EXCEPT ![n] = @ + 1]
          BY Zenon, <3>1, <3>3 DEF Advanced
        <4>2. Due(a) = ByteOf(a.file, a.count) /\ r.byte = ByteOf(a.file, a.count)
          <5>1. r = [ret |-> 1, byte |-> ByteOf(a.file, a.count)]
            BY Zenon, <2>1, <4>1
          <5>2. Due(a) = ByteOf(a.file, a.count)
            BY Zenon, <3>2, <4>1
          <5>. QED
            BY Zenon, <5>1, <5>2
        <4>3. right' = TRUE
          BY Zenon, <2>1, <4>2 DEF FInv
        <4>4. Due(a) # Fs!Unknown
          BY <4>1, <4>2 DEF Fs!Unknown
        <4>5. c = a.count + 1
          BY Zenon, <4>4 DEF c
        <4>6. position'[n] = a.count + 1
          BY <2>3, <3>1, <4>1 DEF FInv, FsTypes
        <4>7. AtAsked(open_files[j][fd], asked[j][fd])'
          <5>1. open_files'[j][fd] = n /\ opened'[n] = opened[n]
            BY Zenon, <1>1, <2>3, <2>5
          <5>. QED
            BY Zenon, <2>7, <3>1, <4>5, <4>6, <5>1 DEF AtAsked
        <4>. QED
          BY Zenon, <4>3, <4>7
      <3>4. CASE Stayed(n)
        <4>1. position' = position /\ a.count = SizeOf(a.file)
          BY Zenon, <2>9, <3>1, <3>4 DEF Stayed
        <4>2. Due(a) = Fs!Unknown
          <5>1. ~ (a.count < SizeOf(a.file))
            BY <2>6, <4>1
          <5>. QED
            BY Zenon, <3>2, <5>1
        <4>3. right' = TRUE
          BY Zenon, <2>1, <4>2 DEF FInv
        <4>4. c = a.count
          BY Zenon, <4>2 DEF c
        <4>5. AtAsked(open_files[j][fd], asked[j][fd])'
          <5>1. open_files'[j][fd] = n /\ opened'[n] = opened[n]
            BY Zenon, <1>1, <2>3, <2>5
          <5>. QED
            BY Zenon, <2>7, <3>1, <4>1, <4>4, <5>1 DEF AtAsked
        <4>. QED
          BY Zenon, <4>3, <4>5
      <3>. QED
        BY Zenon, <2>5, <3>3, <3>4
    <2>10. right' = TRUE /\ AtAsked(open_files[j][fd], asked[j][fd])'
      BY Zenon, <2>8, <2>9
    <2>11. \A m \in Inode : m # n => position'[m] = position[m]
      BY <2>5 DEF Advanced, Stayed, FInv, FsTypes
    <2>12. AsAsked'
      <3>1. ASSUME NEW k \in alive, NEW b \in Slot, open_files[k][b] # NULL, k # j \/ b # fd
            PROVE  AtAsked(open_files[k][b], asked[k][b])'
        <4>1. AtAsked(open_files[k][b], asked[k][b])
          BY Zenon, <3>1 DEF FInv, AsAsked
        <4>2. open_files[k][b] \in Inode
          BY Zenon, <3>1 DEF IInv, TypeOK
        <4>3. open_files[k][b] # n
          <5>1. open_files[k][b] = open_files[j][fd] => k = j /\ b = fd
            <6>1. j \in alive /\ fd \in Slot /\ open_files[k][b] # NULL
              BY Zenon, <1>1, <2>3, <3>1
            <6>2. DescriptorsPrivate
              BY Zenon DEF IInv
            <6>. QED
              BY <6>1, <6>2 DEF DescriptorsPrivate
          <5>. QED
            BY Zenon, <2>3, <3>1, <5>1
        <4>4. asked'[k][b] = asked[k][b]
          BY Zenon, <2>7, <3>1 DEF IInv, TypeOK
        <4>. QED
          BY Zenon, <1>1, <2>5, <2>11, <4>1, <4>2, <4>3, <4>4 DEF AtAsked
      <3>2. alive' = alive /\ open_files' = open_files
        BY <1>1
      <3>. QED
        BY Zenon, <2>7, <2>10, <3>1, <3>2 DEF AsAsked
    <2>. QED
      BY Zenon, <1>2, <2>5, <2>10, <2>12 DEF FInv
  <1>. QED
    BY Zenon, <1>3, <1>4

\* job_create_from_file takes the size of the file.
LEMMA SpawnSizeFInv ==
    ASSUME FInv, SpawnSize PROVE FInv'
  <1>1. /\ stage = "size" /\ stage' = "read" /\ file_size' = Fs!fatfs_left(loading)
        /\ UNCHANGED <<mounted, disk_fat, disk_entries, fat, entries>>
        /\ UNCHANGED <<opened, position, loaded_buffer_index, buffer>>
        /\ UNCHANGED <<alive, open_files, loading, image, wanted, asked, right>>
    BY DEF SpawnSize, vars, fs, history
  <1>2. Volume'
    BY Zenon, <1>1, VolumeStays DEF FInv
  <1>3. Handle' /\ FsTypes'
    BY <1>1 DEF FInv, Handle, FsTypes
  <1>4. Reading'
    BY <1>1, ReadingStays DEF FInv
  <1>5. AsAsked'
    BY <1>1, AsAskedStays DEF FInv
  <1>6. stage \notin {"idle", "lost"} /\ stage' \notin {"idle", "lost"}
        /\ stage' # "size" /\ stage' \in {"size", "read"}
    BY <1>1
  <1>7. /\ image \in Seq(Nat) /\ loading \in Inode /\ opened[loading] \in Fs!File
        /\ (wanted # NoFile => opened[loading] = wanted)
        /\ Len(image) = position[loading] /\ position[loading] = 0
        /\ \A k \in 1 .. Len(image) : image[k] = ByteOf(opened[loading], k - 1)
    BY Zenon, <1>1, <1>6 DEF FInv, Spawning
  <1>8. file_size' = SizeOf(opened[loading])
    <2>1. opened[loading] # NULL
      BY Zenon, <1>7, FileNumbers
    <2>2. entries = disk_entries /\ SizeOf(opened[loading]) \in Nat
      BY Zenon, <1>7, <2>1, OpenIsMounted DEF FInv, Volume
    <2>3. file_size' = SizeOf(opened[loading]) - position[loading]
      BY Zenon, <1>1, <2>2 DEF Fs!fatfs_left, SizeOf
    <2>. HIDE DEF SizeOf
    <2>. QED
      BY <1>7, <2>2, <2>3
  <1>9. /\ \A f : SizeOf(f)' = SizeOf(f)
        /\ \A f, x : ByteOf(f, x)' = ByteOf(f, x)
    BY Zenon, <1>1, VolumeStays DEF FInv
  <1>10. Spawning'
    <2>1. /\ opened' = opened /\ position' = position /\ loading' = loading /\ image' = image
          /\ wanted' = wanted
      BY <1>1
    <2>. QED
      BY Zenon, <1>6, <1>7, <1>8, <1>9, <2>1 DEF Spawning
  <1>. QED
    BY Zenon, <1>1, <1>2, <1>3, <1>4, <1>5, <1>10 DEF FInv

\* A byte behind an array.
LEMMA Appended ==
    ASSUME NEW s \in Seq(Nat), NEW x \in Nat
    PROVE  /\ Append(s, x) \in Seq(Nat) /\ Len(Append(s, x)) = Len(s) + 1
           /\ \A k \in 1 .. Len(s) : Append(s, x)[k] = s[k]
           /\ Append(s, x)[Len(s) + 1] = x /\ Len(s) \in Nat
  OBVIOUS

\* The loop of job_create_from_file: another byte, or the end of the file.
LEMMA SpawnReadFInv ==
    ASSUME IInv, FInv, SpawnRead PROVE FInv'
  <1>1. /\ stage = "read" /\ Fs!fatfs_get(loading)
        /\ UNCHANGED <<alive, open_files, loading, file_size, wanted, asked, right>>
    BY DEF SpawnRead, vars, history
  <1>2. PICK r \in Fs!Results(loading) :
          /\ image' = IF r.ret = 1 THEN Append(image, r.byte) ELSE image
          /\ stage' = IF r.ret = 1 THEN "read" ELSE "close"
    BY Zenon DEF SpawnRead
  <1>3. stage \notin {"idle", "lost"} /\ stage # "size"
    BY <1>1
  <1>4. /\ image \in Seq(Nat) /\ loading \in Inode /\ opened[loading] \in Fs!File
        /\ (wanted # NoFile => opened[loading] = wanted)
        /\ Len(image) = position[loading] /\ file_size = SizeOf(opened[loading])
        /\ \A k \in 1 .. Len(image) : image[k] = ByteOf(opened[loading], k - 1)
    BY Zenon, <1>3 DEF FInv, Spawning
  <1>5. opened[loading] # NULL /\ opened[loading] # NoFile
    BY Zenon, <1>4, FileNumbers
  <1>6. /\ Volume' /\ Handle' /\ FsTypes' /\ Reading'
        /\ disk_fat' = disk_fat /\ disk_entries' = disk_entries /\ opened' = opened
        /\ Advanced(loading) \/ Stayed(loading)
    BY Zenon, <1>1, <1>4, <1>5, GetInv
  <1>7. \A m \in Inode : m # loading => position'[m] = position[m]
    BY <1>6 DEF Advanced, Stayed, FInv, FsTypes
  <1>8. AsAsked'
    <2>1. ASSUME NEW k \in alive, NEW b \in Slot, open_files[k][b] # NULL
          PROVE  AtAsked(open_files[k][b], asked[k][b])'
      <3>1. AtAsked(open_files[k][b], asked[k][b])
        BY Zenon, <2>1 DEF FInv, AsAsked
      <3>2. open_files[k][b] \in Inode
        BY Zenon, <2>1 DEF IInv, TypeOK
      <3>3. open_files[k][b] # loading
        BY Zenon, <2>1 DEF IInv, DescriptorsPrivate
      <3>4. asked' = asked /\ open_files' = open_files
        BY <1>1
      <3>. QED
        BY Zenon, <1>6, <1>7, <3>1, <3>2, <3>3, <3>4 DEF AtAsked
    <2>2. alive' = alive /\ open_files' = open_files /\ asked' = asked
      BY <1>1
    <2>. QED
      BY Zenon, <2>1, <2>2 DEF FInv, AsAsked
  <1>9. /\ \A f : SizeOf(f)' = SizeOf(f)
        /\ \A f, x : ByteOf(f, x)' = ByteOf(f, x)
    BY Zenon, <1>6, VolumeStays DEF FInv
  <1>. DEFINE f == opened[loading]
              p == position[loading]
  <1>10. opened'[loading'] = f /\ loading' = loading /\ file_size' = file_size
         /\ wanted' = wanted
    BY <1>1, <1>6
  <1>11. CASE Advanced(loading)
    <2>1. /\ ByteOf(f, p) \in Nat /\ position' = [position EXCEPT ![loading] = @ + 1]
          /\ Fs!Results(loading) = {[ret |-> 1, byte |-> ByteOf(f, p)]}
      BY Zenon, <1>11 DEF Advanced
    <2>2. r = [ret |-> 1, byte |-> ByteOf(f, p)]
      BY Zenon, <1>2, <2>1
    <2>3. image' = Append(image, ByteOf(f, p)) /\ stage' = "read"
      BY Zenon, <1>2, <2>2
    <2>4. stage' \notin {"idle", "lost"} /\ stage' # "size" /\ stage' \in {"size", "read"}
      BY <2>3
    <2>5. position'[loading] = p + 1
      BY <1>4, <2>1 DEF FInv, FsTypes
    <2>6. /\ image' \in Seq(Nat) /\ Len(image') = p + 1 /\ p \in Nat
          /\ \A k \in 1 .. p : image'[k] = image[k]
          /\ image'[p + 1] = ByteOf(f, p)
      <3>1. ByteOf(f, p) \in Nat
        BY Zenon, <2>1
      <3>. HIDE DEF f, p
      <3>2. p = Len(image)
        BY Zenon, <1>4 DEF p
      <3>. QED
        BY Zenon, <1>4, <2>3, <3>1, <3>2, Appended
    <2>7. \A k \in 1 .. p + 1 : image'[k] = ByteOf(f, k - 1)
      <3>. TAKE k \in 1 .. p + 1
      <3>1. CASE k \in 1 .. p
        BY Zenon, <1>4, <2>6, <3>1
      <3>2. CASE k = p + 1
        <4>1. k - 1 = p
          BY <2>6, <3>2
        <4>. QED
          BY Zenon, <2>6, <3>2, <4>1
      <3>3. k \in 1 .. p \/ k = p + 1
        <4>1. p \in Nat
          BY Zenon, <2>6
        <4>. HIDE DEF p
        <4>. QED
          BY <4>1
      <3>. QED
        BY Zenon, <3>1, <3>2, <3>3
    <2>8. Spawning'
      BY Zenon, <1>4, <1>9, <1>10, <2>4, <2>5, <2>6, <2>7 DEF Spawning
    <2>. QED
      BY Zenon, <1>1, <1>6, <1>8, <2>8 DEF FInv
  <1>12. CASE Stayed(loading)
    <2>1. /\ position' = position /\ p = SizeOf(f)
          /\ Fs!Results(loading) = {[ret |-> 0, byte |-> Fs!Unknown]}
      BY Zenon, <1>5, <1>12 DEF Stayed
    <2>2. r = [ret |-> 0, byte |-> Fs!Unknown]
      BY Zenon, <1>2, <2>1
    <2>3. r.ret = 0 /\ 0 # 1
      BY <2>2
    <2>4. image' = image /\ stage' = "close"
      BY Zenon, <1>2, <2>3
    <2>5. stage' \notin {"idle", "lost"} /\ stage' # "size"
      BY <2>4
    <2>6. Len(image) = file_size
      BY Zenon, <1>4, <2>1
    <2>7. Spawning'
      BY Zenon, <1>4, <1>9, <1>10, <2>1, <2>4, <2>5, <2>6 DEF Spawning
    <2>. QED
      BY Zenon, <1>1, <1>6, <1>8, <2>7 DEF FInv
  <1>. QED
    BY Zenon, <1>6, <1>11, <1>12

\* The end of spawn: its inode is closed, and the new job has no descriptor.
LEMMA SpawnEndFInv ==
    ASSUME IInv, FInv, NEW j \in Job, SpawnEnd(j) PROVE FInv'
  <1>1. /\ stage = "close" /\ spawn_end(j) /\ Fs!fatfs_close(loading)
        /\ stage' = "idle" /\ image' = <<>> /\ file_size' = 0 /\ asked' = asked /\ right' = right
    BY DEF SpawnEnd, history
  <1>2. /\ opened' = [opened EXCEPT ![loading] = NULL]
        /\ UNCHANGED <<mounted, disk_fat, disk_entries, fat, entries>>
        /\ UNCHANGED <<position, loaded_buffer_index, buffer>>
    BY <1>1 DEF Fs!fatfs_close, Fs!handle
  <1>3. loading \in Inode
    <2>1. stage \notin {"idle", "lost"}
      BY <1>1
    <2>. QED
      BY Zenon, <2>1 DEF FInv, Spawning
  <1>4. \A m \in Inode : opened'[m] = IF m = loading THEN NULL ELSE opened[m]
    BY <1>2 DEF FInv, FsTypes
  <1>5. Volume'
    BY Zenon, <1>2, VolumeStays DEF FInv
  <1>6. Handle'
    BY <1>2, <1>4 DEF FInv, Handle
  <1>7. FsTypes'
    BY <1>2, <1>3 DEF FInv, FsTypes
  <1>8. Reading'
    <2>. SUFFICES ASSUME NEW m \in Inode, opened'[m] \in Fs!File
                  PROVE  /\ (position[m] <= SizeOf(opened[m]))'
                         /\ (loaded_buffer_index[m] # -1 =>
                               Holds(buffer[m], loaded_buffer_index[m], opened[m]))'
      BY Zenon DEF Reading
    <2>1. opened'[m] = opened[m]
      BY Zenon, <1>4, FileNumbers
    <2>2. /\ SizeOf(opened[m])' = SizeOf(opened'[m])
          /\ Holds(buffer[m], loaded_buffer_index[m], opened[m])'
               <=> Holds(buffer'[m], loaded_buffer_index'[m], opened'[m])
      BY Zenon, <1>2, VolumeStays DEF FInv
    <2>3. position' = position /\ loaded_buffer_index' = loaded_buffer_index /\ buffer' = buffer
      BY <1>2
    <2>. QED
      BY Zenon, <2>1, <2>2, <2>3 DEF FInv, Reading
  <1>9. /\ alive' = alive \cup {j} /\ position' = position
        /\ \A k \in alive : open_files'[k] = open_files[k]
        /\ \A b \in Slot : open_files'[j][b] = NULL
    BY <1>1, <1>2 DEF spawn_end, job_create, IInv, TypeOK
  <1>10. AsAsked'
    <2>1. ASSUME NEW k \in alive \cup {j}, NEW b \in Slot, open_files'[k][b] # NULL
          PROVE  AtAsked(open_files[k][b], asked[k][b])'
      <3>1. k \in alive /\ open_files'[k][b] = open_files[k][b]
        BY Zenon, <1>9, <2>1
      <3>2. AtAsked(open_files[k][b], asked[k][b])
        BY Zenon, <2>1, <3>1 DEF FInv, AsAsked
      <3>3. open_files[k][b] \in Inode
        BY Zenon, <2>1, <3>1 DEF IInv, TypeOK
      <3>4. open_files[k][b] # loading
        BY Zenon, <2>1, <3>1 DEF IInv, DescriptorsPrivate
      <3>. QED
        BY Zenon, <1>1, <1>4, <1>9, <3>1, <3>2, <3>3, <3>4 DEF AtAsked
    <2>. QED
      BY Zenon, <1>1, <1>9, <2>1 DEF FInv, AsAsked
  <1>11. Spawning'
    <2>1. image' \in Seq(Nat) /\ stage' \in {"idle", "lost"}
      BY <1>1
    <2>. QED
      BY Zenon, <1>1, <2>1 DEF Spawning
  <1>. QED
    BY Zenon, <1>1, <1>5, <1>6, <1>7, <1>8, <1>10, <1>11 DEF FInv

\* job_delete leaves the files of other jobs alone.
LEMMA DeleteFInv ==
    ASSUME IInv, FInv, NEW j \in Job, Delete(j) PROVE FInv'
  <1>1. /\ alive' = alive \ {j} /\ asked' = [asked EXCEPT ![j] = NothingAsked]
        /\ UNCHANGED <<mounted, disk_fat, disk_entries, fat, entries>>
        /\ UNCHANGED <<opened, position, loaded_buffer_index, buffer>>
        /\ UNCHANGED <<open_files, loading, stage, image, file_size, wanted>> /\ right' = right
    BY DEF Delete, job_delete, fs, load
  <1>2. Volume'
    BY Zenon, <1>1, VolumeStays DEF FInv
  <1>3. Handle' /\ FsTypes'
    BY <1>1 DEF FInv, Handle, FsTypes
  <1>4. Reading'
    BY <1>1, ReadingStays DEF FInv
  <1>5. Spawning'
    BY <1>1, SpawningStays DEF FInv
  <1>6. AsAsked'
    <2>. DEFINE R == [file : Fs!File \cup {NoFile}, count : Nat]
    <2>1. NothingAsked \in [Slot -> R]
      <3>1. 0 \in Nat
        OBVIOUS
      <3>. QED
        BY Zenon, <3>1 DEF NothingAsked
    <2>2. asked \in [Job -> [Slot -> R]]
      BY Zenon DEF FInv, AsAsked
    <2>. HIDE DEF R
    <2>3. asked' \in [Job -> [Slot -> R]] /\ \A k \in Job : k # j => asked'[k] = asked[k]
      BY Zenon, <1>1, <2>1, <2>2
    <2>4. ASSUME NEW k \in alive \ {j}, NEW b \in Slot, open_files[k][b] # NULL
          PROVE  AtAsked(open_files[k][b], asked[k][b])'
      <3>1. AtAsked(open_files[k][b], asked[k][b])
        BY Zenon, <2>4 DEF FInv, AsAsked
      <3>2. asked'[k] = asked[k]
        BY Zenon, <2>3 DEF IInv, TypeOK
      <3>3. opened' = opened /\ position' = position /\ open_files' = open_files
        BY <1>1
      <3>. QED
        BY Zenon, <3>1, <3>2, <3>3 DEF AtAsked
    <2>5. open_files' = open_files
      BY <1>1
    <2>. QED
      BY Zenon, <1>1, <2>3, <2>4, <2>5 DEF AsAsked, R
  <1>. QED
    BY Zenon, <1>1, <1>2, <1>3, <1>4, <1>5, <1>6 DEF FInv

\* A step that changes nothing.
LEMMA StutterFInv ==
    ASSUME FInv, UNCHANGED allVars PROVE FInv'
  <1>1. /\ UNCHANGED <<mounted, disk_fat, disk_entries, fat, entries>>
        /\ UNCHANGED <<opened, position, loaded_buffer_index, buffer>>
        /\ UNCHANGED <<alive, open_files, loading, stage, image, file_size, wanted, asked, right>>
    BY DEF allVars, vars, fs, load, history
  <1>2. Volume'
    BY Zenon, <1>1, VolumeStays DEF FInv
  <1>3. Handle' /\ FsTypes'
    BY <1>1 DEF FInv, Handle, FsTypes
  <1>4. Reading'
    BY <1>1, ReadingStays DEF FInv
  <1>5. Spawning'
    BY <1>1, SpawningStays DEF FInv
  <1>6. AsAsked'
    BY <1>1, AsAskedStays DEF FInv
  <1>. QED
    BY Zenon, <1>1, <1>2, <1>3, <1>4, <1>5, <1>6 DEF FInv

\* Every step of the calls keeps the invariant.
LEMMA NextFInv ==
    ASSUME LeastNumber
    PROVE  IInv /\ FInv /\ [FilesNext]_allVars => FInv'
  <1>. SUFFICES ASSUME IInv, FInv, [FilesNext]_allVars PROVE FInv'
    OBVIOUS
  <1>1. CASE Mount
    BY Zenon, <1>1, MountFInv
  <1>2. CASE SpawnSize
    BY Zenon, <1>2, SpawnSizeFInv
  <1>3. CASE SpawnRead
    BY Zenon, <1>3, SpawnReadFInv
  <1>4. ASSUME NEW filename \in Filename, SysSpawn(filename) PROVE FInv'
    BY Zenon, <1>4, SysSpawnFInv
  <1>5. ASSUME NEW j \in Job, SpawnEnd(j) \/ Delete(j) PROVE FInv'
    BY Zenon, <1>5, SpawnEndFInv, DeleteFInv
  <1>6. ASSUME NEW j \in Job, NEW filename \in Filename, SysOpen(j, filename) PROVE FInv'
    BY Zenon, <1>6, SysOpenFInv
  <1>7. ASSUME NEW j \in Job, NEW fd \in -1 .. JOB_MAX_FILES, SysGet(j, fd) PROVE FInv'
    BY Zenon, <1>7, SysGetFInv
  <1>8. CASE UNCHANGED allVars
    BY Zenon, <1>8, StutterFInv
  <1>. QED
    BY ZenonT(40), <1>1, <1>2, <1>3, <1>4, <1>5, <1>6, <1>7, <1>8 DEF FilesNext, Stop

\* What the invariant says of the two properties.
LEMMA FInvImplies ==
    ASSUME FInv PROVE ProgramReadsItsFile /\ SpawnLoadsFile
  <1>1. ProgramReadsItsFile
    BY Zenon DEF FInv, ProgramReadsItsFile
  <1>2. CASE stage \in {"idle", "lost"}
    <2>1. image = <<>> /\ file_size = 0
      BY Zenon, <1>2 DEF FInv, Spawning
    <2>2. Len(image) <= file_size /\ stage # "close"
      BY <1>2, <2>1
    <2>. QED
      BY Zenon, <1>1, <2>2 DEF SpawnLoadsFile
  <1>3. CASE stage \notin {"idle", "lost"}
    <2>. DEFINE f == opened[loading]
    <2>1. /\ image \in Seq(Nat) /\ loading \in Inode /\ f \in Fs!File
          /\ (wanted # NoFile => f = wanted)
          /\ Len(image) = position[loading]
          /\ \A k \in 1 .. Len(image) : image[k] = ByteOf(f, k - 1)
          /\ (stage = "size" => position[loading] = 0 /\ file_size = 0)
          /\ (stage # "size" => file_size = SizeOf(f))
          /\ (stage \notin {"size", "read"} => Len(image) = file_size)
      BY Zenon, <1>3 DEF FInv, Spawning
    <2>2. position[loading] <= SizeOf(f)
      BY Zenon, <2>1 DEF FInv, Reading
    <2>3. SizeOf(f) \in Nat /\ Fs!Content(f) = [k \in 1 .. SizeOf(f) |-> ByteOf(f, k - 1)]
      BY Zenon, <2>1, ContentOf DEF FInv
    <2>. HIDE DEF f
    <2>4. Len(image) <= file_size
      <3>1. CASE stage = "size"
        BY <2>1, <3>1
      <3>2. CASE stage # "size"
        BY Zenon, <2>1, <2>2, <3>2
      <3>. QED
        BY Zenon, <3>1, <3>2
    <2>5. ASSUME stage = "close" PROVE Len(image) = file_size /\ image = Fs!Content(f)
      <3>1. stage # "size" /\ stage \notin {"size", "read"}
        BY <2>5
      <3>2. Len(image) = SizeOf(f) /\ Len(image) = file_size
        BY Zenon, <2>1, <3>1
      <3>3. image = [k \in 1 .. Len(image) |-> image[k]]
        BY <2>1
      <3>4. \A k \in 1 .. SizeOf(f) : image[k] = ByteOf(f, k - 1)
        BY Zenon, <2>1, <3>2
      <3>5. image = [k \in 1 .. SizeOf(f) |-> ByteOf(f, k - 1)]
        BY Zenon, <3>2, <3>3, <3>4
      <3>. QED
        BY Zenon, <2>3, <3>2, <3>5
    <2>. QED
      BY Zenon, <1>1, <2>1, <2>4, <2>5 DEF SpawnLoadsFile
  <1>. QED
    BY Zenon, <1>2, <1>3

-----------------------------------------------------------------------------
(* The volume.                                                               *)

\* A set of numbers that has 0 and every successor of its members has them all.
Induction ==
    \A S \in SUBSET Nat : 0 \in S /\ (\A k \in S : k + 1 \in S) => S = Nat

\* Indices up to n, the first of which is 0.
LEMMA Predecessor ==
    ASSUME NEW n \in Nat
    PROVE  /\ 0 \in 0 .. n /\ 0 + 1 = 1
           /\ \A k \in 0 .. n : k # 0 => k - 1 \in 0 .. n /\ k \in 1 .. n /\ (k - 1) + 1 = k
  OBVIOUS

\* fat_read_entry_offset_size follows the FAT along a chain.
LEMMA Followed ==
    ASSUME Induction, NEW table, NEW q, NEW n \in Nat,
           \A k \in 1 .. n : table[q[k]] = q[k + 1]
    PROVE  Fs!NthCluster(table, q[1], n) = q[n + 1]
  <1>. DEFINE Rule(g) == g = [k \in 0 .. n |-> IF k = 0 THEN q[1] ELSE table[g[k - 1]]]
              at == CHOOSE g : Rule(g)
              known == [k \in 0 .. n |-> q[k + 1]]
              T == {k \in Nat : k <= n => at[k] = q[k + 1]}
  <1>1. Fs!NthCluster(table, q[1], n) = at[n]
    BY DEF Fs!NthCluster
  <1>2. Rule(known)
    <2>1. ASSUME NEW k \in 0 .. n, k # 0
          PROVE  known[k] = table[known[k - 1]]
      <3>1. k - 1 \in 0 .. n /\ k \in 1 .. n /\ (k - 1) + 1 = k
        BY Zenon, <2>1, Predecessor
      <3>2. known[k - 1] = q[(k - 1) + 1] /\ known[k] = q[k + 1]
        BY Zenon, <3>1
      <3>. QED
        BY Zenon, <3>1, <3>2
    <2>2. known[0] = q[1]
      <3>1. 0 \in 0 .. n /\ 0 + 1 = 1
        BY Zenon, Predecessor
      <3>. QED
        BY Zenon, <3>1
    <2>3. known = [k \in 0 .. n |-> known[k]]
      OBVIOUS
    <2>. HIDE DEF known
    <2>. QED
      BY <2>1, <2>2, <2>3
  <1>3. Rule(at)
    BY Zenon, <1>2
  <1>. HIDE DEF at, known
  <1>4. \A k \in 0 .. n : at[k] = IF k = 0 THEN q[1] ELSE table[at[k - 1]]
    BY <1>3
  <1>. HIDE DEF Rule
  <1>5. 0 \in T
    BY <1>4
  <1>6. ASSUME NEW k \in T PROVE k + 1 \in T
    <2>. SUFFICES ASSUME k + 1 <= n PROVE at[k + 1] = q[(k + 1) + 1]
      BY <1>6
    <2>1. k \in Nat /\ k <= n /\ at[k] = q[k + 1]
      BY <1>6
    <2>2. k + 1 \in 0 .. n /\ k + 1 # 0 /\ (k + 1) - 1 = k /\ k + 1 \in 1 .. n
      BY <2>1
    <2>3. at[k + 1] = table[at[k]]
      BY Zenon, <1>4, <2>2
    <2>. QED
      BY Zenon, <2>1, <2>2, <2>3
  <1>7. T \in SUBSET Nat
    OBVIOUS
  <1>. HIDE DEF T
  <1>8. T = Nat
    BY Zenon, <1>5, <1>6, <1>7 DEF Induction
  <1>9. n \in T /\ n <= n
    BY <1>8
  <1>. QED
    BY Zenon, <1>1, <1>9 DEF T

\* A byte of a file is in one of the clusters that its size needs.
LEMMA ClusterWithin ==
    ASSUME NEW d \in Nat \ {0}, NEW size \in Nat, NEW n \in Nat, d * n < size
    PROVE  n < size \div d + (IF size % d = 0 THEN 0 ELSE 1)
  <1>. DEFINE q == size \div d
              r == size % d
  <1>1. q \in Nat /\ r \in 0 .. d - 1 /\ size = d * q + r
    BY Zenon, Division
  <1>. HIDE DEF q, r
  <1>2. ASSUME n > q PROVE FALSE
    <2>1. n - q - 1 \in Nat
      BY <1>1, <1>2
    <2>2. d * (n - q - 1) \in Nat
      BY <2>1
    <2>3. d * n = d * q + d + d * (n - q - 1)
      BY <1>1
    <2>4. d * q \in Nat /\ d * n \in Nat
      BY <1>1
    <2>. QED
      BY <1>1, <2>2, <2>3, <2>4
  <1>3. ASSUME n = q PROVE r # 0
    <2>1. d * q \in Nat
      BY <1>1
    <2>. QED
      BY <1>1, <1>3, <2>1
  <1>4. n < q + (IF r = 0 THEN 0 ELSE 1)
    BY <1>1, <1>2, <1>3
  <1>. QED
    BY Zenon, <1>4 DEF q, r

\* The chain of a file has the clusters that its size needs, each once.
LEMMA ChainOf ==
    ASSUME NEW size \in [Fs!File -> Nat], NEW chain \in Fs!Chains(size), NEW f \in Fs!File
    PROVE  /\ chain[f] \in Seq(Cluster) /\ Fs!IsInjective(chain[f])
           /\ Len(chain[f]) = Fs!ClustersOf(size[f])
  <1>1. /\ chain \in [Fs!File -> UNION {Fs!Injection(1 .. Fs!ClustersOf(size[g]), Cluster) :
                                         g \in Fs!File}]
        /\ Len(chain[f]) = Fs!ClustersOf(size[f])
    BY Zenon DEF Fs!Chains
  <1>2. PICK g \in Fs!File : chain[f] \in Fs!Injection(1 .. Fs!ClustersOf(size[g]), Cluster)
    BY Zenon, <1>1
  <1>3. Fs!ClustersOf(size[g]) \in Nat
    <2>1. Fs!fat_get_cluster_size \in Nat \ {0} /\ size[g] \in Nat
      BY Zenon, Layout
    <2>2. size[g] \div Fs!fat_get_cluster_size \in Nat
      BY Zenon, <2>1, Division
    <2>. QED
      BY <2>2 DEF Fs!ClustersOf
  <1>4. /\ chain[f] \in [1 .. Fs!ClustersOf(size[g]) -> Cluster]
        /\ Fs!IsInjective(chain[f])
    BY Zenon, <1>2 DEF Fs!Injection
  <1>5. chain[f] \in Seq(Cluster)
    BY <1>3, <1>4
  <1>. QED
    BY Zenon, <1>1, <1>4, <1>5

\* In a valid volume the FAT links the clusters of a file.
LEMMA Linked ==
    ASSUME NEW size \in [Fs!File -> Nat], NEW chain \in Fs!Chains(size), NEW f \in Fs!File,
           NEW k \in 1 .. Len(chain[f]) - 1
    PROVE  Fs!FatOf(chain)[chain[f][k]] = chain[f][k + 1]
  <1>. DEFINE c == chain[f][k]
              Next_(d) == \E g \in Fs!File : \E i \in 2 .. Len(chain[g]) :
                             chain[g][i - 1] = c /\ chain[g][i] = d
  <1>1. \A g \in Fs!File : chain[g] \in Seq(Cluster) /\ Fs!IsInjective(chain[g])
    BY Zenon, ChainOf
  <1>2. \A g, h \in Fs!File : g # h => Fs!Range(chain[g]) \cap Fs!Range(chain[h]) = {}
    BY Zenon DEF Fs!Chains
  <1>3. chain[f] \in Seq(Cluster)
    BY Zenon, <1>1
  <1>4. /\ k \in DOMAIN chain[f] /\ k + 1 \in DOMAIN chain[f] /\ k \in Nat
        /\ c \in Cluster /\ chain[f][k + 1] \in Cluster
        /\ k + 1 \in 2 .. Len(chain[f]) /\ (k + 1) - 1 = k
    BY <1>3
  <1>5. \E g \in Fs!File : \E i \in 2 .. Len(chain[g]) : chain[g][i - 1] = c
    BY Zenon, <1>4
  <1>6. Next_(chain[f][k + 1])
    BY Zenon, <1>4
  <1>7. ASSUME NEW d \in Cluster, Next_(d) PROVE d = chain[f][k + 1]
    <2>1. PICK g \in Fs!File : \E i \in 2 .. Len(chain[g]) :
                             chain[g][i - 1] = c /\ chain[g][i] = d
      BY Zenon, <1>7
    <2>2. PICK i \in 2 .. Len(chain[g]) : chain[g][i - 1] = c /\ chain[g][i] = d
      BY Zenon, <2>1
    <2>3. i - 1 \in DOMAIN chain[g] /\ i \in Int
      <3>1. chain[g] \in Seq(Cluster)
        BY Zenon, <1>1
      <3>. QED
        BY <3>1
    <2>4. c \in Fs!Range(chain[g]) /\ c \in Fs!Range(chain[f])
      BY <1>4, <2>2, <2>3 DEF Fs!Range
    <2>5. g = f
      BY Zenon, <1>2, <2>4
    <2>6. i - 1 = k
      BY Zenon, <1>1, <1>4, <2>2, <2>3, <2>5 DEF Fs!IsInjective
    <2>7. i = k + 1
      BY <1>4, <2>3, <2>6
    <2>. QED
      BY Zenon, <2>2, <2>5, <2>7
  <1>8. Fs!FatOf(chain)[c] = CHOOSE d \in Cluster : Next_(d)
    BY Zenon, <1>4, <1>5 DEF Fs!FatOf
  <1>. HIDE DEF Next_
  <1>. QED
    BY Zenon, <1>4, <1>6, <1>7, <1>8

\* A new volume is valid.
LEMMA InitVolume ==
    ASSUME Induction, Fs!FsInit PROVE Volume
  <1>1. PICK size \in FileSizes : \E chain \in Fs!Chains(size) :
         /\ disk_fat = Fs!FatOf(chain)
         /\ disk_entries = [f \in Fs!File |->
              [filename |-> DirName[f].filename, extension |-> DirName[f].extension,
               starting_cluster |-> IF chain[f] = <<>> THEN 0 ELSE chain[f][1],
               filesize_bytes |-> size[f]]]
    BY Zenon DEF Fs!FsInit
  <1>2. PICK chain \in Fs!Chains(size) :
         /\ disk_fat = Fs!FatOf(chain)
         /\ disk_entries = [f \in Fs!File |->
              [filename |-> DirName[f].filename, extension |-> DirName[f].extension,
               starting_cluster |-> IF chain[f] = <<>> THEN 0 ELSE chain[f][1],
               filesize_bytes |-> size[f]]]
    BY Zenon, <1>1
  <1>3. /\ disk_fat = [c \in Cluster \cup {0, 1} |-> disk_fat[c]]
        /\ disk_entries = [f \in Fs!File |-> disk_entries[f]]
    BY <1>2 DEF Fs!FatOf
  <1>4. size \in [Fs!File -> Nat] /\ Fs!fat_get_cluster_size \in Nat \ {0}
    <2>1. FileSizes \subseteq [1 .. possible_root_entries -> Nat]
      BY Zenon, FilesAssumption
    <2>2. Fs!File = 1 .. possible_root_entries
      BY Zenon, NameTypes
    <2>. QED
      BY Zenon, <2>1, <2>2, Layout
  <1>5. ASSUME NEW f \in Fs!File
        PROVE  /\ disk_entries[f].filename = DirName[f].filename
               /\ disk_entries[f].extension = DirName[f].extension
               /\ SizeOf(f) \in Nat
               /\ \A n \in Nat : Fs!fat_get_cluster_size * n < SizeOf(f) =>
                    Fs!NthCluster(disk_fat, disk_entries[f].starting_cluster, n) \in Cluster
    <2>1. /\ disk_entries[f].filename = DirName[f].filename
          /\ disk_entries[f].extension = DirName[f].extension
          /\ disk_entries[f].starting_cluster = IF chain[f] = <<>> THEN 0 ELSE chain[f][1]
          /\ SizeOf(f) = size[f]
      BY <1>2 DEF SizeOf
    <2>2. size[f] \in Nat
      BY Zenon, <1>4
    <2>3. Len(chain[f]) = Fs!ClustersOf(size[f]) /\ chain[f] \in Seq(Cluster)
      BY Zenon, <1>4, ChainOf
    <2>4. ASSUME NEW n \in Nat, Fs!fat_get_cluster_size * n < size[f]
          PROVE  Fs!NthCluster(disk_fat, disk_entries[f].starting_cluster, n) \in Cluster
      <3>1. n < Len(chain[f])
        BY Zenon, <1>4, <2>2, <2>3, <2>4, ClusterWithin DEF Fs!ClustersOf
      <3>2. /\ chain[f] # <<>> /\ chain[f][n + 1] \in Cluster
            /\ \A k \in 1 .. n : k \in 1 .. Len(chain[f]) - 1
        BY <2>3, <3>1
      <3>3. \A k \in 1 .. n : disk_fat[chain[f][k]] = chain[f][k + 1]
        BY Zenon, <1>2, <1>4, <3>2, Linked
      <3>4. Fs!NthCluster(disk_fat, chain[f][1], n) = chain[f][n + 1]
        BY Zenon, <3>3, Followed
      <3>. QED
        BY Zenon, <2>1, <3>2, <3>4
    <2>. QED
      BY Zenon, <2>1, <2>2, <2>4
  <1>. QED
    BY Zenon, <1>3, <1>5 DEF Volume

\* The invariant holds before anything is opened.
LEMMA InitFInv ==
    ASSUME Induction, FilesInit PROVE FInv
  <1>1. Volume
    BY Zenon, InitVolume DEF FilesInit
  <1>2. /\ mounted = "no" /\ opened = [n \in Inode |-> NULL] /\ position = [n \in Inode |-> 0]
        /\ loaded_buffer_index = [n \in Inode |-> -1]
        /\ buffer = [n \in Inode |-> [k \in 1 .. BUFFERSIZE |-> Fs!Unknown]]
    BY Zenon DEF FilesInit, Fs!FsInit
  <1>3. Handle
    BY <1>2 DEF Handle
  <1>4. FsTypes
    BY <1>2 DEF FsTypes
  <1>5. Reading
    BY Zenon, <1>2, FileNumbers DEF Reading
  <1>6. AsAsked
    <2>1. alive = {} /\ asked = [j \in Job |-> NothingAsked]
      BY Zenon DEF FilesInit, Init
    <2>2. 0 \in Nat
      OBVIOUS
    <2>3. NothingAsked \in [Slot -> [file : Fs!File \cup {NoFile}, count : Nat]]
      BY Zenon, <2>2 DEF NothingAsked
    <2>. QED
      BY Zenon, <2>1, <2>3 DEF AsAsked
  <1>7. Spawning
    BY DEF FilesInit, Spawning
  <1>8. right = TRUE
    BY Zenon DEF FilesInit
  <1>. QED
    BY Zenon, <1>1, <1>3, <1>4, <1>5, <1>6, <1>7, <1>8 DEF FInv

-----------------------------------------------------------------------------
(* Induction.                                                                *)

FT == INSTANCE FiniteSetTheorems

\* A set of numbers that has 0 and every successor of its members has them all:
\* its members up to one that it lacks would inject into fewer.
LEMMA AllNumbers == Induction
  <1>. SUFFICES ASSUME NEW S \in SUBSET Nat, 0 \in S, \A k \in S : k + 1 \in S,
                       NEW m \in Nat, m \notin S
                PROVE  FALSE
    BY DEF Induction
  <1>. DEFINE A == S \cap (0 .. m)
              f == [k \in A |-> k + 1]
  <1>1. FT!IsFiniteSet(A)
    <2>1. FT!IsFiniteSet(0 .. m) /\ A \in SUBSET (0 .. m)
      BY FT!FS_Interval
    <2>. QED
      BY <2>1, FT!FS_Subset
  <1>2. \A k \in A : k \in Int /\ k + 1 \in A \ {0}
    OBVIOUS
  <1>3. 0 \in A
    OBVIOUS
  <1>. HIDE DEF A
  <1>4. f \in FT!Injection(A, A \ {0})
    BY <1>2 DEF FT!Injection, FT!IsInjective
  <1>5. /\ FT!IsFiniteSet(A \ {0}) /\ FT!Cardinality(A \ {0}) = FT!Cardinality(A) - 1
        /\ FT!Cardinality(A) \in Nat
    BY <1>1, <1>3, FT!FS_RemoveElement, FT!FS_CardinalityType
  <1>6. FT!Cardinality(A) <= FT!Cardinality(A \ {0})
    BY <1>4, <1>5, FT!FS_Injection
  <1>. QED
    BY <1>5, <1>6

\* A set of numbers has a least one, so that fat_get_entry_by_file has a first entry.
LEMMA Least == LeastNumber
  <1>. SUFFICES ASSUME NEW S \in SUBSET Nat, \A m \in S : \E k \in S : ~ (m <= k)
                PROVE  S = {}
    BY Zenon DEF LeastNumber
  <1>. DEFINE T == {n \in Nat : \A j \in 0 .. n : j \notin S}
  <1>1. 0 \in T
    OBVIOUS
  <1>2. ASSUME NEW n \in T PROVE n + 1 \in T
    <2>1. n + 1 \notin S
      BY <1>2
    <2>. QED
      BY <1>2, <2>1
  <1>3. T \in SUBSET Nat
    OBVIOUS
  <1>. HIDE DEF T
  <1>4. T = Nat
    BY Zenon, <1>1, <1>2, <1>3, AllNumbers DEF Induction
  <1>. QED
    BY <1>4 DEF T

-----------------------------------------------------------------------------
(* What programs see.                                                        *)

\* The inductive invariant of the system calls open, get and spawn: the volume that
\* fat_load found, the inodes that fatfs_open and fatfs_get keep, and what programs
\* and job_create_from_file take them to be.
THEOREM FilesInvariant == FilesSpec => [](IInv /\ FInv)
  <1>1. IInv /\ FInv /\ [FilesNext]_allVars => FInv'
    BY Zenon, Least, NextFInv
  <1>2. FilesInit => FInv
    BY Zenon, AllNumbers, InitFInv
  <1>3. FilesSpec => []IInv
    BY CallsUseDescriptors, Invariance, PTL
  <1>. QED
    BY <1>1, <1>2, <1>3, PTL DEF FilesSpec

\* On every valid volume, whatever the sizes of sectors, clusters and files and the
\* order of clusters, get gives a program the bytes of the file that it opened by
\* name, in order, with other jobs opening, reading and loading in between.
THEOREM ProgramsReadTheirFiles == FilesSpec => []ProgramReadsItsFile
  <1>1. FInv => ProgramReadsItsFile
    BY Zenon, FInvImplies
  <1>. QED
    BY <1>1, FilesInvariant, PTL

\* job_create_from_file never writes past init_mem, and hands the whole file that
\* spawn was asked for to the ELF parser.
THEOREM SpawnLoadsWholeFile == FilesSpec => []SpawnLoadsFile
  <1>1. FInv => SpawnLoadsFile
    BY Zenon, FInvImplies
  <1>. QED
    BY <1>1, FilesInvariant, PTL
=============================================================================
