--------------------------------- MODULE Fat --------------------------------
(***************************************************************************)
(* Reading a FAT16 volume, kernel/fs/fat.c: sectors into a buffer, the FAT *)
(* and the directory, a cluster, a part of a file, and looking up a name.  *)
(* A byte of the volume is its address on the block device, so that what a *)
(* buffer holds says where it was read from.  Characters are their codes.  *)
(* Volumes are valid: the chain of a file has the clusters its size needs, *)
(* no cluster is in two chains, and no name is in the directory twice.     *)
(***************************************************************************)
EXTENDS Integers, Sequences, Functions

CONSTANTS
    SECTOR_SIZE,                              \* of the block device: 512
    bytes_per_sector, sectors_per_cluster,    \* the header of the volume
    reserved_sectors, sectors_per_fat, fat_copies, possible_root_entries,
    small_sectors, large_sectors,
    FILENAME, EXTENSION                       \* characters of a name: 8 and 3

EndOfChain == 65535   \* what the volume has after the last cluster: 0xffff
DirEntrySize == 32    \* sizeof(struct fat16_dir_entry)

fat_get_cluster_size == bytes_per_sector * sectors_per_cluster

\* fat_load: where the parts of the volume are.  The FAT is taken to have an
\* entry for every sector.
fat_size_bytes == 2 * (IF small_sectors # 0 THEN small_sectors ELSE large_sectors)
fat_offset == reserved_sectors * bytes_per_sector
dir_entry_offset == fat_offset + sectors_per_fat * fat_copies * bytes_per_sector
dir_entry_size_bytes == possible_root_entries * DirEntrySize
data_offset == dir_entry_offset + dir_entry_size_bytes

\* block_read of one sector (external: the device).
Sector(s) == [k \in 1 .. SECTOR_SIZE |-> s * SECTOR_SIZE + k - 1]

sector_count(offset, n) ==
    n \div SECTOR_SIZE + (IF n % SECTOR_SIZE = 0 THEN 0 ELSE 1)
       + (IF offset % SECTOR_SIZE = 0 THEN 0 ELSE 1)

LastPart(offset, n) ==
    LET off == offset % SECTOR_SIZE
    IN  SubSeq(Sector(offset \div SECTOR_SIZE + sector_count(offset, n) - 1),
               1, IF off # 0 THEN off ELSE SECTOR_SIZE)

\* fat_load_data: what is copied to ptr; more than n bytes when n is not a
\* multiple of SECTOR_SIZE.
fat_load_data(offset, n) ==
    LET sector == offset \div SECTOR_SIZE
        first == SubSeq(Sector(sector), (offset % SECTOR_SIZE) + 1, SECTOR_SIZE)
        middle == [k \in 1 .. SECTOR_SIZE * (sector_count(offset, n) - 2) |->
                     Sector(sector + 1 + (k - 1) \div SECTOR_SIZE)[((k - 1) % SECTOR_SIZE) + 1]]
    IN  IF sector_count(offset, n) < 2 THEN first
        ELSE first \o middle \o LastPart(offset, n)

\* fat_load_table and fat_load_entries: what is at index k of the array that is
\* loaded from offset, when its elements have size bytes: the index on the volume
\* of the element whose bytes are there, or Other.
Other == -1

Element(loaded, offset, size, k) ==
    LET bytes == SubSeq(loaded, size * k + 1, size * (k + 1))
        at == (bytes[1] - offset) \div size
    IN  IF bytes = [b \in 1 .. size |-> offset + size * at + b - 1] THEN at ELSE Other

fat_load_table(disk_fat) ==
    LET loaded == fat_load_data(fat_offset, fat_size_bytes)
    IN  [c \in DOMAIN disk_fat |->
           LET e == Element(loaded, fat_offset, 2, c)
           IN  IF e \in DOMAIN disk_fat THEN disk_fat[e] ELSE Other]

fat_load_entries(disk_entries) ==
    LET loaded == fat_load_data(dir_entry_offset, dir_entry_size_bytes)
    IN  [i \in 1 .. possible_root_entries |->
           disk_entries[Element(loaded, dir_entry_offset, DirEntrySize, i - 1) + 1]]

fat_read_cluster(cluster, bytes) ==
    fat_load_data(data_offset + sectors_per_cluster * bytes_per_sector * (cluster - 2),
                  bytes)

-----------------------------------------------------------------------------
\* The cluster that is n links after the first: handle->fat[cluster], n times.
NthCluster(fat, starting_cluster, n) ==
    LET at[k \in 0 .. n] == IF k = 0 THEN starting_cluster ELSE fat[at[k - 1]]
    IN  at[n]

MinOf(a, b) == IF a < b THEN a ELSE b

(***************************************************************************)
(* fat_read_entry_offset_size: what ptr, which held old, holds afterwards. *)
(* Only the first cluster is copied to ptr: the copies of the clusters     *)
(* that follow go to buffer + out_index, which is freed at the end.        *)
(***************************************************************************)
fat_read_entry_offset_size(fat, entry, old, offset, size) ==
    LET cluster == NthCluster(fat, entry.starting_cluster, offset \div fat_get_cluster_size)
        first_cluster_offset == offset % fat_get_cluster_size
        first_read_size == MinOf(size, fat_get_cluster_size - first_cluster_offset)
        buffer == fat_read_cluster(cluster, fat_get_cluster_size)
    IN  [k \in 1 .. size |-> IF k <= first_read_size
                             THEN buffer[first_cluster_offset + k] ELSE old[k]]

-----------------------------------------------------------------------------
fat_char_get_uppercase(c) == IF c \in 97 .. 122 THEN c - 32 ELSE c

\* fat_uppercase_and_pad: what dest holds afterwards, unchanged when src is too
\* long.
fat_uppercase_and_pad(dest, src, dim) ==
    IF Len(src) > dim THEN dest
    ELSE [k \in 1 .. dim |-> IF k <= Len(src) THEN fat_char_get_uppercase(src[k]) ELSE 32]

\* fat_get_entry_by_file: the number of the first entry with that name, or 0.
\* stale is what the arrays fat_name and fat_ext held before.
fat_get_entry_by_file(entries, name, ext, stale) ==
    LET found == {i \in DOMAIN entries :
                    /\ entries[i].filename = fat_uppercase_and_pad(stale.filename, name, FILENAME)
                    /\ entries[i].extension = fat_uppercase_and_pad(stale.extension, ext, EXTENSION)}
    IN  IF found = {} THEN 0 ELSE CHOOSE i \in found : \A j \in found : i <= j

\* The address on the device of a byte of a file: what the FAT says.
FileByte(fat, entry, position) ==
    data_offset + (position % fat_get_cluster_size)
      + fat_get_cluster_size
          * (NthCluster(fat, entry.starting_cluster, position \div fat_get_cluster_size) - 2)
=============================================================================
