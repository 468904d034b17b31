-------------------------------- MODULE FatFs -------------------------------
(***************************************************************************)
(* Files of a FAT volume, kernel/fs/fat_fs.c and fs.c: inodes come from a  *)
(* slab, a byte is read through a buffer of BUFFERSIZE bytes per inode.    *)
(* The volume is any valid one and does not change; a read of the device   *)
(* is one step here (module Kernel has its wait).                          *)
(***************************************************************************)
EXTENDS Fat

CONSTANTS
    BUFFERSIZE,
    Inode,             \* the slots of inode_slab, which module JobFiles hands out
    FileSizes,         \* sizes the files of a volume may have
    DirName,           \* the directory: filename and extension of every entry
    Cluster,           \* data clusters of the volume
    NULL

Unknown == -1          \* a byte that was never written, or is read at address 0
File == DOMAIN DirName

VARIABLES
    mounted,           \* "no", "yes", or "lost": the FAT was not allocated
    disk_fat, disk_entries,                  \* the volume
    fat, entries,                            \* struct fat_handle
    opened,            \* the entry of every inode, 0: none; NULL: not open
    position, loaded_buffer_index, buffer     \* struct fat_inode

handle == <<mounted, disk_fat, disk_entries, fat, entries>>
fsVars == <<handle, opened, position, loaded_buffer_index, buffer>>

ClustersOf(size) ==
    size \div fat_get_cluster_size + (IF size % fat_get_cluster_size = 0 THEN 0 ELSE 1)

\* The chains of a valid volume: as long as the sizes need, and disjoint.
Chains(size) ==
    {chain \in [File -> UNION {Injection(1 .. ClustersOf(size[f]), Cluster) : f \in File}] :
        /\ \A f \in File : Len(chain[f]) = ClustersOf(size[f])
        /\ \A f, g \in File : f # g => Range(chain[f]) \cap Range(chain[g]) = {}}

\* Entries 0 and 1 of the FAT are no clusters.
FatOf(chain) ==
    [c \in Cluster \cup {0, 1} |->
       IF \E f \in File : \E k \in 2 .. Len(chain[f]) : chain[f][k - 1] = c
       THEN CHOOSE d \in Cluster : \E f \in File : \E k \in 2 .. Len(chain[f]) :
              chain[f][k - 1] = c /\ chain[f][k] = d
       ELSE EndOfChain]

FsInit ==
    /\ mounted = "no"
    /\ \E size \in FileSizes : \E chain \in Chains(size) :
         /\ disk_fat = FatOf(chain)
         /\ disk_entries = [f \in File |->
              [filename |-> DirName[f].filename, extension |-> DirName[f].extension,
               starting_cluster |-> IF chain[f] = <<>> THEN 0 ELSE chain[f][1],
               filesize_bytes |-> size[f]]]
    /\ fat = <<>> /\ entries = <<>>
    /\ opened = [n \in Inode |-> NULL]
    /\ position = [n \in Inode |-> 0]
    /\ loaded_buffer_index = [n \in Inode |-> -1]
    /\ buffer = [n \in Inode |-> [k \in 1 .. BUFFERSIZE |-> Unknown]]

\* fat_load; when it has no memory for the FAT or the directory it logs so, and
\* they are read at address 0 later.
fatfs_createfs ==
    /\ mounted = "no"
    /\ \/ /\ mounted' = "yes"
          /\ fat' = fat_load_table(disk_fat)
          /\ entries' = fat_load_entries(disk_entries)
       \/ mounted' = "lost" /\ UNCHANGED <<fat, entries>>
    /\ UNCHANGED <<disk_fat, disk_entries, opened, position, loaded_buffer_index, buffer>>

\* The loops of fatfs_open over a filename that has a dot.
Dot(filename) == CHOOSE i \in DOMAIN filename :
                    filename[i] = 46 /\ \A j \in 1 .. i - 1 : filename[j] # 46

Lookup(filename, stale) ==
    fat_get_entry_by_file(entries, SubSeq(filename, 1, Dot(filename) - 1),
                          SubSeq(filename, Dot(filename) + 1, Len(filename)), stale)

Stale == Range(DirName) \cup {[filename |-> <<>>, extension |-> <<>>]}

\* fatfs_open, mutated: the buffer of the inode's last file counts as loaded.
OpenKeepsBuffer(filename, n) ==
    /\ mounted = "yes" /\ n # NULL
    /\ \E stale \in Stale : opened' = [opened EXCEPT ![n] = Lookup(filename, stale)]
    /\ position' = [position EXCEPT ![n] = 0]
    /\ UNCHANGED <<handle, loaded_buffer_index, buffer>>

\* fatfs_open, in inode n.  A name that fits its arrays (FilesAssumption of Files)
\* but not FAT is compared as whatever was in fat_get_entry_by_file's arrays for
\* it, at worst a name of the directory; a name that is not found
\* yields an inode without an entry.  With no inode left, n is NULL: its fields
\* are written to flash and lost.
fatfs_open(filename, n) ==
    /\ mounted = "yes"
    /\ \/ /\ n # NULL
          /\ \E stale \in Stale : opened' = [opened EXCEPT ![n] = Lookup(filename, stale)]
          /\ position' = [position EXCEPT ![n] = 0]
          /\ loaded_buffer_index' = [loaded_buffer_index EXCEPT ![n] = -1]
          /\ UNCHANGED <<handle, buffer>>
       \/ n = NULL /\ UNCHANGED fsVars

\* The buffer after fatfs_get has made sure that it holds part idx of the file.
Filled(n, idx) ==
    IF idx = loaded_buffer_index[n] THEN buffer[n]
    ELSE fat_read_entry_offset_size(fat, entries[opened[n]], buffer[n],
                                    BUFFERSIZE * idx, BUFFERSIZE)

\* The bound of fatfs_get, mutated: one byte too far.
AtEndLate(n) == position[n] > entries[opened[n]].filesize_bytes

AtEnd(n) == position[n] >= entries[opened[n]].filesize_bytes

\* What fatfs_get may return, and the byte it stores.  Without an entry, the size
\* is read at address 0, and is anything.
Results(n) ==
    IF opened[n] = 0 THEN [ret : {0, 1}, byte : {Unknown}]
    ELSE IF AtEnd(n) THEN {[ret |-> 0, byte |-> Unknown]}
    ELSE {[ret |-> 1, byte |-> Filled(n, position[n] \div BUFFERSIZE)
                                 [(position[n] % BUFFERSIZE) + 1]]}

fatfs_get(n) ==
    /\ \/ /\ opened[n] = 0 \/ (opened[n] # 0 /\ AtEnd(n))
          /\ UNCHANGED <<position, loaded_buffer_index, buffer>>
       \/ /\ opened[n] # 0 /\ ~ AtEnd(n)
          /\ LET req_buffer_index == position[n] \div BUFFERSIZE
             IN  /\ buffer' = [buffer EXCEPT ![n] = Filled(n, req_buffer_index)]
                 /\ loaded_buffer_index' = [loaded_buffer_index EXCEPT ![n] = req_buffer_index]
          /\ position' = [position EXCEPT ![n] = @ + 1]
    /\ UNCHANGED <<handle, opened>>

fatfs_close(n) ==
    /\ opened[n] # NULL
    /\ opened' = [opened EXCEPT ![n] = NULL]
    /\ UNCHANGED <<handle, position, loaded_buffer_index, buffer>>

fatfs_left(n) == entries[opened[n]].filesize_bytes - position[n]

\* The bytes of a file of the volume, each the address it is at.
Content(f) ==
    [k \in 1 .. disk_entries[f].filesize_bytes |-> FileByte(disk_fat, disk_entries[f], k - 1)]
=============================================================================
