-------------------------------- MODULE Files -------------------------------
(***************************************************************************)
(* What programs see of files: the system calls open, get and spawn of     *)
(* kernel/exceptions/exceptions.c over the descriptors of jobs (module     *)
(* JobFiles) and the files of the FAT volume (module FatFs), which share   *)
(* the inodes of inode_slab.                                               *)
(***************************************************************************)
EXTENDS JobFiles, Sequences

CONSTANTS
    SECTOR_SIZE, bytes_per_sector, sectors_per_cluster, reserved_sectors,
    sectors_per_fat, fat_copies, possible_root_entries, small_sectors, large_sectors,
    FILENAME, EXTENSION, BUFFERSIZE, FileSizes, DirName, Cluster,    \* module FatFs
    Filename            \* names that programs open

VARIABLES
    mounted, disk_fat, disk_entries, fat, entries, opened, position,
    loaded_buffer_index, buffer,                                    \* module FatFs
    stage,              \* of spawn: "idle", "size", "read", "close"; or "lost"
    image, file_size,   \* of spawn: init_mem up to ptr, and its size
    wanted,             \* history: the file spawn was asked for
    asked,              \* history: file and bytes read, of every descriptor
    right               \* history: every byte that get gave to a program was due

Fs == INSTANCE FatFs

fs == <<mounted, disk_fat, disk_entries, fat, entries, opened, position,
        loaded_buffer_index, buffer>>
load == <<stage, image, file_size, wanted>>
history == <<asked, right>>
allVars == <<vars, fs, load, history>>

\* No file: the name is not in the directory, or too long for one.
NoFile == 0

\* The files that a name stands for, regardless of case: the first characters of
\* name and extension, which blanks follow, with a dot between them.
Upper(s) == [k \in DOMAIN s |-> Fs!fat_char_get_uppercase(s[k])]
BlankFrom(s, k) == \A i \in DOMAIN s : i >= k => s[i] = 32
Match(filename) ==
    {f \in DOMAIN DirName : \E n \in 0 .. FILENAME, e \in 0 .. EXTENSION :
       /\ Upper(filename) = SubSeq(DirName[f].filename, 1, n) \o <<46>>
                               \o SubSeq(DirName[f].extension, 1, e)
       /\ BlankFrom(DirName[f].filename, n + 1) /\ BlankFrom(DirName[f].extension, e + 1)}
Named(filename) ==
    IF Match(filename) = {} THEN NoFile ELSE CHOOSE f \in Match(filename) : TRUE

\* fatfs_open copies what is before and after the dot, and a NULL, to name[10] and
\* ext[10] on its stack, without a test of the length.
PART == 10

\* Parts of a cluster are read whole; the FAT has every cluster; a name has one dot,
\* fits the arrays of fatfs_open and is not in the directory twice.
ASSUME FilesAssumption ==
    /\ {SECTOR_SIZE, bytes_per_sector, sectors_per_cluster, BUFFERSIZE} \subseteq Nat \ {0}
    /\ {reserved_sectors, sectors_per_fat, fat_copies, possible_root_entries,
        small_sectors, large_sectors, FILENAME, EXTENSION} \subseteq Nat
    /\ Fs!fat_get_cluster_size % BUFFERSIZE = 0
    /\ \A c \in Cluster : c \in Nat /\ c >= 2
    /\ \A c \in Cluster \cup {0, 1} : 2 * c + 2 <= Fs!fat_size_bytes
    /\ DirName \in [1 .. possible_root_entries ->
                      [filename : [1 .. FILENAME -> Nat], extension : [1 .. EXTENSION -> Nat]]]
    /\ FileSizes \subseteq [1 .. possible_root_entries -> Nat]
    /\ NULL \notin Nat
    /\ \A filename \in Filename :
         /\ filename \in Seq(Nat)
         /\ \E d \in DOMAIN filename :
              /\ \A i \in DOMAIN filename : filename[i] = 46 <=> i = d
              /\ d - 1 < PART /\ Len(filename) - d < PART
         /\ \A f, g \in Match(filename) : f = g

NothingAsked == [fd \in Slot |-> [file |-> NoFile, count |-> 0]]

FilesInit ==
    /\ Init
    /\ Fs!FsInit
    /\ stage = "idle" /\ image = <<>> /\ file_size = 0 /\ wanted = NoFile
    /\ asked = [j \in Job |-> NothingAsked]
    /\ right = TRUE

Mount ==
    /\ Fs!fatfs_createfs
    /\ UNCHANGED <<vars, load, history>>

\* exceptions_internal_open.
SysOpen(j, filename) ==
    /\ \E inode \in Inode \cup {NULL}, fd \in Slot \cup {-1} :
         /\ open(j, inode, fd)
         /\ Fs!fatfs_open(filename, inode)
         /\ asked' = IF fd = -1 THEN asked
                     ELSE [asked EXCEPT ![j][fd] = [file |-> Named(filename), count |-> 0]]
    /\ UNCHANGED <<load, right>>

\* The byte that the program expects next, or Unknown.
Due(a) == IF a.file # NoFile /\ a.count < Len(Fs!Content(a.file))
          THEN Fs!Content(a.file)[a.count + 1] ELSE Fs!Unknown

\* exceptions_internal_get: fs_inode_get through the descriptor, whose result is
\* not looked at: at the end of a file c was never set.
SysGet(j, fd) ==
    /\ j \in alive /\ loading = NULL
    /\ LET inode == job_get_file(j, fd)
       IN  \/ inode = NULL /\ UNCHANGED <<fs, history>>
          \/ /\ inode # NULL
             /\ Fs!fatfs_get(inode)
             /\ \E r \in Fs!Results(inode) :
                  right' = (right /\ Due(asked[j][fd]) \in {Fs!Unknown, r.byte})
             /\ asked' = [asked EXCEPT ![j][fd].count =
                            IF Due(asked[j][fd]) = Fs!Unknown THEN @ ELSE @ + 1]
    /\ UNCHANGED <<vars, load>>

\* exceptions_internal_spawn.  Without an inode or an entry, job_create_from_file
\* reads at address 0: what follows is not known.
SysSpawn(filename) ==
    /\ \E inode \in Inode \cup {NULL} : spawn_open(inode) /\ Fs!fatfs_open(filename, inode)
    /\ stage' = IF loading' = NULL \/ opened'[loading'] = NoFile THEN "lost" ELSE "size"
    /\ wanted' = Named(filename)
    /\ UNCHANGED <<image, file_size, history>>

SpawnSize ==
    /\ stage = "size"
    /\ file_size' = Fs!fatfs_left(loading)
    /\ stage' = "read"
    /\ UNCHANGED <<vars, fs, image, wanted, history>>

\* while (fs_inode_get(inode, ptr)) ptr++
SpawnRead ==
    /\ stage = "read"
    /\ Fs!fatfs_get(loading)
    /\ \E r \in Fs!Results(loading) :
         /\ image' = IF r.ret = 1 THEN Append(image, r.byte) ELSE image
         /\ stage' = IF r.ret = 1 THEN "read" ELSE "close"
    /\ UNCHANGED <<vars, file_size, wanted, history>>

\* fs_inode_close, and job_create in slot j; module JobLoad has what is between.
SpawnEnd(j) ==
    /\ stage = "close"
    /\ spawn_end(j)
    /\ Fs!fatfs_close(loading)
    /\ stage' = "idle" /\ image' = <<>> /\ file_size' = 0 /\ wanted' = NoFile
    /\ UNCHANGED history

Delete(j) ==
    /\ job_delete(j)
    /\ asked' = [asked EXCEPT ![j] = NothingAsked]
    /\ UNCHANGED <<fs, load, right>>

\* The volume or a program is lost, job_slab is full, or no job is left.
Stop ==
    /\ stage = "lost" \/ mounted = "lost" \/ (stage = "close" /\ alive = Job) \/ alive = {}
    /\ UNCHANGED allVars

FilesNext ==
    \/ Mount
    \/ /\ stage # "lost"
       /\ \/ \E filename \in Filename : SysSpawn(filename)
          \/ SpawnSize \/ SpawnRead
          \/ \E j \in Job :
               \/ SpawnEnd(j) \/ Delete(j)
               \/ \E filename \in Filename : SysOpen(j, filename)
               \/ \E fd \in -1 .. JOB_MAX_FILES : SysGet(j, fd)
    \/ Stop

FilesSpec == FilesInit /\ [][FilesNext]_allVars

-----------------------------------------------------------------------------
(***************************************************************************)
(* Properties.                                                             *)
(***************************************************************************)

\* A program that opens a file by its name, in either case, and gets bytes
\* through the descriptor receives the bytes of that file in order, from the
\* first on: on every valid volume, however fragmented, with other jobs opening,
\* reading and loading in between and inodes used again.
ProgramReadsItsFile == right

\* job_create_from_file sizes init_mem by fatfs_left and fills it until fatfs_get
\* returns 0: it never writes past it, and what it hands to the ELF parser is the
\* whole file that spawn was asked for.
SpawnLoadsFile ==
    /\ Len(image) <= file_size
    /\ stage = "close" =>
         /\ Len(image) = file_size
         /\ wanted # NoFile => image = Fs!Content(wanted)
=============================================================================
