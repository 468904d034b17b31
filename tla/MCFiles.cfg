CONSTANTS
    j1 = j1
    j2 = j2
    n1 = n1
    n2 = n2
    NULL = NULL
    Job <- Jobs
    Inode <- Inodes
    JOB_MAX_FILES = 2
    SECTOR_SIZE = 3
    bytes_per_sector = 3
    sectors_per_cluster = 2
    reserved_sectors = 1
    sectors_per_fat = 4
    fat_copies = 2
    possible_root_entries = 2
    small_sectors = 0
    large_sectors = 37
    FILENAME = 2
    EXTENSION = 1
    BUFFERSIZE = 3
    FileSizes <- Lengths
    DirName <- Directory
    Cluster <- Clusters
    Filename <- Names
SYMMETRY Alike
SPECIFICATION FilesSpec
INVARIANTS DescriptorsPrivate SearchEndsInArray OpenFilesReachable ProgramReadsItsFile SpawnLoadsFile
