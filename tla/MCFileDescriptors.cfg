SPECIFICATION Spec
CONSTANTS
  FILENAME_LEN = 4
  BYTES_PER_BLOCK = 2
  UintValues = 1000
  NumTerminals = 2
  NumProcesses = 3
  FILE_DESCRIPTOR_MIN = 2
  FILE_DESCRIPTOR_MAX = 3
  direntries <- Disk
  inodes <- File
  Names <- DiskNames
  Arguments = {""}
  Requests = {2}
  MaxPos = 4
  MaxCounter = 4
INVARIANT TypeOK
PROPERTY StartsWithoutFiles
PROPERTY OpenFilesKept
INVARIANT ReadsAreContiguous
PROPERTY LoneListingComplete
