CONSTANTS
  Dentries <- WithGrep
  Inodes <- InodesDef
  InodesNum = 64
  Programs <- ProgramsDef
  Unknown <- UnknownDef
  FILE_NAME_LENGTH = 32
  DATA_BLOCK_SIZE = 2
  DENTRY_LENGTH = 3
  FDARRAY_MAX = 3
  MaxRequest = 3
  MaxDepth = 0
SPECIFICATION Spec
INVARIANTS
  HeaderServesFiles
