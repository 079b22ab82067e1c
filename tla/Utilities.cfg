CONSTANTS
  Dentries <- DentriesDef
  Inodes <- InodesDef
  InodesNum = 64
  Programs <- ProgramsDef
  Unknown = {}
  FILE_NAME_LENGTH = 32
  DATA_BLOCK_SIZE = 2
  DENTRY_LENGTH = 63
  FDARRAY_MAX = 8
  MaxRequest = 2
  MaxDepth = 1
  Texts <- TextsDef
  Typed <- TypedDef
  BUFSIZE = 3
  SBUFSIZE = 33
  EXCEPTION_STATUS = 15
SPECIFICATION ShellSpec
INVARIANTS
  ProgramsTyped
  GrepReports
  FilesShown
  ErrorTestsPass
  CommandsSucceed
PROPERTIES
  CommandsEnd
