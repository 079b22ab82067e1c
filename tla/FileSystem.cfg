CONSTANTS
  Dentries <- Small
  Inodes <- InodesDef
  InodesNum = 64
  Programs <- ProgramsDef
  Unknown <- UnknownDef
  FILE_NAME_LENGTH = 32
  DATA_BLOCK_SIZE = 2
  DENTRY_LENGTH = 3
  FDARRAY_MAX = 5
  MaxRequest = 2
  MaxDepth = 1
SPECIFICATION Spec
CONSTRAINT FewWhileWaiting
INVARIANTS
  TypeOK
  HeaderServesFiles
PROPERTIES
  ImplementsOpenFiles
