CONSTANTS
  Chars <- CharsDef
  Programs <- ProgramsDef
  Shell = "a"
  Behind <- BehindDef
  FILE_NAME_LENGTH = 2
  Texts <- TextsDef
  MaxRequest = 4
  MaxDepth = 2
SPECIFICATION Spec
INVARIANTS
  TypeOK
  
  ArgsAsTyped
