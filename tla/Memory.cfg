CONSTANTS
  MAX_PROCESS_NUMBER = 3
  MAX_TERMINAL_SIZE = 3
SPECIFICATION Spec
INVARIANTS
  TypeOK
  TlbCoherent
  
  
  
