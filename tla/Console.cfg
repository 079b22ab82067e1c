CONSTANTS
  NUM_ROWS = 2
  NUM_COLS = 2
  Chars = {"a"}
  Outputs = {"w"}
  Leftovers = {"w"}
  MaxLine = 2
  MAX_TERMINAL_SIZE = 2
SPECIFICATION Spec
INVARIANTS
  TypeOK
  
