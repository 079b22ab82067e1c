CONSTANTS
  Chars = {"l", "L"}
  MAX_BUFFER_SIZE = 1
  MAX_TERMINAL_SIZE = 2
  TypeAhead = FALSE
  scancode_map <- Rows
  Modifiers <- Shifts
SPECIFICATION KeyboardSpec

  
PROPERTIES
  ImplementsLineEditor
