CONSTANTS
  Chars = {"a"}
  MAX_BUFFER_SIZE = 2
  MAX_TERMINAL_SIZE = 2
  TypeAhead = FALSE
SPECIFICATION Spec
INVARIANTS
  TypeOK
PROPERTIES
  ImplementsLineEditor
  LineIsRead
