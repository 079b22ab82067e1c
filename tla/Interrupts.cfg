CONSTANTS
  WAITS = 16
  OPEN_FREQ = 128
  WRITE_FREQ = 2
  MaxTicks = 17
  MAX_TERMINAL_SIZE = 3
  MaxPresses = 3
SPECIFICATION Spec
INVARIANTS
  TypeOK
  NothingHeldBack
  NoEdgeLost
  ReadCountsTicks
PROPERTIES
  KeysRead
  ReadReturns
  ImplementsRTC
