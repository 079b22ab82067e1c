CONSTANTS
  MAX_PROCESS_NUMBER = 4
  MAX_TERMINAL_SIZE = 3
  Statuses <- MCStatuses
  SwitchKinds = {"live", "full"}
SPECIFICATION Spec
INVARIANTS
  TypeOK
  OneCurrentProcess
  NoSlotLostOrShared
  PidNamesPcb
PROPERTIES
  ReturnsToCaller
  
  
