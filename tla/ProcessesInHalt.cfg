CONSTANTS
  MAX_PROCESS_NUMBER = 2
  MAX_TERMINAL_SIZE = 2
  Statuses <- MCStatuses
  SwitchKinds = {"live", "full", "in_halt"}
SPECIFICATION Spec
INVARIANTS
  PageStackAndFilesAgree
