SPECIFICATION Spec
CONSTANTS
  Configs <- Sessions
  Others = {}
  MaxTyped = 0
  Window = 2
INVARIANTS TerminalRestored
CHECK_DEADLOCK FALSE
