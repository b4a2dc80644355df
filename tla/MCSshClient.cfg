SPECIFICATION Spec
CONSTANTS
  Configs <- MCConfigs
  Others = {}
  MaxTyped = 4
  Window = 2
INVARIANTS TypeOK InputIsFiltered ExitCodeIsReported SessionIsEarned RestoredWithoutPty
PROPERTIES EndsWithSession
CHECK_DEADLOCK FALSE
