SPECIFICATION Spec
CONSTANTS
  Styles = {"stdio"}
  Chunks = 2
  Window = 1
INVARIANT
  StdioAnswerIsWhole
CHECK_DEADLOCK FALSE
