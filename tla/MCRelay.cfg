SPECIFICATION Spec
CONSTANTS
  Styles = {"BiCopy", "pipeClose", "stdio"}
  Chunks = 2
  Window = 1
INVARIANTS
  TypeOK
  EndsAreEarned
  FirstStreamComplete
PROPERTIES
  BytesArrive
  BothEndsClose
CHECK_DEADLOCK FALSE
