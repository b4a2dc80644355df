CONSTANTS
  Files <- MCFiles
  Words <- MCWords
  Conditions <- MCConditions
  Directives <- MCDirectives
  Trees <- MCTrees
  MaxDepth = 2
  Lookups <- MCLookups
  UserFile = 2
  SystemFile = 1
  PlainKeys = {"Compression"}
  CanonicalName = "canon"
  LocalUser = "me"
SPECIFICATION Spec
INVARIANTS CyclesAreHarmless EntriesAreFlatReading FirstMatchWins CommandLineWins HostBlocksCountWhole
PROPERTY ResolutionEnds
CHECK_DEADLOCK FALSE
