CONSTANTS
  Files <- MCFiles
  Words <- MCWords
  Conditions <- MCConditions
  Directives <- MCDirectives
  Trees <- OneForward
  MaxDepth = 2
  Lookups <- MCLookups
  UserFile = 2
  SystemFile = 1
  PlainKeys = {"Compression"}
  CanonicalName = "canon"
  LocalUser = "me"
SPECIFICATION Spec
PROPERTY MergeOnlySetsUnset
CHECK_DEADLOCK FALSE
