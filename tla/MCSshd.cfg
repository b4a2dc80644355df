SPECIFICATION Spec
CONSTANTS
  Conns = {1, 2, 3}
  Users = {"alice", "mallory", "nobody"}
  Keys = {"alice", "mallory"}
  AuthorizedKeys <- MCAuthorizedKeys
  Configs <- MCConfigs
  Words <- MCWords
  Boots <- MCBoots
  MaxAuthTries = 2
  MaxAsked <- MCMaxAsked
  MaxFaults = 1
  Nobody = Nobody
INVARIANTS TypeOK OnlyAdmitted ServedAsWritten
PROPERTIES ServedOutliveGrace GraceEnds ShutdownEnds NoClientBlocksOthers
CHECK_DEADLOCK FALSE
