SPECIFICATION FairSpec
CONSTANTS
  MaxNum = 3
  Dirs <- MCDirs
INVARIANTS
  CliTypeOK
  FlashedInOrder
  SuccessMeansFlashed
PROPERTIES
  TablesFresh
  CliEnds
CHECK_DEADLOCK FALSE
