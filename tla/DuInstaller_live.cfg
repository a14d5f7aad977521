SPECIFICATION FairSpec
CONSTANTS
  p1 = p1
  p2 = p2
  Paths = {p1, p2}
  NoPath = NoPath
  Names <- OneName
  NoName = NoName
  BadName = BadName
  Cwd = Cwd
  Root = Root
  Empty = Empty
  NoFile = NoFile
  Size <- MCSize
  Basename <- MCBasename
  CommitName <- MCCommitName
  MAX_CHUNK_LEN = 2
  Requests <- FewRequests
  RunLevelRequests <- MCRunLevels
  FlushMayFail = TRUE
PROPERTIES
  CommandServed
  RunLevelServed
  DeployEnds
