SPECIFICATION Spec
CONSTANTS
  p1 = p1
  p2 = p2
  Paths = {p1, p2}
  NoPath = NoPath
  Names <- TwoNames
  NoName = NoName
  BadName = BadName
  Cwd = Cwd
  Root = Root
  Empty = Empty
  NoFile = NoFile
  Size <- MCSize
  Basename <- MCBasename
  CommitName <- MCCommitName
  MAX_CHUNK_LEN = 2
  Requests <- AllRequests
  RunLevelRequests <- MCRunLevels
  FlushMayFail = FALSE
INVARIANTS
  TypeOK
  IInv
  CommittedComplete
  PendingCommitHasStaged
  InstallOnlyAfterRunLevel
  ReportMatchesDisk
PROPERTIES
  NoCommandLost
  OnlyClearErrorLeavesError
  ImplementsPromise
