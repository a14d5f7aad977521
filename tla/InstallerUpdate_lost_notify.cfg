SPECIFICATION UpdateSpec
CONSTANTS
  p1 = p1
  p2 = p2
  Paths = {p1, p2}
  NoPath = NoPath
  Names <- MCNames
  NoName = NoName
  BadName = BadName
  Cwd = Cwd
  Root = Root
  Empty = Empty
  NoFile = NoFile
  Size <- MCSize
  Basename <- MCBasename
  CommitName <- MCCommitName
  MAX_CHUNK_LEN = 2
  Requests = {}
  RunLevelRequests = {}
  FlushMayFail = FALSE
INVARIANT PendingRlAnnounced
CHECK_DEADLOCK FALSE
