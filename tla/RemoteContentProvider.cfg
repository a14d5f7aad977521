SPECIFICATION FairSpec
CONSTANTS
  p1 = p1
  p2 = p2
  w = w
  r1 = r1
  r2 = r2
  Packages = {p1, p2}
  NoPath = NoPath
  Entries <- MCEntries
  Size <- MCSize
  AcceptRanges = {p1}
  Chunk = 2
  DULINK_RETRY_NUMBER = 1
  Main = Main
  Writers = {w}
  Readers = {r1}
  Sizers = {r2}
  Nobody = Nobody
INVARIANTS
  RemoteTypeOK
  ExportsExactlyServed
  CopyIsWhole
  AnswersFit
PROPERTY ReadAnswered
