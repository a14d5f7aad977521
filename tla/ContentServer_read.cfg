SPECIFICATION FairSpec
CONSTANTS
  p1 = p1
  p2 = p2
  Packages <- MCPackages
  NoPath = NoPath
  Entries <- MCEntries
  Cli = Cli
  Writers = {w}
  Readers = {r}
  NotReading = NotReading
  Nobody = Nobody
INVARIANT ReadsFromPackage
