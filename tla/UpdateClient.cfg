SPECIFICATION FairSpec
CONSTANTS
  p1 = p1
  m1 = m1
  m2 = m2
  Packages = {p1}
  NoPkg = NoPkg
  Main = Main
  Monitors = {m1, m2}
  NoThread = NoThread
INVARIANTS
  ClientTypeOK
  ContextNamesUpdate
  CallbackTracked
  AbortLeavesNothing
PROPERTY AbortEnds
