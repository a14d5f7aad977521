SPECIFICATION FairSpec
CONSTANTS
  p1 = p1
  p2 = p2
  w1 = w1
  Packages = {p1, p2}
  NoPkg = NoPkg
  Map <- MCMap
  Buf = 2
  Workers = {w1}
  Old = Old
PROPERTY
  AnswerEndsWait
