SPECIFICATION ViewsSpec

CONSTANTS
  h1 = h1
  h2 = h2
  g1 = g1
  g2 = g2
  x1 = x1
  x2 = x2
  v1 = v1
  i1 = i1
  c1 = c1
  c2 = c2
  NoId = NoId
  NoTime = NoTime
  NoInstant = NoInstant
  NoBound = NoBound
  Junk = Junk
  Cases <- MCCases
  Windows <- MCWindows

INVARIANT ConvergedOnceAtTheStrongest
INVARIANT EveryWordIsKept
INVARIANT TimeRunsForward
INVARIANT NothingLostInTime

\* The views are built once.
CHECK_DEADLOCK FALSE
