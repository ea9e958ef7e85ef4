SPECIFICATION Spec

CONSTANTS
  h1 = h1
  g1 = g1
  g2 = g2
  g3 = g3
  g4 = g4
  Blank = Blank
  Values <- MCValues
  Reads <- MCReads
  HashOrder <- MCHashOrder
  Analytics <- MCAnalytics
  Stores <- MCStores

INVARIANT RefsResolve
INVARIANT NothingHomeless
INVARIANT NothingOverwritten
INVARIANT EdgesFindTheirEnds

\* The bundle is written once.
CHECK_DEADLOCK FALSE
