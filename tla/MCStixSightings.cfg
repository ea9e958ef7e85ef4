SPECIFICATION Spec

CONSTANTS
  h1 = h1
  g1 = g1
  g2 = g2
  g3 = g3
  g4 = g4
  Blank = Blank
  Values <- MCValues
  Reads <- MCReads
  HashOrder <- MCHashOrder
  Analytics <- MCAnalytics
  Stores <- MCSightings

INVARIANT SightingOfMatchedRow

CHECK_DEADLOCK FALSE
