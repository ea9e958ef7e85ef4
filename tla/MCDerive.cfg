SPECIFICATION Spec

CONSTANTS
  h1 = h1
  h2 = h2
  g1 = g1
  g2 = g2
  g3 = g3
  g4 = g4
  pathX = pathX
  pathY = pathY
  says1 = says1
  says2 = says2
  off1 = off1
  bad = bad
  A = A
  a = a
  m = m
  jdoe = jdoe
  sys = sys
  Blank = Blank
  Hosts = {h1, h2}
  Guids <- MCGuids
  Paths = {pathX, pathY}
  Sayings = {says1, says2}
  Offsets = {off1, bad}
  Mint <- MCMint
  Contents <- MCContents
  Norm <- MCNorm
  Accepted <- MCAccepted
  HashFields <- MCHashFields
  AccountFields <- MCAccountFields
  PropCap = 1
  ObjectOrder <- MCObjectOrder
  Inputs <- MCInputs
  MaxPasses = 3

INVARIANT TypeOK
INVARIANT LinkedOnceIffClear
INVARIANT NothingObservedInferred
INVARIANT NoReferenceDangles
INVARIANT OneOwnerEach
INVARIANT NoSelfLoops
INVARIANT ContentCounted
INVARIANT RederiveKeepsTheStored

\* The last pass is over.
CHECK_DEADLOCK FALSE
