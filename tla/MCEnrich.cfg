SPECIFICATION Spec

CONSTANTS
  h1 = h1
  h2 = h2
  g1 = g1
  g2 = g2
  g3 = g3
  g4 = g4
  p1 = p1
  p2 = p2
  l0 = l0
  l1 = l1
  sys = sys
  ts1 = ts1
  sid18 = sid18
  SYSTEM = SYSTEM
  localsystem = localsystem
  jdoe = jdoe
  image = image
  ip1 = ip1
  ip2 = ip2
  name1 = name1
  name2 = name2
  Blank = Blank
  Hosts <- MCHosts
  Guids <- MCGuids
  Pids <- MCPids
  Luids <- MCLuids
  Sessions = {ts1}
  MaxTime = 4
  Instant <- MCInstant
  Cols <- MCCols
  Values <- MCValues
  Objects <- MCObjects
  FieldsOf <- MCFieldsOf
  OwnerInherits <- MCOwnerInherits
  ParentInherits <- MCParentInherits
  FlowInherits <- MCFlowInherits
  Account <- MCAccount
  Aliases <- MCAliases
  NullLuids = {l0}
  WellKnownLuids = {sys}
  Inputs <- MCInputs

INVARIANT TypeOK
INVARIANT EvidenceKept
INVARIANT NothingMadeUp
INVARIANT LinkIsRight
INVARIANT SessionsAgree

\* The pass ends.
CHECK_DEADLOCK FALSE
