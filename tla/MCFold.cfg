SPECIFICATION Spec

CONSTANTS
  k1 = k1
  k2 = k2
  evtx = evtx
  memory = memory
  ref = ref
  port = port
  int443 = int443
  str443 = str443
  other = other
  NoIdentity = NoIdentity
  Missing = Missing
  Keys <- MCKeys
  Artefacts <- MCArtefacts
  Refs <- MCRefs
  Fields <- MCFields
  Columns <- MCFields
  Values <- MCValues
  Text <- MCText
  Cap = 3
  Inputs <- MCInputs

INVARIANT NothingLost
INVARIANT NothingInvented
INVARIANT OneRowPerEvent
INVARIANT ContributorsCounted
INVARIANT FoldContinues

\* A fold ends.
CHECK_DEADLOCK FALSE
