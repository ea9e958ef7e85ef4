SPECIFICATION Spec

CONSTANTS
  r1 = r1
  r2 = r2
  r3 = r3
  r4 = r4
  h1 = h1
  NoHost = NoHost
  DefaultHost = NoHost
  Routes <- MCRoutes
  EvtxMaps <- MCEvtxMaps
  WinevtRules <- MCWinevtRules
  Sources <- MCSources
  FdLimit = 3
  BufCap = 3
  PipeCap = 2
  ErrCap = 2
  Diagnostic = 2
  MaxFaults = 1

INVARIANT NothingLeftBehind
PROPERTY Implements
PROPERTY EverySourceEnds

\* A source is read once.
CHECK_DEADLOCK FALSE
