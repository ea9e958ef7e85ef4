SPECIFICATION Spec

CONSTANTS
  s1 = s1
  s2 = s2
  o1 = o1
  o2 = o2
  Absent = Absent
  Torn = Torn
  Sources <- MCSources
  Objects <- MCObjects
  Order <- MCOrder
  PopulatedBy <- MCPopulatedBy
  Kind <- MCKind
  Path <- MCPath
  MaxVersion = 2
  MaxCommands = 2
  MaxFaults = 1

INVARIANT TwoStores

\* An operator who has no command left to run has finished.
CHECK_DEADLOCK FALSE
