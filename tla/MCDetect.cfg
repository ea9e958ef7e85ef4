SPECIFICATION DetectSpec

CONSTANTS
  reg = reg
  cmd = cmd
  srv = srv
  ip = ip
  NoCondition = NoCondition
  Corpora <- MCCorpora
  Tables <- MCTables
  LogSource <- MCLogSource
  Columns <- MCColumns
  CarModel <- MCCarModel
  Prefixed <- MCPrefixed
  LowerCase <- MCLowerCase
  Comparisons <- MCComparisons

INVARIANT RulesMeanWhatTheySay
INVARIANT AnalyticsRunWhole

\* A corpus is run once over a store.
CHECK_DEADLOCK FALSE
