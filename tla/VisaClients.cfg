CONSTANTS
  Query = query
  Messages = {query}
  Scripts <- MCScripts
  MaxRestarts = 1
SPECIFICATION ClientsSpec
INVARIANTS
  NotifiedKnowsAll
  FallbackReports
PROPERTIES
  NoMissedWakeup
  RefinesLifecycle
  ScriptsEnd
CHECK_DEADLOCK FALSE
