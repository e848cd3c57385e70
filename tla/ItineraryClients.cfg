CONSTANTS
  Query = query
  Messages = {query}
  Scripts <- MCScripts
  Budget = 3
  MaxRestarts = 1
SPECIFICATION ClientsSpec
INVARIANTS
  ReportComplete
  ReportedIsOver
PROPERTIES
  RefinesLifecycle
  ScriptsEnd
CHECK_DEADLOCK FALSE
