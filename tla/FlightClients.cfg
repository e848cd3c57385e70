CONSTANTS
  Scripts <- MCScripts
  Versions <- MCVersions
  Tried <- MCTried
  FailFirstAttempts = 2
  MaxAttempts = 4
SPECIFICATION ClientsSpec
INVARIANTS
  AgentUnaware
  OnlyLossDefeatsRetry
  RefusalEndsOneTry
PROPERTIES
  ScriptsEnd
CHECK_DEADLOCK FALSE
