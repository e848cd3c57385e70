CONSTANTS
  Calls = {first, second}
  Keys <- MCKeys
  NoKey = "no_key"
  VALID_API_KEYS <- MCValidKeys
SPECIFICATION ClientsSpec
INVARIANTS
  ListsOwnTasks
  WorkOnlyForUsers
PROPERTIES
  RefinesLifecycle
  CallsEnd
CHECK_DEADLOCK FALSE
