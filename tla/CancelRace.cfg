CONSTANTS
  Query = query
  Messages = {query}
  Scripts <- MCCancelDemo
  Budget = 3
  MaxRestarts = 0
SPECIFICATION ClientsSpec
INVARIANT BudgetCancels
CHECK_DEADLOCK FALSE
