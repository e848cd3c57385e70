CONSTANTS
  m1 = m1
  m2 = m2
  m3 = m3
  Messages <- MCMessages
  Script <- MCScript
  MaxRestarts = 1
SPECIFICATION SessionSpec
INVARIANTS
  ConfirmsWholeConversation
  QuestionIsFresh
PROPERTIES
  RefinesLifecycle
  SessionEnds
CHECK_DEADLOCK FALSE
