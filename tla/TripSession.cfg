CONSTANTS
  Opener = opener
  Answer = answer
  Messages = {opener, answer}
  Destinations = {tokyo, paris}
  NoDestination = NoDestination
  Choices <- MCChoices
  MaxRestarts = 1
SPECIFICATION SessionSpec
INVARIANTS
  NothingLeftBehind
  ReplyReachesItsQuestion
PROPERTIES
  SessionEnds
CHECK_DEADLOCK FALSE
