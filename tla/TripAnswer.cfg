CONSTANTS
  Messages = {m1, m2, m3}
  Destinations = {tokyo, paris}
  NoDestination = NoDestination
  Choices <- MCTwoChoices
SPECIFICATION Spec
INVARIANT AnswerAfterQuestion
CHECK_DEADLOCK FALSE
