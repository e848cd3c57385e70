CONSTANTS
  Messages = {m1, m2, m3}
  Destinations = {tokyo, paris}
  NoDestination = NoDestination
  Choices <- MCTwoChoices
SPECIFICATION FairSpec
INVARIANTS
  TypeOK
  BookingComplete
  QuestionShowsOptions
  ConversationComplete
  NothingAfterOutcome
  NoQuestionAfterOptions
PROPERTIES
  OptionsStable
  RefinesLifecycle
  Settles
  EveryMessageServed
CHECK_DEADLOCK FALSE
