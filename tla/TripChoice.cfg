CONSTANTS
  Messages = {m1, m2, m3}
  Destinations = {tokyo, paris}
  NoDestination = NoDestination
  Choices <- MCAllChoices
SPECIFICATION Spec
INVARIANT BookedAsChosen
CHECK_DEADLOCK FALSE
