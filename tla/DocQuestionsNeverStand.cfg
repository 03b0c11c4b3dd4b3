\* One conversation, without a race.
SPECIFICATION Spec
CONSTANTS
  None = None
  Broken = Broken
  DefaultLimit = 100
  ShownLimit = 10
  Web = {w1}
  Remembered = 2
  MaxTurns = 3
  Messages <- MCMessages
SYMMETRY Symmetry
INVARIANT QuestionsNeverStand
CHECK_DEADLOCK FALSE
