\* Two requests and the runs they queue share the memory of one conversation.
SPECIFICATION Spec
CONSTANTS
  None = None
  Broken = Broken
  DefaultLimit = 100
  ShownLimit = 10
  Web = {w1, w2}
  Remembered = 2
  MaxTurns = 3
  Messages <- MCMessages
SYMMETRY Symmetry
INVARIANTS
  TypeOK
  OnlyStaleWritesLose
  NamedCoinsAreResearched
  AnswersSettleTheirQuestion
PROPERTY StandingOutlivesQuestions
CHECK_DEADLOCK FALSE
