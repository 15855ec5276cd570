SPECIFICATION FairSpec
CONSTANTS
  w1 = w1
  w2 = w2
  Windows <- MCWindows
  Instances <- MCInstances
  None = None
INVARIANTS
  ActsAsMeant
PROPERTIES
  QuestionSurvives
  WaitingEnds
CHECK_DEADLOCK FALSE
