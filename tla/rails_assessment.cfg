SPECIFICATION FairSpec

CONSTANTS
  t1 = t1
  t2 = t2
  q1 = q1
  q2 = q2
  None = None
  Threads <- TwoThreads
  Questions <- TwoQuestions
  Values <- TwoValues
  Hasty <- OnlyHasty
  Contexts <- TwoContexts
  MaxIndex = 3
  MaxDeaths = 1

INVARIANTS
  RailsTypeOK
  SubmittedIsAnswered
  VectorIsRows
  StatusIsHonest

PROPERTIES
  PublishesWhole
  PublishedIsFinal
  SubmittedIsSettled

CHECK_DEADLOCK FALSE
