SPECIFICATION SystemFairSpec

CONSTANTS
  scoring = scoring
  first = first
  second = second
  honest = honest
  none = none
  Runs <- OneRun
  Deleters <- TwoDeleters
  Answers <- HonestOrNone
  BlockedAnswers <- OnlyNone
  NoAnswers = none
  NumContexts = 2
  MaxFaults = 1
  MaxRevisions = 0
  MaxGrants = 1
  Overlap = TRUE
  CallerResets = TRUE

INVARIANTS
  DeletionTypeOK
  SuccessMeansErased
  CompletedRequestHoldsNoReport
  ErasureIsAudited

PROPERTIES
  ImplementsErasure
  UninterruptedDeletionErases
