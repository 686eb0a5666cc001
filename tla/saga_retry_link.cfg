\* The retry link calls again on a failed row without resetting it.
SPECIFICATION Spec
CONSTANTS
  run1 = run1
  run2 = run2
  run3 = run3
  honest = honest
  careless = careless
  refused = refused
  Runs <- ThreeRuns
  Answers <- ThreeAnswers
  BlockedAnswers <- OneRefused
  NumContexts = 2
  MaxFaults = 1
  MaxRevisions = 0
  Overlap = FALSE
  CallerResets = FALSE
INVARIANTS
  CompletionIsHonest
