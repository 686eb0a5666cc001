\* Two calls on one assessment, interleaved, with faults and an edit.
SPECIFICATION Spec
CONSTANTS
  run1 = run1
  run2 = run2
  run3 = run3
  honest = honest
  careless = careless
  refused = refused
  Runs <- TwoRuns
  Answers <- TwoAnswers
  BlockedAnswers <- OneRefused
  NumContexts = 3
  MaxFaults = 2
  MaxRevisions = 1
  Overlap = TRUE
  CallerResets = TRUE
INVARIANTS
  TypeOK
  CompletedIsBacked
  ReportedCompletedIsBacked
  FailureLeavesEvidence
  CoherentUntilRevised
PROPERTIES
  CompletedIsTerminal
  FrozenUntilRevised
  ImplementsPublication
