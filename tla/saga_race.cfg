\* Two calls overlap while the respondent edits an answer.
SPECIFICATION Spec
CONSTANTS
  run1 = run1
  run2 = run2
  run3 = run3
  honest = honest
  careless = careless
  refused = refused
  Runs <- TwoRuns
  Answers <- TwoAnswers
  BlockedAnswers <- OneRefused
  NumContexts = 3
  MaxFaults = 0
  MaxRevisions = 1
  Overlap = TRUE
  CallerResets = TRUE
INVARIANTS
  CompletedIsCoherent
