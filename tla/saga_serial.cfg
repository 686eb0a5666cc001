\* Calls one after the other, with crashes, retries and edits.
SPECIFICATION FairSpec
CONSTANTS
  run1 = run1
  run2 = run2
  run3 = run3
  honest = honest
  careless = careless
  refused = refused
  Runs <- ThreeRuns
  Answers <- ThreeAnswers
  BlockedAnswers <- OneRefused
  NumContexts = 2
  MaxFaults = 2
  MaxRevisions = 1
  Overlap = FALSE
  CallerResets = TRUE
INVARIANTS
  CompletedIsCoherent
  CompletionIsHonest
PROPERTIES
  PublishedReportIsFrozen
  PublishesOneReading
  InterruptedIsSettled
