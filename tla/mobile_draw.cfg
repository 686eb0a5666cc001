SPECIFICATION FairSpec
CONSTANTS
  MaxPages = 4
  MaxTaps = 2
  None = None
CHECK_DEADLOCK FALSE
INVARIANTS
  DrawTypeOK
  UpstreamKept
  ShownIsSaved
  LoadingAwaitsDraw
PROPERTIES
  LateDrawIsSilent
  ResultSettles
