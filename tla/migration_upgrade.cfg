SPECIFICATION FairSpec

CONSTANTS
  Origins <- EveryOrigin
  MaxCrashes = 2

INVARIANTS
  MigrationTypeOK
  VersionBehindColumns
  OpenedIsCurrent
  LevelCarriedOver
  FailsOnlyAhead
  UninterruptedNeverFails

PROPERTIES
  UninterruptedUpgradeOpens
