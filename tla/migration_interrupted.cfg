SPECIFICATION FairSpec

CONSTANTS
  Origins <- RecentOrigins
  MaxCrashes = 1

PROPERTIES
  InterruptedUpgradeRecovers
