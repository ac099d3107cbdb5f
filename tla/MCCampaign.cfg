SPECIFICATION CampaignSpec
CONSTANTS
  Runs <- MCRuns
  Native <- MCNative
  Splits <- MCSplits
  MaxKills = 2
  MaxCuts = 1
INVARIANTS
  RecordsAreEarned
PROPERTIES
  CampaignSettles
CHECK_DEADLOCK FALSE
