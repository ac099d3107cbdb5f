SPECIFICATION FairSpec
CONSTANTS
  Slots <- MCSlots
  MaxDepth = 2
  LogicCapacity = 8
  Rows <- MCRows
  Coverage <- MCCoverage
  MaxWidth = 2
  MaxCandidates = 80
  Parents <- MCParents
  Misprints <- MCMisprints
  Depths = {1, 2}
  IterationLimits = {1, 2, 4}
INVARIANTS
  AnswersAreExact
  RefusalsAreEarned
PROPERTY
  RequestSettles
CHECK_DEADLOCK FALSE
