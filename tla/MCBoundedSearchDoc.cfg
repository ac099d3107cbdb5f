SPECIFICATION Spec
CONSTANTS
  Slots <- MCSlots
  MaxDepth = 2
  LogicCapacity = 8
  Rows <- MCRows
  Coverage <- MCCoverage
  MaxWidth = 2
  MaxCandidates = 80
  Parents <- MCParents
  Misprints <- MCMisprints
  Depths = {1, 2}
  IterationLimits = {1, 2, 4}
INVARIANT
  RepairsLower
CHECK_DEADLOCK FALSE
