SPECIFICATION MCSpec
CONSTANTS
  r1 = r1
  r2 = r2
  k1 = k1
  k2 = k2
  Requests <- MCRequests
  DefaultRequest = r1
  NoRequest = bad
  Kinds <- MCKinds
  DefaultKind = k1
  Epochs = 3
  MaximumSamples = 2
  MaxActs = 4
  p1 = p1
  p2 = p2
  Paths <- MCPaths
  NoPath = blank
  Foreign <- MCForeign
  Texts <- MCTexts
INVARIANTS
  ExportControlIsExact
  PanelsShowOneRun
  HandoverIsExpected
  SearchIsReachable
  PredictionsAreVerified
PROPERTIES
  JobsSettle
CHECK_DEADLOCK FALSE
