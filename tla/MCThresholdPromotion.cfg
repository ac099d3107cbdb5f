SPECIFICATION MCSpec
CONSTANTS
  Examples <- MCExamples
  Fields <- MCFields
  Values <- MCValues
  Literals <- MCLiterals
  Clauses <- MCClauses
  Classes <- MCClasses
  Scores <- MCScores
  MaxFacts = 6
  Queries <- MCQueries
  Budget <- MCBudget
  Sums <- MCSums
  Weights <- MCWeights
  MaxMisprints = 1
  Catalogs <- MCCatalogs
  Schemas <- MCSchemas
  Sessions <- MCSessions
  Additions <- MCAdditions
  MaxEvents = 1
  Parent = Parent
  NoGeneration = NoGeneration
  Tape <- MCTape
  Scale = 4
  Field = "size"
  IdOf <- MCIdOf
  Parents <- MCParents
  Plans <- MCPlans
  QueryOf <- MCQueryOf
  LiveCorpora <- MCLive
  DriftPolicy <- MCDrift
  MaxEpisodes = 2
  MaxMishaps = 2
INVARIANTS
  AnswersAreTrue
  AnswersAreWhole
  PromotionIsEarned
  ChildrenAreEarned
  EpisodesSettle
CHECK_DEADLOCK FALSE
