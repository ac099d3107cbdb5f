SPECIFICATION Spec
CONSTANTS
    Corpora <- AllCorpora
    Observations = {o1, o2, o3, o4}
    Behaviors = {b1, b2}
    Parent = P
    NoGeneration = NoGeneration
    NoUsage = NoUsage
    NoLineage = NoLineage
    Controllers = {c1, c2}
    NoController = NoController
    LogCapacity = 12
    Missing = Missing
    Down = Down
INVARIANTS
    DurableLogReplays
    PromisesAreDurable
    EvaluationsShareNothing
SYMMETRY Symmetry
PROPERTY LineSpec
