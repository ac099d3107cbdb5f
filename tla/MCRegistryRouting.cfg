SPECIFICATION FairSpec
CONSTANTS
    s1 = s1
    s2 = s2
    p1 = p1
    p2 = p2
    Sources = {s1, s2}
    Slots = {p1, p2}
    Artifacts = {a1, a2}
    NoArtifact = none
    MaxGeneration = 1
    Specs <- AllSpecs
    Resolvers = {}
    Recorders = {k1}
    WindowSize = 1
    ShadowMinObservations = 1
    ActivationMaxMismatchRate <- NoMismatch
    LiveMinObservations = 1
    ReopenMinMismatches = 1
    ReopenMismatchRate <- Half
INVARIANTS
    ActiveOwnsSources
    HeldMirrorsTable
    ReplaceMeetsParentWords
    NoContamination
    CheckpointIsFaithful
PROPERTIES
    RoutingSpec
    MutatorsFinish
