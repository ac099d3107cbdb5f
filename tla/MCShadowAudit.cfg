SPECIFICATION FairAuditSpec
CONSTANTS
    ShadowMinObservations = 1
    ActivationMaxMismatchRate <- NoMismatch
    LiveMinObservations = 1
    ReopenMinMismatches = 1
    ReopenMismatchRate <- Half
    WindowSize = 2
    Recorders = {r1, r2}
    MaxRestored = 3
    MaxSequence = 5
INVARIANTS
    SnapshotIsFaithful
    QuietRingIsWindow
PROPERTIES
    SlotsNeverGoBack
    RecordReturns
