\* Two images and chains of up to three events: enough for a snapshot, a log
\* prefix it covers, an event after it and an append that fails.
SPECIFICATION Spec
CONSTANTS
    Images = {x, y}
    MaxSequence = 3
    FsyncCoversNewEntry = TRUE
INVARIANTS
    RecoveryIsFaithful
    FreshTokenIsAccepted
