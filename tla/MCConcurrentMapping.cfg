SPECIFICATION TableSpec
CONSTANTS
    Artifacts = {a1, a2}
    Slots = {p1, p2}
    MaxGeneration = 2
    Sources = {s1}
    Threads = {t1, t2}
SYMMETRY Symmetry
INVARIANTS
    StaleEntryMismatches
    OneBindingPerGeneration
