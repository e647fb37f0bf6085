\* Two ranks on three devices, three iterations of two microbatches.
CONSTANTS
    None = None
    g1 = g1
    g2 = g2
    g3 = g3
    Ranks = {1, 2}
    Devices = {g1, g2, g3}
    Microbatches = 2
    Iterations = 3
    Modes <- AllModes
    CheckSets <- AllCheckSets
    MaxOdd = 1
    MaxFaults = 1
    MaxUnlucky = 1
SPECIFICATION FairSpec
INVARIANTS
    SameVerdict
    ReplayIsExact
    DiagnosisIsTrue
    DefaultChecksStop
PROPERTY
    SuspicionResolved
