SPECIFICATION Spec
CONSTANTS
    Requests = {r1, r2, r3}
    MaxWindowEntries = 3
    WindowDuration = 2
    OpenDuration = 2
    MaxProbes = 2
    MinSamples = 2
    ThresholdNum = 1
    ThresholdDen = 2
    MaxTime = 8
SYMMETRY RequestSymmetry
INVARIANTS
    TypeOK
    WindowCounted
    MirrorAgrees
    ProbeSlots
    FreshLease
    ProbeBudget
CHECK_DEADLOCK FALSE
