SPECIFICATION FairSpec
CONSTANTS
    Threads = {t1, t2}
    MaxWindowEntries = 1
    WindowDuration = 1
    OpenDuration = 1
    MaxProbes = 1
    MinSamples = 1
    ThresholdNum = 1
    ThresholdDen = 2
    UsizeModulus = 8
    MaxTime = 2
INVARIANTS
    TypeOK
    CounterNearRange
PROPERTIES
    NotStranded
    OpenIsLeft
CHECK_DEADLOCK FALSE
