SPECIFICATION Spec
CONSTANTS
    t1 = t1
    t2 = t2
    Task = {t1, t2}
    MaxSleeps = 3
INVARIANTS
    TypeOK
    NoStraddle
    NoLostWakeup
PROPERTIES
    RefreshResumes
