SPECIFICATION Spec
CONSTANTS
    Script <- MCScript
    MaxEpisodes = 2
    Budget = 2
    MaxBudget = 3
    Faults = {"crash", "append", "drain", "persist"}
    MaxFaults = 0
    Overtaken = {"check", "call", "reserve", "wait", "release", "record", "done"}
INVARIANTS
    JournalLoads
CHECK_DEADLOCK FALSE
