SPECIFICATION Spec
CONSTANTS
    Script <- MCScript
    MaxEpisodes = 2
    Budget = 2
    MaxBudget = 3
    Faults = {"crash", "append", "drain", "persist"}
    MaxFaults = 1
    Overtaken = {"done"}
INVARIANTS
    TypeOK
    JournalLoads
    SameAnswer
    AgentsWithinBudget
    SuccessorKeepsStatus
PROPERTIES
    CancelledRetires
CHECK_DEADLOCK FALSE
