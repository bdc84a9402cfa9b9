SPECIFICATION Spec
CONSTANTS
    c1 = c1
    c2 = c2
    l1 = l1
    l2 = l2
    l3 = l3
    Client = {c1, c2}
    Leader = {l1, l2, l3}
    Stale = {l1, l2}
    Legacy = {l2}
    Nobody = Nobody
    Faults = {"exit", "kill", "hang", "unkillable"}
    HangAt = {"opened", "reopened", "clean", "bind", "serving"}
    MaxFaults = 1
    MaxInode = 4
    MaxSpawns = 2
    MaxEvicts = 1
INVARIANTS
    TypeOK
    OneLeaderUnlessRaced
    StampOutlivesNoHolder
PROPERTIES
    ClientSettles
CHECK_DEADLOCK FALSE
