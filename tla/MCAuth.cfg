SPECIFICATION Spec
CONSTANTS
    p1 = p1
    p2 = p2
    c1 = c1
    c2 = c2
    Proc = {p1, p2}
    Caller = {c1, c2}
    Owner <- MCOwner
    MaxMint = 3
    Scenarios <- MCScenarios
INVARIANTS
    TypeOK
    SpentOnce
    NoLostRotation
    VerdictOnDeadToken
CHECK_DEADLOCK FALSE
