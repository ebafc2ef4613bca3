SPECIFICATION Spec
CONSTANTS
    Console = {c1, c2}
    Run = {r1, r2}
    Pid = {p1, p2}
    Nobody = Nobody
    Others = {Other}
    Alike <- MCAlike
    None = None
SYMMETRY Interchangeable
CHECK_DEADLOCK FALSE
INVARIANTS
    EstateInv
    StoppedLeavesNothing
PROPERTIES
    RunningKeepsRecord
    VerdictStands
    ListedAlive
