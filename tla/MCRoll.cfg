SPECIFICATION Spec
CONSTANTS
    Starter = {c1, c2}
    Stopper = {c2}
    Attempt = {a1, a2}
    Node = {n1}
    None = None
    MaxFaults = 1
SYMMETRY Interchangeable
CHECK_DEADLOCK FALSE
INVARIANTS
    OneRollPerCluster
    RollInv
    StoppedTree
