SPECIFICATION Spec
CONSTANTS
    Order = {o1, o2}
    Stopper = {"the console", "its input ending"}
    Manager = "signal"
    MaxStops = 2
    MaxActs = 1
    MaxRuns = 1
SYMMETRY OrderSymmetry
CHECK_DEADLOCK FALSE
INVARIANTS ServiceInv NoLostOrder NoLostAct EndsClean
