SPECIFICATION FairSpec
CONSTANTS
    Order = {o1}
    Stopper = {"the Service Control Manager"}
    Manager = "scm"
    MaxStops = 1
    MaxActs = 1
    MaxRuns = 2
CHECK_DEADLOCK FALSE
PROPERTIES FileNeverBack StopEnds OrderAnswered ChangeShown PromiseKept
