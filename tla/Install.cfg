SPECIFICATION Spec
CONSTANTS
    Platform = {"windows", "linux", "macos"}
    Account = {"default", "xmip", "other"}
    MaxCalls = 3
    MaxFaults = 2
CHECK_DEADLOCK FALSE
INVARIANTS
    RunsGiven
    InstalledRuns
    InstallInv
    UninstalledIsGone
PROPERTIES
    ConfigurationKept
    RefusedForCause
