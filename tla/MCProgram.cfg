SPECIFICATION FairSpec
CONSTANTS
    Lines <- MCLines
    Plain = {"a", "b", ",", "test", "runtime"}
    Blank = {","}
    Strange = {"--strange"}
    None = None
    MaxItems = 3
    Platform = {"linux", "macos", "windows"}
    MaxStarts = 2
CHECK_DEADLOCK FALSE
INVARIANTS
    ReadsRight
    ExitTells
PROPERTIES
    ReportsForward
    AskedEnds
