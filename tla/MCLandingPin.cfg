SPECIFICATION Spec
CONSTANTS
    root = root
    host = host
    nested = nested
    user = user
    fresh = fresh
    Root = root
    Declared <- MCDeclared
    Parent <- MCParent
    Builds <- MCBuilds
    Needs <- MCNeeds
    References <- MCReferences
    Verifiable = {host, nested, user, fresh}
    New = {fresh}
    Kind = {"code"}
    Branch = {"main"}
    Calls = {{}, {"Pin"}}
    Meanwhile = FALSE
    MaxEdits = 3
    MaxRuns = 2
CHECK_DEADLOCK FALSE
INVARIANTS
    EstateCheckable
