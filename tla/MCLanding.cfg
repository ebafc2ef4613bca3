SPECIFICATION Spec
CONSTANTS
    root = root
    host = host
    nested = nested
    user = user
    fresh = fresh
    Root = root
    Declared <- MCDeclared
    Parent <- MCParent
    Builds <- MCBuilds
    Needs <- MCNeeds
    References <- MCReferences
    Verifiable = {host, nested, user, fresh}
    New = {fresh}
    Kind = {"code"}
    Branch = {"main"}
    Calls = {{}}
    Meanwhile = FALSE
    MaxEdits = 4
    MaxRuns = 3
CHECK_DEADLOCK FALSE
INVARIANTS
    EstateCheckable
    SuccessIsWhole
