SPECIFICATION Spec
CONSTANTS
    root = root
    host = host
    nested = nested
    user = user
    fresh = fresh
    Root = root
    Declared <- MCDeclared
    Parent <- MCParent
    Builds <- MCBuilds
    Needs <- MCNeeds
    References <- MCReferences
    Verifiable = {nested, user, fresh}
    New = {fresh}
    Kind = {"code", "prose", "output"}
    Branch = {"main", "detached", "other"}
    Calls = {{}, {"All"}, {"NoVerify"}, {"Pin"}}
    Meanwhile = TRUE
    MaxEdits = 2
    MaxRuns = 1
CHECK_DEADLOCK FALSE
INVARIANTS
    LandingInv
    DependenciesLandFirst
    ConsumersChecked
    TestedFirst
