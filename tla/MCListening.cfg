SPECIFICATION Spec
CONSTANTS
    Documents <- MCDocuments
    Builds <- MCBuilds
    Presented <- MCPresented
    This = "this"
    None = None
    MaxEdits = 1
INVARIANTS
    FirewallFits
    CredentialFirst
