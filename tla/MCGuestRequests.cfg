SPECIFICATION GuestSpec
CONSTANTS
    c1 = c1
    c2 = c2
    Calls <- MCCalls
    Inputs <- MCInputs
    Setups <- MCSetups
    MaxBoots = 2
INVARIANTS
    AuditTellsTruth
    ForkNeverKeepsIdentity
    SurfacesAgree
PROPERTIES
    ImplementsAtomicFile
    RequestsAnswered
CHECK_DEADLOCK FALSE
