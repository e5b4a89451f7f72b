SPECIFICATION FairSpec
CONSTANTS
    WorkspaceIds = {w1, w2}
    Ceiling = 2
    MaxRevision = 40
    MaxPoolId = 2
    TargetSize = 1
    MaxInFlight = 2
    Refills = {r1}
    None = None
INVARIANTS
    SlotsNeverLeak
    MembersOwnedAndCharged
    ShutdownLeavesNoWarmVm
PROPERTIES
    ShutdownCompletes
    ImplementsLedger
