SPECIFICATION Spec
CONSTANTS
    WorkspaceIds = {w1, w2}
    Ceiling = 2
    MaxRevision = 40
    MaxPoolId = 0
    Tasks = {t1, t2, t3, t4}
    None = None
SYMMETRY Symmetry
INVARIANTS
    LiveVmCharged
    RegistryBacked
    SnapshotOfCapturedBoot
    NothingLeftOver
PROPERTIES
    ImplementsLedger
