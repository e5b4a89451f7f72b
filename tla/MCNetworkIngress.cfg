SPECIFICATION Spec
CONSTANTS
    WorkspaceIds = {w1, w2}
    MaxSlot = 2
    Tasks = {t1, t2, t3, t4}
SYMMETRY Symmetry
INVARIANTS
    SlotsAccounted
    SerialIdsConsistent
    RequestsReachOwnGuest
    IngressDecisions
