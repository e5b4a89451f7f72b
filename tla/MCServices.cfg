SPECIFICATION Spec
CONSTANTS
    Operations = {o1, o2, o3}
    MaxSequence = 3
    MaxRevision = 1
    MaxProcess = 2
    MaxEmits = 4
    Genesis = Genesis
    Junk = Junk
    Garbled = Garbled
INVARIANTS
    QuietAfterWait
    NeverOutOfStep
    ListedChainUnbroken
    GoodLogVerifies
PROPERTIES
    WaitReturns
    ReportsInOrder
    PollAcknowledged
