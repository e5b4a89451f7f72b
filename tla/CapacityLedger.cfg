SPECIFICATION LedgerSpec
CONSTANTS
    WorkspaceIds = {w1, w2, w3}
    Ceiling = 3
    MaxRevision = 11
    MaxPoolId = 4
INVARIANTS
    PublishedInventoryValid
    EntriesOwned
PROPERTIES
    InventoryVersioned
