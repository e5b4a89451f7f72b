SPECIFICATION ESpec
CONSTANTS
    Ids = {"a", "b"}
    MaxSlot = 2
    Policies <- MCPolicies
    Configs <- MCConfigs
    Destinations <- MCDestinations
    Queries <- MCQueries
    Requests <- MCRequests
    MaxSetups = 1
    MaxFaults = 0
CHECK_DEADLOCK FALSE
INVARIANTS
    AllowedNamesRelayed
