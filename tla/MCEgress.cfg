SPECIFICATION ESpec
CONSTANTS
    Ids = {"a", "b"}
    MaxSlot = 2
    Policies <- MCPolicies
    Configs <- MCConfigs
    Destinations <- MCDestinations
    Queries <- MCQueries
    Requests <- MCRequests
    MaxSetups = 3
    MaxFaults = 2
CHECK_DEADLOCK FALSE
INVARIANTS
    PolicyEnforced
    NetworkIntact
    HelpersMediate
