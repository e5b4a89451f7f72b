SPECIFICATION SealSpec
CONSTANTS
    I64Max = 6
    s1 = s1
    s2 = s2
    Hosts <- MCHosts
    GatePolicies <- MCGatePolicies
    Nonces <- MCNonces
    Clocks <- MCClocks
    Sealers <- MCSealers
    Policies <- MCPolicies
    Host <- MCHost
    Configs <- MCConfigs
    Measurement = "m1"
    Now = 3
    CpClocks = {4, 6}
    MaxOpens = 2
    MaxCrashes = 1
SYMMETRY MCSymmetry
INVARIANTS
    UndisturbedSealOpens
    KeyReleaseGated
    ContainerDetectsDamage
    VerifiersAgree
PROPERTIES
    ImplementsSealedStore
CHECK_DEADLOCK FALSE
