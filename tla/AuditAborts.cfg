SPECIFICATION AuditSpec
CONSTANTS
    MaxEmits = 2
    Genesis = Genesis
    Junk = Junk
    Garbled = Garbled
INVARIANTS
    IndexesRise
