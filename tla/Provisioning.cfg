SPECIFICATION PSpec
CONSTANTS
    MaxCommands = 2
    MaxLaunches = 1
    MaxInodes = 4
    MaxReplaced = 1
INVARIANTS
    StagedImagesVerified
PROPERTIES
    CompletedInstall
    CommandsRespectHost
CHECK_DEADLOCK FALSE
