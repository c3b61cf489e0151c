SPECIFICATION Spec
CONSTANTS
    l1 = l1
    l2 = l2
    Logs <- MCLogs
    EventLogs <- MCEventLogs
    Bytes <- MCBytes
    Cper <- MCCper
    Json <- MCJson
    Names <- MCNames
    Trees <- MCTrees
    Handles = {1, 2, 3, 4, 5}
    MaxBuffer = 3
    Word = 65536
CHECK_DEADLOCK FALSE
INVARIANTS
    HandlesLive
    IteratesAll
    ExportWhole
    NameFits
PROPERTY
    AllFreed
