SPECIFICATION MCSpec
CONSTANTS
    p1 = p1
    p2 = p2
    Procs <- Two
    Reader = p1
    Default <- MCDefault
    CommandLines <- Lines
    OldFiles <- MCOldFiles
    IdxWord = 12
    WritesFail = TRUE
    Setups <- MCSetups
    Arriving <- MCArriving
    MaxLog = 2
CHECK_DEADLOCK FALSE
INVARIANTS
    NothingLost
    NamesTrue
    Complete
    AllOrNothing
PROPERTIES
    OwnFilesKept
    Ends
