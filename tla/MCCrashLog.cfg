SPECIFICATION Spec
CONSTANTS
    Lens = {20, 32}
    Step = 8
    Slots = 3
    Split = 16
    Files <- MCFiles
INVARIANTS
    RegionsTile
    ParentIsInnermost
    NoRecordTwice
    DepthFirst
    SectionsAccounted
PROPERTIES
    Expands
    Termination
