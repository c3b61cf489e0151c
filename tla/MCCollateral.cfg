SPECIFICATION Spec
CONSTANTS
    all = all
    xyz = xyz
    info = info
    layout = layout
    i1 = i1
    i2 = i2
    i3 = i3
    bad = bad
    inRed = inRed
    inWhite = inWhite
    inGreen = inGreen
    inAll = inAll
    missing = missing
    unreadable = unreadable
    invalid = invalid
    Pvs <- MCPvs
    AllPvs = all
    Paths <- MCPaths
    InfoPath = info
    Contents <- MCContents
    Missing = missing
    Unreadable = unreadable
    Pids <- MCPids
    InfoOf <- MCInfoOf
    Invalid = invalid
    Stores <- MCStores
    Asked <- MCAsked
CHECK_DEADLOCK FALSE
INVARIANTS
    AnswersRight
    ProductsKnown
PROPERTIES
    ItemsFrozen
    FilledByRule
