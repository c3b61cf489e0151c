SPECIFICATION Spec
CONSTANTS
    e1 = e1
    e2 = e2
    e3 = e3
    x = x
    y = y
    Endpoints <- MCEndpoints
    Bdfs <- MCBdfs
    Home <- MCHome
    Setups <- MCSetups
    MaxTouched = 2
    MaxMissed = 2
CHECK_DEADLOCK FALSE
INVARIANTS
    CommandsAll
    ExtractsNamed
    ExtractsEverything
PROPERTY
    Returns
