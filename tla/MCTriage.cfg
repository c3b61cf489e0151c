SPECIFICATION TriageSpec
CONSTANTS
    TargetInfo <- MCTargetInfo
    Layouts <- MCLayouts
    Processors <- MCProcessors
    Cpu <- MCCpu
    Die <- MCDie
    Uppercase <- MCUppercase
    Shift <- MCShift
    CrashLogs <- MCCrashLogs
    Thread <- MCThread
    Core <- MCCore
    Module <- MCModule
    Whoami <- MCWhoami
    Word <- MCWord
    MaxRecords = 3
CHECK_DEADLOCK FALSE
INVARIANTS
    FieldsRight
    RecordsIntact
    FallsBack
    TriagesEach
    UrgentFirst
PROPERTY
    Decodes
