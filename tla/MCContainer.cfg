SPECIFICATION Spec
CONSTANTS
    r1 = r1
    r2 = r2
    box = box
    front = front
    frontbox = frontbox
    zero = zero
    crashlog = crashlog
    other = other
    text = text
    Records <- MCRecords
    Inside <- MCInside
    Bogus <- MCBogus
    Mistakes <- MCMistakes
    Texts = {text}
    Zero = zero
    CrashlogId = crashlog
    OtherId = other
    Files <- MCFiles
    MaxExports = 3
CHECK_DEADLOCK FALSE
INVARIANTS
    WholeSectionsRead
    
    
PROPERTY
    Settles
