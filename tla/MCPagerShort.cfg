SPECIFICATION Spec
CONSTANTS
    x = x
    y = y
    Chars <- MCChars
    MinLen = 2
    MaxLen = 2
    Texts <- MCTexts
    Consoles <- MCConsoles
    MaxPattern = 2
    Word = 65536
CHECK_DEADLOCK FALSE
INVARIANT
    Displays
