SPECIFICATION UefiSpec
CONSTANTS
    x = x
    y = y
    Chars <- MCChars
    MinLen = 1
    MaxLen = 5
    Texts <- MCTexts
    Consoles <- MCConsoles
    MaxPattern = 2
    Word = 65536
    MaxTokens = 3
    Words <- MCWords
    Count <- MCCount
    Generated <- MCGenerated
    Setups <- MCSetups
CHECK_DEADLOCK FALSE
INVARIANTS
    PageRight
    ParsesRight
    ExitHonest
PROPERTY
    SearchExact
