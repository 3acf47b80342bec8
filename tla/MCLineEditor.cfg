SPECIFICATION EditorSpec
CONSTANTS
    Chars = {"a", "b", " "}
    Blank = " "
    Nul = "0"
    MaxLen = 5
    StoredLines <- MCStoredLines
    Names <- MCNames
INVARIANTS
    EditorTypeOK
    OneLength
    ScreenShowsLine
PROPERTIES
    ImplementsLine
CHECK_DEADLOCK FALSE
