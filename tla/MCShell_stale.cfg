SPECIFICATION ShellSpec
CONSTANTS
    Chars = {"a", "b", " "}
    Blank = " "
    Nul = "0"
    MaxLen = 6
    StoredLines <- MCStoredLines
    Names <- MCNames
    Cmds <- MCCmds
    NoCmd = "null"
    NameOf <- MCNameOf
    CmdList <- MCCmdList
    SubCmds <- MCSubCmds
    Params <- MCParams
    NoVal = NoVal
    NoText = NoText
    HasContexts = TRUE
    ByeWord <- MCBye
    HistoryWord <- MCHistory
    ExitWord <- MCExit
    EndWord <- MCEnd
INVARIANT RunsWhatIsShown
CHECK_DEADLOCK FALSE
