SPECIFICATION CompletionSpec
CONSTANTS
    Blank = " "
    Nul = "0"
    MaxLen = 2
    Cmds <- MCCmds
    NoCmd = "null"
    NameOf <- MCNameOf
    CmdList <- MCCmdList
    SubCmds <- MCSubCmds
    Params <- MCParams
    NoVal = NoVal
    HasContexts = TRUE
    ByeWord <- MCBye
    HistoryWord <- MCHistory
    ExitWord <- MCExit
    EndWord <- MCEnd
    Sessions = {s1, s2}
    Lines <- MCTwoLines
INVARIANTS
    ThreadsKeepApart
CHECK_DEADLOCK FALSE
