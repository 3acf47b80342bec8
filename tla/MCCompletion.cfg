SPECIFICATION FairCompletionSpec
CONSTANTS
    Blank = " "
    Nul = "0"
    MaxLen = 6
    Cmds <- MCCmds
    NoCmd = "null"
    NameOf <- MCNameOf
    CmdList <- MCCmdList
    SubCmds <- MCSubCmds
    Params <- MCParams
    NoVal = NoVal
    HasContexts = TRUE
    ByeWord <- MCBye
    HistoryWord <- MCHistory
    ExitWord <- MCExit
    EndWord <- MCEnd
    Sessions = {s1}
    Lines <- MCLines
INVARIANTS
    CompletionTypeOK
    OffersOwnMatches
PROPERTIES
    TabIsAnswered
