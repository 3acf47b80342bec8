SPECIFICATION SessionSpec
CONSTANTS
    Size = 1
    Commands <- MCCommands
    Blank = ""
    Recalls <- MCRecalls
    RecallNum <- MCRecallNum
    RecallExtra <- MCRecallExtra
    MaxCmdnum = 6
    Contexts <- MCContexts
    Main = "main"
    NoContext = "none"
    PathTo <- MCPathTo
    ContextPrompt <- MCContextPrompt
    ContextDepth <- MCContextDepth
    Cmds <- MCCmds
    NoCmd = "null"
    HasCallback <- MCHasCallback
    SubContext <- MCSubContext
    MainCmd <- MCMainCmd
    FoundCmd <- MCFoundCmd
    Arguments <- MCArguments
    RuntimePrompts = {"asked"}
    NoPrompt = ""
    UserModes = {"cooked", "silent"}
    Raw = "raw"
PROPERTY
    StalePromptFree
CHECK_DEADLOCK FALSE
