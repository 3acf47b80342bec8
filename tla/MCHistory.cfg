SPECIFICATION HistorySpec
CONSTANTS
    a = a
    b = b
    c = c
    Size = 3
    Commands <- MCCommands
    Blank = Blank
    Recalls <- MCRecalls
    RecallNum <- MCRecallNum
    RecallExtra <- MCRecallExtra
    MaxCmdnum = 9
INVARIANTS
    HistoryTypeOK
    RingInv
    DumpMatchesRecall
    DownUndoesUp
PROPERTIES
    RecallNumbersStable
    ImplementsLog
CHECK_DEADLOCK FALSE
