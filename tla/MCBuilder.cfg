SPECIFICATION BuilderSpec
CONSTANTS
    Parts = {"main", "a", "b"}
    Names <- AllNames
    ParamNames <- OneName
    MainPart = "main"
    Default = Default
    NoContext = NoContext
    NoBrief = {}
    NoHelp <- MCNoHelp
    CallbackOf <- MCCallbackOf
    NULL = "NULL"
    NoCallback = "none"
    ValuesOf <- MCValuesOf
    MaxElements = 7
INVARIANT BuilderTypeOK
INVARIANT NamesUnambiguous
INVARIANT DepthEnough
INVARIANT PositionFollowsDocument
INVARIANT DocumentsGiveTrees
INVARIANT DefinedOnce
INVARIANT DeclaredBeforeUse
PROPERTY ReadsDocuments
CHECK_DEADLOCK FALSE
