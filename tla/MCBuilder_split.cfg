SPECIFICATION BuilderSpec
CONSTANTS
    Parts = {"main", "a", "b"}
    Names <- JoinedNames
    ParamNames <- OneName
    MainPart = "main"
    Default = Default
    NoContext = NoContext
    NoBrief = {}
    NoHelp = {}
    CallbackOf <- MCCallbackOf
    NULL = "NULL"
    NoCallback = "none"
    ValuesOf <- MCValuesOf
    MaxElements = 5
PROPERTY CommandsAsDocumented
CHECK_DEADLOCK FALSE
