SPECIFICATION FairParserSpec
CONSTANT YYINITDEPTH = 25
INVARIANTS
    ParserTypeOK
    GlobalsAreThisParameters
    TextsOwned
    DecidesAsGrammar
PROPERTIES
    CallsFollowDocument
    TokensTaken
CHECK_DEADLOCK FALSE
