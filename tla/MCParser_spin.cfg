SPECIFICATION FairParserSpec
CONSTANT YYINITDEPTH = 10
PROPERTY NeverSpins
CHECK_DEADLOCK FALSE
