------------------------------- MODULE Parser -------------------------------
(***************************************************************************)
(* The XML front end of climinalbuilder: the table-driven parser that      *)
(* bison made of climinalbuilder.y (src/tools/climinalbuilder/y.tab.cpp,   *)
(* yyparse), the actions of its rules and main_bison. The tables are those *)
(* of y.tab.cpp, entry by entry; RightSide is the grammar they come from,  *)
(* as climinalbuilder.y states it.                                         *)
(*                                                                         *)
(* The scanner may return any token at any time. Of the text a token       *)
(* carries only its ownership is kept: who has to free it.                 *)
(***************************************************************************)
EXTENDS Integers, FiniteSets, Sequences
LOCAL INSTANCE SequencesExt

CONSTANT YYINITDEPTH    \* the size of the parser's stacks

ASSUME ParserAssumption == YYINITDEPTH \in Nat /\ YYINITDEPTH > 1

VARIABLES
    yyss,           \* the state stack, the bottom first
    yychar,         \* the lookahead token
    yyresult,       \* "parsing", or how yyparse returned
    description,    \* whether the global holds a string
    values,         \* whether the global holds a string
    texts,          \* allocated strings of TXT and STR tokens, not yet freed
    open            \* the elements the builder has been told of and not of their end

parserVars == <<yyss, yychar, yyresult, description, values, texts, open>>

-----------------------------------------------------------------------------
(* The tables. The first entry of each is number 0.                        *)

yytname == <<
    "$end", "error", "$undefined", "CONFIG", "ENDCONFIG", "HISTORY_SIZE",
    "ENDHISTORY_SIZE", "NAME", "ENDNAME", "CTX", "CMD", "PAR", "ENDCTX", "ENDCMD",
    "ENDPAR", "REQUIRED", "BRIEF", "HELP", "FUNCTION", "PROMPT", "NUMVAL", "DESCRIPTION",
    "VALUES", "STR", "NUM", "TXT", "EQ", "DQ", "ENDBRIEF", "ENDHELP", "ENDFUNCTION",
    "ENDREQUIRED", "ENDNUMVAL", "ENDDESCRIPTION", "ENDVALUES", "ENDPROMPT", "BOOL",
    "$accept", "rules", "rule", "config", "contexts", "context", "context_start",
    "context_end", "commands", "command", "command_content", "command_start",
    "command_end", "params", "param", "param_description", "param_values">>

yypact == <<
    -37, 1, -37, -3, -37, -37, -6, -18, -6, -8, -37, -37, 6, -12, -5, 10, -20, 9,
    -37, -37, -37, -37, -37, -37, -4, 4, 7, 11, -37, -37, -7, 0, -37, 8, -2, -16,
    -37, -1, 17, 2, 3, 5, 12, 13, 14, 20, 15, 18, 16, 19, -9, 21, -37, 22, -37, 23,
    -37, 24, 25, 28, 26, 27, 29, -37, 12, 30, -37>>

yydefact == <<
    2, 7, 1, 0, 3, 7, 4, 0, 5, 0, 8, 12, 0, 0, 0, 0, 0, 0, 11, 9, 13, 19, 6, 10, 0,
    0, 12, 0, 18, 14, 0, 15, 20, 0, 0, 0, 16, 0, 0, 0, 0, 24, 26, 0, 0, 0, 0, 0, 0,
    0, 0, 0, 22, 0, 23, 0, 25, 0, 0, 0, 0, 0, 0, 17, 26, 0, 21>>

yypgoto == <<
    -37, -37, -37, -37, 31, 32, -37, -37, 33, -37, -37, -37, -37, -37, -37, -37, -36>>

yydefgoto == <<
    -1, 1, 4, 5, 6, 10, 11, 19, 14, 20, 25, 21, 29, 26, 32, 45, 47>>

yytable == <<
    34, 2, 7, 9, 3, 17, 12, 18, 35, 9, 17, 13, 15, 16, 22, 23, 24, 28, 30, 33, 39,
    27, 40, 38, 37, 41, 44, 55, 65, 0, 48, 43, 52, 42, 46, 50, 8, 49, 0, 53, 51, 0,
    59, 0, 66, 60, 0, 0, 0, 0, 62, 57, 54, 61, 58, 56, 0, 63, 0, 31, 0, 64, 0, 36>>

yycheck == <<
    7, 0, 5, 9, 3, 10, 24, 12, 15, 9, 10, 19, 6, 25, 4, 35, 7, 13, 11, 8, 36, 25, 23,
    25, 16, 8, 21, 36, 64, -1, 17, 28, 14, 31, 22, 15, 5, 23, -1, 23, 25, -1, 18, -1,
    14, 20, -1, -1, -1, -1, 24, 29, 33, 25, 31, 34, -1, 30, -1, 26, -1, 32, -1, 31>>

yystos == <<
    0, 38, 0, 3, 39, 40, 41, 5, 41, 9, 42, 43, 24, 19, 45, 6, 25, 10, 12, 44, 46, 48,
    4, 35, 7, 47, 50, 25, 13, 49, 11, 45, 51, 8, 7, 15, 42, 16, 25, 36, 23, 8, 31,
    28, 21, 52, 22, 53, 17, 23, 15, 25, 14, 23, 33, 36, 34, 29, 31, 18, 20, 25, 24,
    30, 32, 53, 14>>

yyr1 == <<
    0, 37, 38, 38, 39, 39, 40, 41, 41, 42, 43, 44, 45, 45, 46, 47, 47, 48, 49, 50,
    50, 51, 51, 52, 52, 53, 53>>

yyr2 == <<
    0, 2, 0, 2, 1, 2, 5, 0, 2, 3, 4, 1, 0, 2, 3, 2, 3, 13, 1, 0, 2, 13, 6, 3, 0, 3,
    0>>

YYLAST == 63
YYFINAL == 2
YYNTOKENS == 37
YYPACT_NINF == -37
YYEMPTY == -2

\* Entry n of a table.
At(table, n) == table[n + 1]

Number == [name \in ToSet(yytname) |-> (CHOOSE n \in DOMAIN yytname : yytname[n] = name) - 1]

\* What the rules of climinalbuilder.l return, and 0 at the end of the file.
Tokens == 0..(YYNTOKENS - 1) \ {Number[name] : name \in {"error", "$undefined", "EQ", "DQ"}}

\* The tokens whose text the destructor frees.
Text == {Number["TXT"], Number["STR"]}

Texts(symbols) == Cardinality({i \in DOMAIN symbols : symbols[i] \in Text})

Lookahead == IF yychar = YYEMPTY THEN <<>> ELSE <<yychar>>

Symbols(stack) == [i \in DOMAIN stack |-> At(yystos, stack[i])]

-----------------------------------------------------------------------------
(* The grammar: the right side of each rule, numbered as bison does.       *)

ElementName == <<"NAME", "TXT", "ENDNAME">>

Required == <<"REQUIRED", "BOOL", "ENDREQUIRED">>

RightSide == <<
    <<"rules", "$end">>, <<>>, <<"rules", "rule">>,
    <<"contexts">>, <<"config", "contexts">>,
    <<"CONFIG", "HISTORY_SIZE", "NUM", "ENDHISTORY_SIZE", "ENDCONFIG">>,
    <<>>, <<"contexts", "context">>,
    <<"context_start", "commands", "context_end">>,
    <<"CTX", "PROMPT", "TXT", "ENDPROMPT">>,
    <<"ENDCTX">>,
    <<>>, <<"commands", "command">>,
    <<"command_start", "command_content", "command_end">>,
    <<"params", "commands">>, <<"params", "commands", "context">>,
    <<"CMD">> \o ElementName \o <<"BRIEF", "STR", "ENDBRIEF", "HELP", "STR", "ENDHELP",
                                 "FUNCTION", "TXT", "ENDFUNCTION">>,
    <<"ENDCMD">>,
    <<>>, <<"params", "param">>,
    <<"PAR">> \o ElementName \o <<"param_description">> \o Required
        \o <<"NUMVAL", "NUM", "ENDNUMVAL", "param_values", "ENDPAR">>,
    <<"PAR">> \o Required \o <<"param_values", "ENDPAR">>,
    <<"DESCRIPTION", "STR", "ENDDESCRIPTION">>, <<>>,
    <<"VALUES", "TXT", "ENDVALUES">>, <<>> >>

-----------------------------------------------------------------------------
(* The actions of the rules.                                               *)

Element(kind) == [kind |-> kind, stage |-> "parameters"]

Inside(stage) ==
    [i \in DOMAIN open |-> IF i = Len(open) /\ open[i].kind = "command"
                           THEN [open[i] EXCEPT !.stage = stage] ELSE open[i]]

\* The builder's calls as they would be if the end of a context went untold.
ContextsStayOpen(rule) ==
    open' = CASE rule = 10 -> Append(Inside("contexts"), Element("context"))
              [] rule = 17 -> Append(Inside("commands"), Element("command"))
              [] rule = 18 /\ open # <<>> -> Front(open)
              [] OTHER -> open

\* create_context and create_command begin an element of the one they are read in,
\* end_context and end_command end one; create_param and end_param begin and end one.
Tell(rule) ==
    open' = CASE rule = 10 -> Append(Inside("contexts"), Element("context"))
              [] rule = 17 -> Append(Inside("commands"), Element("command"))
              [] rule \in {11, 18} /\ open # <<>> -> Front(open)
              [] OTHER -> open

\* The globals as they would be if a named parameter kept its description.
KeepDescription(rule) ==
    /\ description' = (rule = 23 \/ description)
    /\ values' = (rule = 25 \/ (values /\ rule \notin {21, 22}))

\* The text of a description or of values waits in a global for the parameter's end.
Keep(rule) ==
    /\ description' = (rule = 23 \/ (description /\ rule # 21))
    /\ values' = (rule = 25 \/ (values /\ rule \notin {21, 22}))

One(condition) == IF condition THEN 1 ELSE 0

\* The strings freed as they would be if a command's function were forgotten.
FreedButFunction(rule) ==
    CASE rule = 10 -> 1 [] rule = 17 -> 3
      [] rule = 21 -> 1 + One(description) + One(values)
      [] rule = 22 -> One(values) [] OTHER -> 0

\* The strings an action frees, less those it copies.
Freed(rule) ==
    CASE rule = 10 -> 1 [] rule = 17 -> 4
      [] rule = 21 -> 1 + One(description) + One(values)
      [] rule = 22 -> One(values) [] OTHER -> 0

-----------------------------------------------------------------------------
(* yyparse.                                                                *)

Top == Last(yyss)

Consistent == At(yypact, Top) = YYPACT_NINF

\* Decisions as they would be if the first entry of the table were out of bounds.
DecisionFromOne ==
    LET n == At(yypact, Top) + yychar
    IN  IF \/ Consistent \/ n \notin 1..YYLAST
           \/ At(yycheck, n) # yychar
        THEN At(yydefact, Top)
        ELSE -At(yytable, n)

\* What to do in this state: a rule to reduce by, minus a state to shift to, or 0 for an
\* error.
Decision ==
    LET n == At(yypact, Top) + yychar
    IN  IF \/ Consistent \/ n \notin 0..YYLAST
           \/ At(yycheck, n) # yychar
        THEN At(yydefact, Top)
        ELSE -At(yytable, n)

Decided == yyresult = "parsing" /\ (Consistent \/ yychar # YYEMPTY)

\* yyreturn: the destructor takes the lookahead and what is left on the stack.
CleanUp(stack, lookahead, held) ==
    /\ yyss' = <<0>> /\ yychar' = YYEMPTY
    /\ texts' = held - Texts(Symbols(stack)) - Texts(lookahead)

\* The size of the stack is compared one state too late.
NewStateTooLate(stack, lookahead, held) ==
    IF Len(stack) > YYINITDEPTH
      THEN yyresult' = "exhausted" /\ CleanUp(stack, lookahead, held)
    ELSE IF Last(stack) = YYFINAL
      THEN yyresult' = "accepted" /\ CleanUp(stack, lookahead, held)
    ELSE /\ yyss' = stack /\ texts' = held /\ UNCHANGED yyresult
         /\ yychar' = IF lookahead = <<>> THEN YYEMPTY ELSE yychar

\* In C++ the stacks cannot be moved: YYSTACK_RELOCATE is not defined for this YYSTYPE.
NewState(stack, lookahead, held) ==
    IF Len(stack) >= YYINITDEPTH
      THEN yyresult' = "exhausted" /\ CleanUp(stack, lookahead, held)
    ELSE IF Last(stack) = YYFINAL
      THEN yyresult' = "accepted" /\ CleanUp(stack, lookahead, held)
    ELSE /\ yyss' = stack /\ texts' = held /\ UNCHANGED yyresult
         /\ yychar' = IF lookahead = <<>> THEN YYEMPTY ELSE yychar

ReadToken ==
    /\ yyresult = "parsing" /\ ~Consistent /\ yychar = YYEMPTY
    /\ yychar' \in Tokens
    /\ texts' = texts + Texts(<<yychar'>>)
    /\ UNCHANGED <<yyss, yyresult, description, values, open>>

Shift ==
    /\ Decided /\ Decision < 0
    /\ NewState(Append(yyss, -Decision), <<>>, texts)
    /\ UNCHANGED <<description, values, open>>

\* A stack as it would be with the right side of a default parameter one symbol short.
PopsTooLittle(rule) ==
    SubSeq(yyss, 1, Len(yyss) - (IF rule = 22 THEN 5 ELSE At(yyr2, rule)))

Popped(rule) == SubSeq(yyss, 1, Len(yyss) - At(yyr2, rule))

Goto(state, symbol) ==
    LET n == At(yypgoto, symbol - YYNTOKENS) + state
    IN  IF n \in 0..YYLAST /\ At(yycheck, n) = state
        THEN At(yytable, n) ELSE At(yydefgoto, symbol - YYNTOKENS)

Reduce ==
    /\ Decided /\ Decision > 0
    /\ LET rest == Popped(Decision)
       IN  NewState(Append(rest, Goto(Last(rest), At(yyr1, Decision))),
                    Lookahead, texts - Freed(Decision))
    /\ Keep(Decision) /\ Tell(Decision)

\* An error that is reported and nothing else.
SyntaxErrorReported ==
    /\ Decided /\ Decision = 0
    /\ UNCHANGED parserVars

\* No state shifts the error token: all are popped and the parse is over.
SyntaxError ==
    /\ Decided /\ Decision = 0
    /\ yyresult' = "syntax error"
    /\ CleanUp(yyss, Lookahead, texts)
    /\ UNCHANGED <<description, values, open>>

\* main_bison: the tables are written after a document read to its end, and only then.
WriteFiles ==
    /\ yyresult = "accepted" /\ yyresult' = "written"
    /\ UNCHANGED <<yyss, yychar, description, values, texts, open>>

ParserInit ==
    /\ yyss = <<0>> /\ yychar = YYEMPTY /\ yyresult = "parsing"
    /\ description = FALSE /\ values = FALSE /\ texts = 0 /\ open = <<>>

ParserNext == ReadToken \/ Shift \/ Reduce \/ SyntaxError \/ WriteFiles

ParserSpec == ParserInit /\ [][ParserNext]_parserVars

\* yyparse runs on as long as it is not done.
FairParserSpec == ParserSpec /\ WF_parserVars(ParserNext)

-----------------------------------------------------------------------------
(* What the parser must keep.                                              *)

\* The stack holds states and has room for the next one, the lookahead is a token, and the
\* counts are in range.
ParserTypeOK ==
    /\ yyss \in Seq(0..66) /\ Len(yyss) \in 1..(YYINITDEPTH - 1)
    /\ yychar \in Tokens \cup {YYEMPTY}
    /\ yyresult \in {"parsing", "accepted", "written", "syntax error", "exhausted"}
    /\ description \in BOOLEAN /\ values \in BOOLEAN /\ texts \in Nat
    /\ open \in Seq([kind : {"context", "command"},
                     stage : {"parameters", "commands", "contexts"}])

\* Every string of a TXT or STR token has one owner: the stack, the lookahead or one of the
\* two globals. So none is freed twice, and none is lost, however the parse ends: the
\* actions free the strings of their rules, the destructor those of unfinished ones.
TextsOwned ==
    texts = Texts(Symbols(yyss)) + Texts(Lookahead) + One(description) + One(values)

\* A description or values found waiting belong to the parameter being read: none is left
\* by the one before.
GlobalsAreThisParameters ==
    yyresult = "parsing" =>
        /\ description => Number["param_description"] \in ToSet(Symbols(yyss))
        /\ values => At(yystos, Top) = Number["param_values"] \/ At(yystos, Top) = Number["ENDPAR"]

\* The topmost symbols of the stack.
Spelled(n) == [i \in 1..n |-> At(yytname, At(yystos, yyss[Len(yyss) - n + i]))]

\* The symbols a rule is reduced by are those of its right side.
ReducesRightSides ==
    Decided /\ Decision > 0 =>
        /\ Len(yyss) > Len(RightSide[Decision])
        /\ Spelled(Len(RightSide[Decision])) = RightSide[Decision]

\* The tokens a part of a right side begins with.
Begins(name) ==
    CASE name = "context" -> "CTX" [] name = "context_end" -> "ENDCTX"
      [] name = "command" -> "CMD" [] name = "command_end" -> "ENDCMD"
      [] name = "param" -> "PAR" [] name = "param_description" -> "DESCRIPTION"
      [] name = "param_values" -> "VALUES" [] OTHER -> name

\* No right side has begun that goes on with a refused token.
OnlyRealErrors ==
    Decided /\ Decision = 0 =>
        \A rule \in DOMAIN RightSide : \A n \in 1..(Len(RightSide[rule]) - 1) :
            n < Len(yyss) /\ Spelled(n) = SubSeq(RightSide[rule], 1, n)
                => Begins(RightSide[rule][n + 1]) # At(yytname, yychar)

\* What the generated tables decide is what the grammar of climinalbuilder.y says: a rule
\* is reduced by the symbols of its right side, which its action then takes from the
\* stack, and a token is refused only where the grammar has no place for it.
DecidesAsGrammar == ReducesRightSides /\ OnlyRealErrors

\* The calls the builder gets follow a document's nesting: an end for each beginning, of
\* its kind, subcommands before contexts; the tables are written after whole documents.
Outcome ==
    CASE yyresult \in {"parsing", "accepted"} -> "reading" [] yyresult = "written" -> "written"
      [] OTHER -> "failed"

AsDocument == INSTANCE Document WITH outcome <- Outcome

CallsFollowDocument == AsDocument!DocumentSpec

\* What may follow outside of contexts.
Outside == {Number["CTX"], Number["CONFIG"], 0}

\* Inside a context, and before what may stand outside one, a token is used or refused in
\* finitely many steps.
TokensTaken ==
    (yychar # YYEMPTY /\ (open # <<>> \/ yychar \in Outside))
        ~> (yychar = YYEMPTY \/ yyresult # "parsing")

\* yyerror: "Parsing error at line %d: %s", for any token that cannot be used.
NeverSpins == []<>(yychar = YYEMPTY \/ yyresult # "parsing")

=============================================================================
