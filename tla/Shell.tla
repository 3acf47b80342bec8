-------------------------------- MODULE Shell --------------------------------
(***************************************************************************)
(* From the keys to the callback: the line editor of module LineEditor     *)
(* with the completer and the words of module CommandLine, and what        *)
(* happens to the line at Enter (src/src/cli.c: completion, printhelp,     *)
(* find_active_param, parseline from find_active_cmd on, createcmdinfo,    *)
(* execute).                                                               *)
(*                                                                         *)
(* Within one context: the common commands and the commands that lead to   *)
(* other contexts are module Session's, recall by number is module         *)
(* History's. Every command has a callback and a help text here.           *)
(***************************************************************************)
EXTENDS LineEditor

CONSTANTS
    Cmds, NoCmd, NameOf, CmdList, SubCmds, Params, NoVal, HasContexts,
    ByeWord, HistoryWord, ExitWord, EndWord,
    NoText          \* a null char pointer

INSTANCE CommandLine

ASSUME ShellAssumption ==
    /\ CommonWords \subseteq Names
    /\ NoCmd \notin Cmds /\ NameOf \in [Cmds -> Names]
    /\ CmdList \in Seq(Cmds) /\ SubCmds \in [Cmds -> Seq(Cmds)]
    /\ Params \in [Cmds -> Seq([name : Names, required : BOOLEAN, numval : Nat,
                                val : {NoVal} \cup Seq(Names)])]

\* A name of the tables is one word of a line: the builder writes it with letters, digits,
\* '-', '_' and '.' (climinalbuilder.l:96). So is a value that a callback returns, and it
\* is at least one character.
ASSUME OneWordAssumption ==
    /\ \A name \in Names : Blank \notin Range(name)
    /\ \A c \in Cmds : \A i \in DOMAIN Params[c] :
           Params[c][i].val # NoVal => <<>> \notin Range(Params[c][i].val)

VARIABLES
    active_cmd,     \* session->active_cmd
    stage,          \* how far the submitted line has come
    cmd,            \* the command execute was called for
    word,           \* current and curlen of createcmdinfo
    info,           \* the Cmdinfo: defval, and the parameters with their values
    defval_found    \* of createcmdinfo: whether it has come past a default parameter

runVars == <<stage, cmd, word, info, defval_found>>
shellVars == <<editorVars, active_cmd, runVars>>

NoInfo == [defval |-> NoText, params |-> <<>>]

NoWord == [start |-> 0, end |-> 0]

Table == Params[cmd]

-----------------------------------------------------------------------------
(* The keys.                                                               *)

Now == FindActiveCmd(buf, pos)

\* The keys that have nothing to do with commands.
PlainKey ==
    /\ \/ \E c \in Chars : Type(c)
       \/ Backspace \/ Delete \/ ClearLine
       \/ ArrowRight \/ ArrowLeft \/ End \/ Home
       \/ \E line \in StoredLines : Browse(line)
       \/ Complete \/ ListMatches
    /\ UNCHANGED <<active_cmd, runVars>>

StartLine ==
    /\ stage = "line" /\ Start
    /\ UNCHANGED <<active_cmd, runVars>>

\* What of a match is not typed yet, to its nth character.
Untyped(match, n) == SubSeq(match, pos - WordStart(buf, pos) + 1, n)

InWord == WordStart(buf, pos) <= pos

TabNone(offered) ==
    /\ offered = <<>>
    /\ UNCHANGED editorVars

\* No blank behind the name.
TabOneWithoutBlank(offered) ==
    /\ Len(offered) = 1 /\ InWord
    /\ rest' = Untyped(offered[1], Len(offered[1]))
    /\ len + Len(rest') <= MaxLen
    /\ UNCHANGED <<buf, len, pos, screen, listing, editing, cut>>

TabOne(offered) ==
    /\ Len(offered) = 1
    /\ rest' = Append(IF InWord THEN Untyped(offered[1], Len(offered[1])) ELSE <<>>, Blank)
    /\ len + Len(rest') <= MaxLen
    /\ UNCHANGED <<buf, len, pos, screen, listing, editing, cut>>

\* Several matches: what they have in common, then the list (see CompleteCommon of
\* module LineEditor for the byte before it).
TabMany(offered) ==
    /\ Len(offered) > 1
    /\ \E n \in 0..Len(offered[1]) :
           /\ CommonIs(n, Range(offered))
           /\ IF InWord THEN rest' = Untyped(offered[1], n)
              ELSE \E byte \in Chars : rest' = <<byte>> \o SubSeq(offered[1], 1, n)
    /\ len + Len(rest') <= MaxLen
    /\ listing' = TRUE
    /\ UNCHANGED <<buf, len, pos, screen, editing, cut>>

TabManyWithNul(offered) ==
    /\ Len(offered) > 1 /\ ~InWord
    /\ cut' = TRUE
    /\ UNCHANGED <<buf, len, pos, screen, rest, listing, editing>>

TabWith(offered) ==
    TabNone(offered) \/ TabOne(offered) \/ TabMany(offered) \/ TabManyWithNul(offered)

\* Tab: completion keeps the command it found in the session.
Tab ==
    /\ Idle
    /\ active_cmd' = Now.cmd
    /\ TabWith(Matches(buf, pos, WordStart(buf, pos)))
    /\ UNCHANGED runVars

\* The parameter printhelp describes is looked for in the command the session
\* remembers, if it does remember one.
HelpCmd == IF active_cmd = NoCmd THEN Now.cmd ELSE active_cmd

HelpKey ==
    /\ Help
    /\ active_cmd' = IF Now.cmd = NoCmd THEN active_cmd ELSE HelpCmd
    /\ UNCHANGED runVars

-----------------------------------------------------------------------------
(* Enter.                                                                  *)

\* The line ends here: nothing to run, or the Cmdinfo is destroyed.
Done ==
    /\ stage' = "line" /\ cmd' = NoCmd
    /\ word' = NoWord /\ info' = NoInfo /\ defval_found' = FALSE

IsCommand == MainCmdOf(buf) \notin CommonWords \cup {<<>>} /\ Now.cmd # NoCmd

EnterNothing ==
    /\ Return /\ ~IsCommand
    /\ UNCHANGED <<active_cmd, runVars>>

\* createcmdinfo starts behind the command's name.
EnterCommand ==
    /\ Return /\ IsCommand
    /\ stage' = "words"
    /\ cmd' = Now.cmd
    /\ word' = [start |-> Now.next, end |-> Now.next]
    /\ info' = NoInfo /\ defval_found' = FALSE
    /\ UNCHANGED active_cmd

Following == NextWord(buf, word.end)

\* The parameters whose names begin with a word; the loop over the table ends with the
\* first of them, whether it is the word or only begins with it.
Begins(text) == {i \in DOMAIN Table : text # <<>> /\ IsPrefix(text, Table[i].name)}

Passed(text) == IF Begins(text) = {} THEN DOMAIN Table ELSE 1..Min(Begins(text))

\* The loop starts with the second parameter.
NamedByLater(text) == {i \in Passed(text) : i > 1 /\ text # <<>> /\ Table[i].name = text}

\* The one the word names, if the loop comes to it.
NamedBy(text) == {i \in Passed(text) : text # <<>> /\ Table[i].name = text}

Defaults == {i \in DOMAIN Table : Table[i].name = <<>>}

NoMoreWords ==
    /\ stage = "words" /\ ~IsWord(Following)
    /\ stage' = "required"
    /\ word' = Following
    /\ UNCHANGED <<editorVars, active_cmd, cmd, info, defval_found>>

\* The name of a parameter. Once it has its values the loop goes on with the last of
\* them, which is no parameter's, to the end of the table.
TakeName ==
    /\ stage = "words"
    /\ \E i \in NamedBy(Text(buf, Following)) :
           /\ info' = [info EXCEPT !.params = Append(@, [param |-> i, values |-> <<>>])]
           /\ stage' = IF Table[i].numval > 0 THEN "values" ELSE "words"
           /\ defval_found' = (defval_found \/ \E j \in Defaults : j < i \/ Table[i].numval > 0)
    /\ word' = Following
    /\ UNCHANGED <<editorVars, active_cmd, cmd>>

\* Any other word is the default value, if a default parameter was passed and there
\* is no value yet, or is ignored.
TakeOther ==
    /\ stage = "words" /\ IsWord(Following)
    /\ NamedBy(Text(buf, Following)) = {}
    /\ defval_found' = (defval_found \/ Defaults \cap Passed(Text(buf, Following)) # {})
    /\ info' = IF defval_found' /\ info.defval = NoText
               THEN [info EXCEPT !.defval = Text(buf, Following)] ELSE info
    /\ word' = Following
    /\ UNCHANGED <<editorVars, active_cmd, stage, cmd>>

Filling == info.params[Len(info.params)]

\* A value may not be the beginning of a parameter's name (findparam_cmd).
Suits(value) == IsWord(value) /\ Begins(Text(buf, value)) = {}

\* The last value is taken for the default value too.
TakeValueAsDefault ==
    /\ stage = "values" /\ Suits(Following)
    /\ info' = [info EXCEPT !.params[Len(info.params)].values = Append(@, Text(buf, Following)),
                            !.defval = IF defval_found THEN Text(buf, Following) ELSE @]
    /\ stage' = IF Len(Filling.values) + 1 < Table[Filling.param].numval THEN "values" ELSE "words"
    /\ word' = Following
    /\ UNCHANGED <<editorVars, active_cmd, cmd, defval_found>>

TakeValue ==
    /\ stage = "values" /\ Suits(Following)
    /\ info' = [info EXCEPT !.params[Len(info.params)].values = Append(@, Text(buf, Following))]
    /\ stage' = IF Len(Filling.values) + 1 < Table[Filling.param].numval THEN "values" ELSE "words"
    /\ word' = Following
    /\ UNCHANGED <<editorVars, active_cmd, cmd, defval_found>>

\* ">> MISSING VALUE FOR PARAMETER".
MissingValue ==
    /\ stage = "values" /\ ~Suits(Following)
    /\ Done
    /\ UNCHANGED <<editorVars, active_cmd>>

\* findparam, in what is there.
Given(name) == {i \in DOMAIN info.params : Table[info.params[i].param].name = name}

\* The default parameter is not asked for.
MissingNamed ==
    {i \in DOMAIN Table :
        Table[i].required /\ Table[i].name # <<>> /\ Given(Table[i].name) = {}}

\* execute's loop over the table; a default parameter has its value in defval.
Missing ==
    {i \in DOMAIN Table :
        /\ Table[i].required
        /\ IF Table[i].name = <<>> THEN info.defval = NoText ELSE Given(Table[i].name) = {}}

MissingParameter ==
    /\ stage = "required" /\ Missing # {}
    /\ Done
    /\ UNCHANGED <<editorVars, active_cmd>>

CallBack ==
    /\ stage = "required" /\ Missing = {}
    /\ stage' = "callback"
    /\ UNCHANGED <<editorVars, active_cmd, cmd, word, info, defval_found>>

CallbackReturns ==
    /\ stage = "callback"
    /\ Done
    /\ UNCHANGED <<editorVars, active_cmd>>

-----------------------------------------------------------------------------
ShellInit ==
    /\ EditorInit
    /\ active_cmd = NoCmd
    /\ stage = "line" /\ cmd = NoCmd
    /\ word = NoWord /\ info = NoInfo /\ defval_found = FALSE

Keys == PlainKey \/ Tab \/ HelpKey \/ EnterNothing \/ EnterCommand

CreateCmdinfo == NoMoreWords \/ TakeName \/ TakeOther \/ TakeValue \/ MissingValue

Runs == CreateCmdinfo \/ MissingParameter \/ CallBack \/ CallbackReturns

ShellNext == StartLine \/ Keys \/ Runs

ShellSpec == ShellInit /\ [][ShellNext]_shellVars


-----------------------------------------------------------------------------
(* What the user means by a line.                                          *)

\* The words from a place to the next NUL.
WordsFrom(b, from) ==
    LET Rest[i \in 0..(MaxLen + 1)] ==
            LET next == NextWord(b, i)
            IN  IF IsWord(next) THEN <<Text(b, next)>> \o Rest[next.end] ELSE <<>>
    IN  Rest[from]

\* The commands named by the first words, each below the one before.
CommandsOf(words) ==
    LET Chain[n \in 0..Len(words)] ==
            IF n = 0 THEN <<>>
            ELSE LET above == Chain[n - 1]
                     list  == IF n = 1 THEN CmdList ELSE SubCmds[Last(above)]
                     hits  == {i \in DOMAIN list : NameOf[list[i]] = words[n]}
                 IN  IF Len(above) < n - 1 \/ hits = {} THEN above
                     ELSE Append(above, list[Min(hits)])
    IN  Chain[Len(words)]

Meant(words) == IF CommandsOf(words) = <<>> THEN NoCmd ELSE Last(CommandsOf(words))

\* No blank before the first word, and one between words.
Plain(b) ==
    /\ ByteAt(b, 0) # Blank
    /\ \A i \in 1..StrEnd(b) : ~(ByteAt(b, i - 1) = Blank /\ ByteAt(b, i) = Blank)

\* Nothing is left over behind the line's NUL.
Clean(b) == \A i \in StrEnd(b)..MaxLen : b[i] = Nul

-----------------------------------------------------------------------------
(* Properties.                                                             *)

\* The search for the command, which steps through the buffer by lengths and looks at
\* the cursor, finds what the words of the line name, wherever the cursor is:
\* on plain lines, and as long as the buffer holds nothing else.
FindsWhatIsMeant ==
    Idle /\ Plain(buf) /\ Clean(buf) => Now.cmd = Meant(WordsFrom(buf, 0))

\* The words of the line behind the command.
Arguments == WordsFrom(buf, Now.next)

NameOfParam(i) == Table[info.params[i].param].name

\* What a callback is given stands on the line behind the command: each parameter with
\* its values behind it, in the order given, and the default value elsewhere.
ArgumentsFromLine ==
    stage = "callback" =>
        LET args   == Arguments
            n      == Len(info.params)
            size   == [i \in 1..n |-> 1 + Len(info.params[i].values)]
            spots  == [1..n -> 1..Len(args)]
        IN  \E at \in spots :
                /\ \A i \in 1..n :
                       /\ at[i] + size[i] - 1 <= Len(args)
                       /\ SubSeq(args, at[i], at[i] + size[i] - 1)
                              = <<NameOfParam(i)>> \o info.params[i].values
                       /\ i > 1 => at[i - 1] + size[i - 1] <= at[i]
                /\ info.defval # NoText =>
                       \E j \in DOMAIN args :
                           /\ args[j] = info.defval
                           /\ \A i \in 1..n : j \notin at[i]..(at[i] + size[i] - 1)

\* "A required parameter must always be specified by the user" (README.md:274), and a
\* parameter has all its values when a callback runs.
RequiredGiven ==
    stage = "callback" =>
        /\ \A i \in DOMAIN Table :
               Table[i].required => IF Table[i].name = <<>> THEN info.defval # NoText
                                    ELSE Table[i].name \in {NameOfParam(j) : j \in DOMAIN info.params}
        /\ \A j \in DOMAIN info.params :
               Len(info.params[j].values) = Table[info.params[j].param].numval

\* No parameter's name is the beginning of another's.
PrefixFree ==
    \A i, j \in DOMAIN Table :
        i # j /\ Table[i].name # <<>> => ~IsPrefix(Table[i].name, Table[j].name)

\* A word that is a parameter's name is taken for it, and never for a value or ignored;
\* unless it is also the beginning of another name.
NamesTaken ==
    stage = "required" /\ PrefixFree =>
        Len(Among(Arguments, {Table[i].name : i \in DOMAIN Table})) = Len(info.params)

\* The words that may follow others on a line.
Continues(before) ==
    LET above == Meant(before)
    IN  IF before = <<>> THEN CommonWords \cup {NameOf[CmdList[i]] : i \in DOMAIN CmdList}
        ELSE IF above = NoCmd THEN {}
        ELSE {NameOf[SubCmds[above][i]] : i \in DOMAIN SubCmds[above]}
             \cup {Params[above][i].name : i \in DOMAIN Params[above]}
             \cup UNION {Range(Params[above][i].val) : i \in {j \in DOMAIN Params[above] :
                                                                Params[above][j].val # NoVal}}

LineWith(added) ==
    [i \in Places |-> IF i < len THEN buf[i]
                      ELSE IF i - len < Len(added) THEN added[i - len + 1] ELSE Nul]

\* What Tab completes at the end of a line is a word that parseline understands there:
\* the completer and the parser, which each read the line in their own way, agree on
\* which command it continues. (A subcommand whose name is complete already is
\* looked for among the context's commands instead.)
CompletedWordContinues ==
    [][ (/\ rest = <<>> /\ rest' # <<>> /\ ~listing'
         /\ pos = len /\ Plain(buf) /\ Clean(buf)
         /\ Len(WordsFrom(buf, 0)) < 2 \/ Now.next < len)
        => LET words == WordsFrom(LineWith(rest'), 0)
           IN  Last(words) \in Continues(Front(words)) ]_shellVars

\* The completer's answers and the help text are no more than module LineEditor lets
\* them do to the line, so what is proved about its lines holds here.
ImplementsEditor == EditorSpec

-----------------------------------------------------------------------------
(* What a comment says and the code does not do.                           *)

\* cli.c:204, "Let's move to the end of the word, in order to search for the next word":
\* the next word is one of the line, so the callback that runs is the one of the
\* command that the line shows.
RunsWhatIsShown ==
    stage = "callback" /\ Plain(buf) => cmd = Meant(WordsFrom(buf, 0))

=============================================================================
