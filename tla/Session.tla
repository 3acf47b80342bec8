------------------------------ MODULE Session -------------------------------
(***************************************************************************)
(* A climinal session (src/src/cli.c: climinal_main, parseline,            *)
(* parsecommon, execute; src/src/terminal.c: initsession, set_terminal,    *)
(* res_terminal, the Tab and help keys of readline), around the history of *)
(* module History: which context is active, which prompt each level shows, *)
(* which command's callback runs and what mode the terminal is in.         *)
(*                                                                         *)
(* The words of a line are not looked at here: FoundCmd says which command *)
(* they name in a context (find_active_cmd), Arguments what becomes of the *)
(* rest (createcmdinfo and the checks of execute).                         *)
(***************************************************************************)
EXTENDS History, FiniteSets

CONSTANTS
    Contexts, Main,     \* the Clicontext tables, handle->maincontext among them
    NoContext,          \* a null Clicontext pointer
    PathTo,             \* the contexts from Main down to each context
    ContextPrompt,      \* Clicontext.prompt
    ContextDepth,       \* config->context_depth, the levels of the prompt stack
    Cmds,               \* the Clicmd tables
    NoCmd,              \* a null Clicmd pointer
    HasCallback,        \* whether Clicmd.cbk is set
    SubContext,         \* Clicmd.subcontext
    MainCmd,            \* the first word of a line, when it is a common command
    FoundCmd,           \* the command a line names in a context
    Arguments,          \* whether the rest of the line suits the command
    RuntimePrompts,     \* what callbacks hand to CLIMINAL_SET_NEXT_PROMPT
    NoPrompt,           \* the empty prompt
    UserModes,          \* the terminal modes the program and its callbacks use
    Raw                 \* the mode set_terminal puts the terminal in

Prompts == RuntimePrompts \cup {ContextPrompt[c] : c \in Contexts}

Level == [c \in Contexts |-> Len(PathTo[c]) - 1]

\* The commands of a context.
ListedIn(c) == {FoundCmd[c, line] : line \in Commands} \ {NoCmd}

\* Where the commands of a context lead.
ContextEdges ==
    {edge \in Contexts \X Contexts :
        \E cmd \in ListedIn(edge[1]) : SubContext[cmd] = edge[2]}

\* The contexts form a tree: the builder makes each one the subcontext of a single
\* command, and counts at least as many levels as the deepest one needs.
ASSUME TreeAssumption ==
    /\ Main \in Contexts /\ NoContext \notin Contexts
    /\ PathTo \in [Contexts -> Seq(Contexts)]
    /\ PathTo[Main] = <<Main>>
    /\ \A c \in Contexts : PathTo[c] # <<>> /\ PathTo[c][Len(PathTo[c])] = c
    /\ \A c \in Contexts \ {Main} :
           /\ Len(PathTo[c]) > 1
           /\ PathTo[PathTo[c][Len(PathTo[c]) - 1]] = SubSeq(PathTo[c], 1, Len(PathTo[c]) - 1)
    /\ ContextDepth \in Nat /\ \A c \in Contexts : Level[c] < ContextDepth

ASSUME CommandAssumption ==
    /\ NoCmd \notin Cmds
    /\ HasCallback \in [Cmds -> BOOLEAN]
    /\ SubContext \in [Cmds -> (Contexts \ {Main}) \cup {NoContext}]
    /\ MainCmd \in [Commands -> {"bye", "exit", "end", "history", "other"}]
    /\ FoundCmd \in [Contexts \X Commands -> Cmds \cup {NoCmd}]
    /\ Arguments \in [Commands -> {"complete", "value missing", "parameter missing"}]
    /\ \A c \in Contexts : \A cmd \in ListedIn(c) :
           SubContext[cmd] # NoContext => PathTo[SubContext[cmd]] = Append(PathTo[c], SubContext[cmd])

ASSUME DisplayAssumption ==
    NoPrompt \notin Prompts /\ Raw \notin UserModes

VARIABLES
    active_context, \* session->active_context
    father,         \* Clicontext.father of every context
    prompt_stack,   \* session->prompt_stack
    cur_depth,      \* session->cur_depth
    calling,        \* the command whose callback runs
    shown,          \* the prompt on the terminal's last line
    tty,            \* the mode the terminal is in
    term_io,        \* session->term.term_io, the mode to put back
    user_mode       \* the mode last set outside the library

navVars == <<active_context, father, prompt_stack, cur_depth>>
ttyVars == <<tty, term_io, user_mode>>
sessionVars == <<historyVars, navVars, calling, shown, ttyVars>>

Levels == 0..(ContextDepth - 1)

SessionTypeOK ==
    /\ HistoryTypeOK
    /\ active_context \in Contexts
    /\ father \in [Contexts -> Contexts \cup {NoContext}]
    /\ prompt_stack \in [Levels -> Prompts \cup {NoPrompt}]
    /\ cur_depth \in Levels
    /\ calling \in Cmds \cup {NoCmd}
    /\ shown \in Prompts \cup {NoPrompt}
    /\ tty \in UserModes \cup {Raw} /\ term_io \in UserModes /\ user_mode \in UserModes

-----------------------------------------------------------------------------
(* The start of a session.                                                 *)

Parent(c) == PathTo[c][Len(PathTo[c]) - 1]

\* The generated tables name each context's father.
InitialFather == [c \in Contexts |-> IF c = Main THEN NoContext ELSE Parent(c)]

SessionInit ==
    /\ HistoryInit
    /\ active_context = Main
    /\ father = InitialFather
    /\ prompt_stack = [i \in Levels |-> IF i = 0 THEN ContextPrompt[Main] ELSE NoPrompt]
    /\ cur_depth = 0
    /\ calling = NoCmd
    /\ shown = NoPrompt
    /\ user_mode \in UserModes
    /\ term_io = user_mode
    /\ tty = Raw

-----------------------------------------------------------------------------
(* Reading a line: parseline up to readline, and the keys.                 *)

\* The prompt of the present level, the context's own when none is there.
FilledPrompts ==
    IF prompt_stack[cur_depth] = NoPrompt
    THEN [prompt_stack EXCEPT ![cur_depth] = ContextPrompt[active_context]]
    ELSE prompt_stack

StartLine ==
    /\ BeginLine
    /\ prompt_stack' = FilledPrompts
    /\ shown' = prompt_stack'[cur_depth]
    /\ UNCHANGED <<active_context, father, cur_depth, calling, ttyVars>>

\* Typing, deleting and completing a word edit the line; the arrows browse.
Key ==
    /\ (\E line \in Lines : Edit(line)) \/ ArrowUp \/ ArrowDown
    /\ UNCHANGED <<navVars, calling, shown, ttyVars>>

\* "?" prints help and then the prompt and the line again.
Help ==
    /\ phase = "reading"
    /\ shown' = prompt_stack[cur_depth]
    /\ UNCHANGED <<historyVars, navVars, calling, ttyVars>>

\* Tab with several matches completes what they share, lists them, and prints a
\* prompt and the line again.
ListMatches ==
    /\ \E line \in Lines : Edit(line)
    /\ shown' = ContextPrompt[active_context]
    /\ UNCHANGED <<navVars, calling, ttyVars>>

\* At the end of the input climinal_main restores the terminal.
Eof ==
    /\ EndOfInput
    /\ tty' = term_io
    /\ UNCHANGED <<navVars, calling, shown, term_io, user_mode>>

Enter ==
    /\ Submit
    /\ UNCHANGED <<navVars, calling, shown, ttyVars>>

-----------------------------------------------------------------------------
(* The common commands (parsecommon).                                      *)

\* main_context->depth is the number of contexts.
HasContexts == Cardinality(Contexts) > 1

\* A line is being executed, and no callback runs.
Executing(word) == phase = "running" /\ calling = NoCmd /\ MainCmd[buffer] = word

Bye ==
    /\ Executing("bye")
    /\ Close
    /\ tty' = term_io
    /\ UNCHANGED <<navVars, calling, shown, term_io, user_mode>>

\* A forgotten test of the father: "exit" in the main context.
ExitUnguarded ==
    /\ Executing("exit") /\ HasContexts
    /\ Finish
    /\ active_context' = father[active_context]
    /\ prompt_stack' = [prompt_stack EXCEPT ![cur_depth] = NoPrompt]
    /\ cur_depth' = cur_depth - 1
    /\ UNCHANGED <<father, calling, shown, ttyVars>>

Exit ==
    /\ Executing("exit") /\ HasContexts
    /\ Finish
    /\ IF father[active_context] # NoContext
       THEN /\ active_context' = father[active_context]
            /\ prompt_stack' = [prompt_stack EXCEPT ![cur_depth] = NoPrompt]
            /\ cur_depth' = cur_depth - 1
            /\ UNCHANGED father
       ELSE UNCHANGED navVars
    /\ UNCHANGED <<calling, shown, ttyVars>>

\* One turn of the loop of "end"; only its first turn finds levels to clear.
ClearedBelow(stack, depth) ==
    [i \in DOMAIN stack |-> IF i \in 1..(depth - 1) THEN NoPrompt ELSE stack[i]]

\* A forgotten reset of the depth.
EndClimbsKeepsDepth ==
    /\ Executing("end") /\ HasContexts
    /\ father[active_context] # NoContext
    /\ active_context' = father[active_context]
    /\ prompt_stack' = ClearedBelow(prompt_stack, cur_depth)
    /\ UNCHANGED <<historyVars, father, cur_depth, calling, shown, ttyVars>>

\* An "if" for the "while": only one level is climbed.
EndClimbsOnce ==
    /\ Executing("end") /\ HasContexts
    /\ father[active_context] # NoContext
    /\ active_context' = father[active_context]
    /\ prompt_stack' = ClearedBelow(prompt_stack, cur_depth)
    /\ cur_depth' = 0
    /\ Finish
    /\ UNCHANGED <<father, calling, shown, ttyVars>>

EndClimbs ==
    /\ Executing("end") /\ HasContexts
    /\ father[active_context] # NoContext
    /\ active_context' = father[active_context]
    /\ prompt_stack' = ClearedBelow(prompt_stack, cur_depth)
    /\ cur_depth' = 0
    /\ UNCHANGED <<historyVars, father, calling, shown, ttyVars>>

EndArrives ==
    /\ Executing("end") /\ HasContexts
    /\ father[active_context] = NoContext
    /\ Finish
    /\ UNCHANGED <<navVars, calling, shown, ttyVars>>

ListHistory ==
    /\ Executing("history")
    /\ Finish
    /\ UNCHANGED <<navVars, calling, shown, ttyVars>>

-----------------------------------------------------------------------------
(* The commands of the active context (find_active_cmd, execute).          *)

\* Without subordinate contexts "exit" and "end" are words like any other.
NotCommon ==
    \/ Executing("other")
    \/ ~HasContexts /\ (Executing("exit") \/ Executing("end"))

Found == FoundCmd[active_context, buffer]

NotFound ==
    /\ NotCommon /\ Found = NoCmd
    /\ Finish
    /\ UNCHANGED <<navVars, calling, shown, ttyVars>>

\* The end of parseline for a command that reported no error: its subcontext, when
\* it has one, becomes active one level deeper.
SwitchContextSameDepth(cmd) ==
    IF SubContext[cmd] # NoContext
    THEN /\ father' = [father EXCEPT ![SubContext[cmd]] = active_context]
         /\ active_context' = SubContext[cmd]
         /\ UNCHANGED cur_depth
    ELSE UNCHANGED <<active_context, father, cur_depth>>

SwitchContext(cmd) ==
    IF SubContext[cmd] # NoContext
    THEN /\ father' = [father EXCEPT ![SubContext[cmd]] = active_context]
         /\ active_context' = SubContext[cmd]
         /\ cur_depth' = cur_depth + 1
    ELSE UNCHANGED <<active_context, father, cur_depth>>

\* execute reports no error when there is no callback, and also when createcmdinfo
\* gives up on a parameter whose value is missing.
SkipsOnlyWithoutCallback(cmd) == ~HasCallback[cmd]

Skips(cmd) == ~HasCallback[cmd] \/ Arguments[buffer] = "value missing"

NothingToCall ==
    /\ NotCommon /\ Found # NoCmd
    /\ Skips(Found)
    /\ Finish
    /\ SwitchContext(Found)
    /\ UNCHANGED <<prompt_stack, calling, shown, ttyVars>>

\* A required parameter is not on the line: CLIMINAL_E_INVALID.
Incomplete ==
    /\ NotCommon /\ Found # NoCmd
    /\ ~Skips(Found) /\ Arguments[buffer] = "parameter missing"
    /\ Finish
    /\ UNCHANGED <<navVars, calling, shown, ttyVars>>

\* A forgotten res_terminal.
CallBackInRawMode ==
    /\ NotCommon /\ Found # NoCmd
    /\ ~Skips(Found) /\ Arguments[buffer] = "complete"
    /\ calling' = Found
    /\ UNCHANGED <<historyVars, navVars, shown, ttyVars>>

\* res_terminal, then the callback starts.
CallBack ==
    /\ NotCommon /\ Found # NoCmd
    /\ ~Skips(Found) /\ Arguments[buffer] = "complete"
    /\ calling' = Found
    /\ tty' = term_io
    /\ UNCHANGED <<historyVars, navVars, shown, term_io, user_mode>>

\* The callback may leave the terminal in another mode; set_terminal saves what it
\* finds before it makes the terminal raw again.
SetTerminal(mode) == term_io' = mode /\ tty' = Raw

\* The prompt the callback asked for goes to the level about to be entered.
PromptsAfterHere(cmd, prompt) ==
    IF prompt # NoPrompt /\ SubContext[cmd] # NoContext
    THEN [prompt_stack EXCEPT ![cur_depth] = prompt]
    ELSE prompt_stack

PromptsAfter(cmd, prompt) ==
    IF prompt # NoPrompt /\ SubContext[cmd] # NoContext
    THEN [prompt_stack EXCEPT ![cur_depth + 1] = prompt]
    ELSE prompt_stack

CallbackSucceeds(prompt, mode) ==
    /\ calling # NoCmd
    /\ user_mode' = mode
    /\ SetTerminal(mode)
    /\ prompt_stack' = PromptsAfter(calling, prompt)
    /\ SwitchContext(calling)
    /\ calling' = NoCmd
    /\ Finish
    /\ UNCHANGED shown

\* Any return value but CLIMINAL_NO_ERROR and CLIMINAL_E_EXIT.
CallbackFails(mode) ==
    /\ calling # NoCmd
    /\ user_mode' = mode
    /\ SetTerminal(mode)
    /\ calling' = NoCmd
    /\ Finish
    /\ UNCHANGED <<navVars, shown>>

\* CLIMINAL_E_EXIT: set_terminal, and then climinal_main's res_terminal.
CallbackExits(mode) ==
    /\ calling # NoCmd
    /\ user_mode' = mode
    /\ term_io' = mode /\ tty' = mode
    /\ calling' = NoCmd
    /\ Close
    /\ UNCHANGED <<navVars, shown>>

-----------------------------------------------------------------------------
Common == Bye \/ Exit \/ EndClimbs \/ EndArrives \/ ListHistory

Execute == NotFound \/ NothingToCall \/ Incomplete \/ CallBack

CallbackReturns ==
    \E mode \in UserModes :
        \/ \E prompt \in RuntimePrompts \cup {NoPrompt} : CallbackSucceeds(prompt, mode)
        \/ CallbackFails(mode)
        \/ CallbackExits(mode)

User == Key \/ Help \/ ListMatches \/ Eof \/ Enter

SessionNext == StartLine \/ User \/ Common \/ Execute \/ CallbackReturns

SessionSpec == SessionInit /\ [][SessionNext]_sessionVars

\* The library's own steps are taken (parseline is a straight run of code), and a
\* callback returns; the user owes nothing.
SessionFairness ==
    /\ WF_sessionVars(StartLine \/ Common \/ Execute)
    /\ WF_sessionVars(CallbackReturns)

FairSessionSpec == SessionSpec /\ SessionFairness

-----------------------------------------------------------------------------
(* Properties.                                                             *)

\* The loop of "end" has dropped the levels and still climbs to the main context.
Climbing == Executing("end") /\ HasContexts /\ cur_depth = 0

\* The three records of where the user is agree: the active context, the count that
\* indexes the prompt stack, and the fathers "exit" and "end" follow (which the
\* tables and every switch of context write).
PositionAgrees ==
    /\ Climbing \/ cur_depth = Level[active_context]
    /\ father = InitialFather

\* A callback that asks for a prompt always has a level to put it on: the prompt
\* stack, allocated once from the configuration, is never written past its end.
PromptHasRoom ==
    calling # NoCmd /\ SubContext[calling] # NoContext => cur_depth + 1 \in Levels

\* The terminal is raw while a line is read, and is back in the mode the program or
\* the last callback left it in whenever a callback starts and when the session
\* is over (set_terminal and res_terminal pair up on every path).
TerminalMode ==
    /\ phase = "reading" => tty = Raw
    /\ calling # NoCmd \/ phase = "closed" => tty = user_mode

\* Whatever the depth, "end" leaves the user in the main context at level 0.
EndReachesMain ==
    [][Executing("end") /\ HasContexts /\ phase' = "prompt" =>
           active_context' = Main /\ cur_depth' = 0]_sessionVars

\* Every submitted line is dealt with: some branch of parseline takes it, the loop of
\* "end" stops, and the session asks for the next line or ends.
LineCompletes == phase = "running" ~> phase \in {"prompt", "closed"}

-----------------------------------------------------------------------------
(* The abstract navigation: the levels as a stack of contexts and prompts. *)

LevelPrompt(i) ==
    IF prompt_stack[i] = NoPrompt
    THEN ContextPrompt[PathTo[active_context][i + 1]]
    ELSE prompt_stack[i]

Nav == INSTANCE Navigation WITH
    Leads <- ContextEdges,
    MainPrompt <- ContextPrompt[Main],
    levels <- [i \in 1..(cur_depth + 1) |->
                  [context |-> PathTo[active_context][i], prompt |-> LevelPrompt(i - 1)]]

\* active_context, the fathers, cur_depth and the prompt stack together behave as the
\* stack of levels of module Navigation: in particular the prompts of the outer
\* levels are there again, unchanged, when "exit" comes back to them.
ImplementsNavigation == Nav!NavSpec

-----------------------------------------------------------------------------
(* What the documentation says and the code does not do.                   *)

\* README.md, "Navigation Between Contexts": on entering a context its prompt
\* appears.  No callback ran here, so none asked for another ("end" leaves the
\* deepest level's prompt behind, for the next context entered at that level).
StalePromptFree ==
    [][cur_depth' = cur_depth + 1 /\ calling = NoCmd =>
           prompt_stack'[cur_depth'] \in {NoPrompt, ContextPrompt[active_context']}]_sessionVars

=============================================================================
