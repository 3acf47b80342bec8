------------------------------- MODULE Builder -------------------------------
(***************************************************************************)
(* The core of climinalbuilder (src/tools/climinalbuilder: clistruct.cpp,  *)
(* CCurrentItem, CliminalBuilder, CContexts, CCommands), driven by a front *)
(* end that reads a document of nested contexts, commands and parameters   *)
(* and ignores what the calls return (climinalbuilder.y,                   *)
(* climinalbuilder_boost.cpp).                                             *)
(*                                                                         *)
(* A name is the sequence of its parts between underscores, because the    *)
(* builder joins names with underscores to the path of a context and       *)
(* splits paths at underscores to get names back.                          *)
(***************************************************************************)
EXTENDS Integers, Sequences, FiniteSets
LOCAL INSTANCE SequencesExt

CONSTANTS
    Parts,          \* what a name consists of
    Names,          \* the names of commands
    ParamNames,     \* the names of parameters
    MainPart,       \* "main"
    Default,        \* the name of a default parameter
    NoContext,      \* a NULL subContext, the father of main
    MaxElements     \* bound of the model: elements in a document

ASSUME BuilderAssumption ==
    /\ MainPart \in Parts
    /\ Names \cup ParamNames \subseteq Seq(Parts) \ {<<>>}
    /\ Default \notin Seq(Parts) /\ NoContext \notin Seq(Parts)
    /\ MaxElements \in Nat

VARIABLES
    \* the document
    open,           \* the elements being read, outermost first
    elements,       \* how many have been read
    \* the builder
    mapCtx,         \* the father of each context
    mapCommands,    \* subcontext and parameters of each command, by context and names
    stCtxs,         \* the paths of the open contexts
    lstCmds,        \* the names of the open commands of the innermost one
    cur_depth, context_depth,
    status,         \* whether the builder still runs
    errors          \* how many creates and ends have returned an error

document == <<open, elements>>
tree == <<mapCtx, mapCommands>>
position == <<stCtxs, lstCmds>>
depths == <<cur_depth, context_depth>>
builderVars == <<document, tree, position, depths, status, errors>>

Main == <<MainPart>>

Keys == DOMAIN mapCommands

-----------------------------------------------------------------------------
(* Finding the current command.                                            *)

Here == stCtxs[Len(stCtxs)]

Current == <<Here, lstCmds>>

\* A command whose list of subcommands was never created is asked for one of them.
NoSubCommands ==
    \E n \in 1..(Len(lstCmds) - 1) :
        /\ <<Here, SubSeq(lstCmds, 1, n)>> \in Keys
        /\ \A key \in Keys : key[1] = Here /\ Len(key[2]) = n + 1
                               => SubSeq(key[2], 1, n) # SubSeq(lstCmds, 1, n)

\* getCurrentCommandDataStructurePointer follows a null pointer, or reads what is not
\* there.
Crashes == stCtxs = <<>> \/ Here \notin DOMAIN mapCtx \/ NoSubCommands

\* A map in which only what is there already can be given a value.
Replacing(map, key, value) ==
    [k \in DOMAIN map |-> IF k = key THEN value ELSE map[k]]

With(map, key, value) ==
    [k \in DOMAIN map \cup {key} |-> IF k = key THEN value ELSE map[k]]

-----------------------------------------------------------------------------
(* create_context.                                                         *)

Refuse == errors' = errors + 1 /\ UNCHANGED <<tree, position, depths, status>>

Crash ==
    /\ status' = "crashed"
    /\ UNCHANGED <<tree, position, depths, errors>>

\* The depth as it would be if the level were compared before it is counted.
DeeperLate ==
    /\ cur_depth' = cur_depth + 1
    /\ context_depth' = IF cur_depth > context_depth THEN cur_depth ELSE context_depth

\* A context the checks let pass is counted, whatever becomes of it, and never uncounted.
Deeper ==
    /\ cur_depth' = cur_depth + 1
    /\ context_depth' = IF cur_depth' > context_depth THEN cur_depth' ELSE context_depth

FirstContext ==
    /\ mapCtx = <<>>
    /\ mapCtx' = With(mapCtx, Main, NoContext)
    /\ stCtxs' = Append(stCtxs, Main)
    /\ Deeper
    /\ UNCHANGED <<mapCommands, lstCmds, status, errors>>

\* There is no father command: the error is noted, but the first of no commands is
\* looked for all the same, which may fail in any way.
ContextWithoutCommand == mapCtx # <<>> /\ lstCmds = <<>> /\ (Crash \/ Refuse)

ContextOfLostCommand ==
    /\ mapCtx # <<>> /\ lstCmds # <<>>
    /\ IF Crashes THEN Crash
       ELSE /\ Current \notin Keys
            /\ Deeper
            /\ errors' = errors + 1
            /\ UNCHANGED <<tree, position, status>>

SubPath == Here \o FlattenSeq(lstCmds)

\* Contexts as they would be if a path could be given twice.
NeverKnown(path) == FALSE

Known(path) == path \in DOMAIN mapCtx

\* The path is pushed before the subcontext is set and inserted, which may both fail.
SubContext ==
    /\ mapCtx # <<>> /\ lstCmds # <<>> /\ ~Crashes /\ Current \in Keys
    /\ Deeper
    /\ stCtxs' = Append(stCtxs, SubPath)
    /\ lstCmds' = <<>>
    /\ IF mapCommands[Current].subContext # NoContext
         THEN errors' = errors + 1 /\ UNCHANGED tree
         ELSE /\ mapCommands' = [mapCommands EXCEPT ![Current].subContext = SubPath]
              /\ IF Known(SubPath)
                   THEN errors' = errors + 1 /\ UNCHANGED mapCtx
                   ELSE mapCtx' = With(mapCtx, SubPath, Here) /\ UNCHANGED errors
    /\ UNCHANGED status

CreateContext == FirstContext \/ ContextWithoutCommand \/ ContextOfLostCommand \/ SubContext

-----------------------------------------------------------------------------
(* create_command, create_param.                                           *)

Insert(key) ==
    /\ mapCommands' = With(mapCommands, key, [subContext |-> NoContext, params |-> {}])
    /\ UNCHANGED <<mapCtx, stCtxs, depths, status, errors>>

\* Names as they would be if the parameters were not looked at.
NeverParameter(name) == FALSE

IsParameter(name) == name \in mapCommands[Current].params

CreateTopCommand(name) ==
    LET key == <<Here, <<name>>>>
    IN  /\ stCtxs # <<>> /\ lstCmds = <<>>
        /\ IF Here \notin DOMAIN mapCtx THEN Crash
           ELSE IF key \in Keys THEN Refuse
           ELSE Insert(key) /\ lstCmds' = <<name>>

CreateSubCommand(name) ==
    LET key == <<Here, Append(lstCmds, name)>>
    IN  /\ stCtxs # <<>> /\ lstCmds # <<>>
        /\ IF Crashes THEN Crash
           ELSE IF Current \notin Keys \/ IsParameter(name) \/ key \in Keys
                THEN Refuse
           ELSE Insert(key) /\ lstCmds' = Append(lstCmds, name)

CreateCommand(name) ==
    \/ CreateTopCommand(name) \/ CreateSubCommand(name)
    \/ stCtxs = <<>> /\ Refuse

CreateParam(name) ==
    IF lstCmds = <<>> THEN Refuse
    ELSE IF Crashes THEN Crash
    ELSE IF \/ Current \notin Keys \/ IsParameter(name)
            \/ <<Here, Append(lstCmds, name)>> \in Keys
         THEN Refuse
    ELSE /\ mapCommands' = [mapCommands EXCEPT ![Current].params = @ \cup {name}]
         /\ UNCHANGED <<mapCtx, position, depths, status, errors>>

-----------------------------------------------------------------------------
(* end_command, end_context.                                               *)

EndCommand ==
    IF lstCmds = <<>> THEN Refuse
    ELSE /\ lstCmds' = Front(lstCmds)
         /\ UNCHANGED <<tree, stCtxs, depths, status, errors>>

\* The father's commands are forgotten.
BackToFatherOnly ==
    /\ stCtxs' = Front(stCtxs)
    /\ lstCmds' = <<>>
    /\ UNCHANGED <<tree, depths, status, errors>>

\* The commands of the father are what the path of the closed context has more, each
\* part a name of its own.
BackToFatherCtx ==
    /\ stCtxs' = Front(stCtxs)
    /\ lstCmds' = IF Len(stCtxs) = 1 THEN lstCmds
                  ELSE [i \in 1..(Len(Here) - Len(stCtxs'[Len(stCtxs')])) |->
                           <<Here[Len(stCtxs'[Len(stCtxs')]) + i]>>]
    /\ UNCHANGED <<tree, depths, status, errors>>

EndContext == IF lstCmds # <<>> \/ stCtxs = <<>> THEN Refuse ELSE BackToFatherCtx

-----------------------------------------------------------------------------
(* The front ends: parameters first, then subcommands, then subcontexts.   *)

Within(kind) == open # <<>> /\ Last(open).kind = kind

Reached(stage) ==
    [open EXCEPT ![Len(open)].stage = stage]

Read(outer, kind, name) ==
    /\ elements < MaxElements
    /\ elements' = elements + 1
    /\ open' = Append(outer, [kind |-> kind, name |-> name, stage |-> "parameters"])

ContextStart ==
    /\ status = "reading"
    /\ CreateContext
    /\ \/ open = <<>> /\ Read(open, "context", NoContext)
       \/ Within("command") /\ Read(Reached("contexts"), "context", NoContext)

CommandStart(name) ==
    /\ status = "reading"
    /\ CreateCommand(name)
    /\ \/ Within("context") /\ Read(open, "command", name)
       \/ /\ Within("command") /\ Last(open).stage # "contexts"
          /\ Read(Reached("commands"), "command", name)

\* end_param, called right after, never finds an open parameter and changes nothing.
Parameter(name) ==
    /\ status = "reading"
    /\ Within("command") /\ Last(open).stage = "parameters"
    /\ CreateParam(name)
    /\ elements < MaxElements
    /\ elements' = elements + 1
    /\ UNCHANGED open

CommandEnd ==
    /\ status = "reading"
    /\ Within("command")
    /\ EndCommand
    /\ open' = Front(open) /\ UNCHANGED elements

ContextEnd ==
    /\ status = "reading"
    /\ Within("context")
    /\ EndContext
    /\ open' = Front(open) /\ UNCHANGED elements

\* The tables as they would be written in the middle of a document.
WriteFilesEarly ==
    /\ status = "reading" /\ mapCtx # <<>>
    /\ status' = "written"
    /\ UNCHANGED <<document, tree, position, depths, errors>>

\* Nothing ever clears bConsistent.
WriteFiles ==
    /\ status = "reading" /\ open = <<>> /\ mapCtx # <<>>
    /\ status' = "written"
    /\ UNCHANGED <<document, tree, position, depths, errors>>

\* A syntax error, a missing element or a stack that is full ends the program.
Abandon ==
    /\ status = "reading" /\ status' = "abandoned"
    /\ open' = <<>> /\ elements' = 0
    /\ mapCtx' = <<>> /\ mapCommands' = <<>>
    /\ stCtxs' = <<>> /\ lstCmds' = <<>>
    /\ cur_depth' = 0 /\ context_depth' = 0
    /\ errors' = 0

BuilderInit ==
    /\ open = <<>> /\ elements = 0
    /\ mapCtx = <<>> /\ mapCommands = <<>>
    /\ stCtxs = <<>> /\ lstCmds = <<>>
    /\ cur_depth = 0 /\ context_depth = 0
    /\ status = "reading" /\ errors = 0

BuilderNext ==
    \/ ContextStart \/ ContextEnd
    \/ \E name \in Names : CommandStart(name)
    \/ \E name \in ParamNames \cup {Default} : Parameter(name)
    \/ CommandEnd \/ WriteFiles \/ Abandon

BuilderSpec == BuilderInit /\ [][BuilderNext]_builderVars

-----------------------------------------------------------------------------
(* What the builder must keep.                                             *)

Element == [kind : {"context", "command"}, name : Names \cup {NoContext},
            stage : {"parameters", "commands", "contexts"}]

\* The builder's state is well formed; every open context is in the map, so that looking
\* up the innermost one, which the code does without a check, always finds it.
BuilderTypeOK ==
    /\ open \in Seq(Element)
    /\ elements \in 0..MaxElements
    /\ mapCtx \in [DOMAIN mapCtx -> Seq(Parts) \cup {NoContext}]
    /\ DOMAIN mapCtx \subseteq Seq(Parts)
    /\ mapCommands \in [Keys -> [subContext : Seq(Parts) \cup {NoContext},
                                 params : SUBSET (ParamNames \cup {Default})]]
    /\ \A key \in Keys : key[1] \in DOMAIN mapCtx /\ key[2] \in Seq(Seq(Parts))
    /\ stCtxs \in Seq(DOMAIN mapCtx) /\ lstCmds \in Seq(Seq(Parts))
    /\ cur_depth \in 0..elements /\ context_depth \in 0..elements
    /\ status \in {"reading", "written", "crashed", "abandoned"}
    /\ errors \in Nat

\* No command has a parameter and a subcommand of one name, in whichever order they
\* come: after the command, a word means one of them.
NamesUnambiguous ==
    \A key \in Keys : \A param \in mapCommands[key].params :
        <<key[1], Append(key[2], param)>> \notin Keys

\* The contexts as many commands away from main.
WaysOf[n \in Nat] ==
    IF n = 0 THEN {Main}
    ELSE {mapCommands[key].subContext : key \in {k \in Keys : k[1] \in WaysOf[n - 1]}} \ {NoContext}

\* The prompt stack a session allocates has a level for every context a chain of
\* commands can lead to, whatever the document and whichever calls fail.
DepthEnough == WaysOf[context_depth] \subseteq IF mapCtx = <<>> THEN {Main} ELSE {}

\* The names between two elements of the document that are open, one inside the other.
NamesBetween(elems, outer, inner) ==
    [k \in 1..(inner - outer - 1) |-> elems[outer + k].name]

\* The contexts on a stack of paths are the open ones, the d-th at place at[d] in the document,
\* and each is where the names between it and the one around it lead.
Follows(elems, ctxs, cmds, at) ==
    /\ {at[d] : d \in DOMAIN ctxs} = {i \in DOMAIN elems : elems[i].kind = "context"}
    /\ at[1] = 1 /\ ctxs[1] = Main
    /\ \A d \in 1..(Len(ctxs) - 1) :
           /\ at[d] < at[d + 1]
           /\ ctxs[d + 1] = ctxs[d] \o FlattenSeq(NamesBetween(elems, at[d], at[d + 1]))
    /\ cmds = NamesBetween(elems, at[Len(ctxs)], Len(elems) + 1)

\* No command so far has an underscore in its name.
PlainNames ==
    \A key \in Keys : \A i \in DOMAIN key[2] : Len(key[2][i]) = 1

\* While nothing has been refused and names are plain, the builder is where the document
\* is: the next command it creates goes to the command and the context it is written in, and
\* so does what is written behind the end of each context that is open.
PositionFollowsDocument ==
    errors = 0 /\ PlainNames /\ open # <<>> /\ status # "crashed" =>
        /\ stCtxs # <<>>
        /\ \E at \in [DOMAIN stCtxs -> DOMAIN open] : Follows(open, stCtxs, lstCmds, at)

\* A document with plain names read without an error gives a tree of contexts: no two
\* commands lead to one, and the command that leads there is listed in its father, so the
\* tables start with the father pointers that a session sets when it enters a context.
DocumentsGiveTrees ==
    errors = 0 /\ PlainNames =>
        \A key \in Keys : LET sub == mapCommands[key].subContext IN
            sub # NoContext =>
                /\ sub \in DOMAIN mapCtx /\ mapCtx[sub] = key[1]
                /\ \A other \in Keys : mapCommands[other].subContext = sub => other = key

\* The calls, whatever they return, come in the order of a document's elements, and tables
\* are written for whole documents only.
Outcome ==
    CASE status = "reading" -> "reading" [] status = "written" -> "written" [] OTHER -> "failed"

AsDocument ==
    INSTANCE Document WITH
        outcome <- Outcome,
        open <- [i \in DOMAIN open |-> [kind |-> open[i].kind, stage |-> open[i].stage]]

ReadsDocuments == AsDocument!DocumentSpec

\* create_command: "You can create a command [...] if there isn't another command with
\* the same name for father context".
CommandsAsDocumented ==
    [][\A name \in Names :
         CommandStart(name) /\ errors = 0 /\ Within("context") /\ <<Here, <<name>>>> \notin Keys
         => <<Here, <<name>>>> \in DOMAIN mapCommands']_builderVars

=============================================================================
