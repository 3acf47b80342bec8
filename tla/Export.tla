------------------------------- MODULE Export -------------------------------
(***************************************************************************)
(* What climinalbuilder writes (src/tools/climinalbuilder/                 *)
(* CExportFiles.cpp) for the contexts and commands of module Builder: the  *)
(* identifiers of the C tables, which of them the .c and .h files declare, *)
(* which they define and which the tables refer to. An identifier is the   *)
(* sequence of its parts between underscores.                              *)
(***************************************************************************)
EXTENDS Builder
LOCAL INSTANCE SequencesExt

CONSTANTS
    NoBrief, NoHelp,    \* the names whose commands have an empty brief or help
    CallbackOf,         \* the callback of the commands of a name
    NULL,               \* a callback named NULL
    NoCallback,         \* an empty callback
    ValuesOf            \* the values callback of the parameters of a name, if any

ASSUME ExportAssumption ==
    /\ NoBrief \subseteq Names /\ NoHelp \subseteq Names
    /\ Names \subseteq DOMAIN CallbackOf
    /\ DOMAIN ValuesOf \subseteq ParamNames \cup {Default}
    /\ NULL # NoCallback

Hierarchy(key) == key[1] \o FlattenSeq(key[2])

\* Names as they would be if a text's were not told apart from a list's.
OneSuffix(path, kind) ==
    Append(path, IF kind \in {"brf", "hlp"} THEN "txt" ELSE kind)

DefName(path, kind) == Append(path, kind)

CommandName(key) == key[2][Len(key[2])]

HasBrief(key) == CommandName(key) \notin NoBrief

HasHelp(key) == CommandName(key) \notin NoHelp

HasParameters(key) == mapCommands[key].params # {}

Below(key) ==
    {other \in Keys : other[1] = key[1] /\ Len(other[2]) > 1 /\ Front(other[2]) = key[2]}

HasSubCommands(key) == Below(key) # {}

\* WriteCommandDefs leaves out what a command without brief or help holds.
Visited ==
    {key \in Keys : \A n \in 1..(Len(key[2]) - 1) :
        LET outer == <<key[1], SubSeq(key[2], 1, n)>>
        IN  outer \in Keys => HasBrief(outer) /\ HasHelp(outer)}

Described == {key \in Visited : HasBrief(key) /\ HasHelp(key)}

-----------------------------------------------------------------------------
(* Declarations, definitions and uses, each with what it is written for.   *)

Written(keys, kind) == {<<key, kind, DefName(Hierarchy(key), kind)>> : key \in keys}

OfContexts(kind) == {<<<<path, <<>>>>, kind, DefName(path, kind)>> : path \in DOMAIN mapCtx}

WithParameters == {key \in Keys : HasParameters(key)}

WithSubCommands == {key \in Keys : HasSubCommands(key)}

\* WriteCtxDefs, WriteCmdDefs, WritePrmDefs.
Declared ==
    OfContexts("ctx") \cup OfContexts("cmd")
    \cup Written(Described \cap WithSubCommands, "subcmd")
    \cup Written(Described, "brf") \cup Written(Described, "hlp")
    \cup Written(WithParameters, "prm")

\* The texts come with their declarations, the tables with WriteRules.
Defined ==
    OfContexts("ctx") \cup OfContexts("cmd")
    \cup Written(WithSubCommands, "subcmd")
    \cup Written(Described, "brf") \cup Written(Described, "hlp")
    \cup Written(WithParameters, "prm")

\* WriteCommandRules and WriteParametersRules.
Used ==
    {DefName(path, "cmd") : path \in DOMAIN mapCtx}
    \cup {DefName(path, "ctx") : path \in ({mapCtx[p] : p \in DOMAIN mapCtx} \ {NoContext})}
    \cup {DefName(mapCommands[key].subContext, "ctx") :
              key \in {k \in Keys : mapCommands[k].subContext # NoContext}}
    \cup {DefName(Hierarchy(key), "brf") : key \in {k \in Keys : HasBrief(k)}}
    \cup {DefName(Hierarchy(key), "hlp") : key \in {k \in Keys : HasHelp(k)}}
    \cup {DefName(Hierarchy(key), "prm") : key \in WithParameters}
    \cup {DefName(Hierarchy(key), "subcmd") : key \in WithSubCommands}

Identifiers(written) == {entry[3] : entry \in written}

\* The prototypes as they would be if subcommands were not visited.
PrototypesOfTop ==
    ({CallbackOf[CommandName(key)] : key \in {k \in Keys : Len(k[2]) = 1}} \ {NoCallback, NULL})
    \cup {ValuesOf[param] : param \in DOMAIN ValuesOf \cap UNION {mapCommands[key].params : key \in Keys}}

\* WriteCallbackHeader and WriteValuesCallbackHeader visit every command.
Prototypes ==
    ({CallbackOf[CommandName(key)] : key \in Keys} \ {NoCallback, NULL})
    \cup {ValuesOf[param] : param \in DOMAIN ValuesOf \cap UNION {mapCommands[key].params : key \in Keys}}

\* The functions the tables name: an empty callback is written as NULL.
FunctionsUsed ==
    ({CallbackOf[CommandName(key)] : key \in Keys} \ {NoCallback})
    \cup {ValuesOf[param] : param \in DOMAIN ValuesOf \cap UNION {mapCommands[key].params : key \in Keys}}

-----------------------------------------------------------------------------

\* No command has both subcommands and a context, whose paths would be the same.
OneWayDown == \A key \in Keys : mapCommands[key].subContext # NoContext => ~HasSubCommands(key)

\* With plain names, and a context or subcommands for each command but not both, no two
\* definitions of the tables have one name, whatever was refused.
DefinedOnce ==
    status = "written" /\ PlainNames /\ OneWayDown =>
        \A one, other \in Defined : one[3] = other[3] => one = other

\* A command with one of its texts has both, and so has one with subcommands.
TextsComplete ==
    \A key \in Keys : HasBrief(key) \/ HasHelp(key) \/ HasSubCommands(key)
                       => HasBrief(key) /\ HasHelp(key)

\* When the texts are complete, whatever the tables refer to has been declared, and whatever
\* is declared gets defined, even after errors.
DeclaredBeforeUse ==
    status = "written" /\ TextsComplete =>
        /\ Used \subseteq Identifiers(Declared)
        /\ Identifiers(Declared) \subseteq Identifiers(Defined)
        /\ FunctionsUsed \ {NULL} \subseteq Prototypes
=============================================================================
