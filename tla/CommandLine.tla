---------------------------- MODULE CommandLine -----------------------------
(***************************************************************************)
(* How climinal reads the words of a line (src/src/cli.c: next_word,       *)
(* last_word, word_distance, find_active_cmd, find_active_param,           *)
(* get_main_cmd) and what its completer offers for it (values_generator,   *)
(* command_generator).                                                     *)
(*                                                                         *)
(* A line is a buffer of bytes b with its first NUL, and bytes left over   *)
(* from longer lines behind it; pos is the cursor. The command table is    *)
(* the one of a single context: module Session moves between contexts.     *)
(***************************************************************************)
EXTENDS Integers, Sequences, FiniteSets, SequencesExt, Lists

CONSTANTS
    Blank, Nul,
    MaxLen,         \* bound of the model: the longest line (MAX_BUFLEN is 256)
    Cmds,           \* the Clicmd tables of the context
    NoCmd,          \* a null Clicmd pointer
    NameOf,         \* Clicmd.name
    CmdList,        \* active_context->cmd
    SubCmds,        \* Clicmd.subcmd; <<>> is a null pointer
    Params,         \* Clicmd.param: records name, required, numval, val
    NoVal,          \* a parameter without a value callback
    HasContexts,    \* main_context->depth > 1
    ByeWord, HistoryWord, ExitWord, EndWord

ASSUME TableAssumption ==
    /\ Blank # Nul /\ MaxLen \in Nat /\ NoCmd \notin Cmds
    /\ CmdList \in Seq(Cmds) /\ SubCmds \in [Cmds -> Seq(Cmds)]
    /\ \A cmd \in Cmds : \A i \in DOMAIN Params[cmd] :
           /\ Params[cmd][i].required \in BOOLEAN
           /\ Params[cmd][i].numval \in Nat
    /\ HasContexts \in BOOLEAN

-----------------------------------------------------------------------------
(* Words.                                                                  *)

\* Behind the longest line the buffer is as readline cleared it.
ByteAt(b, i) == IF i \in DOMAIN b THEN b[i] ELSE Nul

\* The bytes of b from place i up to, not including, place j.
Bytes(b, i, j) == [k \in 1..(j - i) |-> ByteAt(b, i + k - 1)]

FirstFrom(b, i, Stops(_)) ==
    CHOOSE j \in i..(i + MaxLen + 1) :
        Stops(ByteAt(b, j)) /\ \A k \in i..(j - 1) : ~Stops(ByteAt(b, k))

WordEnd(b, i) == FirstFrom(b, i, LAMBDA byte : byte \in {Blank, Nul})

\* The next word at or after place i: its start and its end, the same place when a
\* NUL comes first (next_word then returns NULL, with length 0).
NextWord(b, i) ==
    LET start == FirstFrom(b, i, LAMBDA byte : byte # Blank)
    IN  [start |-> start, end |-> WordEnd(b, start)]

IsWord(word) == word.start < word.end

Text(b, word) == Bytes(b, word.start, word.end)

\* The last word that a blank ends before place i; an empty one at 0 if there is none.
LastWord(b, i) ==
    LET end == Max({0} \cup {e \in 1..(i - 1) : b[e - 1] # Blank /\ b[e] = Blank})
    IN  [start |-> Max({0} \cup {s \in 1..end : b[s - 1] = Blank /\ s < end}), end |-> end]

\* word_distance, from a name at a place i before the cursor: how many words end
\* between the two. (It is not positive when the name is behind the cursor.)
WordDistance(b, i, pos) ==
    LET ends == {e \in (i + 1)..(pos - 1) : b[e - 1] # Blank /\ b[e] = Blank}
    IN  IF i < pos THEN Cardinality(ends) ELSE 0

StrEnd(b) == FirstFrom(b, 0, LAMBDA byte : byte = Nul)

Occurs(b, text) == {i \in 0..StrEnd(b) : /\ i + Len(text) <= StrEnd(b)
                                         /\ Bytes(b, i, i + Len(text)) = text}

\* strstr: the first place where the text begins, be it inside a word.
Strstr(b, text) == CHOOSE i \in Occurs(b, text) : \A j \in Occurs(b, text) : i <= j

\* get_main_cmd.
MainCmdOf(b) == Text(b, NextWord(b, 0))

CommonWords == {ByeWord, HistoryWord} \cup IF HasContexts THEN {ExitWord, EndWord} ELSE {}

-----------------------------------------------------------------------------
(* The command a line names.                                               *)

ListBelow(cmd) == IF cmd = NoCmd THEN CmdList ELSE SubCmds[cmd]

Named(list, text) == {i \in DOMAIN list : NameOf[list[i]] = text}

\* A search that resumes at the blank behind the word, one place early.
ResumesAtBlank(at, word) == at + (word.end - word.start)

\* Where the search resumes: the length of the word and one more from where it began,
\* which is the place behind the word's blank only if no blank came before the word.
ResumesAt(at, word) == at + (word.end - word.start) + 1

\* Where find_active_cmd has come: the place it reads at, the command, and the place
\* behind its name (*nextdata).
Searches == [at : 0..(MaxLen + 1), cmd : Cmds \cup {NoCmd}, next : 0..MaxLen]

\* The commands that the next word names, in the list below the one found so far.
Hits(b, search) == Named(ListBelow(search.cmd), Text(b, NextWord(b, search.at)))

Hit(b, search) == IsWord(NextWord(b, search.at)) /\ Hits(b, search) # {}

\* The first of them; the search goes on behind the word.
Descend(b, search) ==
    LET word == NextWord(b, search.at)
    IN  [at   |-> ResumesAt(search.at, word),
         cmd  |-> ListBelow(search.cmd)[Min(Hits(b, search))],
         next |-> word.end]

\* find_active_cmd. Nothing stops the search at the end of the line: when the last word
\* ends there it resumes behind the NUL.
FindActiveCmd(b, pos) ==
    LET Found[search \in Searches] ==
            LET below == Descend(b, search)
            IN  IF ~Hit(b, search) THEN search
                ELSE IF below.next = below.at + pos THEN below ELSE Found[below]
    IN  Found[[at |-> 0, cmd |-> NoCmd, next |-> 0]]

\* find_active_param, in the parameters of the command that the session remembers.
ActiveParams(b, pos, active_cmd) ==
    {i \in DOMAIN Params[active_cmd] : Params[active_cmd][i].name = Text(b, LastWord(b, pos))}

-----------------------------------------------------------------------------
(* What the completer offers for the text at place p, up to the cursor.     *)

\* The parameters whose name precedes the cursor by no more words than they take values.
AwaitingValue(b, pos, cmd) ==
    {i \in DOMAIN Params[cmd] :
        LET param == Params[cmd][i]
        IN  /\ param.name # <<>> /\ Occurs(b, param.name) # {}
            /\ WordDistance(b, Strstr(b, param.name), pos) \in 1..param.numval}

\* The default parameters, when the cursor is in the word behind the command's. (A
\* command found behind the NUL may not stand on the line at all: the code then
\* follows a null pointer, where the model finds nothing to ask for.)
AwaitingDefault(b, pos, cmd) ==
    {i \in DOMAIN Params[cmd] :
        /\ Params[cmd][i].name = <<>> /\ Params[cmd][i].val # NoVal
        /\ Occurs(b, NameOf[cmd]) # {}
        /\ WordDistance(b, Strstr(b, NameOf[cmd]), pos) = 1}

\* The first of them that has no callback, or one that returns something; NoVal if none.
AskedFor(cmd, S) ==
    LET asked == {i \in S : Params[cmd][i].val # <<>>}
    IN  IF asked = {} THEN NoVal ELSE Params[cmd][Min(asked)].val

Partial(b, pos) ==
    LET word == NextWord(b, LastWord(b, pos).end)
    IN  IF word.start < pos THEN Text(b, word) ELSE <<>>

Continuing(values, text) == Among(values, {value \in Range(values) : IsPrefix(text, value)})

\* values_generator: whether values are completed and nothing else, and which.
Values(b, pos, cmd) ==
    IF cmd = NoCmd THEN [done |-> FALSE, matches |-> <<>>]
    ELSE LET named   == AwaitingValue(b, pos, cmd)
             regular == {i \in named : Params[cmd][i].val # <<>>}
             values  == AskedFor(cmd, IF regular # {} THEN regular
                                      ELSE AwaitingDefault(b, pos, cmd))
         IN  [done    |-> named # {} \/ values # NoVal,
              matches |-> IF values = NoVal THEN <<>> ELSE Continuing(values, Partial(b, pos))]

\* A word before the one to complete does not matter.
NothingToOfferOnBlanks(b, pos, p) ==
    FindActiveCmd(b, pos).cmd = NoCmd /\ ~IsWord(NextWord(b, 0))

\* No command is found, and a word stands before the one to complete, or none at all.
NothingToOffer(b, pos, p) ==
    LET first == NextWord(b, 0)
    IN  /\ FindActiveCmd(b, pos).cmd = NoCmd
        /\ ~IsWord(first) \/ (ByteAt(b, first.end) = Blank /\ first.end <= p)

NamesOf(cmds) == [i \in DOMAIN cmds |-> NameOf[cmds[i]]]

\* The names command_generator goes through: once a blank stands behind the command
\* found, its parameters and then its subcommands; the context's commands before.
Listed(b, pos) ==
    LET found == FindActiveCmd(b, pos)
    IN  IF found.cmd # NoCmd /\ ByteAt(b, found.next) = Blank
        THEN [i \in DOMAIN Params[found.cmd] |-> Params[found.cmd][i].name]
             \o NamesOf(SubCmds[found.cmd])
        ELSE NamesOf(CmdList)

\* cli_complete's last_word_pos: behind the last blank before the cursor, but behind the
\* cursor when that stands at the start of a line that begins with a blank.
WordStart(b, pos) ==
    IF pos = 0 THEN IF ByteAt(b, 0) = Blank THEN 1 ELSE 0
    ELSE Max({0} \cup {i \in 1..pos : b[i - 1] = Blank})

\* The text to complete ends at the cursor; behind the cursor its length is -1, which
\* strncmp takes for the longest.
Fits(b, pos, p, name) ==
    IF p <= pos THEN IsPrefix(Bytes(b, p, pos), name) ELSE name = Bytes(b, p, StrEnd(b))

\* A name is offered unless it stands in the line already, as the end of a word.
Offers(b, pos, p, name) ==
    Fits(b, pos, p, name) /\ Occurs(b, Append(name, Blank)) = {}

\* command_generator_common compares with the whole rest of the line.
CommonOffered(b, p) ==
    Among(IF HasContexts THEN <<ByeWord, HistoryWord, ExitWord, EndWord>>
          ELSE <<ByeWord, HistoryWord>>,
          {name \in CommonWords : IsPrefix(Bytes(b, p, StrEnd(b)), name)})

NamesOffered(b, pos, p) ==
    IF NothingToOffer(b, pos, p) THEN <<>>
    ELSE (IF FindActiveCmd(b, pos).cmd = NoCmd THEN CommonOffered(b, p) ELSE <<>>)
         \o Among(Listed(b, pos), {name \in Range(Listed(b, pos)) : Offers(b, pos, p, name)})

\* completion_matches.
Matches(b, pos, p) ==
    LET values == Values(b, pos, FindActiveCmd(b, pos).cmd)
    IN  IF values.done THEN values.matches ELSE NamesOffered(b, pos, p)

=============================================================================
