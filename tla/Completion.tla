----------------------------- MODULE Completion ------------------------------
(***************************************************************************)
(* The completer of climinal at work (src/src/cli.c: completion,           *)
(* completion_matches, command_generator, command_generator_common).       *)
(*                                                                         *)
(* command_generator hands out one name per call and keeps its place       *)
(* between the calls in static variables, which all the sessions of the    *)
(* program share; examples/cpp/cpp_main.cpp runs each session in a thread  *)
(* of its own. A call is two steps here: what it does when state is 0, and *)
(* the search. Finer interleavings are left out.                           *)
(***************************************************************************)
EXTENDS CommandLine

CONSTANTS
    Sessions,
    Lines           \* the lines, as sequences of bytes, on which Tab is pressed

ASSUME LinesAssumption ==
    \A line \in Lines :
        line \in Seq(Range(line)) /\ Len(line) <= MaxLen /\ Nul \notin Range(line)

\* The words common to all contexts are four different ones, and the parameters are an array.
ASSUME WordsAssumption ==
    /\ IsInjective(<<ByeWord, HistoryWord, ExitWord, EndWord>>)
    /\ \A cmd \in Cmds : Params[cmd] \in Seq(Range(Params[cmd]))

VARIABLES
    term,           \* the buffer and the cursor of each session
    active_cmd,     \* session->active_cmd
    matches,        \* retval of completion_matches
    phase,          \* what completion_matches does for each session
    list_index, param_num, subcmd_num, cmdlist,     \* the statics of command_generator
    matched                                         \* those of command_generator_common

staticVars == <<list_index, param_num, subcmd_num, cmdlist, matched>>
completionVars == <<term, active_cmd, matches, phase, staticVars>>

Buffer(line) == [i \in 0..MaxLen |-> IF i < Len(line) THEN line[i + 1] ELSE Nul]

EmptyLine == [buf |-> Buffer(<<>>), pos |-> 0]

At(s) == WordStart(term[s].buf, term[s].pos)

\* Tab: completion looks for the command and asks for values first.
Tab(s) ==
    /\ phase[s] = "editing"
    /\ \E line \in Lines : \E pos \in 0..Len(line) :
           LET b      == Buffer(line)
               cmd    == FindActiveCmd(b, pos).cmd
               values == Values(b, pos, cmd)
           IN  /\ term' = [term EXCEPT ![s] = [buf |-> b, pos |-> pos]]
               /\ active_cmd' = [active_cmd EXCEPT ![s] = cmd]
               /\ matches' = [matches EXCEPT ![s] = values.matches]
               /\ phase' = [phase EXCEPT ![s] = IF values.done THEN "returned" ELSE "starting"]
    /\ UNCHANGED staticVars

\* The line is edited before the next Tab.
Edit(s) ==
    /\ phase[s] = "returned"
    /\ term' = [term EXCEPT ![s] = EmptyLine]
    /\ matches' = [matches EXCEPT ![s] = <<>>]
    /\ phase' = [phase EXCEPT ![s] = "editing"]
    /\ UNCHANGED <<active_cmd, staticVars>>

\* The first call resets the place in the list and counts the names to go through.
StartGenerator(s) ==
    LET b     == term[s].buf
        found == FindActiveCmd(b, term[s].pos)
        below == found.cmd # NoCmd /\ ByteAt(b, found.next) = Blank
        none  == NothingToOffer(b, term[s].pos, At(s))
    IN  /\ phase[s] = "starting"
        /\ active_cmd' = [active_cmd EXCEPT ![s] = found.cmd]
        /\ list_index' = 0
        /\ cmdlist' = IF below THEN SubCmds[found.cmd] ELSE CmdList
        /\ param_num' = IF below THEN Len(Params[found.cmd]) ELSE 0
        /\ subcmd_num' = IF none THEN 0 ELSE Len(cmdlist')
        /\ matched' = IF found.cmd = NoCmd /\ ~none THEN {} ELSE matched
        /\ phase' = [phase EXCEPT ![s] = IF none THEN "returned" ELSE "searching"]
        /\ UNCHANGED <<term, matches>>

\* command_generator_common: bye and history, then exit and end where there are contexts.
CommonLeft(s) ==
    IF active_cmd[s] # NoCmd THEN <<>>
    ELSE Among(CommonOffered(term[s].buf, At(s)), CommonWords \ matched)

Found(s, name) ==
    /\ matches' = [matches EXCEPT ![s] = Append(@, name)]
    /\ UNCHANGED <<term, active_cmd, phase, param_num, subcmd_num, cmdlist>>

GenerateCommon(s) ==
    /\ phase[s] = "searching" /\ CommonLeft(s) # <<>>
    /\ matched' = matched \cup {Head(CommonLeft(s))}
    /\ Found(s, Head(CommonLeft(s)))
    /\ UNCHANGED list_index

\* The name at a place of the list: of a parameter of the session's command, or of a
\* command. Where the tables have no such entry the code reads outside them and
\* the model ends.
NameAt(s, i) ==
    IF i <= param_num THEN Params[active_cmd[s]][i].name ELSE NameOf[cmdlist[i - param_num]]

InTables(s, i) ==
    IF i <= param_num THEN active_cmd[s] # NoCmd /\ i \in DOMAIN Params[active_cmd[s]]
    ELSE i - param_num \in DOMAIN cmdlist

\* The index is counted up twice before it is used.
LeftBehindNext == (list_index + 2)..(param_num + subcmd_num)

Left == (list_index + 1)..(param_num + subcmd_num)

OfferedAt(s) == {i \in Left : Offers(term[s].buf, term[s].pos, At(s), NameAt(s, i))}

Searching(s) ==
    phase[s] = "searching" /\ CommonLeft(s) = <<>> /\ \A i \in Left : InTables(s, i)

Generate(s) ==
    /\ Searching(s) /\ OfferedAt(s) # {}
    /\ list_index' = Min(OfferedAt(s))
    /\ Found(s, NameAt(s, Min(OfferedAt(s))))
    /\ UNCHANGED matched

\* The place moves once more when there is nothing left.
NoMoreAndOneFurther(s) ==
    /\ Searching(s) /\ OfferedAt(s) = {}
    /\ list_index' = param_num + subcmd_num + 1
    /\ phase' = [phase EXCEPT ![s] = "returned"]
    /\ UNCHANGED <<term, active_cmd, matches, param_num, subcmd_num, cmdlist, matched>>

\* The end of the list is not told to completion_matches.
NoMoreUntold(s) ==
    /\ Searching(s) /\ OfferedAt(s) = {}
    /\ list_index' = param_num + subcmd_num
    /\ UNCHANGED <<term, active_cmd, matches, phase, param_num, subcmd_num, cmdlist, matched>>

\* NULL ends the loop of completion_matches.
NoMore(s) ==
    /\ Searching(s) /\ OfferedAt(s) = {}
    /\ list_index' = param_num + subcmd_num
    /\ phase' = [phase EXCEPT ![s] = "returned"]
    /\ UNCHANGED <<term, active_cmd, matches, param_num, subcmd_num, cmdlist, matched>>

CompletionInit ==
    /\ term = [s \in Sessions |-> EmptyLine]
    /\ active_cmd = [s \in Sessions |-> NoCmd]
    /\ matches = [s \in Sessions |-> <<>>]
    /\ phase = [s \in Sessions |-> "editing"]
    /\ list_index = 0 /\ param_num = 0 /\ subcmd_num = 0
    /\ cmdlist = <<>>
    /\ matched = {}

Completes(s) == StartGenerator(s) \/ GenerateCommon(s) \/ Generate(s) \/ NoMore(s)

CompletionNext == \E s \in Sessions : Tab(s) \/ Completes(s) \/ Edit(s)

CompletionSpec == CompletionInit /\ [][CompletionNext]_completionVars

\* The completer's loop runs on; nobody has to press Tab.
FairCompletionSpec ==
    CompletionSpec /\ \A s \in Sessions : WF_completionVars(Completes(s))

-----------------------------------------------------------------------------
(* Properties.                                                             *)

\* The state of the sessions and of the generators; and the search only looks where the
\* tables have entries.
CompletionTypeOK ==
    /\ \A s \in Sessions :
           DOMAIN term[s].buf = 0..MaxLen /\ term[s].pos \in 0..StrEnd(term[s].buf)
    /\ active_cmd \in [Sessions -> Cmds \cup {NoCmd}]
    /\ phase \in [Sessions -> {"editing", "starting", "searching", "returned"}]
    /\ param_num \in Nat /\ subcmd_num \in Nat /\ list_index \in 0..(param_num + subcmd_num)
    /\ matched \subseteq CommonWords
    /\ \A s \in Sessions : phase[s] = "searching" => \A i \in Left : InTables(s, i)

\* The loop over the generator, which goes through tables of names with indices and
\* flags left over from the completion before, has in the end offered a session
\* exactly what its own line calls for, each name once and in the tables' order.
OffersOwnMatches ==
    \A s \in Sessions :
        phase[s] = "returned" => matches[s] = Matches(term[s].buf, term[s].pos, At(s))

\* Every Tab is answered: the generator returns NULL in the end.
TabIsAnswered ==
    \A s \in Sessions : phase[s] \in {"starting", "searching"} ~> phase[s] = "returned"

\* examples/cpp/README:6: "C++ threads are also used to show how to use the cookie
\* parameter in a multi-thread environment". So sessions in different threads do not
\* disturb each other's completions.
ThreadsKeepApart == OffersOwnMatches

=============================================================================
