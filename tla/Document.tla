------------------------------ MODULE Document ------------------------------
(***************************************************************************)
(* What a description of a command line looks like to climinalbuilder: a   *)
(* sequence of contexts, each holding commands, each of those holding      *)
(* parameters, then subcommands, then contexts. The builder's functions    *)
(* are called when an element starts and when it ends; the tables are      *)
(* written once, after a whole document, or not at all.                    *)
(***************************************************************************)
EXTENDS Integers, Sequences

VARIABLES
    open,       \* the elements begun and not ended, outermost first
    outcome     \* "reading", "written" or "failed"

documentVars == <<open, outcome>>

Begun(kind) == [kind |-> kind, stage |-> "parameters"]

Innermost(kind) == open # <<>> /\ open[Len(open)].kind = kind

Stage == open[Len(open)].stage

Entering(stage) == [open EXCEPT ![Len(open)].stage = stage]

StartContext ==
    \/ open = <<>> /\ open' = <<Begun("context")>>
    \/ Innermost("command") /\ open' = Append(Entering("contexts"), Begun("context"))

StartCommand ==
    \/ Innermost("context") /\ open' = Append(open, Begun("command"))
    \/ /\ Innermost("command") /\ Stage # "contexts"
       /\ open' = Append(Entering("commands"), Begun("command"))

EndElement == open # <<>> /\ open' = SubSeq(open, 1, Len(open) - 1)

Written == open = <<>> /\ outcome' = "written" /\ UNCHANGED open

\* The program stops, whatever it was reading.
Failed == outcome' = "failed"

DocumentInit == open = <<>> /\ outcome = "reading"

DocumentNext ==
    /\ outcome = "reading"
    /\ \/ (StartContext \/ StartCommand \/ EndElement) /\ UNCHANGED outcome
       \/ Written \/ Failed

DocumentSpec == DocumentInit /\ [][DocumentNext]_documentVars

=============================================================================
