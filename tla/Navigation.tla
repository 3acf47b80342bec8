----------------------------- MODULE Navigation -----------------------------
(***************************************************************************)
(* What moving between contexts means to the user of a climinal session: a *)
(* stack of levels, each with its context and the prompt it shows.  Going  *)
(* in adds a level that a command of the present context leads to, "exit"  *)
(* takes the last one off, "end" all but the first; the levels below keep  *)
(* their contexts and their prompts meanwhile.                             *)
(*                                                                         *)
(* The prompt of a new level is left open here: it should be the one the   *)
(* callback asked for or the context's own, but see StalePromptFree in     *)
(* module Session.                                                         *)
(***************************************************************************)
EXTENDS Integers, Sequences

CONSTANTS
    Contexts, Main,
    Leads,          \* the pairs <<context, context>> some command leads along
    Prompts,
    MainPrompt

VARIABLE levels

NavInit == levels = <<[context |-> Main, prompt |-> MainPrompt]>>

Here == levels[Len(levels)].context

Enter(context, prompt) ==
    /\ levels' = Append(levels, [context |-> context, prompt |-> prompt])
    /\ <<Here, context>> \in Leads

Leave ==
    /\ Len(levels) > 1
    /\ levels' = SubSeq(levels, 1, Len(levels) - 1)

LeaveAll ==
    /\ Len(levels) > 1
    /\ levels' = SubSeq(levels, 1, 1)

NavNext ==
    \/ \E context \in Contexts, prompt \in Prompts : Enter(context, prompt)
    \/ Leave
    \/ LeaveAll

NavSpec == NavInit /\ [][NavNext]_levels

=============================================================================
