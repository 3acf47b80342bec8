----------------------------- MODULE MCHistory ------------------------------
(* Small instances of module History for TLC.                              *)
EXTENDS History, TLC

CONSTANTS a, b, c

MCCommands == {a, b, c}

\* "!!" and "!x" have no number after the "!"; "!1 x" has an extra word; "!9" is
\* never available within the bounds.
MCRecallNum ==
    "!!" :> 0 @@ "!x" :> 0 @@ "!1" :> 1 @@ "!2" :> 2 @@ "!3" :> 3 @@ "!4" :> 4
    @@ "!5" :> 5 @@ "!6" :> 6 @@ "!9" :> 9 @@ "!1 x" :> 1

MCRecalls == DOMAIN MCRecallNum

MCRecallExtra == [line \in MCRecalls |-> line = "!1 x"]

=============================================================================
