----------------------------- MODULE MCSession ------------------------------
(* A small command tree for TLC: main > net > if, and main > log.          *)
EXTENDS Session, TLC

MCContexts == {"main", "net", "if", "log"}

MCPathTo ==
    "main" :> <<"main">> @@ "net" :> <<"main", "net">>
    @@ "if" :> <<"main", "net", "if">> @@ "log" :> <<"main", "log">>

MCContextPrompt == [c \in MCContexts |-> c]

\* The least the assumption allows; the builder gives one level per context.
MCContextDepth == 3

MCSubContext ==
    "to net" :> "net" @@ "to if" :> "if" @@ "to log" :> "log" @@ "show" :> "none"

MCCmds == DOMAIN MCSubContext

\* "to log" has no callback, it only leads to its context.
MCHasCallback == [cmd \in MCCmds |-> cmd # "to log"]

\* The word "go" names a command in main and another one in net.
MCCommands ==
    {"bye", "exit", "end", "history", "go", "go v", "log", "show", "show -"}

MCMainCmd ==
    [line \in MCCommands |->
        IF line \in {"bye", "exit", "end", "history"} THEN line ELSE "other"]

MCFoundCmd ==
    [at \in MCContexts \X MCCommands |->
        CASE at \in {<<"main", "go">>, <<"main", "go v">>} -> "to net"
          [] at \in {<<"net", "go">>, <<"net", "go v">>} -> "to if"
          [] at = <<"main", "log">> -> "to log"
          [] at \in {<<"net", "show">>, <<"net", "show -">>} -> "show"
          [] OTHER -> "null"]

\* "go v" ends before the value of its parameter, "show -" lacks a parameter.
MCArguments ==
    [line \in MCCommands |->
        CASE line = "go v" -> "value missing"
          [] line = "show -" -> "parameter missing"
          [] OTHER -> "complete"]

MCRecallNum == "!1" :> 1 @@ "!2" :> 2

MCRecalls == DOMAIN MCRecallNum

MCRecallExtra == [line \in MCRecalls |-> FALSE]

=============================================================================
