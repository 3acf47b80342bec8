------------------------------- MODULE MCShell -------------------------------
(* A small command table for TLC: "a" has a required parameter "bb", a      *)
(* default one and a subcommand "ab" whose default parameter is required;    *)
(* "b" has two parameters, one the beginning of the other.                   *)
EXTENDS Shell, TLC

MCNameOf == "a" :> <<"a">> @@ "a ab" :> <<"a", "b">> @@ "b" :> <<"b">>

MCCmds == DOMAIN MCNameOf

MCCmdList == <<"a", "b">>

MCSubCmds == [c \in MCCmds |-> IF c = "a" THEN <<"a ab">> ELSE <<>>]

MCParam(name, required, numval, val) ==
    [name |-> name, required |-> required, numval |-> numval, val |-> val]

MCParams ==
    [c \in MCCmds |->
        CASE c = "a" -> <<MCParam(<<"b", "b">>, TRUE, 1, <<(<<"a">>)>>),
                          MCParam(<<>>, FALSE, 1, NoVal)>>
          [] c = "a ab" -> <<MCParam(<<>>, TRUE, 1, <<(<<"a", "a">>)>>)>>
          [] OTHER -> <<MCParam(<<"a", "b">>, FALSE, 0, NoVal),
                        MCParam(<<"a">>, FALSE, 2, NoVal)>>]

MCBye == <<"a", "a", "b">>
MCHistory == <<"a", "a">>
MCExit == <<"a", "b", "b">>
MCEnd == <<"b", "b">>

MCStoredLines == {<<"a">>, <<"a", " ", "a", "b">>, <<"a", " ", "b", "b", " ", "a">>}

MCNames ==
    {<<>>, <<"a">>, <<"b">>, <<"a", "b">>, <<"b", "b">>, <<"a", "a", "b">>, <<"a", "a">>, <<"a", "b", "b">>}

=============================================================================
