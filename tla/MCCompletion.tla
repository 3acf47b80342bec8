---------------------------- MODULE MCCompletion -----------------------------
(* A small command table for TLC: commands "a", with a subcommand "ba" and  *)
(* parameters, "ab", and "b", which has neither.                            *)
EXTENDS Completion, TLC

MCNameOf == "a" :> <<"a">> @@ "a ba" :> <<"b", "a">> @@ "ab" :> <<"a", "b">> @@ "b" :> <<"b">>

MCCmds == DOMAIN MCNameOf

MCCmdList == <<"a", "ab", "b">>

MCSubCmds == [cmd \in MCCmds |-> IF cmd = "a" THEN <<"a ba">> ELSE <<>>]

MCParam(name, numval, val) ==
    [name |-> name, required |-> FALSE, numval |-> numval, val |-> val]

\* A parameter with a value that has a callback, one without, one that takes no
\* value; and the default parameter.
MCParams ==
    [cmd \in MCCmds |->
        CASE cmd = "a" -> <<MCParam(<<"b", "b">>, 1, <<(<<"a">>), (<<"a", "b">>)>>),
                            MCParam(<<"a", "b">>, 0, NoVal),
                            MCParam(<<>>, 1, <<(<<"b", "b">>)>>)>>
          [] cmd = "a ba" -> <<MCParam(<<"a">>, 2, NoVal)>>
          [] OTHER -> <<>>]

MCBye == <<"b", "b", "a">>
MCHistory == <<"a", "a">>
MCExit == <<"a", "b", "b">>
MCEnd == <<"b", "a">>

\* All the short lines, and some where a value is asked for.
MCLines ==
    UNION {[1..n -> {"a", "b", " "}] : n \in 0..3}
    \cup {<<"a", " ", "b", " ">>, <<"b", " ", "a", " ">>, <<"a", "b", " ", "b">>,
          <<"a", " ", "b", "b", " ", "a">>, <<"a", " ", "b", "b", " ", " ">>,
          <<"a", " ", "b", "a", " ", "a">>, <<"b", " ", "a", "b", " ", "b">>}

MCTwoLines == {<<"a", " ">>, <<"a">>}

=============================================================================
