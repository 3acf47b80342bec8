----------------------------- MODULE MCBuilder ------------------------------
(***************************************************************************)
(* Small documents for Builder: plain names, and a name with an underscore *)
(* besides the name of its first part.                                     *)
(***************************************************************************)
EXTENDS Export

OneName == {<<"a">>}

JoinedNames == {<<"a">>, <<"a", "b">>}

MCNoHelp == {<<"b">>}

MCCallbackOf == [name \in {<<"a">>, <<"b">>, <<"a", "b">>} |->
                    IF name = <<"b">> THEN "NULL" ELSE IF name = <<"a">> THEN "cbk" ELSE "none"]

MCValuesOf == [name \in {<<"a">>} |-> "values_cbk"]

AllNames == {<<"a">>, <<"b">>, <<"a", "b">>}

=============================================================================
