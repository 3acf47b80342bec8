---------------------------- MODULE MCLineEditor ----------------------------
(* Small instances of module LineEditor for TLC.                           *)
EXTENDS LineEditor

MCStoredLines == {<<>>, <<"a">>, <<"b", " ", "b">>}

MCNames == {<<"a", "b">>, <<"a", "b", "b">>, <<"b">>}

=============================================================================
