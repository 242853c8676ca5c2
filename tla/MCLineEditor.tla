------------------------------ MODULE MCLineEditor ------------------------------
(* A terminal of three columns: with the prompt, a line of one character     *)
(* ends at the right edge, one of four too, one of five needs a third row.   *)
EXTENDS LineEditor

MCPrompt == <<"$", " ">>
MCTyped == {<<"a">>, <<"a", "a">>}
MCPrefills == {<<"a", "a", "a">>}
=============================================================================
