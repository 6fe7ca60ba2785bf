----------------------------- MODULE MCQueryEditor -----------------------------
(* Characters of one and of two bytes, and a blank. *)
EXTENDS QueryEditor

TypedChars == {<<"a">>, <<"e", "x">>, <<" ">>}
Statements == {<<"e", "x", "a">>}
Snippet    == {<<"a", " ">>}
=============================================================================
