------------------------------- MODULE MCSafeMode -------------------------------
(* Every text of up to four characters: a read word, a risky word, and one  *)
(* of everything the scanner looks at.                                      *)
EXTENDS SafeMode

Chars == {"r", "w", "newline", "'", ";", "-", "/", "*"}
ShortTexts == UNION {[1 .. n -> Chars] : n \in 0 .. 4}
Risky  == <<"w">>
Reads  == {<<"r">>}
=============================================================================
