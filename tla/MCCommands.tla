----------------------------- MODULE MCCommands -----------------------------
(* All commands of up to six a's and blanks, and shorter ones with a       *)
(* newline in them, for TLC.                                               *)
EXTENDS Commands

TextsOf(chars, length) == UNION {[1..n -> chars] : n \in 0..length}

CharsDef == {"a", NL}
TextsDef == TextsOf({"a", Space}, 6) \cup TextsOf({"a", NL, Space}, 3)
ProgramsDef == {<<"a">>, <<"a", "a">>}
BehindDef == {<<"a">>}
=============================================================================
