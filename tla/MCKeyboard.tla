----------------------------- MODULE MCKeyboard -----------------------------
(* The L key, which Control makes clear the screen, and Enter, for TLC.    *)
EXTENDS Keyboard

Rows == [s \in {28, 38} |-> IF s = 28 THEN <<NL, NL, NL, NL>> ELSE <<"l", "L", "L", "l">>]
Shifts == ShiftKeys \cup {LEFT_ALT_PRESSED, LEFT_CTRL_PRESSED}
=============================================================================
