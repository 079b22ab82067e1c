------------------------------- MODULE Screen -------------------------------
(***************************************************************************)
(* The text screen of lib.c: a cursor and the cells of video memory, row   *)
(* by row.  putc() works on the screen shown and putc_term() on one saved  *)
(* by a terminal switch; they are the same code twice.                     *)
(***************************************************************************)
EXTENDS Integers

CONSTANTS NUM_ROWS, NUM_COLS

ASSUME ScreenAssumption == NUM_ROWS \in Nat \ {0} /\ NUM_COLS \in Nat \ {0}

NL == "NL"
Space == "Space"

Cells == 0..(NUM_ROWS * NUM_COLS - 1)

\* Where the next character goes.
At(s) == NUM_COLS * s.y + s.x

Clean == [x |-> 0, y |-> 0, cells |-> [p \in Cells |-> Space]]

\* Mutant: the cursor may leave the last row by one.
Scroll_Late(s) ==
  IF s.y <= NUM_ROWS THEN s
  ELSE [s EXCEPT !.y = NUM_ROWS - 1,
                 !.cells = [p \in Cells |-> IF p + NUM_COLS \in Cells
                                            THEN @[p + NUM_COLS] ELSE Space]]

\* vertical_scrolling(): every row moves up by one and the last is emptied.
Scroll(s) ==
  IF s.y < NUM_ROWS THEN s
  ELSE [s EXCEPT !.y = NUM_ROWS - 1,
                 !.cells = [p \in Cells |-> IF p + NUM_COLS \in Cells
                                            THEN @[p + NUM_COLS] ELSE Space]]

NextLine(s) == [s EXCEPT !.x = 0, !.y = @ + 1]

Advance(s) == IF s.x + 1 < NUM_COLS THEN [s EXCEPT !.x = @ + 1] ELSE NextLine(s)

Put(s, c) ==
  Scroll(IF c = NL THEN NextLine(s)
         ELSE Advance([s EXCEPT !.cells[At(s)] = c]))

\* Mutant: the cursor stays in its row.
Rubout_SameRow(s) ==
  LET back == [s EXCEPT !.x = IF @ = 0 THEN 0 ELSE @ - 1] IN
    [back EXCEPT !.cells[At(back)] = Space]

\* backspace_handler()
Rubout(s) ==
  LET back == IF s.x > 0 THEN [s EXCEPT !.x = @ - 1]
              ELSE [s EXCEPT !.x = NUM_COLS - 1, !.y = @ - 1]
  IN IF At(s) = 0 THEN s ELSE [back EXCEPT !.cells[At(back)] = Space]
=============================================================================
