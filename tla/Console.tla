------------------------------- MODULE Console -------------------------------
(***************************************************************************)
(* What the user sees: the keyboard's echo, the programs' output and the   *)
(* terminal switch, on the screen shown and on those saved.  The lines     *)
(* being typed are those of module LineEditor, which LineInput implements   *)
(* for keys that are pressed while a program waits for a line.             *)
(*                                                                         *)
(* A key press or a switch is one step, and so is a character of a         *)
(* program's output: another terminal's program may write in the middle of *)
(* the line typed on terminal 0.  Programs write by way of terminal_write() *)
(* only: none has the screen mapped.                                       *)
(***************************************************************************)
EXTENDS Screen, Sequences

CONSTANTS
  Chars,              \* what the printing keys type
  Outputs,            \* what programs write
  Leftovers,          \* what the memory of the saved screens may hold at boot
  MaxLine,            \* characters of a line (MAX_BUFFER_SIZE)
  MAX_TERMINAL_SIZE

ASSUME ConsoleAssumption ==
  /\ MaxLine \in Nat
  /\ MaxLine <= NUM_COLS * (NUM_ROWS - 1)   \* 127 and 80 * 24 in the code
  /\ MAX_TERMINAL_SIZE \in Nat \ {0}
  /\ NL \notin Chars
  /\ Leftovers \subseteq Chars \cup Outputs \cup {Space}

VARIABLES
  screen,     \* screen_x, screen_y and video memory
  saved,      \* terminal_array[]: screen_cursor_x, _y and the video buffer
  text,       \* the line being typed on each terminal
  current,    \* current_terminal_id
  got,        \* what the last read gave, until the next one
  started,    \* the terminals whose shell has been started
  mode,       \* the program that runs computes, waits for a line, or has one
  mixed       \* the terminals written to in the middle of a line

Terminals == 0..(MAX_TERMINAL_SIZE - 1)
Editor == INSTANCE LineEditor WITH Blank <- Space

vars == <<screen, saved, text, current, got, started, mode, mixed>>

Bytes == Chars \cup Outputs \cup {Space}
Screens == [x : 0..(NUM_COLS - 1), y : 0..(NUM_ROWS - 1), cells : [Cells -> Bytes]]

TypeOK ==
  /\ screen \in Screens
  /\ saved \in [Terminals -> Screens]
  /\ text \in [Terminals -> Seq(Chars \cup {Space})]
  /\ current \in Terminals
  /\ got \in Seq(Chars \cup {Space})
  /\ started \subseteq Terminals /\ mixed \subseteq Terminals
  /\ mode \in {"program", "waiting", "entered"}

\* clean_screen() clears the screen shown; nothing clears the saved ones.
Init ==
  /\ Editor!Init /\ current = 0
  /\ screen = Clean
  /\ saved \in [Terminals ->
                 {[x |-> 0, y |-> 0, cells |-> left] : left \in [Cells -> Leftovers]}]
  /\ started = {0}
  /\ mode = "program"
  /\ mixed = {}

------------------------------------------------------------------------------
(* The keyboard interrupt                                                  *)

Press(edit, echo) ==
  /\ mode = "waiting"
  /\ edit
  /\ screen' = echo
  /\ mixed' = {t \in mixed : text'[t] # <<>>}
  /\ UNCHANGED <<saved, started, mode>>

TypeChar(c) == Press(Editor!Insert(c), Put(screen, c))

\* The nth of the four blanks, if the buffer has room for it.
Pad(s, n) == IF n <= Editor!Room THEN Put(s, Space) ELSE s

TypeTab ==
  Press(Editor!Indent, Pad(Pad(Pad(Pad(screen, 1), 2), 3), 4))

Backspace == Press(Editor!Erase, Rubout(screen))

CtrlL == Press(Editor!Clear, Clean)

TypeEnter ==
  /\ mode = "waiting" /\ mode' = "entered"
  /\ screen' = Put(screen, NL)
  /\ UNCHANGED <<saved, text, current, got, started, mixed>>

\* save_terminal() and restore_terminal(); on a terminal without one a shell
\* is started, elsewhere the program that waits goes on waiting.
Switch(t) ==
  /\ mode = "waiting"
  /\ t # current
  /\ Editor!Show(t)
  /\ saved' = [saved EXCEPT ![current] = screen]
  /\ screen' = saved[t]
  /\ \/ t \in started /\ UNCHANGED <<started, mode, got>>
     \/ t \notin started /\ started' = started \cup {t} /\ mode' = "program" /\ got' = <<>>
  /\ UNCHANGED mixed

Key ==
  \/ \E c \in Chars : TypeChar(c)
  \/ TypeTab \/ Backspace \/ CtrlL \/ TypeEnter
  \/ \E t \in Terminals : Switch(t)

------------------------------------------------------------------------------
(* The program that runs                                                   *)

\* n_terminal of sched.c, which only the scheduler would change (kernel.c has
\* its timer commented out).
n_terminal == 0

\* A character of terminal_write(): to the screen when terminal n_terminal is
\* shown, whichever the program runs on, and else to that terminal's saved one.
Write(c) ==
  /\ mode = "program"
  /\ IF current = n_terminal
     THEN screen' = Put(screen, c) /\ UNCHANGED saved
     ELSE saved' = [saved EXCEPT ![n_terminal] = Put(@, c)] /\ UNCHANGED screen
  /\ mixed' = IF text[n_terminal] = <<>> THEN mixed ELSE mixed \cup {n_terminal}
  /\ UNCHANGED <<text, current, got, started, mode>>

\* The kernel's own messages (printf()) always go to the screen shown.
Printf(c) ==
  /\ mode = "program"
  /\ screen' = Put(screen, c)
  /\ mixed' = IF text[current] = <<>> THEN mixed ELSE mixed \cup {current}
  /\ UNCHANGED <<saved, text, current, got, started, mode>>

Read ==
  /\ mode = "program" /\ mode' = "waiting"
  /\ Editor!Ask
  /\ UNCHANGED <<screen, saved, started, mixed>>

\* The rest of terminal_read(), once the newline is there.
Deliver ==
  /\ mode = "entered" /\ mode' = "program"
  /\ Editor!Deliver
  /\ mixed' = mixed \ {current}
  /\ UNCHANGED <<screen, saved, started>>

Next ==
  \/ Key \/ Read \/ Deliver
  \/ \E c \in Outputs \cup {NL} : Write(c) \/ Printf(c)

Spec == Init /\ [][Next]_vars

------------------------------------------------------------------------------
(* Properties                                                              *)

\* The line t ends where the cursor of screen s stands.
Echoes(s, line) ==
  /\ Len(line) <= At(s)
  /\ \A j \in 1..Len(line) : s.cells[At(s) - Len(line) + j - 1] = line[j]

\* What the user sees before the cursor is the line a program will get, over
\* wraps, scrolls, tabs, backspaces and switches, as long as no program has
\* written in the middle of it; that goes for the terminals not shown, too.
LineIsSeen ==
  \A t \in Terminals \ mixed :
    LET s == IF t = current THEN screen ELSE saved[t]
    IN (mode = "entered" /\ t = current) \/ Echoes(s, text[t])
=============================================================================
