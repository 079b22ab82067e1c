------------------------------ MODULE LineInput ------------------------------
(***************************************************************************)
(* Line input: the keyboard interrupt (keyboard.c) fills keyboard_buffer   *)
(* and the terminal_buffer of the terminal on the screen, terminal_read()  *)
(* (terminal.c) waits for a newline in the first and copies the line out   *)
(* of the second.                                                          *)
(*                                                                         *)
(* The interrupt handler runs with interrupts off: a key press is one      *)
(* step.  terminal_read() runs with interrupts on: each of its statements  *)
(* is a step, and key presses come between any two.                        *)
(***************************************************************************)
EXTENDS Integers, Sequences

CONSTANTS
  Chars,             \* what the printing keys type
  MAX_BUFFER_SIZE,   \* index of the last cell of both buffers
  MAX_TERMINAL_SIZE,
  TypeAhead          \* TRUE: keys are pressed at any time; FALSE: only while a
                     \* program waits for a line that is not complete yet

NUL == "NUL"
NL == "NL"
Space == "Space"

ASSUME LineInputAssumption ==
  /\ MAX_BUFFER_SIZE \in Nat \ {0}
  /\ MAX_TERMINAL_SIZE \in Nat \ {0}
  /\ NL \notin Chars
  /\ TypeAhead \in BOOLEAN

Cells == 0..MAX_BUFFER_SIZE
Positions == 0..MAX_BUFFER_SIZE
Terminals == 0..(MAX_TERMINAL_SIZE - 1)

\* Escape types the character 0.
Typed == Chars \cup {NUL}
Bytes == Typed \cup {NL, Space}

VARIABLES
  keyboard_buffer,
  buffer_position,
  terminal_buffer,       \* terminal_array[].terminal_buffer
  buf_pos,               \* terminal_array[].buf_pos
  current_terminal_id,
  started,               \* the terminals whose shell has been started
  pc,                    \* where the running program is in terminal_read()
  i,                     \* terminal_read()'s and clean_buffer()'s index
  t_buf,                 \* the bytes copied so far into the caller's buffer
  result                 \* what the last read gave, until the next one

kbVars == <<keyboard_buffer, buffer_position>>
termVars == <<terminal_buffer, buf_pos, current_terminal_id, started>>
readVars == <<pc, i, t_buf, result>>
vars == <<kbVars, termVars, readVars>>

Cleaning == {"clean_key", "clean_cell"}
\* "out": the copy has left the buffer, with no newline met.
Places == {"program", "wait", "test", "copy", "reset", "out"} \cup Cleaning

TypeOK ==
  /\ keyboard_buffer \in [Cells -> Bytes]
  /\ buffer_position \in Positions
  /\ terminal_buffer \in [Terminals -> [Cells -> Bytes]]
  /\ buf_pos \in [Terminals -> Positions]
  /\ current_terminal_id \in Terminals
  /\ started \subseteq Terminals
  /\ pc \in Places
  /\ i \in 0..(MAX_BUFFER_SIZE + 1)
  /\ t_buf \in Seq(Bytes) /\ result \in Seq(Bytes)

\* What clean_keyboard_buffer() leaves, and terminal_init().
Blank == [j \in Cells |-> NUL]

Init ==
  /\ keyboard_buffer = Blank
  /\ buffer_position = 0
  /\ terminal_buffer = [t \in Terminals |-> Blank]
  /\ buf_pos = [t \in Terminals |-> 0]
  /\ current_terminal_id = 0
  /\ started = {0}
  /\ pc = "program"
  /\ i = 0
  /\ t_buf = <<>>
  /\ result = <<>>

------------------------------------------------------------------------------
(* The keyboard interrupt                                                  *)

check_enter == keyboard_buffer[buffer_position] = NL

Press == TypeAhead \/ (pc = "wait" /\ ~check_enter)

\* Both buffers take byte c in the cells from first to last.
Store(c, first, last) ==
  /\ keyboard_buffer' = [j \in Cells |-> IF j \in first..last THEN c
                                         ELSE keyboard_buffer[j]]
  /\ terminal_buffer' = [terminal_buffer EXCEPT ![current_terminal_id] =
                           [j \in Cells |-> IF j \in first..last THEN c
                                            ELSE @[j]]]

\* Mutant: the bound is one too large, the last character meets the newline's
\* cell.
TypeChar_Overfull(c) ==
  /\ Press
  /\ Store(c, buffer_position, buffer_position)
  /\ buffer_position' = buffer_position + 1
  /\ UNCHANGED <<buf_pos, current_terminal_id, started, readVars>>

\* The last cell is kept for the newline.
TypeChar(c) ==
  /\ Press
  /\ buffer_position < MAX_BUFFER_SIZE
  /\ Store(c, buffer_position, buffer_position)
  /\ buffer_position' = buffer_position + 1
  /\ UNCHANGED <<buf_pos, current_terminal_id, started, readVars>>

\* Mutant: the newline is a character like any other.
TypeEnter_Advances ==
  /\ Press
  /\ buffer_position < MAX_BUFFER_SIZE
  /\ Store(NL, buffer_position, buffer_position)
  /\ buffer_position' = buffer_position + 1
  /\ UNCHANGED <<buf_pos, current_terminal_id, started, readVars>>

\* The position stays: the next character takes the newline's place.
TypeEnter ==
  /\ Press
  /\ Store(NL, buffer_position, buffer_position)
  /\ UNCHANGED <<buffer_position, buf_pos, current_terminal_id, started,
                 readVars>>

Least(a, b) == IF a < b THEN a ELSE b

\* Up to four blanks, as many as fit.
TypeTab ==
  /\ Press
  /\ buffer_position' = Least(buffer_position + 4, MAX_BUFFER_SIZE)
  /\ Store(Space, buffer_position, buffer_position' - 1)
  /\ UNCHANGED <<buf_pos, current_terminal_id, started, readVars>>

\* Only the position moves, what was typed stays in the cell.
Backspace ==
  /\ Press
  /\ buffer_position > 0
  /\ buffer_position' = buffer_position - 1
  /\ UNCHANGED <<keyboard_buffer, termVars, readVars>>

\* Ctrl-L clears the screen and calls clean_buffer().
CtrlL ==
  /\ Press
  /\ Store(NUL, 0, MAX_BUFFER_SIZE)
  /\ buffer_position' = 0
  /\ UNCHANGED <<buf_pos, current_terminal_id, started, readVars>>

\* Mutant: save_terminal() keeps what is in the keyboard buffer.
SwitchBuffers_Kept(t) ==
  /\ t # current_terminal_id
  /\ buf_pos' = [buf_pos EXCEPT ![current_terminal_id] = buffer_position]
  /\ buffer_position' = buf_pos[t]
  /\ current_terminal_id' = t
  /\ UNCHANGED <<keyboard_buffer, terminal_buffer>>

\* Mutant: restore_terminal() does not bring the position back.
SwitchBuffers_NoPosition(t) ==
  /\ t # current_terminal_id
  /\ buf_pos' = [buf_pos EXCEPT ![current_terminal_id] = buffer_position]
  /\ keyboard_buffer' = Blank
  /\ buffer_position' = 0
  /\ current_terminal_id' = t
  /\ UNCHANGED terminal_buffer

\* save_terminal() and restore_terminal(), as far as input goes.
SwitchBuffers(t) ==
  /\ t # current_terminal_id
  /\ buf_pos' = [buf_pos EXCEPT ![current_terminal_id] = buffer_position]
  /\ keyboard_buffer' = Blank
  /\ buffer_position' = buf_pos[t]
  /\ current_terminal_id' = t
  /\ UNCHANGED terminal_buffer

\* The terminal is live, or no pid is left for a shell on it: the program that
\* runs goes on, now on the other terminal's buffers.
SwitchReturns(t) ==
  /\ Press
  /\ SwitchBuffers(t)
  /\ UNCHANGED <<started, readVars>>

\* A shell is started and the program that ran never goes on.
SwitchToFresh(t) ==
  /\ Press
  /\ t \notin started
  /\ SwitchBuffers(t)
  /\ started' = started \cup {t}
  /\ pc' = "program"
  /\ i' = 0
  /\ t_buf' = <<>>
  /\ result' = <<>>

Key ==
  \/ \E c \in Typed : TypeChar(c)
  \/ TypeEnter \/ TypeTab \/ Backspace \/ CtrlL
  \/ \E t \in Terminals : SwitchReturns(t) \/ SwitchToFresh(t)

------------------------------------------------------------------------------
(* terminal_read()                                                         *)

At(from, to) == pc = from /\ pc' = to

\* However many bytes are asked for, from 0 to 1023; a read of more, or into no
\* buffer, fails at once and changes nothing.
Call ==
  /\ At("program", "wait")
  /\ i' = 0
  /\ t_buf' = <<>>
  /\ result' = <<>>
  /\ UNCHANGED <<kbVars, termVars>>

\* Leaves the busy wait; as long as there is no newline it goes round.
CheckEnter ==
  /\ At("wait", "test")
  /\ check_enter
  /\ UNCHANGED <<kbVars, termVars, i, t_buf, result>>

Cell == terminal_buffer[current_terminal_id][i]

\* Past the buffer's end the loop reads whatever follows it in memory.
TestCell ==
  /\ pc = "test"
  /\ \/ i \notin Cells /\ pc' = "out" /\ UNCHANGED i
     \/ i \in Cells /\ Cell # NL /\ pc' = "copy" /\ UNCHANGED i
     \/ i \in Cells /\ Cell = NL /\ pc' = "clean_key" /\ i' = 0
  /\ UNCHANGED <<kbVars, termVars, t_buf, result>>

\* The cell is read a second time.
CopyCell ==
  /\ At("copy", "test")
  /\ t_buf' = Append(t_buf, Cell)
  /\ i' = i + 1
  /\ UNCHANGED <<kbVars, termVars, result>>

\* clean_buffer(), called with interrupts on: a cell of the keyboard buffer,
\* then what is in it by now to the cell of the terminal shown by now.
CleanKey ==
  /\ pc = "clean_key"
  /\ IF i \in Cells
     THEN /\ keyboard_buffer' = [keyboard_buffer EXCEPT ![i] = NUL]
          /\ pc' = "clean_cell"
     ELSE pc' = "reset" /\ UNCHANGED keyboard_buffer
  /\ UNCHANGED <<buffer_position, termVars, i, t_buf, result>>

CleanCell ==
  /\ At("clean_cell", "clean_key")
  /\ terminal_buffer' = [terminal_buffer EXCEPT
                           ![current_terminal_id][i] = keyboard_buffer[i]]
  /\ i' = i + 1
  /\ UNCHANGED <<kbVars, buf_pos, current_terminal_id, started, t_buf,
                 result>>

\* The end of clean_buffer() and of terminal_read().  buf_pos of the terminal
\* shown is not used before a switch has set it, so that no key press can tell
\* the two assignments apart.
ResetPosition ==
  /\ At("reset", "program")
  /\ buffer_position' = 0
  /\ buf_pos' = [buf_pos EXCEPT ![current_terminal_id] = 0]
  /\ result' = t_buf
  /\ i' = 0
  /\ t_buf' = <<>>
  /\ UNCHANGED <<keyboard_buffer, terminal_buffer, current_terminal_id, started>>

Read == CheckEnter \/ TestCell \/ CopyCell \/ CleanKey \/ CleanCell
          \/ ResetPosition

------------------------------------------------------------------------------
Next == Key \/ Read \/ Call

\* The program on the CPU keeps executing.
Spec == Init /\ [][Next]_vars /\ WF_vars(Read)
------------------------------------------------------------------------------
(* Properties                                                              *)

\* terminal_read() looks for the newline in one buffer and copies from the
\* other: whatever keys are pressed, and however many terminals are switched
\* through while a line is cleaned, all that the keyboard buffer holds is in
\* the buffer of the terminal shown.
KeyboardMirrored ==
  \A j \in Cells : keyboard_buffer[j] # NUL =>
    terminal_buffer[current_terminal_id][j] = keyboard_buffer[j]

\* A user who waits for the prompt gets every completed line read.
LineIsRead ==
  pc = "wait" /\ (\E j \in Cells : keyboard_buffer[j] = NL) ~> pc = "program"
=============================================================================
