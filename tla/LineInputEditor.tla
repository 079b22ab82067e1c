--------------------------- MODULE LineInputEditor ---------------------------
(***************************************************************************)
(* LineInput implements LineEditor when keys are pressed only while a      *)
(* program waits for a line: the line of a terminal is what stands before  *)
(* its position in its buffer, and a read happens where the copy ends.     *)
(***************************************************************************)
EXTENDS LineInput

Position(t) == IF t = current_terminal_id THEN buffer_position ELSE buf_pos[t]

Line(t) == [j \in 1..Position(t) |-> terminal_buffer[t][j - 1]]

Copied == pc \in Cleaning \cup {"reset"}

Editor == INSTANCE LineEditor WITH
  Chars <- Typed,
  Blank <- Space,
  MaxLine <- MAX_BUFFER_SIZE,
  text <- [t \in Terminals |->
             IF Copied /\ t = current_terminal_id THEN <<>> ELSE Line(t)],
  current <- current_terminal_id,
  got <- IF Copied THEN t_buf ELSE result

\* Every read gives the line the user has typed and edited on the terminal
\* shown, over any number of switches in between.
ImplementsLineEditor == Editor!Spec
=============================================================================
