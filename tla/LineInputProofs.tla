-------------------------- MODULE LineInputProofs --------------------------
(***************************************************************************)
(* What line input guarantees for buffers of every length and any number   *)
(* of terminals, proved: of the buffers for keys pressed at any time, and, *)
(* for users who wait for the prompt, that it implements LineEditor; and   *)
(* the same of the keys themselves, whose scancodes Keyboard reads.        *)
(***************************************************************************)
EXTENDS Keyboard, SequenceTheorems, TLAPS

USE LineInputAssumption

\* What a press stores, it stores in cells of the two buffers.
LEMMA StoreType ==
  ASSUME TypeOK, NEW c \in Bytes, NEW first, NEW last, Store(c, first, last)
  PROVE  /\ keyboard_buffer' \in [Cells -> Bytes]
         /\ terminal_buffer' \in [Terminals -> [Cells -> Bytes]]
BY DEF Store, TypeOK

LEMMA SwitchBuffersType ==
  ASSUME TypeOK, NEW t \in Terminals, SwitchBuffers(t)
  PROVE  /\ keyboard_buffer' \in [Cells -> Bytes]
         /\ terminal_buffer' \in [Terminals -> [Cells -> Bytes]]
         /\ buffer_position' \in Positions
         /\ buf_pos' \in [Terminals -> Positions]
         /\ current_terminal_id' \in Terminals
BY DEF SwitchBuffers, TypeOK, Blank, Bytes, Typed

LEMMA KeyTypeOK ==
  ASSUME TypeOK, Key
  PROVE  TypeOK'
<1> USE DEF kbVars, termVars, readVars
<1>1. {NUL, NL, Space} \subseteq Bytes /\ Typed \subseteq Bytes
  BY DEF Bytes, Typed
<1>2. CASE \E c \in Typed : TypeChar(c)
  <2>1. PICK c \in Typed : TypeChar(c)
    BY <1>2
  <2>2. buffer_position' \in Positions
    BY <2>1 DEF TypeChar, TypeOK, Positions
  <2>3. QED
    BY <1>1, <2>1, <2>2, StoreType DEF TypeChar, TypeOK
<1>3. CASE TypeEnter
  BY <1>1, <1>3, StoreType DEF TypeEnter, TypeOK
<1>4. CASE TypeTab
  <2>1. buffer_position' \in Positions
    BY <1>4 DEF TypeTab, Least, TypeOK, Positions
  <2>2. QED
    BY <1>1, <1>4, <2>1, StoreType DEF TypeTab, TypeOK
<1>5. CASE Backspace
  BY <1>5 DEF Backspace, TypeOK, Positions
<1>6. CASE CtrlL
  <2>1. buffer_position' \in Positions
    BY <1>6 DEF CtrlL, Positions
  <2>2. QED
    BY <1>1, <1>6, <2>1, StoreType DEF CtrlL, TypeOK
<1>7. CASE \E t \in Terminals : SwitchReturns(t) \/ SwitchToFresh(t)
  <2>1. PICK t \in Terminals : SwitchReturns(t) \/ SwitchToFresh(t)
    BY <1>7
  <2>2. CASE SwitchReturns(t)
    BY <2>2, SwitchBuffersType DEF SwitchReturns, TypeOK
  <2>3. CASE SwitchToFresh(t)
    <3>1. /\ pc' \in Places /\ i' \in 0..(MAX_BUFFER_SIZE + 1)
          /\ t_buf' \in Seq(Bytes) /\ result' \in Seq(Bytes)
          /\ started' \subseteq Terminals
      BY <2>3 DEF SwitchToFresh, TypeOK, Places
    <3>2. QED
      BY <2>3, <3>1, SwitchBuffersType DEF SwitchToFresh, TypeOK
  <2>4. QED
    BY <2>1, <2>2, <2>3
<1>8. QED
  BY <1>2, <1>3, <1>4, <1>5, <1>6, <1>7 DEF Key

\* Where terminal_read() and clean_buffer() use their index, it is a cell.
IndexOK ==
  /\ pc = "copy" => i \in Cells
  /\ pc = "clean_cell" => i \in Cells

LEMMA ReadTypeOK ==
  ASSUME TypeOK, IndexOK, Read \/ Call
  PROVE  TypeOK' /\ IndexOK'
<1> USE DEF kbVars, termVars, At, Places, Cleaning, IndexOK
<1>1. ASSUME Call
      PROVE  TypeOK' /\ IndexOK'
  BY <1>1 DEF Call, TypeOK
<1>2. CASE CheckEnter
  BY <1>2 DEF CheckEnter, TypeOK
<1>3. CASE TestCell
  BY <1>3 DEF TestCell, TypeOK
<1>4. CASE CopyCell
  <2>1. Cell \in Bytes /\ i + 1 \in 0..(MAX_BUFFER_SIZE + 1)
    BY <1>4 DEF CopyCell, Cell, TypeOK, Cells
  <2>2. t_buf' \in Seq(Bytes)
    BY <1>4, <2>1 DEF CopyCell, TypeOK
  <2>3. QED
    BY <1>4, <2>1, <2>2 DEF CopyCell, TypeOK
<1>5. CASE CleanKey
  <2>1. keyboard_buffer' \in [Cells -> Bytes]
    BY <1>5 DEF CleanKey, TypeOK, Bytes, Typed
  <2>2. QED
    BY <1>5, <2>1 DEF CleanKey, TypeOK
<1>6. CASE CleanCell
  <2>1. i \in Cells /\ keyboard_buffer[i] \in Bytes
    BY <1>6 DEF CleanCell, TypeOK
  <2>2. i + 1 \in 0..(MAX_BUFFER_SIZE + 1)
    BY <2>1 DEF Cells
  <2>3. terminal_buffer' \in [Terminals -> [Cells -> Bytes]]
    BY <1>6, <2>1 DEF CleanCell, TypeOK
  <2>4. QED
    BY <1>6, <2>2, <2>3 DEF CleanCell, TypeOK
<1>7. CASE ResetPosition
  BY <1>7 DEF ResetPosition, TypeOK, Positions
<1>8. QED
  BY <1>1, <1>2, <1>3, <1>4, <1>5, <1>6, <1>7 DEF Read

LEMMA StepTypeOK == TypeOK /\ IndexOK /\ [Next]_vars => TypeOK' /\ IndexOK'
<1> SUFFICES ASSUME TypeOK, IndexOK, [Next]_vars
             PROVE  TypeOK' /\ IndexOK'
  OBVIOUS
<1>1. CASE Key
  <2>1. UNCHANGED <<pc, i>> \/ pc' = "program"
    BY <1>1 DEF Key, TypeChar, TypeEnter, TypeTab, Backspace, CtrlL,
                SwitchReturns, SwitchToFresh, readVars
  <2>2. QED
    BY <1>1, <2>1, KeyTypeOK DEF IndexOK
<1>2. CASE UNCHANGED vars
  BY <1>2 DEF vars, kbVars, termVars, readVars, TypeOK, IndexOK
<1>3. QED
  BY <1>1, <1>2, ReadTypeOK DEF Next

\* The position, the index and what they address stay inside the buffers.
THEOREM TypeCorrect == Spec => []TypeOK
<1>1. Init => TypeOK /\ IndexOK
  BY DEF Init, TypeOK, IndexOK, Blank, Bytes, Typed, Positions, Terminals, Places,
         Cleaning
<1>2. QED
  BY <1>1, StepTypeOK, PTL DEF Spec

------------------------------------------------------------------------------
LEMMA StepMirrored ==
  TypeOK /\ IndexOK /\ KeyboardMirrored /\ [Next]_vars => KeyboardMirrored'
<1> SUFFICES ASSUME TypeOK, IndexOK, KeyboardMirrored, [Next]_vars
             PROVE  KeyboardMirrored'
  OBVIOUS
<1> USE DEF KeyboardMirrored, kbVars, termVars, readVars
<1>1. ASSUME NEW c, NEW first, NEW last, Store(c, first, last),
             UNCHANGED current_terminal_id
      PROVE  KeyboardMirrored'
  BY <1>1 DEF Store, TypeOK
<1>2. CASE (\E c \in Typed : TypeChar(c)) \/ TypeEnter \/ TypeTab \/ CtrlL
  BY <1>1, <1>2 DEF TypeChar, TypeEnter, TypeTab, CtrlL
<1>3. CASE \E t \in Terminals : SwitchReturns(t) \/ SwitchToFresh(t)
  BY <1>3 DEF SwitchReturns, SwitchToFresh, SwitchBuffers, Blank
<1>4. CASE CleanKey
  BY <1>4 DEF CleanKey, TypeOK
<1>5. CASE CleanCell
  <2>1. i \in Cells /\ UNCHANGED <<keyboard_buffer, current_terminal_id>>
    BY <1>5 DEF CleanCell, IndexOK, At
  <2>2. terminal_buffer'[current_terminal_id] =
          [terminal_buffer[current_terminal_id] EXCEPT ![i] = keyboard_buffer[i]]
    BY <1>5, <2>1 DEF CleanCell, TypeOK
  <2>3. QED
    BY <2>1, <2>2 DEF TypeOK
<1>6. CASE Backspace \/ CheckEnter \/ TestCell \/ CopyCell \/ ResetPosition
             \/ Call \/ UNCHANGED vars
  BY <1>6 DEF Backspace, CheckEnter, TestCell, CopyCell, ResetPosition, Call,
              vars
<1>7. QED
  BY <1>2, <1>3, <1>4, <1>5, <1>6 DEF Next, Key, Read

\* The newline terminal_read() waits for in the keyboard buffer is one its copy
\* loop meets in the terminal's, unless a key is pressed in between.
THEOREM BuffersAgree == Spec => []KeyboardMirrored
<1>1. Init => TypeOK /\ IndexOK /\ KeyboardMirrored
  BY DEF Init, TypeOK, IndexOK, KeyboardMirrored, Blank, Typed, Bytes, Positions,
         Terminals, Places, Cleaning
<1>2. QED
  BY <1>1, StepTypeOK, StepMirrored, PTL DEF Spec

------------------------------------------------------------------------------
(* LineInput implements LineEditor                                         *)

\* A line, as cells before a position of a buffer.
Before(buffer, position) == [j \in 1..position |-> buffer[j - 1]]

NoNewline(t) == \A j \in Cells : terminal_buffer[t][j] # NL

\* For users who wait: a newline is in the shown terminal's buffer only, where
\* its line ends, from the press to the reader's clearing of that cell; no key
\* is pressed meanwhile, and the copy runs up to it.
EditInv ==
  /\ \A t \in Terminals : t # current_terminal_id => NoNewline(t)
  /\ pc = "wait" => \A j \in Cells : terminal_buffer[current_terminal_id][j] = NL =>
                      j = buffer_position /\ check_enter
  /\ pc \in {"test", "copy"} =>
       /\ \A j \in Cells : terminal_buffer[current_terminal_id][j] = NL <=>
                             j = buffer_position
       /\ i <= buffer_position
       /\ t_buf = Before(terminal_buffer[current_terminal_id], i)
  /\ pc = "wait" => i = 0 /\ t_buf = <<>>
  /\ pc = "copy" => i < buffer_position
  /\ pc \in Cleaning =>
       \A j \in Cells : j < i => terminal_buffer[current_terminal_id][j] # NL
  /\ pc = "clean_cell" => keyboard_buffer[i] = NUL
  /\ pc = "reset" => NoNewline(current_terminal_id)
  /\ pc = "program" => NoNewline(current_terminal_id)
  /\ pc # "out"

LEMMA BeforeProperties ==
  ASSUME NEW buffer \in [Cells -> Bytes], NEW n \in 0..(MAX_BUFFER_SIZE + 1)
  PROVE  /\ Before(buffer, n) \in Seq(Bytes)
         /\ Len(Before(buffer, n)) = n
         /\ \A j \in 1..n : Before(buffer, n)[j] = buffer[j - 1]
<1>1. \A j \in 1..n : buffer[j - 1] \in Bytes
  BY DEF Cells
<1>2. Before(buffer, n) \in [1..n -> Bytes] /\ n \in Nat
  BY <1>1 DEF Before
<1>3. Before(buffer, n) \in Seq(Bytes)
  BY <1>2, SeqDef
<1>4. DOMAIN Before(buffer, n) = 1..Len(Before(buffer, n))
  BY <1>3, LenProperties
<1>5. Len(Before(buffer, n)) \in Nat
  BY <1>3, LenProperties
<1>6. DOMAIN Before(buffer, n) = 1..n
  BY DEF Before
<1>7. QED
  BY <1>2, <1>3, <1>4, <1>5, <1>6 DEF Before

\* A line is its cells.
LEMMA BeforeIs ==
  ASSUME NEW buffer \in [Cells -> Bytes], NEW n \in 0..(MAX_BUFFER_SIZE + 1),
         NEW line \in Seq(Bytes), Len(line) = n,
         \A j \in 1..n : line[j] = buffer[j - 1]
  PROVE  Before(buffer, n) = line
<1>1. /\ Before(buffer, n) \in Seq(Bytes) /\ Len(Before(buffer, n)) = n
      /\ \A j \in 1..n : Before(buffer, n)[j] = buffer[j - 1]
  BY BeforeProperties
<1>2. \A j \in 1..Len(Before(buffer, n)) : Before(buffer, n)[j] = line[j]
  BY <1>1
<1>3. QED
  BY <1>1, <1>2, SeqEqual

LEMMA KeyEditInv ==
  ASSUME TypeOK, EditInv, TypeAhead = FALSE, Key
  PROVE  EditInv'
<1> USE DEF kbVars, termVars, readVars
<1>1. pc = "wait" /\ ~check_enter
  BY DEF Key, TypeChar, TypeEnter, TypeTab, Backspace, CtrlL, SwitchReturns,
         SwitchToFresh, Press
<1>2. \A t \in Terminals : NoNewline(t)
  BY <1>1 DEF EditInv, NoNewline
<1>3. NL \notin Typed \cup {Space}
  BY DEF Typed, NUL, NL, Space
<1>4. ASSUME NEW c \in Typed \cup {Space}, NEW first, NEW last, Store(c, first, last),
             UNCHANGED <<current_terminal_id, readVars>>
      PROVE  EditInv'
  <2>1. \A t \in Terminals : NoNewline(t)'
    BY <1>2, <1>3, <1>4 DEF Store, NoNewline, TypeOK
  <2>2. QED
    BY <1>1, <1>4, <2>1 DEF EditInv, NoNewline, Cleaning, TypeOK
<1>5. CASE (\E c \in Typed : TypeChar(c)) \/ TypeTab \/ CtrlL
  BY <1>4, <1>5 DEF TypeChar, TypeTab, CtrlL, Typed
<1>6. CASE TypeEnter
  <2>1. /\ \A t \in Terminals : t # current_terminal_id => NoNewline(t)'
        /\ \A j \in Cells : terminal_buffer'[current_terminal_id][j] = NL =>
             j = buffer_position
        /\ check_enter'
    BY <1>2, <1>6 DEF TypeEnter, Store, NoNewline, TypeOK, check_enter, Positions, Cells
  <2>2. QED
    BY <1>1, <1>6, <2>1 DEF TypeEnter, EditInv, Cleaning
<1>7. CASE Backspace
  BY <1>1, <1>2, <1>7 DEF Backspace, EditInv, NoNewline, Cleaning, TypeOK
<1>8. CASE \E t \in Terminals : SwitchReturns(t) \/ SwitchToFresh(t)
  <2>1. PICK t \in Terminals : SwitchReturns(t) \/ SwitchToFresh(t)
    BY <1>8
  <2>2. /\ terminal_buffer' = terminal_buffer /\ current_terminal_id' = t
        /\ UNCHANGED readVars \/ pc' = "program"
    BY <2>1 DEF SwitchReturns, SwitchToFresh, SwitchBuffers
  <2>3. \A u \in Terminals : NoNewline(u)'
    BY <1>2, <2>2 DEF NoNewline
  <2>4. QED
    BY <1>1, <2>2, <2>3 DEF EditInv, NoNewline, Cleaning
<1>9. QED
  BY <1>5, <1>6, <1>7, <1>8 DEF Key

LEMMA ReadEditInv ==
  ASSUME TypeOK, IndexOK, KeyboardMirrored, EditInv, Read \/ Call
  PROVE  EditInv'
<1> USE DEF kbVars, termVars, At, Cleaning
<1> DEFINE shown == terminal_buffer[current_terminal_id]
<1>1. shown \in [Cells -> Bytes] /\ current_terminal_id \in Terminals
  BY DEF TypeOK
<1>2. CASE Call
  BY <1>2 DEF Call, EditInv, NoNewline
<1>3. CASE CheckEnter
  <2>1. Before(shown, 0) = <<>>
    BY DEF Before
  <2>2. shown[buffer_position] = NL /\ buffer_position \in Cells
    BY <1>3 DEF CheckEnter, check_enter, KeyboardMirrored, TypeOK, Positions, Cells,
                NL, NUL
  <2>3. QED
    BY <1>3, <2>1, <2>2 DEF CheckEnter, EditInv, NoNewline, TypeOK, Positions
<1>4. CASE TestCell
  <2>1. i \in Cells /\ (Cell = NL <=> i = buffer_position)
    BY <1>4 DEF TestCell, EditInv, TypeOK, Positions, Cells, Cell
  <2>2. CASE i = buffer_position
    BY <1>4, <2>1, <2>2 DEF TestCell, EditInv, NoNewline, Cells
  <2>3. CASE i # buffer_position
    BY <1>4, <2>1, <2>3 DEF TestCell, EditInv, NoNewline, TypeOK, Positions, Cells
  <2>4. QED
    BY <2>2, <2>3
<1>5. CASE CopyCell
  <2>1. /\ i \in Cells /\ i < buffer_position /\ buffer_position \in Positions
        /\ t_buf = Before(shown, i)
    BY <1>5 DEF CopyCell, EditInv, IndexOK, TypeOK
  <2>2. Before(shown, i + 1) = Append(t_buf, shown[i])
    <3>1. i \in 0..MAX_BUFFER_SIZE /\ i + 1 \in 0..(MAX_BUFFER_SIZE + 1)
      BY <2>1 DEF Cells
    <3>2. /\ t_buf \in Seq(Bytes) /\ Len(t_buf) = i
          /\ \A j \in 1..i : t_buf[j] = shown[j - 1]
      BY <1>1, <2>1, <3>1, BeforeProperties
    <3>3. shown[i] \in Bytes
      BY <1>1, <2>1
    <3>4. /\ Append(t_buf, shown[i]) \in Seq(Bytes)
          /\ Len(Append(t_buf, shown[i])) = i + 1
          /\ \A j \in 1..(i + 1) : Append(t_buf, shown[i])[j] = shown[j - 1]
      BY <3>1, <3>2, <3>3
    <3>5. QED
      BY <1>1, <3>1, <3>4, BeforeIs
  <2>3. QED
    BY <1>5, <2>1, <2>2 DEF CopyCell, Cell, EditInv, NoNewline, Positions, Cells
<1>6. CASE CleanKey
  <2>1. CASE i \in Cells
    BY <1>6, <2>1 DEF CleanKey, EditInv, NoNewline, TypeOK
  <2>2. CASE i \notin Cells
    <3>1. \A j \in Cells : j < i
      BY <2>2 DEF TypeOK, Cells
    <3>2. QED
      BY <1>6, <2>2, <3>1 DEF CleanKey, EditInv, NoNewline
  <2>3. QED
    BY <2>1, <2>2
<1>7. CASE CleanCell
  <2>1. i \in Cells /\ keyboard_buffer[i] = NUL /\ pc = "clean_cell"
    BY <1>7 DEF CleanCell, EditInv, IndexOK
  <2>2. /\ \A t \in Terminals : t # current_terminal_id =>
             terminal_buffer'[t] = terminal_buffer[t]
        /\ terminal_buffer'[current_terminal_id] = [shown EXCEPT ![i] = NUL]
    BY <1>1, <1>7, <2>1 DEF CleanCell, TypeOK
  <2>3. \A j \in Cells : j < i + 1 => [shown EXCEPT ![i] = NUL][j] # NL
    BY <1>1, <2>1 DEF EditInv, Cells, NUL, NL
  <2>4. QED
    BY <1>7, <2>2, <2>3 DEF CleanCell, EditInv, NoNewline
<1>8. CASE ResetPosition
  BY <1>8 DEF ResetPosition, EditInv, NoNewline
<1>9. QED
  BY <1>2, <1>3, <1>4, <1>5, <1>6, <1>7, <1>8 DEF Read

\* What the editor's variables are here (module LineInputEditor).
Text == [t \in Terminals |->
           IF Copied /\ t = current_terminal_id THEN <<>> ELSE Line(t)]
Got == IF Copied THEN t_buf ELSE result

LEMMA LineProperties ==
  ASSUME TypeOK
  PROVE  /\ Line(current_terminal_id)
              = Before(terminal_buffer[current_terminal_id], buffer_position)
         /\ Line(current_terminal_id) \in Seq(Bytes)
         /\ Len(Line(current_terminal_id)) = buffer_position
         /\ \A j \in 1..buffer_position :
              Line(current_terminal_id)[j] = terminal_buffer[current_terminal_id][j - 1]
<1>1. /\ terminal_buffer[current_terminal_id] \in [Cells -> Bytes]
      /\ buffer_position \in 0..(MAX_BUFFER_SIZE + 1)
  BY DEF TypeOK, Positions
<1>2. Line(current_terminal_id)
        = Before(terminal_buffer[current_terminal_id], buffer_position)
  BY DEF Line, Position, Before
<1>3. QED
  BY <1>1, <1>2, BeforeProperties

LEMMA BlanksProperties ==
  ASSUME NEW n \in Nat
  PROVE  /\ [j \in 1..n |-> Space] \in Seq(Bytes)
         /\ Len([j \in 1..n |-> Space]) = n
<1> DEFINE blanks == [j \in 1..n |-> Space]
<1>1. blanks \in [1..n -> Bytes] /\ DOMAIN blanks = 1..n
  BY DEF Bytes
<1>2. blanks \in Seq(Bytes)
  BY <1>1, SeqDef
<1>3. DOMAIN blanks = 1..Len(blanks) /\ Len(blanks) \in Nat
  BY <1>2, LenProperties
<1>4. Len(blanks) = n
  BY <1>1, <1>3
<1>5. QED
  BY <1>2, <1>4

\* A press while a program waits is an edit of the shown terminal's line.
LEMMA PressEdits ==
  ASSUME TypeOK, TypeOK', pc = "wait",
         UNCHANGED <<buf_pos, current_terminal_id, readVars>>,
         \A t \in Terminals : t # current_terminal_id =>
           terminal_buffer'[t] = terminal_buffer[t]
  PROVE  /\ Text[current_terminal_id] = Line(current_terminal_id)
         /\ Text' = [Text EXCEPT ![current_terminal_id] = Line(current_terminal_id)']
         /\ Got' = Got
<1>1. ~Copied /\ ~Copied'
  BY DEF Copied, Cleaning, readVars
<1>2. current_terminal_id \in Terminals
  BY DEF TypeOK
<1>3. \A t \in Terminals : t # current_terminal_id => Line(t)' = Line(t)
  BY DEF Line, Position
<1>4. QED
  BY <1>1, <1>2, <1>3 DEF Text, Got, readVars

LEMMA KeyImplementsEditor ==
  ASSUME TypeOK, TypeOK', TypeAhead = FALSE, Key
  PROVE  Editor!Next \/ (Text' = Text /\ Got' = Got
                            /\ UNCHANGED current_terminal_id)
<1> USE DEF kbVars
<1> DEFINE t == current_terminal_id
           pos == buffer_position
           line == Line(t)
<1>1. pc = "wait"
  BY DEF Key, TypeChar, TypeEnter, TypeTab, Backspace, CtrlL, SwitchReturns,
         SwitchToFresh, Press
<1>2. /\ t \in Terminals /\ pos \in 0..MAX_BUFFER_SIZE
      /\ terminal_buffer[t] \in [Cells -> Bytes]
      /\ terminal_buffer'[t] \in [Cells -> Bytes]
      /\ pos' \in 0..MAX_BUFFER_SIZE
  <2>1. t \in Terminals /\ pos \in 0..MAX_BUFFER_SIZE
    BY DEF TypeOK, Positions
  <2>2. terminal_buffer[t] \in [Cells -> Bytes] /\ pos' \in 0..MAX_BUFFER_SIZE
    BY DEF TypeOK, Positions
  <2>3. terminal_buffer'[t] \in [Cells -> Bytes]
    BY <2>1 DEF TypeOK
  <2>4. QED
    BY <2>1, <2>2, <2>3
<1>3. /\ line \in Seq(Bytes) /\ Len(line) = pos
      /\ \A j \in 1..pos : line[j] = terminal_buffer[t][j - 1]
  BY LineProperties
<1>4. ASSUME NEW c, NEW first, NEW last, Store(c, first, last)
      PROVE  /\ \A u \in Terminals : u # t => terminal_buffer'[u] = terminal_buffer[u]
             /\ \A j \in Cells : terminal_buffer'[t][j] =
                  IF j \in first..last THEN c ELSE terminal_buffer[t][j]
  BY <1>2, <1>4 DEF Store, TypeOK
<1>5. ASSUME UNCHANGED <<buf_pos, current_terminal_id, readVars>>,
             \A u \in Terminals : u # t => terminal_buffer'[u] = terminal_buffer[u]
      PROVE  /\ Text[t] = line /\ Got' = Got
             /\ Text' = [Text EXCEPT ![t] = Before(terminal_buffer'[t], pos')]
  <2>1. Line(t)' = Before(terminal_buffer'[t], pos')
    BY <1>5 DEF Line, Position, Before
  <2>2. QED
    BY <1>1, <1>5, <2>1, PressEdits
<1>a. ASSUME NEW s \in Seq(Bytes), Len(s) = pos',
             \A j \in 1..pos' : s[j] = terminal_buffer'[t][j - 1]
      PROVE  Before(terminal_buffer'[t], pos') = s
  <2>1. pos' \in 0..(MAX_BUFFER_SIZE + 1)
    BY <1>2
  <2>2. QED
    BY <1>2, <1>a, <2>1, BeforeIs
<1>6. ASSUME NEW c \in Typed, TypeChar(c)
      PROVE  Editor!Insert(c)
  <2>1. /\ \A u \in Terminals : u # t => terminal_buffer'[u] = terminal_buffer[u]
        /\ \A j \in Cells : terminal_buffer'[t][j] =
             IF j = pos THEN c ELSE terminal_buffer[t][j]
        /\ pos' = pos + 1 /\ pos < MAX_BUFFER_SIZE
        /\ UNCHANGED <<buf_pos, current_terminal_id, readVars>>
    BY <1>2, <1>4, <1>6 DEF TypeChar
  <2>2. /\ Append(line, c) \in Seq(Bytes) /\ Len(Append(line, c)) = pos'
        /\ \A j \in 1..pos' : Append(line, c)[j] = terminal_buffer'[t][j - 1]
    <3>1. c \in Bytes
      BY DEF Bytes
    <3>2. /\ Append(line, c) \in Seq(Bytes) /\ Len(Append(line, c)) = pos + 1
          /\ \A j \in 1..(pos + 1) :
               Append(line, c)[j] = IF j = pos + 1 THEN c ELSE line[j]
      BY <1>2, <1>3, <3>1
    <3>3. \A j \in 1..(pos + 1) : Append(line, c)[j] = terminal_buffer'[t][j - 1]
      BY <1>2, <1>3, <2>1, <3>2 DEF Cells
    <3>4. QED
      BY <2>1, <3>2, <3>3
  <2>3. Before(terminal_buffer'[t], pos') = Append(line, c)
    BY <1>a, <2>2
  <2>4. /\ Text' = [Text EXCEPT ![t] = Append(Text[t], c)]
        /\ Got' = Got /\ MAX_BUFFER_SIZE - Len(Text[t]) > 0
    BY <1>2, <1>3, <1>5, <2>1, <2>3
  <2>5. QED
    BY <2>1, <2>4 DEF Editor!Insert, Editor!Edit, Editor!Room, Text, Got
<1>7. CASE TypeEnter
  <2>1. /\ \A u \in Terminals : u # t => terminal_buffer'[u] = terminal_buffer[u]
        /\ \A j \in Cells : j # pos => terminal_buffer'[t][j] = terminal_buffer[t][j]
        /\ pos' = pos /\ UNCHANGED <<buf_pos, current_terminal_id, readVars>>
    BY <1>2, <1>4, <1>7 DEF TypeEnter
  <2>2. Before(terminal_buffer'[t], pos') = line
    <3>1. Len(line) = pos' /\ \A j \in 1..pos' : line[j] = terminal_buffer'[t][j - 1]
      BY <1>2, <1>3, <2>1 DEF Cells
    <3>2. QED
      BY <1>3, <1>a, <3>1
  <2>3. Text' = [Text EXCEPT ![t] = Text[t]] /\ Got' = Got
    BY <1>5, <2>1, <2>2
  <2>4. [Text EXCEPT ![t] = Text[t]] = Text
    BY DEF Text
  <2>5. QED
    BY <2>1, <2>3, <2>4
<1>8. CASE TypeTab
  <2> DEFINE k == Editor!Least(4, MAX_BUFFER_SIZE - pos)
             tab == [j \in 1..k |-> Space]
  <2>1. k \in Nat /\ pos' = pos + k
    BY <1>2, <1>8 DEF TypeTab, Least, Editor!Least
  <2> HIDE DEF k
  <2>2. /\ \A u \in Terminals : u # t => terminal_buffer'[u] = terminal_buffer[u]
        /\ \A j \in Cells : terminal_buffer'[t][j] =
             IF j \in pos..(pos' - 1) THEN Space ELSE terminal_buffer[t][j]
        /\ UNCHANGED <<buf_pos, current_terminal_id, readVars>>
    BY <1>4, <1>8 DEF TypeTab
  <2>3. tab \in Seq(Bytes) /\ Len(tab) = k /\ \A j \in 1..k : tab[j] = Space
    BY <2>1, BlanksProperties
  <2> HIDE DEF tab
  <2>4. /\ line \o tab \in Seq(Bytes) /\ Len(line \o tab) = pos'
        /\ \A j \in 1..pos' : (line \o tab)[j] = terminal_buffer'[t][j - 1]
    <3>0. /\ line \o tab \in Seq(Bytes) /\ Len(line \o tab) = Len(line) + Len(tab)
          /\ \A j \in 1..(Len(line) + Len(tab)) :
               (line \o tab)[j] = IF j <= Len(line) THEN line[j] ELSE tab[j - Len(line)]
      <4>1. line \in Seq(Bytes) /\ tab \in Seq(Bytes)
        BY <1>3, <2>3
      <4>2. QED
        BY ONLY <4>1, ConcatProperties
    <3>1. /\ line \o tab \in Seq(Bytes) /\ Len(line \o tab) = pos + k
          /\ \A j \in 1..(pos + k) :
               (line \o tab)[j] = IF j <= pos THEN line[j] ELSE tab[j - pos]
      BY <1>3, <2>3, <3>0
    <3>2. ASSUME NEW j \in 1..pos'
          PROVE  (line \o tab)[j] = terminal_buffer'[t][j - 1]
      <4>1. j - 1 \in Cells /\ j \in 1..(pos + k) /\ {j, pos} \subseteq Nat
        BY <1>2, <2>1 DEF Cells
      <4>2. CASE j <= pos
        <5>1. (line \o tab)[j] = terminal_buffer[t][j - 1]
          BY <1>2, <1>3, <3>1, <4>1, <4>2
        <5>2. j - 1 \notin pos..(pos' - 1)
          BY <2>1, <4>1, <4>2
        <5>3. QED
          BY <2>2, <4>1, <5>1, <5>2
      <4>3. CASE j > pos
        <5>1. (line \o tab)[j] = Space
          BY <1>2, <2>1, <2>3, <3>1, <4>1, <4>3
        <5>2. j - 1 \in pos..(pos' - 1)
          BY <2>1, <4>1, <4>3
        <5>3. QED
          BY <2>2, <4>1, <5>1, <5>2
      <4>4. j <= pos \/ j > pos
        BY <4>1
      <4>5. QED
        BY <4>2, <4>3, <4>4
    <3>3. QED
      BY <2>1, <3>1, <3>2
  <2>5. Before(terminal_buffer'[t], pos') = line \o tab
    BY <1>a, <2>4
  <2>6. /\ Text' = [Text EXCEPT ![t] = Text[t] \o tab] /\ Got' = Got
        /\ Len(Text[t]) = pos
    BY <1>3, <1>5, <2>2, <2>5
  <2>7. Editor!Indent
    BY <2>2, <2>6 DEF Editor!Indent, Editor!Edit, Editor!Room, Text, Got, k, tab
  <2>8. QED
    BY <2>7 DEF Editor!Next
<1>9. CASE Backspace
  <2>1. /\ pos > 0 /\ pos' = pos - 1 /\ terminal_buffer' = terminal_buffer
        /\ UNCHANGED <<buf_pos, current_terminal_id, readVars>>
    BY <1>9 DEF Backspace, termVars
  <2> DEFINE rest == SubSeq(line, 1, pos - 1)
  <2>2. /\ rest \in Seq(Bytes) /\ Len(rest) = pos'
        /\ \A j \in 1..pos' : rest[j] = terminal_buffer'[t][j - 1]
    <3>1. \A j \in 1..(pos - 1) : line[j] \in Bytes
      BY <1>2, <1>3, ElementOfSeq
    <3>2. /\ rest \in Seq(Bytes) /\ Len(rest) = pos - 1
          /\ \A j \in 1..(pos - 1) : rest[j] = line[j]
      BY <1>2, <2>1, <3>1, SubSeqProperties
    <3>3. QED
      BY <1>2, <1>3, <2>1, <3>2
  <2>3. Before(terminal_buffer'[t], pos') = rest
    BY <1>a, <2>2
  <2>4. Text[t] # <<>>
    BY <1>2, <1>3, <1>5, <2>1, EmptySeq
  <2>5. Text' = [Text EXCEPT ![t] = SubSeq(Text[t], 1, Len(Text[t]) - 1)]
        /\ Got' = Got
    BY <1>3, <1>5, <2>1, <2>3
  <2>6. Editor!Erase
    BY <2>1, <2>4, <2>5 DEF Editor!Erase, Editor!Edit, Text, Got
  <2>7. QED
    BY <2>6 DEF Editor!Next
<1>10. CASE CtrlL
  <2>1. /\ \A u \in Terminals : u # t => terminal_buffer'[u] = terminal_buffer[u]
        /\ pos' = 0 /\ UNCHANGED <<buf_pos, current_terminal_id, readVars>>
    BY <1>4, <1>10 DEF CtrlL
  <2>2. Before(terminal_buffer'[t], pos') = <<>>
    BY <2>1 DEF Before
  <2>3. Text' = [Text EXCEPT ![t] = <<>>] /\ Got' = Got
    BY <1>5, <2>1, <2>2
  <2>4. Editor!Clear
    BY <2>1, <2>3 DEF Editor!Clear, Editor!Edit, Text, Got
  <2>5. QED
    BY <2>4 DEF Editor!Next
<1>11. CASE \E u \in Terminals : SwitchReturns(u) \/ SwitchToFresh(u)
  <2>1. PICK u \in Terminals : SwitchReturns(u) \/ SwitchToFresh(u)
    BY <1>11
  <2>2. /\ u # t /\ current_terminal_id' = u /\ terminal_buffer' = terminal_buffer
        /\ buf_pos' = [buf_pos EXCEPT ![t] = pos] /\ pos' = buf_pos[u]
        /\ \/ UNCHANGED readVars
           \/ pc' = "program" /\ result' = <<>>
    BY <2>1 DEF SwitchReturns, SwitchToFresh, SwitchBuffers
  <2>3. ~Copied /\ ~Copied'
    BY <1>1, <2>2 DEF Copied, Cleaning, readVars
  <2>4. ASSUME NEW v \in Terminals
        PROVE  Line(v)' = Line(v)
    <3>1. Position(v)' = Position(v)
      BY <1>2, <2>2 DEF Position, TypeOK
    <3>2. QED
      BY <2>2, <3>1 DEF Line
  <2>5. Text' = Text
    BY <2>3, <2>4 DEF Text
  <2>6. Got' \in {Got, <<>>}
    BY <2>2, <2>3 DEF Got, readVars
  <2>7. Editor!Show(u)
    BY <2>2, <2>5, <2>6 DEF Editor!Show, Text, Got
  <2>8. QED
    BY <2>7 DEF Editor!Next
<1>12. QED
  BY <1>6, <1>7, <1>8, <1>9, <1>10, <1>11 DEF Key, Editor!Next

\* A read gives the line where its copy ends; what it does before and after
\* changes nothing the editor knows of.
LEMMA ReadImplementsEditor ==
  ASSUME TypeOK, IndexOK, EditInv, EditInv', Read \/ Call
  PROVE  Editor!Next \/ (Text' = Text /\ Got' = Got
                           /\ UNCHANGED current_terminal_id)
<1> USE DEF kbVars, termVars, At, Cleaning
<1> DEFINE t == current_terminal_id
<1>1. t \in Terminals
  BY DEF TypeOK
<1>2. CASE Call
  <2>1. /\ ~Copied /\ ~Copied' /\ result' = <<>>
        /\ UNCHANGED <<terminal_buffer, buffer_position, buf_pos, current_terminal_id>>
    BY <1>2 DEF Call, Copied
  <2>2. Text' = Text /\ Got' = <<>>
    BY <2>1 DEF Text, Got, Line, Position
  <2>3. Editor!Ask
    BY <2>1, <2>2 DEF Editor!Ask, Text, Got
  <2>4. QED
    BY <2>3 DEF Editor!Next
<1>3. CASE CheckEnter \/ CopyCell
  <2>1. /\ ~Copied /\ ~Copied'
        /\ UNCHANGED <<terminal_buffer, buffer_position, buf_pos, result,
                       current_terminal_id>>
    BY <1>3 DEF CheckEnter, CopyCell, Copied
  <2>2. QED
    BY <2>1 DEF Text, Got, Line, Position
<1>4. CASE TestCell
  <2>1. UNCHANGED <<terminal_buffer, buffer_position, buf_pos, result, t_buf,
                    current_terminal_id>> /\ pc = "test" /\ ~Copied
    BY <1>4 DEF TestCell, Copied
  <2>2. CASE pc' = "copy"
    <3>1. ~Copied'
      BY <2>2 DEF Copied
    <3>2. QED
      BY <2>1, <3>1 DEF Text, Got, Line, Position
  <2>3. CASE pc' = "clean_key"
    <3>1. i = buffer_position
      BY <1>4, <2>1, <2>3 DEF TestCell, Cell, EditInv
    <3>2. t_buf = Line(t)
      BY <2>1, <3>1 DEF EditInv, Line, Position, Before
    <3>3. Copied'
      BY <2>3 DEF Copied
    <3>4. \A u \in Terminals : Line(u)' = Line(u)
      BY <2>1 DEF Line, Position
    <3>5. Text' = [Text EXCEPT ![t] = <<>>] /\ Got' = Text[t]
      BY <1>1, <2>1, <3>2, <3>3, <3>4 DEF Text, Got
    <3>6. Editor!Deliver
      BY <2>1, <3>5 DEF Editor!Deliver, Text, Got
    <3>7. QED
      BY <3>6 DEF Editor!Next
  <2>4. QED
    BY <1>4, <2>2, <2>3 DEF TestCell, EditInv
<1>5. CASE CleanKey \/ CleanCell
  <2>1. /\ Copied /\ Copied'
        /\ UNCHANGED <<buffer_position, buf_pos, t_buf, current_terminal_id>>
    BY <1>5 DEF CleanKey, CleanCell, Copied
  <2>2. \A u \in Terminals : u # t => terminal_buffer'[u] = terminal_buffer[u]
    BY <1>1, <1>5 DEF CleanKey, CleanCell, TypeOK
  <2>3. \A u \in Terminals : u # t => Line(u)' = Line(u)
    BY <2>1, <2>2 DEF Line, Position
  <2>4. QED
    BY <2>1, <2>3 DEF Text, Got
<1>6. CASE ResetPosition
  <2>1. /\ Copied /\ ~Copied' /\ result' = t_buf /\ buffer_position' = 0
        /\ buf_pos' = [buf_pos EXCEPT ![t] = 0]
        /\ UNCHANGED <<terminal_buffer, current_terminal_id>>
    BY <1>6 DEF ResetPosition, Copied
  <2>2. \A u \in Terminals : u # t => Line(u)' = Line(u)
    BY <2>1 DEF Line, Position, TypeOK
  <2>3. Line(t)' = <<>>
    BY <2>1 DEF Line, Position
  <2>4. QED
    BY <2>1, <2>2, <2>3 DEF Text, Got
<1>7. QED
  BY <1>2, <1>3, <1>4, <1>5, <1>6 DEF Read

EditorInv == TypeOK /\ IndexOK /\ KeyboardMirrored /\ EditInv

LEMMA InitEditorInv == Init => EditorInv
BY DEF Init, EditorInv, TypeOK, IndexOK, KeyboardMirrored, EditInv, NoNewline, Blank,
       Typed, Bytes, Positions, Terminals, Places, Cleaning, NUL, NL

LEMMA StepEditorInv ==
  ASSUME TypeAhead = FALSE
  PROVE  EditorInv /\ [Next]_vars => EditorInv'
<1> SUFFICES ASSUME EditorInv, [Next]_vars
             PROVE  EditorInv'
  OBVIOUS
<1>1. TypeOK' /\ IndexOK' /\ KeyboardMirrored'
  BY StepTypeOK, StepMirrored DEF EditorInv
<1>2. CASE Key
  BY <1>1, <1>2, KeyEditInv DEF EditorInv
<1>3. CASE Read \/ Call
  BY <1>1, <1>3, ReadEditInv DEF EditorInv
<1>4. CASE UNCHANGED vars
  BY <1>1, <1>4 DEF EditorInv, EditInv, NoNewline, check_enter, vars, kbVars, termVars,
                    readVars
<1>5. QED
  BY <1>2, <1>3, <1>4 DEF Next

\* Every step keeps to LineEditor: it is a step of it or none.
LEMMA StepImplementsEditor ==
  ASSUME TypeAhead = FALSE
  PROVE  EditorInv /\ EditorInv' /\ [Next]_vars => [Editor!Next]_(Editor!vars)
<1> SUFFICES ASSUME EditorInv, EditorInv', [Next]_vars
             PROVE  Editor!Next \/ (Text' = Text /\ Got' = Got
                                      /\ UNCHANGED current_terminal_id)
  BY DEF Editor!vars, Text, Got
<1>1. CASE Key
  BY <1>1, KeyImplementsEditor DEF EditorInv
<1>2. CASE Read \/ Call
  BY <1>2, ReadImplementsEditor DEF EditorInv
<1>3. CASE UNCHANGED vars
  BY <1>3 DEF Text, Got, Copied, Line, Position, vars, kbVars, termVars, readVars
<1> QED
  BY <1>1, <1>2, <1>3 DEF Next

\* Line input and its editor start with empty lines.
LEMMA InitImplementsEditor == Init => Editor!Init
BY DEF Init, Editor!Init, Copied, Cleaning, Line, Position, Terminals

\* For users who wait for the prompt, every step of the keyboard's handler and
\* of terminal_read() is a step of LineEditor or none: a read gives the line the
\* user has typed and edited on the terminal shown, for lines of every length and
\* over any number of terminals and switches.
THEOREM LinesAreEdited ==
  ASSUME TypeAhead = FALSE
  PROVE  Spec => ImplementsLineEditor
BY InitImplementsEditor, StepImplementsEditor, InitEditorInv, StepEditorInv, PTL
   DEF Spec, ImplementsLineEditor, Editor!Spec

------------------------------------------------------------------------------
(* The keys of module Keyboard: no modifier sticks, for any keyboard and   *)
(* any scancode map, and what they type is edited.                         *)

\* No key's code is another's release.
LEMMA CodesDiffer ==
  ASSUME NEW key \in ShiftKeys \cup {LEFT_ALT_PRESSED, LEFT_CTRL_PRESSED}
  PROVE  /\ key \notin {Released(k) : k \in ShiftKeys}
         /\ key \notin {Released(k) : k \in {LEFT_ALT_PRESSED}}
         /\ key \notin {Released(k) : k \in {LEFT_CTRL_PRESSED}}
         /\ Released(key) \notin ShiftKeys
         /\ Released(key) # LEFT_ALT_PRESSED
         /\ Released(key) # LEFT_CTRL_PRESSED
         /\ Released(key) \in {Released(k) : k \in ShiftKeys} => key \in ShiftKeys
         /\ Released(key) = Released(LEFT_ALT_PRESSED) => key = LEFT_ALT_PRESSED
         /\ Released(key) = Released(LEFT_CTRL_PRESSED) => key = LEFT_CTRL_PRESSED
  BY DEF ShiftKeys, Released, LEFT_SHIFT_PRESSED, RIGHT_SHIFT_PRESSED,
         LEFT_ALT_PRESSED, LEFT_CTRL_PRESSED

\* The inductive invariant: only keys of this keyboard are down.
Held == held \subseteq Modifiers /\ ModifiersFollowKeys

\* A modifier's press, and each repeat of it, sets its own flag only.
LEMMA HoldKeeps ==
  ASSUME Held, NEW key \in Modifiers, Hold(key)
  PROVE  Held'
<1>1. key \in ShiftKeys \cup {LEFT_ALT_PRESSED, LEFT_CTRL_PRESSED}
  BY KeyboardAssumption
<1>2. held' = held \cup {key} /\ held' \subseteq Modifiers
  BY DEF Hold, Held
<1>3. /\ Shift_pressed' = (key \in ShiftKeys \/ Shift_pressed)
      /\ Alt_pressed' = (key \in {LEFT_ALT_PRESSED} \/ Alt_pressed)
      /\ Ctrl_pressed' = (key \in {LEFT_CTRL_PRESSED} \/ Ctrl_pressed)
  BY <1>1, CodesDiffer DEF Hold, ModifierKey, After
<1>4. Shift_pressed' => held' \cap ShiftKeys # {}
  BY <1>2, <1>3 DEF Held, ModifiersFollowKeys
<1>5. Alt_pressed' <=> LEFT_ALT_PRESSED \in held'
  BY <1>2, <1>3 DEF Held, ModifiersFollowKeys
<1>6. Ctrl_pressed' <=> LEFT_CTRL_PRESSED \in held'
  BY <1>2, <1>3 DEF Held, ModifiersFollowKeys
<1> QED
  BY <1>2, <1>4, <1>5, <1>6 DEF Held, ModifiersFollowKeys

\* Letting one shift key go clears the flag, whether or not the other is held.
LEMMA LetGoKeeps ==
  ASSUME Held, NEW key \in Modifiers, LetGo(key)
  PROVE  Held'
<1>1. key \in ShiftKeys \cup {LEFT_ALT_PRESSED, LEFT_CTRL_PRESSED}
  BY KeyboardAssumption
<1>2. held' = held \ {key} /\ held' \subseteq Modifiers
  BY DEF LetGo, Held
<1>3. /\ Shift_pressed' = (Shift_pressed /\ key \notin ShiftKeys)
      /\ Alt_pressed' = (Alt_pressed /\ key # LEFT_ALT_PRESSED)
      /\ Ctrl_pressed' = (Ctrl_pressed /\ key # LEFT_CTRL_PRESSED)
  BY <1>1, CodesDiffer DEF LetGo, ModifierKey, After
<1>4. Shift_pressed' => held' \cap ShiftKeys # {}
  BY <1>2, <1>3 DEF Held, ModifiersFollowKeys
<1>5. Alt_pressed' <=> LEFT_ALT_PRESSED \in held'
  BY <1>2, <1>3 DEF Held, ModifiersFollowKeys
<1>6. Ctrl_pressed' <=> LEFT_CTRL_PRESSED \in held'
  BY <1>2, <1>3 DEF Held, ModifiersFollowKeys
<1> QED
  BY <1>2, <1>4, <1>5, <1>6 DEF Held, ModifiersFollowKeys

\* Caps lock is neither a press nor a release of a modifier.
LEMMA CapsLockKeeps ==
  ASSUME Held, CapsLock
  PROVE  Held'
<1>1. /\ CAPSLOCK_PRESSED \notin ShiftKeys
      /\ CAPSLOCK_PRESSED \notin {LEFT_ALT_PRESSED}
      /\ CAPSLOCK_PRESSED \notin {LEFT_CTRL_PRESSED}
      /\ CAPSLOCK_PRESSED \notin {Released(k) : k \in ShiftKeys}
      /\ CAPSLOCK_PRESSED \notin {Released(k) : k \in {LEFT_ALT_PRESSED}}
      /\ CAPSLOCK_PRESSED \notin {Released(k) : k \in {LEFT_CTRL_PRESSED}}
  BY DEF ShiftKeys, Released, CAPSLOCK_PRESSED, LEFT_SHIFT_PRESSED,
         RIGHT_SHIFT_PRESSED, LEFT_ALT_PRESSED, LEFT_CTRL_PRESSED
<1>2. /\ Shift_pressed' = (FALSE \/ Shift_pressed)
      /\ Alt_pressed' = (FALSE \/ Alt_pressed)
      /\ Ctrl_pressed' = (FALSE \/ Ctrl_pressed)
      /\ held' = held
  BY <1>1 DEF CapsLock, ModifierKey, After
<1> QED
  BY <1>2 DEF Held, ModifiersFollowKeys

\* Whatever is struck, read or switched to, the flags stay.
LEMMA StrikeKeepsFlags ==
  ASSUME Strike \/ ((Read \/ Call) /\ UNCHANGED <<flags, held>>)
  PROVE  UNCHANGED <<Shift_pressed, Alt_pressed, Ctrl_pressed, held>>
  BY DEF Strike, CharacterKey, EditingKey, FunctionKey, flags

\* Every step keeps the flags in line with the keys.
LEMMA StepKeepsHeld == Held /\ [KeyboardNext]_keyboardVars => Held'
<1> SUFFICES ASSUME Held, [KeyboardNext]_keyboardVars PROVE Held'
  OBVIOUS
<1>1. CASE \E key \in Modifiers : Hold(key)
  BY <1>1, HoldKeeps
<1>2. CASE \E key \in Modifiers : LetGo(key)
  BY <1>2, LetGoKeeps
<1>3. CASE CapsLock
  BY <1>3, CapsLockKeeps
<1>4. CASE Strike \/ ((Read \/ Call) /\ UNCHANGED <<flags, held>>)
  BY <1>4, StrikeKeepsFlags DEF Held, ModifiersFollowKeys
<1>5. CASE UNCHANGED keyboardVars
  BY <1>5 DEF keyboardVars, flags, Held, ModifiersFollowKeys
<1> QED
  BY <1>1, <1>2, <1>3, <1>4, <1>5 DEF KeyboardNext

\* A modifier's flag is set only while one of its keys is down, and Alt's and
\* Control's always then (handle_special_key()), on every keyboard with some of
\* these keys, whatever the map and whatever is typed, switched and read.
THEOREM NoModifierSticks == KeyboardSpec => []ModifiersFollowKeys
<1>1. KeyboardInit => Held
  BY DEF KeyboardInit, Held, ModifiersFollowKeys
<1>2. Held => ModifiersFollowKeys
  BY DEF Held
<1> QED
  BY <1>1, <1>2, StepKeepsHeld, PTL DEF KeyboardSpec

\* The modifiers are on or off, and with them some column of the map is typed.
FlagsTyped == Shift_pressed \in BOOLEAN /\ Capslock_state \in BOOLEAN

LEMMA ColumnType == FlagsTyped => Column \in 1..4
BY DEF FlagsTyped, Column

LEMMA StepFlagsTyped == FlagsTyped /\ [KeyboardNext]_keyboardVars => FlagsTyped'
<1> SUFFICES ASSUME FlagsTyped, [KeyboardNext]_keyboardVars PROVE FlagsTyped'
  OBVIOUS
<1>1. ASSUME NEW s, ModifierKey(s) PROVE FlagsTyped'
  <2>1. /\ Shift_pressed' \in BOOLEAN
        /\ Capslock_state' \in BOOLEAN
    BY <1>1, Zenon DEF ModifierKey, After
  <2> QED
    BY <2>1 DEF FlagsTyped
<1>2. CASE Strike \/ ((Read \/ Call) /\ UNCHANGED <<flags, held>>) \/ UNCHANGED keyboardVars
  BY <1>2 DEF Strike, CharacterKey, EditingKey, FunctionKey, flags, FlagsTyped, keyboardVars
<1> QED
  BY <1>1, <1>2 DEF KeyboardNext, Hold, LetGo, CapsLock

\* A key that types, on any row of the map.
LEMMA CharacterKeyIsKey ==
  ASSUME FlagsTyped, NEW s \in DOMAIN scancode_map, CharacterKey(s)
  PROVE  Key \/ UNCHANGED vars
<1>1. scancode_map[s][Column] \in Typed \cup {NL}
  BY ColumnType, KeyboardAssumption
<1> QED
  BY <1>1 DEF CharacterKey, Dropped, Key

\* Every step of the user and of the program is one of line input, or none.
LEMMA KeyboardStep ==
  FlagsTyped /\ [KeyboardNext]_keyboardVars => [Next]_vars
<1> SUFFICES ASSUME FlagsTyped, [KeyboardNext]_keyboardVars PROVE [Next]_vars
  OBVIOUS
<1>1. CASE \E key \in Modifiers : Hold(key) \/ LetGo(key)
  BY <1>1 DEF Hold, LetGo, ModifierKey
<1>2. CASE CapsLock
  BY <1>2 DEF CapsLock, ModifierKey
<1>3. CASE \E s \in DOMAIN scancode_map : CharacterKey(s)
  BY <1>3, CharacterKeyIsKey DEF Next
<1>4. CASE \E s \in {BAKCSPACE, TAB} : EditingKey(s)
  BY <1>4 DEF EditingKey, Next, Key
<1>5. CASE \E t \in Terminals : FunctionKey(F1 + t)
  BY <1>5 DEF FunctionKey, Next, Key
<1>6. CASE Read \/ Call \/ UNCHANGED keyboardVars
  BY <1>6 DEF Next, keyboardVars
<1> QED
  BY <1>1, <1>2, <1>3, <1>4, <1>5, <1>6 DEF KeyboardNext, Strike

\* Whatever keys are struck and held, on any map, what the handler makes of them
\* are presses of LineInput (handle_keyboard_irq(), handle_special_key()): what
\* is proved of line input holds for the keyboard.
THEOREM KeyboardIsLineInput == KeyboardSpec => Init /\ [][Next]_vars
<1>1. KeyboardInit => Init /\ FlagsTyped
  BY DEF KeyboardInit, FlagsTyped
<1> QED
  BY <1>1, StepFlagsTyped, KeyboardStep, PTL DEF KeyboardSpec

\* For users who wait for the prompt, keys edit the line of the terminal shown
\* and a read gives the whole of it, with whatever modifiers are held over
\* switches of terminals (handle_keyboard_irq(), terminal_read()).
THEOREM KeysEditLines ==
  ASSUME TypeAhead = FALSE
  PROVE  KeyboardSpec => ImplementsLineEditor
BY KeyboardIsLineInput, InitImplementsEditor, StepImplementsEditor, InitEditorInv,
   StepEditorInv, PTL
   DEF ImplementsLineEditor, Editor!Spec
=============================================================================
